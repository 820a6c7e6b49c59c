--------------------------- MODULE PlannerProofs ---------------------------
(***************************************************************************)
(* The properties of module Planner, for every set of ids (infinite ones    *)
(* too: a fleet is finite), every set of revisions and every set of valid   *)
(* deployments.                                                             *)
(***************************************************************************)
EXTENDS Planner, RolloutProofs

\* The inductive invariant: a valid deployment, a finite fleet, one of its steps.
PlannerInv ==
  /\ Plannable(d, reps)
  /\ ValidStrategy(d)
  /\ step \in plan_step(d, reps)

\* Every call of plan_step has an input of the kind the lemmas are about.
LEMMA PlannerInvariance == Spec => []PlannerInv
<1>1. Init => PlannerInv
  <2>. SUFFICES ASSUME Init PROVE PlannerInv
    OBVIOUS
  <2>1. /\ d \in Deployment(Revision)
        /\ ValidStrategy(d)
    BY PlannerAssumption DEF Init
  <2>2. PICK S \in {T \in SUBSET Id : IsFiniteSet(T)} :
          reps \in [S -> [revision : Revision, phase : Phase]]
    BY DEF Init, Fleets
  <2>3. IsFiniteSet(DOMAIN reps) /\ \A j \in DOMAIN reps : reps[j].phase \in Phase
    BY <2>2
  <2>4. Plannable(d, reps)
    BY <2>1, <2>3 DEF Plannable, Deployment
  <2>. QED
    BY <2>1, <2>4 DEF PlannerInv, Init
<1>2. PlannerInv /\ [Next]_vars => PlannerInv'
  BY DEF PlannerInv, Next, vars
<1>. QED
  BY <1>1, <1>2, PTL DEF Spec

\* A rolling step keeps the availability floor (rollout.rs, "Retire").
THEOREM FloorTheorem == Spec => []PlanKeepsFloor
<1>1. PlannerInv => PlanKeepsFloor
  <2>. SUFFICES ASSUME PlannerInv, Rolling
                PROVE  Cardinality(Ready(reps) \ step.to_kill)
                         >= MinOf(Cardinality(Ready(reps)), AvailabilityFloor(d))
    BY DEF PlanKeepsFloor
  <2>1. step \in plan_rolling(d, reps) /\ Plannable(d, reps)
    BY DEF PlannerInv, Rolling, plan_step
  <2>. QED
    BY <2>1, RollingFloor
<1>. QED
  BY <1>1, PlannerInvariance, PTL

\* A step places below the surge ceiling and no more than is missing
\* (rollout.rs, "Surge"; plan_recreate).
THEOREM CeilingTheorem == Spec => []PlanKeepsCeiling
<1>1. PlannerInv => PlanKeepsCeiling
  <2>. SUFFICES ASSUME PlannerInv, step.to_place > 0
                PROVE  /\ Rolling => Cardinality(Live(reps)) + step.to_place
                                       <= SurgeCeiling(d)
                       /\ Cardinality(NewLive(reps, d.revision)) + step.to_place
                            <= d.replicas
    BY DEF PlanKeepsCeiling
  <2>1. Plannable(d, reps) /\ step \in plan_step(d, reps)
    BY DEF PlannerInv
  <2>2. CASE d.strategy = "Recreate"
    <3>1. step.to_place = SatSub(d.replicas,
                                 Cardinality(NewLive(reps, d.revision)))
      BY <2>1, <2>2 DEF plan_step, plan_recreate
    <3>2. Cardinality(NewLive(reps, d.revision)) \in Nat
      BY <2>1, CensusLemma DEF Plannable
    <3>. QED
      BY <2>1, <2>2, <3>1, <3>2 DEF SatSub, Plannable, Rolling
  <2>3. CASE d.strategy # "Recreate"
    <3>1. step \in plan_rolling(d, reps)
      BY <2>1, <2>3 DEF plan_step
    <3>. QED
      BY <2>1, <3>1, RollingCeiling
  <2>. QED
    BY <2>2, <2>3
<1>. QED
  BY <1>1, PlannerInvariance, PTL

\* The budgets never block each other (spec.rs refuses a rolling update that has
\* neither; with one of them a step always finds something to do).
THEOREM NeverStuckTheorem == Spec => []PlanNeverStuck
<1>1. PlannerInv => PlanNeverStuck
  <2>. SUFFICES ASSUME PlannerInv, Live(reps) = Ready(reps), ~step.done,
                       step.to_kill = {}
                PROVE  step.to_place > 0
    BY DEF PlanNeverStuck
  <2>. DEFINE t == d.revision
              live == Cardinality(Live(reps))
              new == Cardinality(NewLive(reps, t))
              nready == Cardinality(NewReady(reps, t))
              old == Cardinality(OldLive(reps, t))
              oready == Cardinality(OldReady(reps, t))
  <2>1. Plannable(d, reps) /\ ValidStrategy(d) /\ step \in plan_step(d, reps)
    BY DEF PlannerInv
  <2>2. /\ live \in Nat /\ new \in Nat /\ old \in Nat /\ live = new + old
        /\ NewReady(reps, t) = NewLive(reps, t) \cap Ready(reps)
        /\ OldReady(reps, t) = OldLive(reps, t) \cap Ready(reps)
        /\ Live(reps) = NewLive(reps, t) \cup OldLive(reps, t)
        /\ IsFiniteSet(NewLive(reps, t)) /\ IsFiniteSet(OldLive(reps, t))
    BY <2>1, CensusLemma DEF Plannable
  <2>3. /\ NewReady(reps, t) = NewLive(reps, t)
        /\ OldReady(reps, t) = OldLive(reps, t)
    BY <2>2
  <2>4. old = 0 <=> OldLive(reps, t) = {}
    BY <2>2, FS_EmptySet
  <2>5. \A V \in Excess(reps, NewLive(reps, t), d.replicas) :
          V = {} => new <= d.replicas
    BY <2>1, <2>2, FS_EmptySet DEF Excess, SatSub, Plannable
  <2>6. CASE d.strategy = "Recreate"
    <3>1. OldLive(reps, t) = {}
      BY <2>1, <2>6 DEF plan_step, plan_recreate
    <3>2. PICK V \in Excess(reps, NewLive(reps, t), d.replicas) :
            /\ step.to_place = SatSub(d.replicas, new)
            /\ step.to_kill = TerminalJobs(reps) \cup V
            /\ ~RolledOut(d, reps)
      BY <2>1, <2>6, <3>1 DEF plan_step, plan_recreate
    <3>3. V = {} /\ new # d.replicas
      BY <3>1, <3>2, <2>3 DEF RolledOut
    <3>. QED
      BY <2>1, <2>2, <2>5, <3>2, <3>3 DEF SatSub, Plannable
  <2>7. CASE d.strategy # "Recreate"
    <3>1. step \in plan_rolling(d, reps) /\ ~RolledOut(d, reps)
      BY <2>1, <2>7 DEF plan_step, plan_rolling
    <3>2. PICK V \in Excess(reps, NewLive(reps, t), d.replicas),
               R \in Retirements(d, reps) :
            /\ step.to_place = SurgePlacements(d, reps)
            /\ step.to_kill = TerminalJobs(reps) \cup V \cup R
                                \cup (OldLive(reps, t) \ Ready(reps))
      BY <3>1 DEF plan_rolling
    <3>3. V = {} /\ R = {}
      BY <3>2
    <3>4. new <= d.replicas
      BY <2>5, <3>3
    <3>5. Cardinality(R) = 0
      BY <3>3, FS_EmptySet
    <3>6. MinOf(old, SatSub(live, AvailabilityFloor(d))) = 0
      BY <2>1, <2>3, <3>5, RetirementsLemma
    <3>7. ~(old = 0 /\ new = d.replicas)
      BY <2>3, <2>4, <3>1 DEF RolledOut
    <3>8. d.max_unavailable > 0 \/ d.max_surge > 0
      BY <2>1, <2>7 DEF ValidStrategy, Plannable, Strategy
    <3>9. step.to_place = MinOf(SatSub(d.replicas, new), SatSub(SurgeCeiling(d), live))
      BY <3>2 DEF SurgePlacements
    <3>. QED
      BY <2>1, <2>2, <3>4, <3>6, <3>7, <3>8, <3>9
         DEF MinOf, SatSub, SurgeCeiling, AvailabilityFloor, Plannable
  <2>. QED
    BY <2>6, <2>7
<1>. QED
  BY <1>1, PlannerInvariance, PTL

\* For a fleet on the target revision plan_step reduces to plain reconcile
\* (README.md, "How a reconcile tick works").
THEOREM ReconcileTheorem == Spec => []PlanIsReconcile
<1>1. PlannerInv => PlanIsReconcile
  <2>. SUFFICES ASSUME PlannerInv, OldLive(reps, d.revision) = {}
                PROVE  [to_place |-> step.to_place, to_kill |-> step.to_kill]
                         \in reconcile(d, reps)
    BY DEF PlanIsReconcile
  <2>. DEFINE t == d.revision
              live == Cardinality(Live(reps))
  <2>1. Plannable(d, reps) /\ step \in plan_step(d, reps)
    BY DEF PlannerInv
  <2>2. /\ NewLive(reps, t) = Live(reps)
        /\ live \in Nat
        /\ OldReady(reps, t) = {}
    <3>1. NewLive(reps, t) = Live(reps) /\ OldReady(reps, t) = {}
      BY DEF NewLive, OldLive, OldReady, Ready, Live, Alive
    <3>2. IsFiniteSet(DOMAIN reps) /\ Live(reps) \subseteq DOMAIN reps
      BY <2>1 DEF Plannable, Live
    <3>3. live \in Nat
      BY <3>2, FS_Subset, FS_CardinalityType
    <3>. QED
      BY <3>1, <3>3
  <2>. SUFFICES \E V \in Excess(reps, Live(reps), d.replicas) :
                  /\ step.to_place = SatSub(d.replicas, live)
                  /\ step.to_kill = TerminalJobs(reps) \cup V
    BY DEF reconcile
  <2>3. CASE d.strategy = "Recreate"
    BY <2>1, <2>2, <2>3 DEF plan_step, plan_recreate
  <2>4. CASE d.strategy # "Recreate" /\ RolledOut(d, reps)
    <3>1. step.to_place = 0 /\ step.to_kill = TerminalJobs(reps)
      BY <2>1, <2>4 DEF plan_step, plan_rolling
    <3>2. live = d.replicas
      BY <2>2, <2>4 DEF RolledOut
    <3>3. {} \in Excess(reps, Live(reps), d.replicas)
      BY <2>2, <3>2, FS_EmptySet DEF Excess, SatSub, PendingFirst
    <3>. QED
      BY <2>2, <3>1, <3>2, <3>3 DEF SatSub
  <2>5. CASE d.strategy # "Recreate" /\ ~RolledOut(d, reps)
    <3>1. PICK V \in Excess(reps, NewLive(reps, t), d.replicas),
               R \in Retirements(d, reps) :
            /\ step.to_place = SurgePlacements(d, reps)
            /\ step.to_kill = TerminalJobs(reps) \cup V \cup R
                                \cup (OldLive(reps, t) \ Ready(reps))
      BY <2>1, <2>5 DEF plan_step, plan_rolling
    <3>2. R = {}
      BY <2>2 DEF Retirements
    <3>3. SurgePlacements(d, reps) = SatSub(d.replicas, live)
      BY <2>1, <2>2 DEF SurgePlacements, SurgeCeiling, SatSub, MinOf, Plannable
    <3>. QED
      BY <2>2, <3>1, <3>2, <3>3
  <2>. QED
    BY <2>3, <2>4, <2>5
<1>. QED
  BY <1>1, PlannerInvariance, PTL

=============================================================================
