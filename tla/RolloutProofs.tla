--------------------------- MODULE RolloutProofs ---------------------------
(***************************************************************************)
(* Lemmas on the planners of module Rollout, for every finite fleet and     *)
(* every deployment.                                                        *)
(***************************************************************************)
EXTENDS Rollout, FiniteSetTheorems, TLAPS

\* What a planner may rely on: counters are natural numbers, the fleet is finite
\* and its replicas are in one of the four phases.
Plannable(d, reps) ==
  /\ d.replicas \in Nat
  /\ d.max_unavailable \in Nat
  /\ d.max_surge \in Nat
  /\ d.strategy \in Strategy
  /\ IsFiniteSet(DOMAIN reps)
  /\ \A j \in DOMAIN reps : reps[j].phase \in Phase

----------------------------------------------------------------------------
(* Cardinalities *)

\* The size of a disjoint union.
LEMMA DisjointUnion ==
  ASSUME NEW S, NEW T, IsFiniteSet(S), IsFiniteSet(T), S \cap T = {}
  PROVE  /\ IsFiniteSet(S \cup T)
         /\ Cardinality(S \cup T) = Cardinality(S) + Cardinality(T)
<1>1. Cardinality({}) = 0
  BY FS_EmptySet
<1>2. Cardinality(S) \in Nat /\ Cardinality(T) \in Nat
  BY FS_CardinalityType
<1>3. /\ IsFiniteSet(S \cup T)
      /\ Cardinality(S \cup T)
           = Cardinality(S) + Cardinality(T) - Cardinality(S \cap T)
  BY FS_Union
<1>4. Cardinality(S \cap T) = 0
  BY <1>1
<1>. QED
  BY <1>2, <1>3, <1>4

\* The size of what a part leaves over.
LEMMA Remainder ==
  ASSUME NEW S, NEW T, IsFiniteSet(S), T \subseteq S
  PROVE  /\ IsFiniteSet(S \ T)
         /\ IsFiniteSet(T)
         /\ Cardinality(S \ T) = Cardinality(S) - Cardinality(T)
         /\ Cardinality(T) \in Nat
         /\ Cardinality(S) \in Nat
         /\ Cardinality(S \ T) \in Nat
         /\ Cardinality(T) <= Cardinality(S)
<1>1. S \cap T = T
  OBVIOUS
<1>2. IsFiniteSet(T) /\ Cardinality(T) <= Cardinality(S)
  BY FS_Subset
<1>3. IsFiniteSet(S \ T) /\ Cardinality(S \ T) = Cardinality(S) - Cardinality(T)
  BY <1>1, FS_Difference
<1>. QED
  BY <1>2, <1>3, FS_CardinalityType

\* The four counters of the census and how they add up.
LEMMA CensusLemma ==
  ASSUME NEW reps, NEW t, IsFiniteSet(DOMAIN reps),
         \A j \in DOMAIN reps : reps[j].phase \in Phase
  PROVE  /\ IsFiniteSet(Live(reps)) /\ Cardinality(Live(reps)) \in Nat
         /\ IsFiniteSet(Ready(reps)) /\ Cardinality(Ready(reps)) \in Nat
         /\ IsFiniteSet(NewLive(reps, t)) /\ Cardinality(NewLive(reps, t)) \in Nat
         /\ IsFiniteSet(OldLive(reps, t)) /\ Cardinality(OldLive(reps, t)) \in Nat
         /\ IsFiniteSet(NewReady(reps, t)) /\ Cardinality(NewReady(reps, t)) \in Nat
         /\ IsFiniteSet(OldReady(reps, t)) /\ Cardinality(OldReady(reps, t)) \in Nat
         /\ Cardinality(Live(reps))
              = Cardinality(NewLive(reps, t)) + Cardinality(OldLive(reps, t))
         /\ Cardinality(Ready(reps))
              = Cardinality(NewReady(reps, t)) + Cardinality(OldReady(reps, t))
         /\ Ready(reps) \subseteq Live(reps)
         /\ NewReady(reps, t) = NewLive(reps, t) \cap Ready(reps)
         /\ OldReady(reps, t) = OldLive(reps, t) \cap Ready(reps)
         /\ Live(reps) = NewLive(reps, t) \cup OldLive(reps, t)
         /\ Ready(reps) = NewReady(reps, t) \cup OldReady(reps, t)
         /\ NewLive(reps, t) \cap OldLive(reps, t) = {}
         /\ TerminalJobs(reps) \cap Live(reps) = {}
         /\ DOMAIN reps = Live(reps) \cup TerminalJobs(reps)
<1>. USE DEF Live, Ready, NewLive, OldLive, NewReady, OldReady, TerminalJobs,
             Alive, Terminal, Phase
<1>1. /\ Live(reps) = NewLive(reps, t) \cup OldLive(reps, t)
      /\ NewLive(reps, t) \cap OldLive(reps, t) = {}
      /\ Ready(reps) = NewReady(reps, t) \cup OldReady(reps, t)
      /\ NewReady(reps, t) \cap OldReady(reps, t) = {}
      /\ Ready(reps) \subseteq Live(reps)
      /\ NewReady(reps, t) = NewLive(reps, t) \cap Ready(reps)
      /\ OldReady(reps, t) = OldLive(reps, t) \cap Ready(reps)
      /\ TerminalJobs(reps) \cap Live(reps) = {}
      /\ DOMAIN reps = Live(reps) \cup TerminalJobs(reps)
  OBVIOUS
<1>2. /\ Live(reps) \subseteq DOMAIN reps /\ Ready(reps) \subseteq DOMAIN reps
      /\ NewLive(reps, t) \subseteq DOMAIN reps
      /\ OldLive(reps, t) \subseteq DOMAIN reps
      /\ NewReady(reps, t) \subseteq DOMAIN reps
      /\ OldReady(reps, t) \subseteq DOMAIN reps
  OBVIOUS
<1>. HIDE DEF Live, Ready, NewLive, OldLive, NewReady, OldReady, TerminalJobs
<1>3. \A S : S \subseteq DOMAIN reps => IsFiniteSet(S) /\ Cardinality(S) \in Nat
  BY Remainder
<1>4. /\ IsFiniteSet(Live(reps)) /\ IsFiniteSet(Ready(reps))
      /\ IsFiniteSet(NewLive(reps, t)) /\ IsFiniteSet(OldLive(reps, t))
      /\ IsFiniteSet(NewReady(reps, t)) /\ IsFiniteSet(OldReady(reps, t))
      /\ Cardinality(Live(reps)) \in Nat /\ Cardinality(Ready(reps)) \in Nat
      /\ Cardinality(NewLive(reps, t)) \in Nat
      /\ Cardinality(OldLive(reps, t)) \in Nat
      /\ Cardinality(NewReady(reps, t)) \in Nat
      /\ Cardinality(OldReady(reps, t)) \in Nat
  BY <1>2, <1>3
<1>5. Cardinality(Live(reps))
        = Cardinality(NewLive(reps, t)) + Cardinality(OldLive(reps, t))
  BY <1>1, <1>4, DisjointUnion
<1>6. Cardinality(Ready(reps))
        = Cardinality(NewReady(reps, t)) + Cardinality(OldReady(reps, t))
  BY <1>1, <1>4, DisjointUnion
<1>. QED
  BY <1>1, <1>4, <1>5, <1>6

----------------------------------------------------------------------------
(* Scale-down *)

\* The victims of a scale-down leave as many as desired, or are none; and if one
\* of them runs, all that are left run.
LEMMA ExcessLemma ==
  ASSUME NEW reps, NEW S, IsFiniteSet(S), NEW desired \in Nat,
         NEW V \in Excess(reps, S, desired),
         \A j \in S : reps[j].phase \in Alive
  PROVE  /\ V \subseteq S
         /\ V # {} => Cardinality(S \ V) = desired
         /\ V = {} => Cardinality(S) <= desired
         /\ (\E v \in V : reps[v].phase = "Running")
              => \A k \in S \ V : reps[k].phase = "Running"
<1>1. /\ V \subseteq S
      /\ Cardinality(V) = SatSub(Cardinality(S), desired)
      /\ PendingFirst(reps, S, V)
  BY DEF Excess
<1>2. /\ Cardinality(S \ V) = Cardinality(S) - Cardinality(V)
      /\ Cardinality(S) \in Nat /\ Cardinality(V) \in Nat /\ IsFiniteSet(V)
  BY <1>1, Remainder
<1>3. Cardinality(V) = 0 <=> V = {}
  BY <1>2, FS_EmptySet
<1>4. V # {} => Cardinality(S \ V) = desired
  BY <1>1, <1>2, <1>3 DEF SatSub
<1>5. V = {} => Cardinality(S) <= desired
  BY <1>1, <1>2, <1>3 DEF SatSub
<1>. QED
  BY <1>1, <1>4, <1>5 DEF PendingFirst

----------------------------------------------------------------------------
(* The recreate *)

\* A step of a recreate whose drain is over: its parts.
LEMMA RecreateParts ==
  ASSUME NEW d, NEW reps, NEW step \in plan_recreate(d, reps),
         OldLive(reps, d.revision) = {}
  PROVE  \E V \in Excess(reps, NewLive(reps, d.revision), d.replicas) :
           /\ step.to_place = SatSub(d.replicas,
                                     Cardinality(NewLive(reps, d.revision)))
           /\ step.to_kill = TerminalJobs(reps) \cup V
           /\ step.done = RolledOut(d, reps)
BY DEF plan_recreate

----------------------------------------------------------------------------
(* The rolling update *)

\* A step of a rolling update that is not over: its parts.
LEMMA RollingParts ==
  ASSUME NEW d, NEW reps, NEW step \in plan_rolling(d, reps), ~RolledOut(d, reps)
  PROVE  \E V \in Excess(reps, NewLive(reps, d.revision), d.replicas),
            R \in Retirements(d, reps) :
           /\ step.to_place = SurgePlacements(d, reps)
           /\ step.to_kill = TerminalJobs(reps) \cup V \cup R
                               \cup (OldLive(reps, d.revision) \ Ready(reps))
           /\ step.done = FALSE
BY DEF plan_rolling

\* What is retired is bounded by the ready replicas above the floor.
LEMMA RetirementsLemma ==
  ASSUME NEW d, NEW reps, Plannable(d, reps), NEW R \in Retirements(d, reps)
  PROVE  LET old == OldReady(reps, d.revision)
         IN /\ R \subseteq old
            /\ Cardinality(old \ R) = Cardinality(old) - Cardinality(R)
            /\ Cardinality(R) = MinOf(Cardinality(old),
                  SatSub(Cardinality(Ready(reps)), AvailabilityFloor(d)))
            /\ Cardinality(R) \in Nat
<1>. DEFINE old == OldReady(reps, d.revision)
<1>1. /\ R \subseteq old
      /\ Cardinality(R) = MinOf(Cardinality(old),
           SatSub(Cardinality(NewReady(reps, d.revision)) + Cardinality(old),
                  AvailabilityFloor(d)))
  BY DEF Retirements
<1>2. IsFiniteSet(old) /\ Cardinality(Ready(reps))
        = Cardinality(NewReady(reps, d.revision)) + Cardinality(old)
  BY CensusLemma DEF Plannable
<1>3. /\ Cardinality(old \ R) = Cardinality(old) - Cardinality(R)
      /\ Cardinality(R) \in Nat
  BY <1>1, <1>2, Remainder
<1>. QED
  BY <1>1, <1>2, <1>3

\* A rolling step keeps the availability floor if all its kills succeed; a kill
\* that fails can only leave more.
LEMMA RollingFloor ==
  ASSUME NEW d, NEW reps, Plannable(d, reps), NEW step \in plan_rolling(d, reps)
  PROVE  Cardinality(Ready(reps) \ step.to_kill)
           >= MinOf(Cardinality(Ready(reps)), AvailabilityFloor(d))
<1>. DEFINE t == d.revision
            ready == Ready(reps)
            new == NewLive(reps, t)
            nready == NewReady(reps, t)
            oready == OldReady(reps, t)
            floor == AvailabilityFloor(d)
<1>1. /\ IsFiniteSet(ready) /\ IsFiniteSet(new)
      /\ IsFiniteSet(nready) /\ IsFiniteSet(oready)
      /\ Cardinality(ready) \in Nat /\ Cardinality(new) \in Nat
      /\ Cardinality(nready) \in Nat /\ Cardinality(oready) \in Nat
      /\ Cardinality(ready) = Cardinality(nready) + Cardinality(oready)
      /\ ready \subseteq Live(reps)
      /\ nready = new \cap ready
      /\ oready = OldLive(reps, t) \cap ready
      /\ ready = nready \cup oready
      /\ new \cap OldLive(reps, t) = {}
      /\ TerminalJobs(reps) \cap Live(reps) = {}
  BY CensusLemma DEF Plannable
<1>2. floor \in Nat /\ floor <= d.replicas /\ d.replicas \in Nat
  BY DEF AvailabilityFloor, SatSub, Plannable
<1>3. CASE RolledOut(d, reps)
  <2>1. step.to_kill = TerminalJobs(reps)
    BY <1>3 DEF plan_rolling
  <2>2. ready \ step.to_kill = ready
    BY <2>1, <1>1
  <2>. QED
    BY <2>2, <1>1, <1>2 DEF MinOf
<1>4. CASE ~RolledOut(d, reps)
  <2>1. PICK V \in Excess(reps, new, d.replicas), R \in Retirements(d, reps) :
          step.to_kill = TerminalJobs(reps) \cup V \cup R
                           \cup (OldLive(reps, t) \ ready)
    BY <1>4 DEF plan_rolling
  <2>2. /\ R \subseteq oready
        /\ Cardinality(oready \ R) = Cardinality(oready) - Cardinality(R)
        /\ Cardinality(R) = MinOf(Cardinality(oready),
                                  SatSub(Cardinality(ready), floor))
        /\ Cardinality(R) \in Nat
    BY RetirementsLemma
  <2>3. /\ V \subseteq new
        /\ V # {} => Cardinality(new \ V) = d.replicas
        /\ (\E v \in V : reps[v].phase = "Running")
             => \A k \in new \ V : reps[k].phase = "Running"
    <3>1. \A j \in new : reps[j].phase \in Alive
      BY DEF NewLive, Live
    <3>2. IsFiniteSet(new) /\ d.replicas \in Nat
      BY <1>1, <1>2
    <3>3. V # {} => Cardinality(new \ V) = d.replicas
      BY <3>1, <3>2, ExcessLemma
    <3>4. V \subseteq new /\ PendingFirst(reps, new, V)
      BY DEF Excess
    <3>. QED
      BY <3>3, <3>4 DEF PendingFirst
  <2>4. ready \ step.to_kill = (nready \ V) \cup (oready \ R)
    BY <2>1, <2>2, <2>3, <1>1
  <2>5. Cardinality(ready \ step.to_kill)
          = Cardinality(nready \ V) + Cardinality(oready \ R)
    <3>1. IsFiniteSet(nready \ V) /\ IsFiniteSet(oready \ R)
      BY <1>1, FS_Difference
    <3>2. (nready \ V) \cap (oready \ R) = {}
      BY <1>1
    <3>. QED
      BY <2>4, <3>1, <3>2, DisjointUnion
  <2>6. \/ Cardinality(nready \ V) = Cardinality(nready)
        \/ Cardinality(nready \ V) = d.replicas
    <3>1. CASE V \cap nready = {}
      <4>1. nready \ V = nready
        BY <3>1
      <4>. QED
        BY <4>1
    <3>2. CASE V \cap nready # {}
      <4>1. \E v \in V : reps[v].phase = "Running"
        BY <3>2 DEF NewReady, Ready
      <4>2. \A k \in new \ V : k \in ready
        BY <2>3, <4>1 DEF NewLive, Live, Ready
      <4>3. nready \ V = new \ V
        BY <4>2, <1>1
      <4>. QED
        BY <2>3, <3>2, <4>3
    <3>. QED
      BY <3>1, <3>2
  <2>. QED
    BY <2>2, <2>5, <2>6, <1>1, <1>2 DEF MinOf, SatSub
<1>. QED
  BY <1>3, <1>4

\* A rolling step places below the surge ceiling, whatever becomes of its kills.
LEMMA RollingCeiling ==
  ASSUME NEW d, NEW reps, Plannable(d, reps), NEW step \in plan_rolling(d, reps),
         step.to_place > 0
  PROVE  /\ Cardinality(Live(reps)) + step.to_place <= SurgeCeiling(d)
         /\ Cardinality(NewLive(reps, d.revision)) + step.to_place <= d.replicas
<1>1. ~RolledOut(d, reps)
  BY DEF plan_rolling
<1>2. step.to_place = SurgePlacements(d, reps)
  BY <1>1, RollingParts
<1>3. /\ Cardinality(Live(reps)) \in Nat
      /\ Cardinality(NewLive(reps, d.revision)) \in Nat
  BY CensusLemma DEF Plannable
<1>. QED
  BY <1>2, <1>3 DEF SurgePlacements, SurgeCeiling, MinOf, SatSub, Plannable

\* The kills of a step among the live replicas of the target revision are a
\* scale-down to desired.
LEMMA StepExcess ==
  ASSUME NEW d, NEW reps, Plannable(d, reps), NEW step \in plan_step(d, reps),
         step.to_kill \cap NewLive(reps, d.revision) # {}
  PROVE  Cardinality(NewLive(reps, d.revision) \ step.to_kill) = d.replicas
<1>. DEFINE new == NewLive(reps, d.revision)
<1>1. /\ new \cap TerminalJobs(reps) = {}
      /\ new \cap OldLive(reps, d.revision) = {}
      /\ OldReady(reps, d.revision) \subseteq OldLive(reps, d.revision)
      /\ IsFiniteSet(new)
  <2>1. IsFiniteSet(DOMAIN reps) /\ new \subseteq DOMAIN reps
    BY DEF Plannable, NewLive, Live
  <2>2. IsFiniteSet(new)
    BY <2>1, FS_Subset
  <2>. QED
    BY <2>2 DEF NewLive, OldLive, OldReady, Ready, Live, TerminalJobs, Alive, Terminal
<1>2. PICK V \in Excess(reps, new, d.replicas) : step.to_kill \cap new = V
  <2>1. CASE d.strategy = "Recreate"
    <3>1. OldLive(reps, d.revision) = {}
      BY <2>1, <1>1 DEF plan_step, plan_recreate
    <3>2. PICK V \in Excess(reps, new, d.replicas) :
            step.to_kill = TerminalJobs(reps) \cup V
      BY <2>1, <3>1 DEF plan_step, plan_recreate
    <3>. QED
      BY <3>2, <1>1 DEF Excess
  <2>2. CASE d.strategy # "Recreate"
    <3>1. step \in plan_rolling(d, reps)
      BY <2>2 DEF plan_step
    <3>2. ~RolledOut(d, reps)
      BY <3>1, <1>1 DEF plan_rolling
    <3>3. PICK V \in Excess(reps, new, d.replicas), R \in Retirements(d, reps) :
            step.to_kill = TerminalJobs(reps) \cup V \cup R
                             \cup (OldLive(reps, d.revision) \ Ready(reps))
      BY <3>1, <3>2 DEF plan_rolling
    <3>4. R \subseteq OldReady(reps, d.revision)
      BY DEF Retirements
    <3>. QED
      BY <3>3, <3>4, <1>1 DEF Excess
  <2>. QED
    BY <2>1, <2>2
<1>3. \A j \in new : reps[j].phase \in Alive
  BY DEF NewLive, Live
<1>4. d.replicas \in Nat
  BY DEF Plannable
<1>5. V # {} => Cardinality(new \ V) = d.replicas
  BY <1>1, <1>2, <1>3, <1>4, ExcessLemma
<1>6. new \ step.to_kill = new \ V
  BY <1>2
<1>. QED
  BY <1>2, <1>5, <1>6

=============================================================================
