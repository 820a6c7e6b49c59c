------------------------------ MODULE Rollout ------------------------------
(***************************************************************************)
(* The pure planners of ce-gke: src/src/rollout.rs (plan_step and its two   *)
(* strategies) and src/src/reconcile.rs (the steady-state plan).            *)
(*                                                                          *)
(* A fleet of replicas is a function from job ids to records with at least  *)
(* the fields "revision" and "phase": the Vec<ReplicaState> of the code     *)
(* without its order. A planner is an operator that returns the SET of the  *)
(* steps the code may take. The code takes one of them: it breaks ties by   *)
(* job id (a hash the host draws) or by position in the Vec, and no         *)
(* property depends on which of two replicas of the same kind is retired.   *)
(*                                                                          *)
(* Counters are u32 in the code. replicas is at most 4096 (spec.rs), so     *)
(* the saturating desired + max_surge differs from the sum below only when  *)
(* there is more room than could be used.                                   *)
(***************************************************************************)
EXTENDS Naturals, FiniteSets

\* Phase::is_alive, Phase::is_terminal.
Alive == {"Pending", "Running"}
Terminal == {"Failed", "Succeeded"}
Phase == Alive \cup Terminal

\* The two members of enum Strategy; the budgets are fields of the deployment.
Strategy == {"RollingUpdate", "Recreate"}

\* What the planners read of a Deployment. target_rev is d.revision().
Deployment(Revision) ==
  [replicas : Nat, revision : Revision, strategy : Strategy,
   max_unavailable : Nat, max_surge : Nat]

\* Deployment::validate: a rolling update with neither budget is refused.
ValidStrategy(d) ==
  d.strategy = "RollingUpdate" => d.max_unavailable > 0 \/ d.max_surge > 0

\* u32::saturating_sub, and u32::min.
SatSub(a, b) == IF a > b THEN a - b ELSE 0
MinOf(a, b) == IF a < b THEN a ELSE b

----------------------------------------------------------------------------
(* The census: one set for each counter of RolloutCensus. *)

Live(reps) == {j \in DOMAIN reps : reps[j].phase \in Alive}
Ready(reps) == {j \in DOMAIN reps : reps[j].phase = "Running"}
TerminalJobs(reps) == {j \in DOMAIN reps : reps[j].phase \in Terminal}
NewLive(reps, target) == {j \in Live(reps) : reps[j].revision = target}
NewReady(reps, target) == {j \in Ready(reps) : reps[j].revision = target}
OldLive(reps, target) == {j \in Live(reps) : reps[j].revision # target}
OldReady(reps, target) == {j \in Ready(reps) : reps[j].revision # target}

SurgeCeiling(d) == d.replicas + d.max_surge
AvailabilityFloor(d) == SatSub(d.replicas, d.max_unavailable)

----------------------------------------------------------------------------
(* kill_excess_new and the tail of reconcile: the victims of a scale-down to *)
(* desired among the live replicas in S, pending before running.             *)

PendingFirst(reps, S, V) ==
  \A v \in V, kept \in S \ V :
     reps[v].phase = "Running" => reps[kept].phase = "Running"

Excess(reps, S, desired) ==
  {V \in SUBSET S : /\ Cardinality(V) = SatSub(Cardinality(S), desired)
                    /\ PendingFirst(reps, S, V)}

\* A slip: more replicas than desired are as good as desired.
RolledOutOrMore(d, reps) ==
  /\ OldLive(reps, d.revision) = {}
  /\ Cardinality(NewReady(reps, d.revision)) >= d.replicas

\* Nothing old is left, and the target revision is complete and ready.
RolledOut(d, reps) ==
  /\ OldLive(reps, d.revision) = {}
  /\ Cardinality(NewLive(reps, d.revision)) = d.replicas
  /\ Cardinality(NewReady(reps, d.revision)) = d.replicas

----------------------------------------------------------------------------
(* plan_recreate: drain every live replica of another revision; only when   *)
(* none is left fill up, or trim, the target revision.                      *)

\* A slip: the drain does not return, and the target revision is filled at once.
FillWhileDraining(d, reps) ==
  {[to_place |-> SatSub(d.replicas, Cardinality(NewLive(reps, d.revision))),
    to_kill |-> TerminalJobs(reps) \cup OldLive(reps, d.revision) \cup V,
    done |-> FALSE] :
   V \in Excess(reps, NewLive(reps, d.revision), d.replicas)}

plan_recreate(d, reps) ==
  LET old == OldLive(reps, d.revision)
      new == NewLive(reps, d.revision)
  IN IF old # {}
     THEN {[to_place |-> 0, to_kill |-> TerminalJobs(reps) \cup old,
            done |-> FALSE]}
     ELSE {[to_place |-> SatSub(d.replicas, Cardinality(new)),
            to_kill |-> TerminalJobs(reps) \cup V,
            done |-> RolledOut(d, reps)] :
           V \in Excess(reps, new, d.replicas)}

----------------------------------------------------------------------------
(* plan_rolling: surge new replicas ahead, retire old ones behind.          *)

\* A slip: the ceiling compared with the target revision instead of all.
SurgeIgnoringOld(d, reps) ==
  LET new == Cardinality(NewLive(reps, d.revision))
  IN MinOf(SatSub(d.replicas, new), SatSub(SurgeCeiling(d), new))

\* Surge (rollout.rs "Surge"): as many as are missing, below the ceiling.
SurgePlacements(d, reps) ==
  LET new == NewLive(reps, d.revision)
  IN MinOf(SatSub(d.replicas, Cardinality(new)),
           SatSub(SurgeCeiling(d), Cardinality(Live(reps))))

\* A slip: replicas that only started to start count as available.
RetireCountingPending(d, reps) ==
  LET old == OldReady(reps, d.revision)
      droppable == SatSub(Cardinality(Live(reps)), AvailabilityFloor(d))
  IN {R \in SUBSET old : Cardinality(R) = MinOf(Cardinality(old), droppable)}

\* A slip: one replica above the floor is kept as well.
RetireAboveFloor(d, reps) ==
  LET old == OldReady(reps, d.revision)
      droppable == SatSub(Cardinality(Ready(reps)), AvailabilityFloor(d) + 1)
  IN {R \in SUBSET old : Cardinality(R) = MinOf(Cardinality(old), droppable)}

\* Retire (rollout.rs "Retire"): the ready old replicas that may go, counting
\* only what is ready now.
Retirements(d, reps) ==
  LET old == OldReady(reps, d.revision)
      droppable == SatSub(Cardinality(NewReady(reps, d.revision))
                            + Cardinality(old), AvailabilityFloor(d))
  IN {R \in SUBSET old : Cardinality(R) = MinOf(Cardinality(old), droppable)}

\* The early return after a trim with no old replica is the case where
\* SurgePlacements is 0 and there is nothing to retire.
plan_rolling(d, reps) ==
  IF RolledOut(d, reps)
  THEN {[to_place |-> 0, to_kill |-> TerminalJobs(reps), done |-> TRUE]}
  ELSE {[to_place |-> SurgePlacements(d, reps),
         to_kill |-> TerminalJobs(reps) \cup V \cup R
                       \cup (OldLive(reps, d.revision) \ Ready(reps)),
         done |-> FALSE] :
        V \in Excess(reps, NewLive(reps, d.revision), d.replicas),
        R \in Retirements(d, reps)}

\* plan_step: the steps the strategy of d allows.
plan_step(d, reps) ==
  IF d.strategy = "Recreate" THEN plan_recreate(d, reps) ELSE plan_rolling(d, reps)

----------------------------------------------------------------------------
(* reconcile: the steady-state plan, blind to revisions.                    *)

reconcile(d, reps) ==
  {[to_place |-> SatSub(d.replicas, Cardinality(Live(reps))),
    to_kill |-> TerminalJobs(reps) \cup V] :
   V \in Excess(reps, Live(reps), d.replicas)}

=============================================================================
