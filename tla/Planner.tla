------------------------------ MODULE Planner ------------------------------
(***************************************************************************)
(* The planners of module Rollout on every fleet: a behaviour is one call   *)
(* of plan_step, with its input and the step it returned.                   *)
(***************************************************************************)
EXTENDS Rollout

CONSTANTS Id,           \* job ids
          Revision,     \* pod-template hashes
          Deployments   \* the deployments planned for

ASSUME PlannerAssumption ==
  /\ Deployments \subseteq Deployment(Revision)
  /\ \A dep \in Deployments : ValidStrategy(dep)

VARIABLES d, reps, step
vars == <<d, reps, step>>

Fleets == UNION {[S -> [revision : Revision, phase : Phase]] :
                 S \in {T \in SUBSET Id : IsFiniteSet(T)}}

Init ==
  /\ d \in Deployments
  /\ reps \in Fleets
  /\ step \in plan_step(d, reps)

Next == UNCHANGED vars
Spec == Init /\ [][Next]_vars

----------------------------------------------------------------------------

Rolling == d.strategy = "RollingUpdate"

\* A rolling step never takes the ready replicas below the availability floor:
\* the ready ones that survive all its kills are as many as the floor, or as
\* many as there were (rollout.rs, "Retire"; also when a trim and a retirement
\* fall into the same step).
PlanKeepsFloor ==
  Rolling => Cardinality(Ready(reps) \ step.to_kill)
               >= MinOf(Cardinality(Ready(reps)), AvailabilityFloor(d))

\* A rolling step places only under the surge ceiling even if none of its kills
\* succeeds (rollout.rs, "Surge"), and never more than the target revision
\* lacks.
PlanKeepsCeiling ==
  step.to_place > 0 =>
    /\ Rolling => Cardinality(Live(reps)) + step.to_place <= SurgeCeiling(d)
    /\ Cardinality(NewLive(reps, d.revision)) + step.to_place <= d.replicas

\* The budgets never block each other: when no replica is still starting, a step
\* that is not done has something to place or to kill.
PlanNeverStuck ==
  Live(reps) = Ready(reps) /\ ~step.done =>
    step.to_place > 0 \/ step.to_kill # {}

\* With the whole fleet on the target revision a rollout step is a step of the
\* steady-state planner (README.md, reconcile.rs).
PlanIsReconcile ==
  OldLive(reps, d.revision) = {} =>
    [to_place |-> step.to_place, to_kill |-> step.to_kill] \in reconcile(d, reps)

=============================================================================
