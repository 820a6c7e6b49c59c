--------------------------- MODULE MCController ---------------------------
(* Values of the constants of Controller for TLC. *)
EXTENDS Controller, TLC

CONSTANTS j1, j2, j3, j4, j5,           \* job ids
          n1, n2, n3, n4, n5, n6, n7    \* hosts

\* A rolling update and a recreate, as the manifest spells them.
RollTo(n, rev, unavailable, surge) ==
  [replicas |-> n, revision |-> rev, strategy |-> "RollingUpdate",
   max_unavailable |-> unavailable, max_surge |-> surge]
RecreateTo(n, rev) ==
  [replicas |-> n, revision |-> rev, strategy |-> "Recreate",
   max_unavailable |-> 0, max_surge |-> 0]

\* A rollout in the middle of which the user asks for fewer replicas.
SurgeThenShrink ==
  <<RollTo(2, "r1", 0, 1), RollTo(2, "r2", 0, 1), RollTo(1, "r2", 0, 1)>>

\* All the strategies, each taking over what the one before left behind.
EveryStrategy ==
  <<RollTo(2, "r1", 1, 0), RollTo(2, "r2", 0, 1), RecreateTo(2, "r1"),
    RecreateTo(1, "r2")>>

\* The same with fewer replicas at a time.
ShiftingStrategy ==
  <<RollTo(2, "r1", 1, 0), RollTo(1, "r2", 0, 1), RecreateTo(2, "r1")>>

\* Scaling within one revision.
ScaleDown == <<RollTo(3, "r1", 0, 1), RollTo(1, "r1", 0, 1)>>

\* A rolling update that may not surge, and a recreate.
NoSurge == <<RollTo(2, "r1", 1, 0)>>
DrainAndFill == <<RecreateTo(1, "r1"), RecreateTo(1, "r2")>>

JobSymmetry == Permutations(JobId)
NodeSymmetry == Permutations(Node)
JobAndNodeSymmetry == JobSymmetry \cup NodeSymmetry
=============================================================================
