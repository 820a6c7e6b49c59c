----------------------------- MODULE MCPlanner -----------------------------
(* Values of the constants of Planner for TLC. *)
EXTENDS Planner, TLC

CONSTANTS a, b, c, e

AllDeployments ==
  {dep \in [replicas : 0..3, revision : {"r1"}, strategy : Strategy,
            max_unavailable : 0..2, max_surge : 0..2] : ValidStrategy(dep)}

IdSymmetry == Permutations(Id)
=============================================================================
