SPECIFICATION Spec
CONSTANTS
  a = a b = b c = c e = e
  Id = {a, b, c, e}
  Revision = {"r1", "r2"}
  Deployments <- AllDeployments
SYMMETRY IdSymmetry
INVARIANTS PlanKeepsFloor PlanKeepsCeiling PlanNeverStuck PlanIsReconcile
