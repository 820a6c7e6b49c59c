SPECIFICATION MCSpec
CONSTANTS
  j1 = j1
  j2 = j2
  j3 = j3
  JobId = {j1, j2, j3}
  MAX_HISTORY = 2
  OldFiles <- EitherFile
  Stacks <- SomeStacks
  Counts = {0, 1}
  FaultPlans <- Plans
  MaxCommands = 3
  SpecsToApply <- ThreeRevisions
  MaxChanges = 4
INVARIANTS
  NoForgottenReplica
  HandlesAreOwned
PROPERTIES
  SavedHandlesStay
  UndoGoesBack
SYMMETRY Alike
CHECK_DEADLOCK FALSE
