SPECIFICATION MCSpec
CONSTANTS
  p1 = p1
  p2 = p2
  Proc = {p1, p2}
  NoProc = NoProc
  Tries = 2
  StaleAfter = 1
  FaultPlans <- Plans
  MaxSessions = 2
  Writers = {w}
  Names = {"n", "m"}
  Values = {1, 2}
  Inodes = {1, 2, 3, 4}
  Torn = Torn
  None = None
  MaxCommands = 5
INVARIANTS
  MutualExclusion
  FinishedIsKept
PROPERTIES
  ImplementsLedger
  NeverWedged
CHECK_DEADLOCK FALSE
