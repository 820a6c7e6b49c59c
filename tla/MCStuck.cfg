SPECIFICATION FairSpec
CONSTANTS
  j1 = j1
  j2 = j2
  j3 = j3
  j4 = j4
  j5 = j5
  n1 = n1
  n2 = n2
  n3 = n3
  n4 = n4
  n5 = n5
  n6 = n6
  n7 = n7
  JobId = {j1, j2, j3, j4}
  Node = {n1, n2}
  Revision = {"r1", "r2"}
  Specs <- ScaleDown
  FailureThreshold = 2
  Endings = {"Failed"}
  Faults = {"stuck"}
  MaxFaults = 0
PROPERTIES
  EventuallyScaled
