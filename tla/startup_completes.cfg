SPECIFICATION FairSpec
CONSTANTS
  p1 = p1  p2 = p2
  Processes = {p1, p2}
  Replicas = 1
  AdminOps = {}
  MaxOps = 0
  MaxFaults = 0
  Absent = Absent
PROPERTY StartupCompletes
CHECK_DEADLOCK FALSE
