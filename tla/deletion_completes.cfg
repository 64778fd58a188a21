SPECIFICATION FairSpec
CONSTANTS
  a = a  b = b  c = c  ksys = ksys  r1 = r1  r2 = r2  lo = lo  hi = hi  bad = bad
  Absent = Absent
  Choices <- OneName
  Names = {r1}
  Namespaces = {a, ksys}
  Ignored = {ksys}
  Hards = {lo, hi}
  BadHards = {}
  Usage = {0}
  UserOps = {"create finalized", "delete", "touch"}
  MaxOps = 3
  MaxFaults = 0
  MaxCrashes = 0
PROPERTIES DeletionCompletes
CHECK_DEADLOCK FALSE
