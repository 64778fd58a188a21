SPECIFICATION Spec
CONSTANTS
  a = a  b = b  c = c  ksys = ksys  r1 = r1  r2 = r2  lo = lo  hi = hi  bad = bad
  Absent = Absent
  Choices <- OneName
  Names = {r1}
  Namespaces = {a, ksys}
  Ignored = {ksys}
  Hards = {lo, hi}
  BadHards = {}
  Usage = {0}
  UserOps = {"create"}
  MaxOps = 1
  MaxFaults = 0
  MaxCrashes = 0
INVARIANTS FinalizerRegistered
CHECK_DEADLOCK FALSE
