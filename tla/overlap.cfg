SPECIFICATION FairSpec
CONSTANTS
  a = a  b = b  c = c  ksys = ksys  r1 = r1  r2 = r2  lo = lo  hi = hi  bad = bad
  Absent = Absent
  Choices <- SharedNames
  Names = {r1, r2}
  Namespaces = {a, b}
  Ignored = {}
  Hards = {lo, hi, bad}
  BadHards = {bad}
  Usage = {0}
  UserOps = {"create", "change", "delete", "remove quota", "edit quota"}
  MaxOps = 3
  MaxFaults = 0
  MaxCrashes = 1
INVARIANTS OwnerPrevails
PROPERTIES Settles
CHECK_DEADLOCK FALSE
