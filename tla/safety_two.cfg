SPECIFICATION RememberingSpec
CONSTANTS
  a = a  b = b  c = c  ksys = ksys  r1 = r1  r2 = r2  lo = lo  hi = hi  bad = bad
  Absent = Absent
  Choices <- TwoNames
  Names = {r1, r2}
  Namespaces = {a, b, c}
  Ignored = {}
  Hards = {lo, bad}
  BadHards = {bad}
  Usage = {0}
  UserOps = {"create finalized", "change", "delete", "delete namespace", "remove quota"}
  MaxOps = 3
  MaxFaults = 1
  MaxCrashes = 0
INVARIANTS NoMissedWakeup
PROPERTIES ReleasedClean PromiseKept
CHECK_DEADLOCK FALSE
