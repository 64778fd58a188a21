SPECIFICATION FairOperatorSpec
CONSTANTS
  a = a  b = b  c = c  ksys = ksys  r1 = r1  r2 = r2  lo = lo  hi = hi  bad = bad
  Absent = Absent
  Choices <- OneName
  Names = {r1}
  Namespaces = {a, ksys}
  Ignored = {ksys}
  Hards = {lo, hi}
  BadHards = {}
  Usage = {0, 1}
  UserOps = {"create", "create finalized", "change", "delete", "delete foreground", "touch", "delete namespace", "create namespace", "remove quota", "edit quota", "use"}
  MaxOps = 3
  MaxFaults = 0
  MaxCrashes = 1
INVARIANTS TypeOK IgnoredUnlimited NoMissedWakeup
PROPERTIES ConvergesAndRests EndsLabelled NoQuotaLeak
CHECK_DEADLOCK FALSE
