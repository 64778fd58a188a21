SPECIFICATION FairRememberingSpec
CONSTANTS
  a = a  r1 = r1  lo = lo  
  Absent = Absent
  Choices <- OneTarget
  Names = {r1}
  Namespaces = {a}
  Ignored = {}
  Hards = {lo}
  BadHards = {}
  Usage = {0, 1}
  UserOps = {"create", "change", "delete", "use", "strip", "touch"}
  MaxOps = 2
  MaxFaults = 0
  MaxCrashes = 0
INVARIANTS TypeOK NoMissedWakeup
PROPERTIES RolloutSettles PromiseKept
CHECK_DEADLOCK FALSE
