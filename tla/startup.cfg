SPECIFICATION Spec
CONSTANTS
  p1 = p1  p2 = p2  p3 = p3
  Processes = {p1, p2, p3}
  Replicas = 2
  AdminOps = {"remove", "extend"}
  MaxOps = 2
  MaxFaults = 1
  Absent = Absent
SYMMETRY Symmetric
INVARIANTS TypeOK ServersValidate ServerTrusted
CHECK_DEADLOCK FALSE
