SPECIFICATION Spec
CONSTANTS
  q1 = q1  q2 = q2  q3 = q3
  Requests = {q1, q2, q3}
  Objects <- AllObjects
  Nil = Nil
SYMMETRY Symmetric
INVARIANTS TypeOK SoundAdmission SerialExact DamageIsLocal
CHECK_DEADLOCK FALSE
