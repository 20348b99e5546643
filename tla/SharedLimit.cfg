SPECIFICATION Spec
CONSTANTS
  Calls = {c1, c2}
  Ips = {ip1}
  Payers = {w1}
  IpLimit = 1
  PayerLimit = 1
  Minute = 2
  MaxTime = 2
  MaxCount = 2
SYMMETRY Interchangeable
INVARIANTS
  TypeOK
  AdmittedWithinLimit
  RefusedOnlyOverLimit
PROPERTY CountsAtOnce
CHECK_DEADLOCK TRUE
