SPECIFICATION Spec
CONSTANTS
  Writers = {w1, w2, w3}
  Readers = {r1}
  Ttl = 1
  PoolWait = 1
  MaxTime = 3
SYMMETRY Interchangeable
INVARIANTS
  TypeOK
  HitIsRecent
  SomeWriterGoesOn
PROPERTY CacheIsARegister
CHECK_DEADLOCK TRUE
