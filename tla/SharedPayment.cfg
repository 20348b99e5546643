SPECIFICATION Spec
CONSTANTS
  Calls = {c1, c2}
  Payments = {p1, p2}
  Subjects = {s1, bad}
  Parsable = {s1}
  Routes = {"wallet-risk", "subscribe"}
  Free = FALSE
  HasDb = TRUE
  JwtSecretSet = TRUE
SYMMETRY Interchangeable
INVARIANTS
  TypeOK
  WorkIsPaidFor
  EveryChargeIsAccountedFor
  EachNamesOwnSettlement
  RefusedBeforeSettle
  FailureAfterSettlementCarriesProof
PROPERTY KeepsServicePromise
CHECK_DEADLOCK TRUE
