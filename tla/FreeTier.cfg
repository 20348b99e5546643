SPECIFICATION Spec
CONSTANTS
  Calls = {c1, c2}
  Payments = {p1}
  Subjects = {s1, bad}
  Parsable = {s1}
  Routes = {"wallet-risk", "token-risk", "tx-risk", "subscribe"}
  Free = TRUE
  HasDb = FALSE
  JwtSecretSet = FALSE
SYMMETRY Interchangeable
INVARIANT WorkIsPaidFor
PROPERTY KeepsServicePromise
CHECK_DEADLOCK TRUE
