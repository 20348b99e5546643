SPECIFICATION Spec
CONSTANTS
  Calls = {c1}
  Payments = {p1}
  Subjects = {s1, bad}
  Parsable = {s1}
  Routes = {"wallet-risk", "subscribe"}
  Free = FALSE
  HasDb = TRUE
  JwtSecretSet = FALSE
INVARIANT FailureAfterSettlementCarriesProof
CHECK_DEADLOCK TRUE
