SPECIFICATION LiveSpec
CONSTANTS
  Calls = {c1, c2}
  Payments = {p1}
  Subjects = {s1, bad}
  Parsable = {s1}
  Routes = {"wallet-risk", "tx-risk", "subscribe"}
  Free = FALSE
  HasDb = TRUE
  JwtSecretSet = TRUE
  MaxFaults = 2
PROPERTY ChargedBuyerIsServed
CHECK_DEADLOCK FALSE
