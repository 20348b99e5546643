SPECIFICATION Spec
CONSTANTS
  Calls = {c1}
  Payments = {p1}
  Subjects = {s1, bad}
  Parsable = {s1}
  Routes = {"wallet-risk"}
  Free = TRUE
  HasDb = TRUE
  JwtSecretSet = TRUE
INVARIANT FreeTierIsServed
CHECK_DEADLOCK TRUE
