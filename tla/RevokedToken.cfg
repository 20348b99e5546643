SPECIFICATION Spec
CONSTANTS
  Calls = {c1, c2}
  Payers = {w1}
  Tiers = {1}
  TicksPerSecond = 2
  Leeway = 1
  MaxTime = 6
  MaxTokens = 2
SYMMETRY Interchangeable
INVARIANT
  RevocationIsAuthoritative
CHECK_DEADLOCK TRUE
