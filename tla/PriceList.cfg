SPECIFICATION Spec
CONSTANTS
  Calls = {c1, c2}
  wallet = wallet
  tx = tx
  Endpoints <- MCEndpoints
  Everywhere = Everywhere
  Rows <- MCRows
  Tables <- MCTables
  NoRow = NoRow
  Ttl = 1
  FetchTimeout = 1
  MaxTime = 2
SYMMETRY Interchangeable
INVARIANTS
  TypeOK
  LookupIsRecent
  AttemptIsRecent
  LookupIsOfTheTable
CHECK_DEADLOCK TRUE
