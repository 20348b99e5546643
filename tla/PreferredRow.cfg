SPECIFICATION Spec
CONSTANTS
  Calls = {c1}
  wallet = wallet
  tx = tx
  Endpoints <- MCEndpoints
  Everywhere = Everywhere
  Rows <- MCSeed
  Tables <- MCSeedOnly
  NoRow = NoRow
  Ttl = 1
  FetchTimeout = 1
  MaxTime = 2
INVARIANT OwnRowIsPreferred
CHECK_DEADLOCK TRUE
