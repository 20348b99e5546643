CONSTANTS
  MaxAttempts = 3
  Backoff = 2
  Budget = 3
  MaxOp = 1
  MaxPages = 2
  MaxHops = 3
  HopPages = 2
  MaxParse = 2
  Taken = 15
  Addresses <- MCAddresses
  StaticLabels <- MCStaticLabels
  LabelTables <- MCLabelTables
  Wallets <- MCWallets
  History <- MCHistory
  Genesis <- MCGenesis
  Recent <- MCRecent
  Lamports <- MCLamports
  TokenAccounts <- MCTokenAccounts
  Mint <- MCMint
  Txs <- MCTxs
  Instructions <- MCInstructions
  UsesTables <- MCUsesTables
  Effect <- MCEffect
  TokenPrograms = {"token"}
  KnownSafe = {"token", "system"}
SPECIFICATION FairSpec
INVARIANTS
  TypeOK
  RetriesAreBounded
  LabelsAreOneTable
  DeniedIsBlocked
  AllowNeedsHistory
  TraceIsHonest
  ReadsAreBounded
  AllowedMintsAreSafe
  SimulationOnlyAdds
  OutflowIsObserved
PROPERTIES
  EveryCallEnds
  NoCallTurnsBack
