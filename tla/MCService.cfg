SPECIFICATION Spec
CONSTANTS
  w = w v = v r1 = r1 r2 = r2
  Account = {w, v}
  MaxSupply = 1000
  InitialReward = 1
  HalvingInterval = 1000
  Maturity = 1
  MinFee = 1
  MaxNonce = 4
  MaxPoolTxs = 2
  MaxPerSender = 2
  MinRelayFee = 1
  MaxTxPerBlock = 2
  MaxBlockBytes = 1000
  Funds <- MCFunds
  Base = 12
  Miner = w
  Request = {r1, r2}
  Kind <- MCKind
  Payment <- MCPayment
  Foreign <- MCForeign
  MineEmpty = FALSE
  Automine = {TRUE, FALSE}
  HistoryMax = 1
  MaxBlocks = 2
INVARIANTS LedgerFollows RefusedNotSent
PROPERTY AcceptedLeaves
