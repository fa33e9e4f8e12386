CONSTANTS
  m1 = m1
  m2 = m2
  g = g
  a1 = a1
  a2 = a2
  a3 = a3
  e2 = e2
  e3 = e3
  f3 = f3
  c3 = c3
  c4 = c4
  b2 = b2
  d1 = d1
  x3 = x3
  y3 = y3
  w3 = w3
  Account <- MCAccount
  Blk <- MCBlk
  Header <- MCHeader
  Genesis = g
  Tx <- MCTx
  Tails <- MCTails
  MaxHeight = 4
  Retention = 2
  MaxOrphans = 2
  MaxSupply = 12
  InitialReward = 4
  HalvingInterval = 3
  Maturity = 1
  MinFee = 1
  MaxNonce = 2
  MaxPoolTxs = 3
  MaxPerSender = 2
  MinRelayFee = 2
  MaxTxPerBlock = 2
  MaxBlockBytes = 1000
SPECIFICATION Spec
INVARIANTS ChainGenuine LedgerExact Conserved  BooksBalance DebugTells
PROPERTIES WorkGrows PoolImplemented PendingUnconfirmed
