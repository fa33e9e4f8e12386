CONSTANTS
  x = x
  y = y
  g = g
  b1 = b1
  b2 = b2
  b3 = b3
  c2 = c2
  cli = cli
  Account <- MCAccount
  Accounts <- MCAccounts
  Blk <- MCBlk
  Genesis = g
  LedgerAt <- MCLedgerAt
  Client = {cli}
  Wanted <- MCWanted
  CacheMax = 2
  MaxAsked = 2
  MaxSupply = 100
  InitialReward = 8
  HalvingInterval = 100
  Maturity = 2
  MinFee = 1
SPECIFICATION Spec
INVARIANTS AnswersTrue RootsTell
PROPERTY RequestsEnd
