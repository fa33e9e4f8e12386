CONSTANTS
  alice = alice
  bob = bob
  Account <- MCAccount
  Tx <- MCTx
  Balance = {11}
  MaxNonce = 3
  MaxPoolTxs = 3
  MaxPerSender = 2
  MaxSupply = 100
  InitialReward = 4
  HalvingInterval = 10
  Maturity = 1
  MinFee = 1
  MinRelayFee = 2
  MaxTxPerBlock = 2
  MaxBlockBytes = 1000
SPECIFICATION Spec
INVARIANTS IndexFresh UniqueNonce 
PROPERTY EvictionTakesTail
