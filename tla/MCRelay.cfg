SPECIFICATION Spec
CONSTANTS
  a = a
  b = b
  c = c
  ab = ab
  ac = ac
  bc = bc
  bc2 = bc2
  t1 = t1
  t2 = t2
  b0 = b0
  b1 = b1
  b2 = b2
  NoPeer = NoPeer
  Node <- MCNode
  Link <- MCLink
  Dialer <- MCDialer
  Acceptor <- MCAcceptor
  Url <- MCUrl
  Host <- MCHost
  Transfer = {t1, t2}
  Earlier <- MCEarlier
  Blk <- MCBlk
  Genesis = b0
  Prev <- MCPrev
  Txs <- MCTxs
  Miner <- MCMiner
  Wallet <- MCWallet
  FetchMax = 1
  MaxRounds = 2
  PendingMax = 1
  Evictable <- MCEvictable
  Forgotten <- MCForgotten
  Start <- MCStart
  Fragile = {bc2}
INVARIANTS  AskedOnce 
CHECK_DEADLOCK FALSE
