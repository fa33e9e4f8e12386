SPECIFICATION Spec
CONSTANTS
  Node = {"a", "b", "c"}
  Link = {"ab","ab2","bc"}
  Dialer <- MCDialer
  Acceptor <- MCAcceptor
  Url <- MCUrl
  Host <- MCHost
  NoPeer = NoPeer
  Blk = {"g", "b1", "b2", "c1", "c2", "c3"}
  Genesis = "g"
  Prev <- MCPrev
  Work <- MCWork
  Miner <- MCMiner
  Start <- Racing
  Pruning = {"a"}
  Retention = 2
  Chunk = {2, 3}
  SnapshotMin = 2
  Trusted = {"b"}
  Lossy <- BDrops
  Fragile = {"ab"}
  Forgotten = {}
  NoLink = NoLink
CHECK_DEADLOCK FALSE
INVARIANTS
  ChainWhole
  OwnerConnected
  HeightsReal
  NeverBootstraps
PROPERTIES
  Replicates
