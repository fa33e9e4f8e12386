SPECIFICATION FairSpec
CONSTANTS
  Node = {"a", "b"}
  Link = {"ab"}
  Dialer <- MCDialer
  Acceptor <- MCAcceptor
  Url <- MCUrl
  Host <- MCHost
  NoPeer = NoPeer
  Blk = {"g", "b1", "b2", "a1"}
  Genesis = "g"
  Prev <- MCPrev
  Work <- MCWork
  Miner <- MCMiner
  Start <- NewNet
  Pruning = {}
  Retention = 2
  Chunk = {1, 2}
  SnapshotMin = 9
  Trusted = {}
  Lossy = {}
  Fragile = {}
  Forgotten = {}
  NoLink = NoLink
CHECK_DEADLOCK FALSE
PROPERTIES
  LagClears
