SPECIFICATION FairSpec
CONSTANTS
  Node = {"a", "b", "c"}
  Link = {"ab","ac","cb"}
  Dialer <- MCDialer
  Acceptor <- MCAcceptor
  Url <- MCUrl
  Host <- MCHost
  NoPeer = NoPeer
  Blk = {"g", "b1", "b2", "b3"}
  Genesis = "g"
  Prev <- MCPrev
  Work <- MCWork
  Miner <- AMines
  Start <- BothTwo
  Pruning = {}
  Retention = 1
  Chunk = {1, 2}
  SnapshotMin = 9
  Trusted = {"b"}
  Lossy = {}
  Fragile = {}
  Forgotten = {"b3"}
  NoLink = NoLink
CHECK_DEADLOCK FALSE
INVARIANTS
  OwnerWaits
PROPERTIES
  Converge
