CONSTANTS
  p = p  a = a  b = b  NoPeer = NoPeer
  Peer <- MCPeer  Addr <- MCAddr  Id <- MCId  AddrOf <- MCAddrOf  Together <- MCTogether
  Bootstrap = NoPeer  Honest = {b}
  EventScore <- MCScore
  MinScore <- MCMinScore  MaxScore = 1
  BanScore <- MCBanScore  WorseScore <- MCWorstScore  WorstScore <- MCWorstScore
  BaseBan = 1  MaxBan = 2
  DecayInterval = 1  PositiveStep = 1  NegativeStep = 2
  Copies = 2  MaxInbound = 1  TableMax = 1
  RateLimit = 1  ByteLimit = 1  Size = {1}
  GoodEvent = {"block-ok"}  BadEvent = {"bad-headers"}
  MaxQuiet = 1  MaxBad = 2
SPECIFICATION Spec
INVARIANTS NoGhostInbound OutboundThere HonestUnbanned
