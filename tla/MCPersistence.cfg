CONSTANTS
  g = g
  a1 = a1
  a2 = a2
  b1 = b1
  b2 = b2
  Kind <- MCKind
  Blk <- MCBlk
  PathTo <- MCPathTo
  Genesis = g
  MaxAttempts = 2
  SnapshotEvery = 2
  Retention = 1
  MaxSaves = 3
  PairSpared = TRUE
SPECIFICATION Spec
INVARIANTS LoadedExact
PROPERTIES Durable 
