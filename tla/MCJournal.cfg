CONSTANTS
  g = g
  a1 = a1
  b1 = b1
  Kind <- MCKind
  Blk <- MCBlk
  PathTo <- MCPathTo
  Genesis = g
  MaxAttempts = 2
  SnapshotEvery = 1
  Retention = 1
  MaxSaves = 2
  PairSpared = FALSE
SPECIFICATION JournalSpec
 
PROPERTIES QueueDrains
