SPECIFICATION Spec
CONSTANTS
  MtpWindow = 3
  MaxFuture = 1
  TargetBlock = 1
  DiffWindow = 2
  MinDifficulty = 1
  MaxDifficulty = 4
  GenesisDifficulty = 2
  Retention = 4
  Offsets <- MCOffsets
  Steps = {1, 5}
  MaxTime = 7
  MaxHeight = 5
INVARIANTS
  OwnStands
  Replays
  VerdictsAgree
CHECK_DEADLOCK FALSE
