SPECIFICATION FairSpec
CONSTANTS
  Positions <- MCPositions
  FirstPosition = 500
  Minute = 3
  Configs <- MCConfigs
  MaxDay = 2
  Retries = 1
  MaxReads = 5
  MaxListens = 2
  MaxEdits = 1
  MaxFaults = 1
  MaxEvents = 3
INVARIANTS
  TypeOK
  OneActiveRead
  CheckpointEarned
  NoSplitLoop
PROPERTIES
  HistoryKept
  ProgressArrives
CHECK_DEADLOCK FALSE
