SPECIFICATION FairSpec
CONSTANTS
  ThreadsNum = 3
  ChunkSize = 1
  Sizes = {0, 4, 5}
  Packs <- SomePacks
  FirstPacks <- OldPacks
  Faults = {"exception", "cut", "error_page", "oserror", "interrupt"}
  MaxCalls = 2
INVARIANTS TypeOK LatestIsNewest FinishedIsWhole
PROPERTY DownloadEnds
CHECK_DEADLOCK FALSE
