CONSTANTS
  Budgets = {2, 4, 8, 16}
  NoDeadline = NoDeadline
  None = None
  TimeoutPhases = 8 MaxImage = 3 ChunkSizes = {1, 2} DripReads = 3
SPECIFICATION FairSpec
INVARIANTS TypeOK SnapshotCleansUp SnapshotOverrun FrameIsBestInTime
PROPERTIES Ends
CHECK_DEADLOCK FALSE
