SPECIFICATION FairSpec
CONSTANTS
  Sources <- TwoCameras
  Frames <- TwoThenOne
  MaxObjects = 1
  MaxRetained = 1
  QueueCapacity = 1
  SnapCapacity = 1
  BranchCapacity = 1
  MaxSplits = 1
INVARIANT TypeOK
INVARIANT MemoryIsBounded
INVARIANT SnapshotShowsItsDetection
INVARIANT OneSnapshotPerEvent
INVARIANT NeitherOrderLosesEvidence
PROPERTY StopReleasesEverything
