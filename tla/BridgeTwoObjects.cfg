SPECIFICATION Spec
CONSTANTS
  Sources <- OneCamera
  Frames <- OneFrame
  MaxObjects = 2
  MaxRetained = 2
  QueueCapacity = 1
  SnapCapacity = 1
  BranchCapacity = 1
  MaxSplits = 0
INVARIANT NeitherOrderLosesEvidence
