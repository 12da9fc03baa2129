SPECIFICATION Spec
CONSTANTS
  OwnDevice = "this"
  MaxCameras = 2
  GoodKeys = {"door", "yard"}
  Configurations <- WithPoison
  Deployments <- Fresh
  QueueCapacity = 1
  MaxDetections = 1
  MaxEdits = 1
  MaxFaults = 0
INVARIANT AppliedKeepsRunning
