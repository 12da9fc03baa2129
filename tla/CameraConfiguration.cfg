SPECIFICATION FairSpec
CONSTANTS
  OwnDevice = "this"
  MaxCameras = 2
  GoodKeys = {"door", "yard"}
  Configurations <- EditedConfigurations
  Deployments <- AllDeployments
  QueueCapacity = 1
  MaxDetections = 2
  MaxEdits = 1
  MaxFaults = 2
INVARIANT TypeOK
INVARIANT OneBridge
INVARIANT BridgeMatchesMapping
INVARIANT EventsNameTheirCamera
INVARIANT OutputsShowTheirCamera
INVARIANT CooldownCountsStored
INVARIANT CacheIsWhatRuns
PROPERTY PublishedTakesEffect
