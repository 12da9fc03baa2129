SPECIFICATION FairSpec
CONSTANTS
  Deployments <- AllDeployments
  MaxFaults = 4
INVARIANT BridgeHasListener
INVARIANT StoppedIsReleased
PROPERTY ComesDown
