--------------------------- MODULE MCBridgeEvidence ---------------------------
(* Small Bridges for BridgeEvidence. *)
EXTENDS BridgeEvidence

TwoCameras == {0, 1}
TwoThenOne == [s \in TwoCameras |-> 2 - s]
OneEach == [s \in TwoCameras |-> 1]
OneCamera == {0}
TwoFrames == [s \in OneCamera |-> 2]
OneFrame == [s \in OneCamera |-> 1]
===============================================================================
