----------------------- MODULE MCCameraConfiguration -----------------------
EXTENDS CameraConfiguration

Camera(id, order) ==
  [id |-> id, key |-> id, url |-> [scheme |-> "rtsp", host |-> id, percent |-> FALSE],
   enabled |-> TRUE, order |-> order, path |-> [kind |-> "cameras", key |-> id]]
Configuration(v, cs) ==
  [schema |-> 1, version |-> v, device |-> "this", branch |-> "b", cameras |-> cs]

Door == Camera("door", 0)
Yard == Camera("yard", 3)
YardMoved == Camera("yard", 0)
OnlyDoor == Configuration("v1", <<Door>>)
Both == Configuration("v2", <<Door, Yard>>)
OnlyYard == Configuration("v3", <<YardMoved>>)
NoneEnabled == Configuration("v4", <<>>)
SameOrder == Configuration("v5", <<Door, YardMoved>>)
Poison == Configuration("v6", <<[Door EXCEPT !.url.percent = TRUE]>>)

EditedConfigurations == {OnlyDoor, Both, OnlyYard, NoneEnabled, SameOrder, Poison}
WithPoison == {OnlyDoor, Poison}

(* The row an Agent older than the camera keys left. *)
Keyless(m) == [f \in DOMAIN m \ {"key"} |-> m[f]]
LegacyRow == Serialize(Configuration("v1", <<Keyless(Door)>>))
DoorRow == Serialize(OnlyDoor)
CorruptRow == [json |-> FALSE]

Number(n) == [is |-> "int", n |-> n]
Settings(rtsp, idr, snapshots) ==
  [ streammux |-> TRUE, infer |-> [present |-> TRUE, modelExists |-> TRUE],
    tracker |-> [enabled |-> TRUE, library |-> TRUE],
    rtspOut |-> [NoRtspOut EXCEPT !.present = TRUE, !.enabled = rtsp, !.idr = idr],
    snapshot |-> [NoSnapshot EXCEPT !.present = snapshots, !.enabled = snapshots] ]
Template(rtsp, idr, snapshots) ==
  [sourced |-> TRUE, carried |-> [protocol |-> 4], settings |-> Settings(rtsp, idr, snapshots)]

Production == Template(TRUE, Number(30), TRUE)
OneShared == Template(FALSE, Unset, FALSE)
Refused == Template(TRUE, Number(0), TRUE)
Unsourced == [Production EXCEPT !.sourced = FALSE]
Deployment(template0, cache0) == [template |-> template0, cache |-> cache0]
AllDeployments == { Deployment(Production, NoCache), Deployment(Production, DoorRow), Deployment(OneShared, CorruptRow),
                    Deployment(Refused, LegacyRow), Deployment(Unsourced, NoCache) }
Fresh == {Deployment(Production, NoCache)}
=============================================================================
