-------------------------- MODULE ConfigurationPath --------------------------
(***************************************************************************)
(* What a camera configuration goes through between the Backend's answer   *)
(* and the pipeline the Bridge builds from it, each conversion as an       *)
(* operator: the client's parse, the Agent's validation, the cached form,  *)
(* the generated DeepStream file, the Bridge's reading of that file, the   *)
(* mapping from source ids to cameras, and the outputs of the pipeline.    *)
(*                                                                         *)
(* A configuration is                                                      *)
(*   [schema, version, device, branch, cameras]                            *)
(* with cameras a sequence of [id, key, url, enabled, order, path].  A url *)
(* is [scheme, host, percent]: its host stands for the device that answers *)
(* there, percent for a % in it.  A path is [kind, key], of kind "cameras" *)
(* when it is "cameras/" followed by the key.                              *)
(***************************************************************************)
EXTENDS Integers, Sequences, SequencesExt, FiniteSets

CONSTANTS
  OwnDevice,   \* the Agent's device id
  MaxCameras,  \* device_config_max_cameras
  GoodKeys     \* the keys that match _CAMERA_KEY_PATTERN

CamerasOf(c) == ToSet(c.cameras)
Differ(cs, field) ==
  \A i, j \in 1..Len(cs) : cs[i][field] = cs[j][field] => i = j

(* GetConfigurationAsync: a list of enabled cameras only.  What the Agent   *)
(* parses of it are records with these fields and no others.               *)
Listed(c) ==
  /\ c = [schema |-> c.schema, version |-> c.version, device |-> c.device,
          branch |-> c.branch, cameras |-> c.cameras]
  /\ c.cameras \in Seq(CamerasOf(c))
  /\ \A m \in CamerasOf(c) : m.enabled = TRUE /\ m.order \in Int
Parsed(c) ==
  \A m \in CamerasOf(c) :
    m = [id |-> m.id, key |-> m.key, url |-> m.url, enabled |-> m.enabled,
         order |-> m.order, path |-> m.path]

-----------------------------------------------------------------------------
(* DeviceConfigurationClient: an answer counts when it came, with status   *)
(* 200, in the agreed shape, and with no more cameras than are accepted.   *)
Fetched(status, wellFormed, c) ==
  status = 200 /\ wellFormed /\ Len(c.cameras) <= MaxCameras

(* validate_configuration: all or nothing. *)
ValidKey(m) == m.key \in GoodKeys
ValidUrl(m) == m.url.scheme \in {"rtsp", "rtsps"} /\ m.url.host # ""
ValidPath(m) == m.path = [kind |-> "cameras", key |-> m.key]
Valid(c) ==
  /\ c.schema = 1 /\ c.device = OwnDevice /\ c.branch # "" /\ c.version # ""
  /\ Len(c.cameras) <= MaxCameras
  /\ \A m \in CamerasOf(c) :
       ValidKey(m) /\ ValidUrl(m) /\ ValidPath(m) /\ m.order >= 0
  /\ Differ(c.cameras, "id")
  /\ Differ(c.cameras, "key")
  /\ Differ(c.cameras, "order")
  /\ Differ(c.cameras, "path")

-----------------------------------------------------------------------------
(* The cached form.  It is JSON in one row: [json |-> FALSE] when it does  *)
(* not parse, and its cameras lack the key when an Agent older than the    *)
(* key wrote it: the key is then the last segment of the output path.      *)
Serialize(c) == [json |-> TRUE, body |-> c]
HasKey(raw) == "key" \in DOMAIN raw /\ raw.key # ""
Recovered(raw) == IF HasKey(raw) THEN raw.key ELSE raw.path.key
Readable(row) ==
  row.json /\ \A raw \in CamerasOf(row.body) :
                HasKey(raw) \/ (raw.path.kind = "cameras" /\ raw.path.key # "")
Deserialize(row) ==
  LET camera(raw) == [id |-> raw.id, key |-> Recovered(raw), url |-> raw.url,
                      enabled |-> raw.enabled, order |-> raw.order, path |-> raw.path]
      cameras == [i \in DOMAIN row.body.cameras |-> camera(row.body.cameras[i])]
  IN [row.body EXCEPT !.cameras = cameras]

-----------------------------------------------------------------------------
(* SourceGenerationTracker.install: the enabled cameras by source order.   *)
SourceMapping(c) ==
  LET enabled == {m \in CamerasOf(c) : m.enabled}
  IN [n \in {m.order : m \in enabled} |-> (CHOOSE m \in enabled : m.order = n).id]

(* generate_runtime_config.  A template is [sourced, carried, settings]:   *)
(* whether it has a source section, the keys of the first one that are no  *)
(* camera's identity, and all that is not about sources.  configparser     *)
(* refuses to set a value with a lone % in it.                             *)
CanGenerate(template, cameras) ==
  template.sourced /\ \A m \in ToSet(cameras) : ~m.url.percent
FaultySectionNumber(cameras, i) == i - 1   \* bug: the place in the list
SectionNumber(cameras, i) == cameras[i].order
Generate(template, cameras) ==
  LET numbers == {SectionNumber(cameras, i) : i \in 1..Len(cameras)}
      at(n) == cameras[CHOOSE i \in 1..Len(cameras) : SectionNumber(cameras, i) = n]
  IN [ sources |-> [n \in numbers |->
         [type |-> 4, url |-> at(n).url, camera |-> at(n).id, path |-> at(n).path,
          carried |-> template.carried]],
       batch |-> Len(cameras),
       settings |-> [template.settings EXCEPT !.streammux = TRUE] ]

-----------------------------------------------------------------------------
(* load_bridge_config.  A setting's raw value is [is |-> "absent"],        *)
(* [is |-> "text"] or [is |-> "int", n |-> its value].  An integer out of  *)
(* its range, or none at all, refuses the file: nothing is clamped.        *)
InRange(raw, low, high) ==
  raw.is = "absent" \/ (raw.is = "int" /\ low <= raw.n /\ raw.n <= high)
ValueOf(raw, default) == IF raw.is = "int" THEN raw.n ELSE default

MaxFrameInterval == 3600
AcceptsRtspOut(r) ==
  /\ InRange(r.idr, 1, MaxFrameInterval) /\ InRange(r.iframe, 1, MaxFrameInterval)
  /\ InRange(r.parseInterval, -1, MaxFrameInterval)
  /\ InRange(r.payInterval, -1, MaxFrameInterval)
RtspOut(r) ==
  [ enabled |-> r.enabled,
    idr |-> ValueOf(r.idr, 30), iframe |-> ValueOf(r.iframe, 30),
    parseInterval |-> ValueOf(r.parseInterval, -1),
    payInterval |-> ValueOf(r.payInterval, -1) ]

AcceptsSnapshot(s) ==
  InRange(s.ttl, 1, 60000) /\ InRange(s.retained, 1, 1000) /\ InRange(s.quality, 1, 100)
Snapshot(s) ==
  [ enabled |-> s.enabled, ttl |-> ValueOf(s.ttl, 3000),
    retained |-> ValueOf(s.retained, 32), quality |-> ValueOf(s.quality, 85) ]

(* A section that is absent leaves its defaults: the shared stream is on,  *)
(* the snapshots are off.                                                  *)
Section(s, default) == IF s.present THEN s ELSE default
Unset == [is |-> "absent"]
NoRtspOut == [present |-> FALSE, enabled |-> TRUE, idr |-> Unset, iframe |-> Unset,
              parseInterval |-> Unset, payInterval |-> Unset]
NoSnapshot == [present |-> FALSE, enabled |-> FALSE, ttl |-> Unset,
               retained |-> Unset, quality |-> Unset]

AcceptsTracker(t) == t.enabled => t.library
AcceptsInfer(i) == i.present /\ i.modelExists

UnsafePath == {"absolute", "escaping", "spaced"}
AcceptsSource(s) ==
  s.type \in {2, 3, 4} /\ "url" \in DOMAIN s /\ s.path.kind \notin UnsafePath
AcceptsSources(ss) ==
  /\ DOMAIN ss # {}
  /\ \A n \in DOMAIN ss : AcceptsSource(ss[n])
  /\ \A n, k \in DOMAIN ss : ss[n].path = ss[k].path /\ ss[n].path.kind # "empty" => n = k

Accepts(file) ==
  /\ AcceptsSources(file.sources)
  /\ file.settings.streammux
  /\ AcceptsInfer(file.settings.infer)
  /\ AcceptsTracker(file.settings.tracker)
  /\ AcceptsRtspOut(Section(file.settings.rtspOut, NoRtspOut))
  /\ AcceptsSnapshot(Section(file.settings.snapshot, NoSnapshot))

TcpOnly == 4
Load(file) ==
  [ sources |-> [n \in DOMAIN file.sources |->
      [ camera |-> file.sources[n].camera, path |-> file.sources[n].path,
        host |-> file.sources[n].url.host,
        protocol |-> IF file.sources[n].carried.protocol = TcpOnly THEN TcpOnly ELSE 0 ]],
    batch |-> file.batch,
    tracker |-> file.settings.tracker.enabled,
    rtspOut |-> RtspOut(Section(file.settings.rtspOut, NoRtspOut)),
    snapshot |-> Snapshot(Section(file.settings.snapshot, NoSnapshot)) ]

-----------------------------------------------------------------------------
(* BridgePipeline.build.  A source enters the muxer at the pad of its own  *)
(* number, which is its source id in every detection.                      *)
FaultySinkPad(n) == 0   \* bug: the static template's single stream
SinkPad(n) == n

WithOutput(b) == {n \in DOMAIN b.sources : b.sources[n].path.kind # "empty"}
DynamicOutputs(b) == b.rtspOut.enabled /\ WithOutput(b) # {}

SharedChain(b) ==
  <<"mux", "infer">> \o (IF b.tracker THEN <<"tracker">> ELSE <<>>)
                     \o <<"convert">> \o (IF DynamicOutputs(b) THEN <<>> ELSE <<"osd">>)

(* _attach_per_camera_outputs: one branch per source with an output path,  *)
(* its ports by its place among them, its demuxer pad by its own number.   *)
Offset(b, n) == Cardinality({k \in WithOutput(b) : k < n})
UdpPort(b, n) == 2 * Offset(b, n)
FaultyDemuxPad(b, n) == Offset(b, n)   \* bug: the place, as for the ports
DemuxPad(b, n) == n
Branch(b, n) ==
  [ pad |-> DemuxPad(b, n), port |-> UdpPort(b, n), mount |-> b.sources[n].path,
    chain |-> SharedChain(b) \o <<"demux", "queue", "convert", "osd">>,
    tap |-> IF b.snapshot.enabled THEN {n} ELSE {} ]

(* The one shared output, tapped under the number that is no source's.     *)
SharedSource == -1
SharedBranch(b) ==
  [ pad |-> SharedSource, port |-> 0, mount |-> [kind |-> "shared", key |-> ""],
    chain |-> SharedChain(b),
    tap |-> IF b.snapshot.enabled THEN {SharedSource} ELSE {} ]

Outputs(b) == IF DynamicOutputs(b) THEN {Branch(b, n) : n \in WithOutput(b)}
                                   ELSE {SharedBranch(b)}
=============================================================================
