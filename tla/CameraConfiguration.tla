------------------------- MODULE CameraConfiguration -------------------------
(***************************************************************************)
(* Server-driven camera configuration: the Agent's configuration           *)
(* coordinator, the Bridge processes it starts and stops, and the ingest   *)
(* handler that turns their detections into events.                        *)
(*                                                                         *)
(* The coordinator polls the Backend, caches a changed configuration,      *)
(* stops the Bridge, writes the DeepStream file, installs the mapping from *)
(* source ids to cameras and starts the Bridge again.  Detections travel   *)
(* meanwhile: over a Bridge's connection into the handler's queue, from    *)
(* which one consumer task takes them.                                     *)
(*                                                                         *)
(* The Agent is one event loop, so what lies between two awaits is one     *)
(* step.  Identity and its lock are another module's: here the device is   *)
(* operational until Lock, after which the components are stopped.         *)
(***************************************************************************)
EXTENDS ConfigurationPath

CONSTANTS
  Configurations, \* what the Backend may serve
  Deployments,    \* [template, cache]: a static file, and the cache row an
                  \* earlier Agent left there, or NoCache
  QueueCapacity,  \* detection_queue_capacity
  MaxDetections,  \* bound: detections made
  MaxEdits,       \* bound: changes of what the Backend serves
  MaxFaults       \* bound: failed polls, applies, launches and inserts, exits,
                  \* crashes

VARIABLES
  template, served,      \* the deployed template; what the Backend serves
  cache, file,           \* the ConfigCache row; the generated file
  agent,                 \* "off", "up", "locked" or "failed"
  pc,                    \* the coordinator's place, see Places
  target,                \* the configuration it is applying
  applied, mapping,      \* the applied configuration; the current generation
  running,               \* _bridge_running
  handle,                \* the process manager's process, 0 for none
  procs,                 \* every Bridge process started: [state, conf, linked]
  wire, queue,           \* detections on a connection; the handler's queue
  stored, cooling,       \* events stored; cameras in their cooldown window
  answers,               \* detections acknowledged as accepted
  owners,                \* history: <<source id, camera>> of every generation
  setback,               \* history: what kept the Bridge of the last apply
                         \* down, if anything, see Setbacks
  made, edits, faults    \* counters of the bounds

coordinator == <<pc, target, applied, mapping, running, owners, setback>>
ingest == <<wire, queue, stored, cooling, answers, made>>
vars == <<template, served, cache, file, agent, coordinator, handle, procs,
          ingest, edits, faults>>

Nothing == [version |-> ""]
NoCache == [none |-> TRUE]
NoFile == [sources |-> <<>>]
NoConf == [none |-> TRUE]

(* What the Backend serves, and so what an earlier Agent cached, lists      *)
(* enabled cameras; no key that matches the pattern is empty.              *)
ASSUME ConfigurationAssumption ==
  /\ MaxCameras \in Nat /\ QueueCapacity \in Nat \ {0}
  /\ MaxDetections \in Nat /\ MaxEdits \in Nat /\ MaxFaults \in Nat
  /\ "" \notin GoodKeys
  /\ \A c \in Configurations : Listed(c) /\ Parsed(c)
  /\ \A d \in Deployments :
       d.cache # NoCache /\ d.cache.json => Listed(d.cache.body)

(* "begin" in start, which spawns a Bridge in "first"; then the poll loop:  *)
(* "poll", "stopping" the old Bridge, spawning a new one in "launch".  At   *)
(* last "halting" in stop, and "ended".                                     *)
Places == {"begin", "first", "poll", "stopping", "launch", "halting", "ended"}

(* An apply stopped the Bridge and failed; a Bridge was not launched, or    *)
(* exited.                                                                 *)
Setbacks == {"none", "apply", "bridge"}

Dead == [state |-> "dead", conf |-> NoConf, linked |-> {}]
Alive(i) == i \in DOMAIN procs /\ procs[i].state \in {"booting", "playing", "ending"}
FaultyReaped == TRUE   \* bug: stop does not wait for the process
Reaped == ~Alive(handle)
Faulty == faults < MaxFaults /\ faults' = faults + 1
HasCameras(c) == c.cameras # <<>>
MaxStarts == 2 + MaxEdits + MaxFaults   \* so many Bridges at most are started
Serving == agent \in {"up", "locked"} /\ pc # "ended"   \* ingest is

-----------------------------------------------------------------------------
Init ==
  /\ \E d \in Deployments : template = d.template /\ cache = d.cache
  /\ served \in Configurations /\ file = NoFile
  /\ agent = "off" /\ pc = "begin" /\ target = Nothing
  /\ applied = Nothing /\ mapping = <<>> /\ running = FALSE /\ owners = {}
  /\ setback = "none"
  /\ handle = 0 /\ procs = <<>>
  /\ wire = {} /\ queue = <<>> /\ stored = {} /\ cooling = {} /\ answers = {}
  /\ made = 0 /\ edits = 0 /\ faults = 0

(* An administrator edits a camera. *)
Edit(c) ==
  /\ edits < MaxEdits /\ edits' = edits + 1
  /\ c # served /\ served' = c
  /\ UNCHANGED <<template, cache, file, agent, coordinator, handle, procs, ingest, faults>>

(* The Agent starts, ingest first, then the coordinator. *)
StartAgent ==
  /\ agent \in {"off", "failed"}
  /\ agent' = "up" /\ pc' = "begin"
  /\ UNCHANGED <<template, served, cache, file, target, applied, mapping, running,
                 owners, setback, handle, procs, ingest, edits, faults>>

(* _apply: the file, then the mapping, then the record of it; a file that  *)
(* cannot be written leaves all three.                                     *)
Apply(c, spawning) ==
  /\ file' = Generate(template, c.cameras)
  /\ mapping' = SourceMapping(c)
  /\ owners' = owners \cup {<<n, SourceMapping(c)[n]>> : n \in DOMAIN SourceMapping(c)}
  /\ applied' = c /\ target' = c /\ setback' = "none"
  /\ pc' = IF HasCameras(c) THEN spawning ELSE "poll"

(* The file cannot be generated: for this configuration or template at     *)
(* all, or this time, when the template cannot be read or the new file     *)
(* written, synced or renamed, which is last.                              *)
GenerateFails(cs) == (~CanGenerate(template, cs) /\ UNCHANGED faults) \/ Faulty

(* start: a readable and valid cache is applied before the first poll. *)
UsableCache == /\ cache # NoCache /\ Readable(cache) /\ Valid(Deserialize(cache))

StartFromCache ==
  /\ agent = "up" /\ pc = "begin" /\ UsableCache
  /\ CanGenerate(template, Deserialize(cache).cameras)
  /\ Apply(Deserialize(cache), "first")
  /\ UNCHANGED <<template, served, cache, agent, running, handle, procs, ingest,
                 edits, faults>>

(* The exception leaves start, and with it the Agent's start. *)
StartFails ==
  /\ agent = "up" /\ pc = "begin" /\ UsableCache
  /\ GenerateFails(Deserialize(cache).cameras)
  /\ agent' = "failed"
  /\ UNCHANGED <<template, served, cache, file, coordinator, handle, procs, ingest,
                 edits>>

StartWithoutCache ==
  /\ agent = "up" /\ pc = "begin" /\ ~UsableCache
  /\ pc' = "poll"
  /\ UNCHANGED <<template, served, cache, file, agent, target, applied, mapping,
                 running, owners, setback, handle, procs, ingest, edits, faults>>

-----------------------------------------------------------------------------
(* One poll.  Time-outs, refusals and malformed answers, configurations    *)
(* that are not valid and the one already applied leave everything as it   *)
(* is, and so does a row that cannot be saved; they differ in the sleep    *)
(* that follows.                                                           *)
Polling == agent = "up" /\ pc = "poll"
FaultyChanged(c) == applied = Nothing   \* bug: the version is never compared
Changed(c) == applied = Nothing \/ applied.version # c.version

PollFails ==
  /\ Polling /\ Faulty
  /\ \E status \in {0, 200, 401, 503} : ~Fetched(status, FALSE, served)
  /\ UNCHANGED <<template, served, cache, file, agent, coordinator, handle, procs,
                 ingest, edits>>

PollFindsNothing ==
  /\ Polling
  /\ ~(Fetched(200, TRUE, served) /\ Valid(served) /\ Changed(served))
  /\ UNCHANGED vars

(* The upsert of ConfigCache's only row. *)
FaultyUpsert(row) == IF cache = NoCache THEN row ELSE cache   \* bug: INSERT OR IGNORE
Upsert(row) == row

PollFindsChange ==
  /\ Polling
  /\ Fetched(200, TRUE, served) /\ Valid(served) /\ Changed(served)
  /\ cache' = Upsert(Serialize(served)) /\ target' = served
  /\ pc' = "stopping"
  /\ IF running /\ Alive(handle)
     THEN procs' = [procs EXCEPT ![handle].state = "ending"]
     ELSE UNCHANGED procs
  /\ UNCHANGED <<template, served, file, agent, applied, mapping, running, owners,
                 setback, handle, ingest, edits, faults>>

(* process_manager.stop returns when the process has been reaped, and      *)
(* _apply follows without an await in between.                             *)
ApplyChange ==
  /\ agent = "up" /\ pc = "stopping" /\ Reaped
  /\ handle' = 0 /\ running' = FALSE
  /\ CanGenerate(template, target.cameras)
  /\ Apply(target, "launch")
  /\ UNCHANGED <<template, served, cache, agent, procs, ingest, edits, faults>>

(* _run logs the exception, backs off and polls again.  The row has been   *)
(* saved and the Bridge stopped, for a configuration that is not applied.  *)
ApplyFails ==
  /\ agent = "up" /\ pc = "stopping" /\ Reaped
  /\ GenerateFails(target.cameras)
  /\ handle' = 0 /\ running' = FALSE /\ pc' = "poll" /\ setback' = "apply"
  /\ UNCHANGED <<template, served, cache, file, agent, target, applied, mapping,
                 owners, procs, ingest, edits>>

Launch ==
  /\ agent = "up" /\ pc \in {"first", "launch"} /\ handle = 0
  /\ procs' = Append(procs, [state |-> "booting", conf |-> NoConf, linked |-> {}])
  /\ handle' = Len(procs) + 1 /\ running' = TRUE /\ pc' = "poll"
  /\ UNCHANGED <<template, served, cache, file, agent, target, applied, mapping,
                 owners, setback, ingest, edits, faults>>

(* The executable is missing, say.  A poll backs off, with the             *)
(* configuration already recorded as applied; start's exception ends the   *)
(* Agent.                                                                  *)
LaunchFails ==
  /\ agent = "up" /\ pc = "launch" /\ Faulty
  /\ pc' = "poll" /\ setback' = "bridge"
  /\ UNCHANGED <<template, served, cache, file, agent, target, applied, mapping,
                 running, owners, handle, procs, ingest, edits>>

FirstLaunchFails ==
  /\ agent = "up" /\ pc = "first" /\ Faulty
  /\ agent' = "failed" /\ pc' = "begin"
  /\ target' = Nothing /\ applied' = Nothing /\ mapping' = <<>>
  /\ UNCHANGED <<template, served, cache, file, running, owners, setback, handle, procs,
                 ingest, edits>>

-----------------------------------------------------------------------------
(* The device is locked or the Agent shut down: the coordinator is         *)
(* cancelled wherever it waits, stops the Bridge, and ingest stops last.   *)
Lock ==
  /\ agent = "up" /\ pc \notin {"begin", "first"}
  /\ agent' = "locked" /\ pc' = "halting"
  /\ IF Alive(handle) /\ running
     THEN procs' = [procs EXCEPT ![handle].state = "ending"]
     ELSE UNCHANGED procs
  /\ UNCHANGED <<template, served, cache, file, target, applied, mapping, running,
                 owners, setback, handle, ingest, edits, faults>>

Halted ==
  /\ agent = "locked" /\ pc = "halting"
  /\ running => Reaped
  /\ handle' = IF running THEN 0 ELSE handle
  /\ running' = FALSE /\ pc' = "ended"
  /\ wire' = {} /\ queue' = <<>>
  /\ UNCHANGED <<template, served, cache, file, agent, target, applied, mapping,
                 owners, setback, procs, stored, cooling, answers, made, edits, faults>>

(* A kill takes the whole service: systemd ends the Bridge with the Agent. *)
Crash ==
  /\ agent = "up" /\ Faulty
  /\ agent' = "off" /\ pc' = "begin" /\ target' = Nothing
  /\ applied' = Nothing /\ mapping' = <<>> /\ running' = FALSE /\ handle' = 0
  /\ setback' = "none"
  /\ procs' = [i \in DOMAIN procs |-> Dead]
  /\ wire' = {} /\ queue' = <<>> /\ cooling' = {}
  /\ UNCHANGED <<template, served, cache, file, owners, stored, answers, made, edits>>

-----------------------------------------------------------------------------
(* A Bridge process reads its file and builds its pipeline, or exits. *)
Boot(i) ==
  /\ procs[i].state = "booting" /\ Accepts(file)
  /\ procs' = [procs EXCEPT ![i] =
                 [state |-> "playing", conf |-> Load(file), linked |-> @.linked]]
  /\ UNCHANGED <<template, served, cache, file, agent, coordinator, handle, ingest,
                 edits, faults>>

BootRefused(i) ==
  /\ procs[i].state = "booting" /\ ~Accepts(file)
  /\ procs' = [procs EXCEPT ![i] = Dead]
  /\ UNCHANGED <<template, served, cache, file, agent, coordinator, handle, ingest,
                 edits, faults>>

(* Sources negotiate on their own, in any order. *)
SourcePadAdded(i, n) ==
  /\ procs[i].state = "playing" /\ n \in DOMAIN procs[i].conf.sources
  /\ n \notin {l.source : l \in procs[i].linked}
  /\ procs' = [procs EXCEPT ![i].linked = @ \cup {[source |-> n, pad |-> SinkPad(n)]}]
  /\ UNCHANGED <<template, served, cache, file, agent, coordinator, handle, ingest,
                 edits, faults>>

(* The probe finds an object in a frame that source n delivered. *)
Detect(i, l) ==
  /\ procs[i].state = "playing" /\ l \in procs[i].linked
  /\ made < MaxDetections /\ made' = made + 1
  /\ Serving
  /\ wire' = wire \cup {[id |-> made', proc |-> i, source |-> l.pad,
                         seen |-> procs[i].conf.sources[l.source].camera]}
  /\ UNCHANGED <<template, served, cache, file, agent, coordinator, handle, procs,
                 queue, stored, cooling, answers, edits, faults>>

(* The pipeline ends on the signal, or the process is killed when the stop *)
(* times out: either way it is gone.                                       *)
End(i) ==
  /\ procs[i].state = "ending"
  /\ procs' = [procs EXCEPT ![i] = Dead]
  /\ UNCHANGED <<template, served, cache, file, agent, coordinator, handle, ingest,
                 edits, faults>>

(* A bus error ends the process by itself. *)
Exit(i) ==
  /\ procs[i].state \in {"booting", "playing"} /\ Faulty
  /\ procs' = [procs EXCEPT ![i] = Dead] /\ setback' = "bridge"
  /\ UNCHANGED <<template, served, cache, file, agent, pc, target, applied, mapping,
                 running, owners, handle, ingest, edits>>

(* The watcher notices an exit nobody asked for.  The Bridge stays down:   *)
(* restart_policy has no other value than "none".                          *)
Watch ==
  /\ handle # 0 /\ ~Alive(handle) /\ pc \notin {"stopping", "halting"}
  /\ handle' = 0
  /\ UNCHANGED <<template, served, cache, file, agent, coordinator, procs, ingest,
                 edits, faults>>

-----------------------------------------------------------------------------
(* A connection task reads a detection and queues it, or drops it when the *)
(* queue is full.                                                          *)
FaultyEnqueue(d) == Append(queue, d)   \* bug: the bound is not looked at
Enqueue(d) == IF Len(queue) < QueueCapacity THEN Append(queue, d) ELSE queue
Receive(d) ==
  /\ Serving /\ d \in wire
  /\ \A e \in wire : e.proc = d.proc => d.id <= e.id
  /\ wire' = wire \ {d}
  /\ queue' = Enqueue(d)
  /\ UNCHANGED <<template, served, cache, file, agent, coordinator, handle, procs,
                 stored, cooling, answers, made, edits, faults>>

(* resolve_camera_id, in the generation of the moment. *)
Resolves(d) == d.source \in DOMAIN mapping
CameraOf(d) == mapping[d.source]

(* An acknowledgement goes out only while the Bridge still listens.  Those *)
(* of a rejected or suppressed detection change nothing here.              *)
Answer(d) == answers' = IF Alive(d.proc) THEN answers \cup {d} ELSE answers

(* _process: one detection from the queue to its answer. *)
Take == Serving /\ queue # <<>> /\ queue' = Tail(queue)
Rest == <<template, served, cache, file, agent, coordinator, handle, procs, wire,
          made, edits>>

Reject ==
  /\ Take /\ ~Resolves(Head(queue))
  /\ UNCHANGED <<Rest, stored, cooling, answers, faults>>

Suppress ==
  /\ Take /\ Resolves(Head(queue)) /\ CameraOf(Head(queue)) \in cooling
  /\ UNCHANGED <<Rest, stored, cooling, answers, faults>>

Record(d) ==
  /\ stored' = stored \cup {[det |-> d, camera |-> CameraOf(d)]}
  /\ cooling' = cooling \cup {CameraOf(d)}
  /\ Answer(d)

Accept ==
  /\ Take /\ Resolves(Head(queue)) /\ CameraOf(Head(queue)) \notin cooling
  /\ Record(Head(queue))
  /\ UNCHANGED <<Rest, faults>>

(* The insert fails: no cooldown starts and no answer goes out. *)
FaultyFailed(d) ==   \* bug: the cooldown is committed before the insert
  cooling' = cooling \cup {CameraOf(d)} /\ UNCHANGED <<stored, answers>>
Failed(d) == UNCHANGED <<stored, cooling, answers>>
InsertFails ==
  /\ Take /\ Resolves(Head(queue)) /\ CameraOf(Head(queue)) \notin cooling /\ Faulty
  /\ Failed(Head(queue))
  /\ UNCHANGED Rest

CooldownEnds(m) ==
  /\ m \in cooling /\ cooling' = cooling \ {m}
  /\ UNCHANGED <<Rest, queue, stored, answers, faults>>

-----------------------------------------------------------------------------
Ended == pc = "ended" /\ UNCHANGED vars

Coordinator ==
  \/ StartFromCache \/ StartFails \/ StartWithoutCache
  \/ PollFindsChange \/ ApplyChange \/ ApplyFails \/ Launch
Bridge(i) ==
  \/ Boot(i) \/ BootRefused(i) \/ End(i) \/ Exit(i)
  \/ \E n \in DOMAIN file.sources : SourcePadAdded(i, n)
  \/ \E l \in procs[i].linked : Detect(i, l)
Ingest ==
  \/ \E d \in wire : Receive(d)
  \/ Reject \/ Suppress \/ Accept \/ InsertFails
  \/ \E m \in cooling : CooldownEnds(m)

Next ==
  \/ \E c \in Configurations : Edit(c)
  \/ StartAgent \/ Coordinator
  \/ PollFails \/ PollFindsNothing \/ LaunchFails \/ FirstLaunchFails
  \/ Lock \/ Halted \/ Crash
  \/ \E i \in DOMAIN procs : Bridge(i)
  \/ Watch
  \/ Ingest
  \/ Ended

(* systemd starts the Agent again, the event loop runs its tasks, polls    *)
(* are answered in the end (PollFails is bounded), a process started gets  *)
(* to its file, and one told to stop is gone within the stop timeout.      *)
Fairness ==
  /\ WF_vars(StartAgent) /\ WF_vars(Coordinator) /\ WF_vars(Watch)
  /\ \A i \in 1..MaxStarts :
       WF_vars(i \in DOMAIN procs /\ (Boot(i) \/ BootRefused(i) \/ End(i)))

Spec == Init /\ [][Next]_vars
FairSpec == Spec /\ Fairness

-----------------------------------------------------------------------------
(* The shape of the state. *)
States == {"booting", "playing", "ending", "dead"}
TypeOK ==
  /\ template \in {d.template : d \in Deployments} /\ served \in Configurations
  /\ agent \in {"off", "up", "locked", "failed"} /\ pc \in Places
  /\ setback \in Setbacks
  /\ running \in BOOLEAN /\ handle \in 0..Len(procs) /\ Len(procs) <= MaxStarts
  /\ \A i \in DOMAIN procs : procs[i].state \in States
  /\ \A d \in wire \cup ToSet(queue) : d.id \in 1..made /\ d.proc \in DOMAIN procs
  /\ Len(queue) <= QueueCapacity
  /\ made <= MaxDetections /\ edits <= MaxEdits /\ faults <= MaxFaults

(* "only one Bridge process is ever alive at a time", and it is the one    *)
(* the process manager knows, so that a stop always reaches it.            *)
OneBridge == \A i \in DOMAIN procs : Alive(i) => i = handle

(* The mapping installed is the one of the file the Bridge loaded: every   *)
(* source id an alive Bridge can report means the camera whose stream it   *)
(* plays there.                                                            *)
BridgeMatchesMapping ==
  \A i \in DOMAIN procs : Alive(i) /\ procs[i].conf # NoConf =>
    \A n \in DOMAIN procs[i].conf.sources :
      n \in DOMAIN mapping /\ mapping[n] = procs[i].conf.sources[n].camera

(* As long as no source order passes from one camera to another, an event  *)
(* names the camera that saw it, through every restart of the Bridge and   *)
(* however long the detection was queued.                                  *)
OrdersNotReused == \A o, p \in owners : o[1] = p[1] => o[2] = p[2]
EventsNameTheirCamera ==
  OrdersNotReused => \A e \in stored : e.camera = e.det.seen

(* What a viewer of a mount is shown: all that is sent to the port its     *)
(* factory reads.                                                          *)
Shown(b, path) ==
  LET read == {o.port : o \in {p \in Outputs(b) : p.mount = path}}
      pads == {o.pad : o \in {p \in Outputs(b) : p.port \in read}}
  IN {b.sources[k].camera : k \in pads \cap DOMAIN b.sources}

(* "output N showing Camera N and nothing else", for any set of source     *)
(* orders: a camera's mount shows that camera's frames only, no branch's   *)
(* RTP port is another's RTCP port, every frame is drawn on once, and a    *)
(* snapshot is looked up by the source id its detections carry.            *)
OutputsShowTheirCamera ==
  \A i \in DOMAIN procs : procs[i].conf # NoConf =>
    LET b == procs[i].conf IN
    /\ \A o \in Outputs(b) : \E k \in DOMAIN o.chain :
         \A j \in DOMAIN o.chain : o.chain[j] = "osd" <=> j = k
    /\ DynamicOutputs(b) => \A n \in WithOutput(b) :
         Shown(b, b.sources[n].path) = {b.sources[n].camera}
    /\ \A o, p \in Outputs(b) : o.port + 1 # p.port
    /\ DynamicOutputs(b) /\ b.snapshot.enabled => \A o \in Outputs(b) : o.tap = {o.pad}

(* "accepted for cooldown means successfully persisted": a camera's window *)
(* is open only if an event of it was stored, and so is every event that   *)
(* was acknowledged as accepted, through failing inserts and kills.        *)
CooldownCountsStored ==
  /\ cooling \subseteq {e.camera : e \in stored}
  /\ answers \subseteq {e.det : e \in stored}

(* Between polls the cache holds what is applied, unless the last apply    *)
(* failed: then it holds what that one was about, and what is applied is   *)
(* older.  Nothing that start could apply is in it while nothing else is   *)
(* applied, but after such a failure.  So a kill at any time, or an        *)
(* upgrade from a cache without keys, brings back the newest configuration *)
(* that the Agent has accepted.                                            *)
CacheIsWhatRuns ==
  agent = "up" /\ pc = "poll" =>
    /\ setback = "apply" => Readable(cache) /\ Deserialize(cache) = target
    /\ setback # "apply" /\ applied # Nothing =>
         Readable(cache) /\ Deserialize(cache) = applied
    /\ UsableCache => applied # Nothing \/ setback = "apply"

(* A valid configuration that stays published, and that a file can be      *)
(* generated for, is applied in the end, with a Bridge playing it if it    *)
(* has cameras and none if it has not, unless the Bridge did not start or  *)
(* exited, or an apply failed since: one that failed for a version that    *)
(* was then withdrawn has stopped the Bridge of the version applied, and a *)
(* poll that finds that version again changes nothing.  A kill while a     *)
(* row is cached that no file can be generated for is the other exception: *)
(* start fails on that row, and no poll comes to replace it.               *)
Playing == \E i \in DOMAIN procs : procs[i].state = "playing"
Unstartable == UsableCache /\ ~CanGenerate(template, Deserialize(cache).cameras)
TakesEffect ==
  agent = "up" /\ ~Unstartable /\ Fetched(200, TRUE, served) /\ Valid(served)
      /\ CanGenerate(template, served.cameras) =>
    /\ applied.version = served.version
    /\ setback = "none" /\ Accepts(file) => (Playing <=> HasCameras(served))
PublishedTakesEffect == <>[]TakesEffect

(* "any failure leaves whatever is currently applied running untouched":   *)
(* between polls the Bridge of an applied configuration is up, when it did *)
(* not fail by itself.                                                     *)
AppliedKeepsRunning ==
  agent = "up" /\ pc = "poll" /\ applied # Nothing /\ faults = 0 =>
    (running <=> HasCameras(applied))
=============================================================================
