---------------------- MODULE CameraConfigurationProofs ----------------------
(***************************************************************************)
(* Proofs about CameraConfiguration for whatever configurations a Backend  *)
(* may serve, in any order, for any template and any cached row an earlier *)
(* Agent left, and for any number of edits, faults and detections.         *)
(***************************************************************************)
EXTENDS CameraConfiguration, SequenceFacts, FiniteSetTheorems, SequenceTheorems, TLAPS

-----------------------------------------------------------------------------
(* The inductive invariant, in layers *)

SomeAlive == \E i \in DOMAIN procs : Alive(i)

\* The Bridge processes, and what the Agent's place says of them.
Process(p) ==
  /\ p = [state |-> p.state, conf |-> p.conf, linked |-> p.linked]
  /\ p.state \in States
  /\ p.state = "booting" => p.conf = NoConf /\ p.linked = {}
  /\ p.state = "playing" => p.conf # NoConf
ProcessesOK ==
  /\ IsSeq(procs) /\ \A i \in DOMAIN procs : Process(procs[i])
  /\ handle \in 0..Len(procs)
  /\ OneBridge
PlacesOK ==
  /\ agent \in {"off", "up", "locked", "failed"} /\ pc \in Places /\ running \in BOOLEAN
  /\ agent \in {"off", "failed"} => pc = "begin"
  /\ agent = "locked" <=> pc \in {"halting", "ended"}
  /\ pc \in {"begin", "first"} => ~SomeAlive
  /\ pc = "launch" => handle = 0
Supervised == ProcessesOK /\ PlacesOK

\* The configurations that are cached, being applied and applied.
Usable(c) == Listed(c) /\ Valid(c)
DataOK ==
  /\ template \in {d.template : d \in Deployments} /\ served \in Configurations
  /\ cache # NoCache /\ cache.json => Listed(cache.body)
  /\ pc = "stopping" => /\ target \in Configurations /\ Valid(target)
                        /\ cache = Serialize(target)
  /\ pc \in {"first", "launch"} => Usable(applied)

\* The file and the mapping say the same of the sources in the file.
Consistent ==
  \A n \in DOMAIN file.sources :
    n \in DOMAIN mapping /\ mapping[n] = file.sources[n].camera

\* A pipeline's sources: numbered, and no output path given twice.
Sources(ss) ==
  /\ IsFiniteSet(DOMAIN ss) /\ DOMAIN ss \subseteq Int
PathsDiffer(ss) ==
  \A n, k \in DOMAIN ss : ss[n].path = ss[k].path /\ ss[n].path.kind # "empty" => n = k
Loaded ==
  /\ Sources(file.sources)
  /\ SomeAlive \/ pc \in {"first", "launch"} => Consistent
  /\ BridgeMatchesMapping
  /\ \A i \in DOMAIN procs : procs[i].conf # NoConf =>
       Sources(procs[i].conf.sources) /\ PathsDiffer(procs[i].conf.sources)

\* Whatever a Bridge reports is of a generation that was installed.
Owned(n, m) == <<n, m>> \in owners
MappingOwned == \A n \in DOMAIN mapping : Owned(n, mapping[n])
BridgeOwned(p) ==
  /\ p.conf # NoConf => \A n \in DOMAIN p.conf.sources :
                          Owned(n, p.conf.sources[n].camera)
  /\ \A l \in p.linked :
       p.conf # NoConf /\ l.source \in DOMAIN p.conf.sources /\ l.pad = l.source
DetectionsOwned ==
  IsSeq(queue) /\ \A d \in wire \cup ToSet(queue) : Owned(d.source, d.seen)
EventsOwned ==
  \A e \in stored : Owned(e.det.source, e.det.seen) /\ Owned(e.det.source, e.camera)
Attributed ==
  /\ MappingOwned /\ \A i \in DOMAIN procs : BridgeOwned(procs[i])
  /\ DetectionsOwned /\ EventsOwned

\* The cache holds what is applied, or, after an apply that failed, what that
\* one was about; no Bridge is left then.
Generable(c) == CanGenerate(template, c.cameras)
Restored == UsableCache /\ Generable(Deserialize(cache))
Cached(c) == Readable(cache) /\ Deserialize(cache) = c
CacheKnown ==
  /\ setback = "apply" => Cached(target)
  /\ setback # "apply" /\ applied # Nothing => Cached(applied)
  /\ UsableCache => applied # Nothing \/ setback = "apply"
Kept ==
  /\ setback \in Setbacks
  /\ pc = "begin" => applied = Nothing
  /\ setback = "apply" => pc \notin {"begin", "first", "launch"} /\ ~SomeAlive
  /\ pc \in {"poll", "first", "launch"} => CacheKnown

\* Every Bridge is started for a reason of its own: one for the cache and one
\* for the Backend's answer, one more for each edit and for each fault.  Due is
\* how many may follow before the next edit or fault.  A cache that an apply that
\* failed left ahead or behind counts: a kill brings it back.
One(p) == IF p THEN 1 ELSE 0
Stale(c) == One(c.version # served.version)
Behind == Restored /\ Deserialize(cache).version # served.version
Due ==
  IF agent = "locked" THEN 0
  ELSE IF pc = "begin" THEN
    IF Restored THEN 1 + Stale(Deserialize(cache)) ELSE One(~UsableCache)
  ELSE IF pc = "poll" THEN One(Changed(served) \/ Behind)
  ELSE IF pc = "stopping" THEN 1 + Stale(target)
  ELSE 1 + Stale(applied)
Counted ==
  /\ edits \in Nat /\ edits <= MaxEdits /\ faults \in Nat /\ faults <= MaxFaults
  /\ Len(procs) + Due <= 2 + edits + faults

\* The detections on their way are of processes that were started.
Numbered(d) == d.id \in 1..made /\ d.proc \in DOMAIN procs
Queued ==
  /\ made \in Nat /\ made <= MaxDetections
  /\ Len(queue) <= QueueCapacity
  /\ \A d \in wire \cup ToSet(queue) : Numbered(d)

IInv == Supervised /\ DataOK /\ Loaded /\ Attributed /\ Kept /\ Counted /\ Queued

-----------------------------------------------------------------------------
(* The steps *)

\* The steps of ingest, of the administrator and of polls that change nothing.
Quiet == UNCHANGED <<template, cache, file, agent, coordinator, handle, procs>>

LEMMA Steps ==
  ASSUME [Next]_vars
  PROVE  \/ Quiet
         \/ StartAgent \/ StartFromCache \/ StartFails \/ StartWithoutCache
         \/ PollFindsChange \/ ApplyChange \/ ApplyFails \/ Launch
         \/ LaunchFails \/ FirstLaunchFails \/ Lock \/ Halted \/ Crash \/ Watch
         \/ \E i \in DOMAIN procs : Boot(i) \/ BootRefused(i) \/ End(i) \/ Exit(i)
         \/ \E i \in DOMAIN procs : \E n \in DOMAIN file.sources : SourcePadAdded(i, n)
<1>1. ASSUME NEW c \in Configurations, Edit(c) PROVE Quiet
  BY <1>1 DEF Edit, Quiet, coordinator
<1>2. CASE PollFails \/ PollFindsNothing \/ Ended
  <2>1. CASE PollFails
    BY <2>1 DEF PollFails, Quiet, coordinator
  <2>2. CASE PollFindsNothing
    BY <2>2 DEF PollFindsNothing, vars, Quiet, coordinator
  <2>3. CASE Ended
    BY <2>3 DEF Ended, vars, Quiet, coordinator
  <2> QED BY <1>2, <2>1, <2>2, <2>3
<1>3. ASSUME NEW i \in DOMAIN procs, NEW l \in procs[i].linked, Detect(i, l) PROVE Quiet
  BY <1>3 DEF Detect, Quiet, coordinator
<1>4. CASE Ingest
  BY <1>4 DEF Ingest, Receive, Reject, Suppress, Accept, InsertFails, CooldownEnds, Rest,
              Quiet, coordinator
<1>5. CASE UNCHANGED vars
  BY <1>5 DEF vars, Quiet, coordinator
<1> QED BY <1>1, <1>2, <1>3, <1>4, <1>5 DEF Next, Coordinator, Bridge

-----------------------------------------------------------------------------
(* Supervision: one Bridge, and the process manager knows it *)

LEMMA InitSupervised == Init => Supervised
<1> SUFFICES ASSUME Init PROVE Supervised
  OBVIOUS
<1>1. IsSeq(procs) /\ Len(procs) = 0 /\ DOMAIN procs = {}
  BY EmptyIsSeq DEF Init
<1>2. ProcessesOK /\ ~SomeAlive
  BY <1>1 DEF Init, ProcessesOK, OneBridge, SomeAlive
<1>3. PlacesOK
  BY <1>2 DEF Init, PlacesOK, Places
<1> QED BY <1>2, <1>3 DEF Supervised

\* A step that gives process i, alive or not, a record with the same life or none.
LEMMA ProcessStep ==
  ASSUME ProcessesOK, NEW i \in DOMAIN procs, NEW p, Process(p),
         procs' = [procs EXCEPT ![i] = p], handle' = handle,
         p.state \in {"booting", "playing", "ending"} => Alive(i)
  PROVE  /\ ProcessesOK' /\ DOMAIN procs' = DOMAIN procs /\ (SomeAlive' => SomeAlive)
         /\ \A j \in DOMAIN procs : procs'[j] = IF j = i THEN p ELSE procs[j]
         /\ \A j : Alive(j)' => Alive(j)
<1>1. /\ IsSeq(procs') /\ Len(procs') = Len(procs) /\ DOMAIN procs' = DOMAIN procs
      /\ \A j \in DOMAIN procs : procs'[j] = IF j = i THEN p ELSE procs[j]
  BY OneChanged DEF ProcessesOK
<1>2. \A j : Alive(j)' => Alive(j)
  BY <1>1 DEF Alive
<1>3. \A j \in DOMAIN procs' : Process(procs'[j])
  BY <1>1 DEF ProcessesOK
<1>4. OneBridge' /\ (SomeAlive' => SomeAlive)
  BY <1>1, <1>2 DEF ProcessesOK, OneBridge, SomeAlive
<1> QED BY <1>1, <1>2, <1>3, <1>4 DEF ProcessesOK, Process

LEMMA ProcessesKept ==
  ASSUME ProcessesOK, UNCHANGED <<procs, handle>>
  PROVE  ProcessesOK' /\ SomeAlive' = SomeAlive /\ \A i : Alive(i)' = Alive(i)
BY DEF ProcessesOK, OneBridge, SomeAlive, Alive, Process

\* What the manager sends a Bridge it knows.
LEMMA EndingStep ==
  ASSUME ProcessesOK, handle' = handle,
         \/ procs' = procs
         \/ Alive(handle) /\ procs' = [procs EXCEPT ![handle].state = "ending"]
  PROVE  /\ ProcessesOK' /\ DOMAIN procs' = DOMAIN procs /\ (SomeAlive' => SomeAlive)
         /\ \A j \in DOMAIN procs :
              procs'[j].conf = procs[j].conf /\ procs'[j].linked = procs[j].linked
         /\ \A j : Alive(j)' => Alive(j)
<1>1. CASE procs' = procs
  BY <1>1, ProcessesKept
<1>2. CASE Alive(handle) /\ procs' = [procs EXCEPT ![handle].state = "ending"]
  <2> DEFINE p == [procs[handle] EXCEPT !.state = "ending"]
  <2>1. handle \in DOMAIN procs /\ Process(procs[handle])
    BY <1>2 DEF Alive, ProcessesOK
  <2>2. /\ p = [state |-> "ending", conf |-> procs[handle].conf, linked |-> procs[handle].linked]
        /\ Process(p)
    BY <2>1 DEF Process, States
  <2>3. procs' = [procs EXCEPT ![handle] = p]
    BY <1>2
  <2> HIDE DEF p
  <2>4. p.conf = procs[handle].conf /\ p.linked = procs[handle].linked /\ p.state = "ending"
    BY <2>2
  <2> QED BY <1>2, <2>1, <2>2, <2>3, <2>4, ProcessStep
<1> QED BY <1>1, <1>2

\* What a Bridge takes over from its file.
LEMMA LoadIs ==
  /\ Load(file) # NoConf /\ DOMAIN Load(file).sources = DOMAIN file.sources
  /\ \A n \in DOMAIN file.sources :
       /\ Load(file).sources[n].camera = file.sources[n].camera
       /\ Load(file).sources[n].path = file.sources[n].path
<1> DEFINE ss == [n \in DOMAIN file.sources |->
      [ camera |-> file.sources[n].camera, path |-> file.sources[n].path,
        host |-> file.sources[n].url.host,
        protocol |-> IF file.sources[n].carried.protocol = TcpOnly THEN TcpOnly ELSE 0 ]]
<1>1. Load(file).sources = ss
  BY DEF Load
<1>2. Load(file) # NoConf
  <2>1. "sources" \in DOMAIN Load(file)
    BY DEF Load
  <2>2. "sources" \notin DOMAIN NoConf
    BY DEF NoConf
  <2> QED BY <2>1, <2>2
<1> QED BY <1>1, <1>2

LEMMA DeadIs == Process(Dead) /\ Dead.state = "dead" /\ Dead.conf = NoConf /\ Dead.linked = {}
BY DEF Process, Dead, States

\* What a Bridge process does by itself.
LEMMA BridgeStep ==
  ASSUME ProcessesOK, NEW i \in DOMAIN procs, Boot(i) \/ BootRefused(i) \/ End(i) \/ Exit(i)
  PROVE  /\ ProcessesOK' /\ DOMAIN procs' = DOMAIN procs /\ (SomeAlive' => SomeAlive)
         /\ UNCHANGED <<template, served, cache, file, agent, pc, target, applied, mapping,
                        running, owners, handle, ingest, edits>>
         /\ \A j : Alive(j)' => Alive(j)
         /\ \A j \in DOMAIN procs : j # i => procs'[j] = procs[j]
         /\ \/ procs'[i] = Dead
            \/ /\ procs'[i].conf = Load(file) /\ procs'[i].linked = {}
               /\ Accepts(file) /\ Alive(i)
<1>1. Process(procs[i])
  BY DEF ProcessesOK
<1>2. CASE Boot(i)
  <2> DEFINE p == [state |-> "playing", conf |-> Load(file), linked |-> procs[i].linked]
  <2>1. procs' = [procs EXCEPT ![i] = p] /\ procs[i].state = "booting" /\ Accepts(file)
    BY <1>2 DEF Boot
  <2>2. Process(p) /\ p.conf = Load(file) /\ p.linked = {}
    BY <1>1, <2>1, LoadIs DEF Process, States
  <2>3. Alive(i)
    BY <2>1 DEF Alive
  <2>4. UNCHANGED <<template, served, cache, file, agent, pc, target, applied, mapping,
                    running, owners, handle, ingest, edits>>
    BY <1>2 DEF Boot, coordinator
  <2> HIDE DEF p
  <2> QED BY <2>1, <2>2, <2>3, <2>4, ProcessStep
<1>3. CASE BootRefused(i) \/ End(i) \/ Exit(i)
  <2>1. procs' = [procs EXCEPT ![i] = Dead]
    BY <1>3 DEF BootRefused, End, Exit
  <2>2. UNCHANGED <<template, served, cache, file, agent, pc, target, applied, mapping,
                    running, owners, handle, ingest, edits>>
    BY <1>3 DEF BootRefused, End, Exit, coordinator
  <2> QED BY <2>1, <2>2, DeadIs, ProcessStep
<1> QED BY <1>2, <1>3

LEMMA SourcePadStep ==
  ASSUME ProcessesOK, NEW i \in DOMAIN procs, NEW n, SourcePadAdded(i, n)
  PROVE  /\ ProcessesOK' /\ DOMAIN procs' = DOMAIN procs /\ (SomeAlive' => SomeAlive)
         /\ UNCHANGED <<template, served, cache, file, agent, coordinator, handle, ingest, edits,
                        faults>>
         /\ \A j : Alive(j)' => Alive(j)
         /\ \A j \in DOMAIN procs : j # i => procs'[j] = procs[j]
         /\ procs'[i].conf = procs[i].conf /\ n \in DOMAIN procs[i].conf.sources
         /\ procs'[i].linked = procs[i].linked \cup {[source |-> n, pad |-> n]}
         /\ procs[i].state = "playing"
<1> DEFINE p == [procs[i] EXCEPT !.linked = procs[i].linked \cup {[source |-> n, pad |-> n]}]
<1>1. Process(procs[i]) /\ procs[i].state = "playing"
  BY DEF ProcessesOK, SourcePadAdded
<1>2. /\ procs' = [procs EXCEPT ![i] = p]
      /\ UNCHANGED <<template, served, cache, file, agent, coordinator, handle, ingest, edits,
                     faults>>
      /\ n \in DOMAIN procs[i].conf.sources
  BY <1>1 DEF SourcePadAdded, SinkPad
<1>3. /\ Process(p) /\ p.conf = procs[i].conf /\ p.state = "playing"
      /\ p.linked = procs[i].linked \cup {[source |-> n, pad |-> n]}
  BY <1>1 DEF Process, States
<1>4. Alive(i)
  BY <1>1 DEF Alive
<1> HIDE DEF p
<1> QED BY <1>1, <1>2, <1>3, <1>4, ProcessStep

\* A new Bridge is started when no other is left.
LEMMA LaunchStep ==
  ASSUME ProcessesOK, Launch
  PROVE  /\ ProcessesOK' /\ DOMAIN procs' = 1..(Len(procs) + 1) /\ Len(procs') = Len(procs) + 1
         /\ DOMAIN procs = 1..Len(procs) /\ Len(procs) \in Nat
         /\ ~SomeAlive /\ \A j : Alive(j)' => j = Len(procs) + 1
         /\ \A j \in DOMAIN procs : procs'[j] = procs[j]
         /\ procs'[Len(procs) + 1] = [state |-> "booting", conf |-> NoConf, linked |-> {}]
<1> DEFINE p == [state |-> "booting", conf |-> NoConf, linked |-> {}]
<1>1. procs' = Append(procs, p) /\ handle = 0 /\ handle' = Len(procs) + 1
  BY DEF Launch
<1>2. Process(p)
  BY DEF Process, States
<1> HIDE DEF p
<1>3. IsSeq(procs) /\ Len(procs) \in Nat /\ DOMAIN procs = 1..Len(procs)
  BY Elements DEF ProcessesOK
<1>4. /\ IsSeq(procs') /\ Len(procs') = Len(procs) + 1 /\ DOMAIN procs' = 1..(Len(procs) + 1)
      /\ \A j \in DOMAIN procs : procs'[j] = procs[j]
      /\ procs'[Len(procs) + 1] = p
  BY <1>1, <1>3, Appended
<1>5. ~SomeAlive
  <2>1. \A j \in DOMAIN procs : ~Alive(j)
    BY <1>1, <1>3 DEF ProcessesOK, OneBridge
  <2> QED BY <2>1 DEF SomeAlive
<1>6. \A j \in DOMAIN procs' : j \in DOMAIN procs \/ j = Len(procs) + 1
  BY <1>3, <1>4
<1>7. \A j : Alive(j)' => j = Len(procs) + 1
  BY <1>4, <1>5, <1>6 DEF Alive, SomeAlive
<1>8. OneBridge' /\ handle' \in 0..Len(procs')
  BY <1>1, <1>3, <1>4, <1>7 DEF OneBridge
<1>9. \A j \in DOMAIN procs' : Process(procs'[j])
  BY <1>2, <1>4, <1>6 DEF ProcessesOK
<1>10. ProcessesOK'
  BY <1>4, <1>8, <1>9 DEF ProcessesOK, Process
<1> QED BY <1>3, <1>4, <1>5, <1>7, <1>10 DEF p

LEMMA CrashStep ==
  ASSUME ProcessesOK, Crash
  PROVE  /\ ProcessesOK' /\ DOMAIN procs' = DOMAIN procs /\ ~SomeAlive' /\ Len(procs') = Len(procs)
         /\ \A j \in DOMAIN procs : procs'[j] = Dead
<1> DEFINE t == [i \in DOMAIN procs |-> Dead]
<1>1. procs' = t /\ handle' = 0
  BY DEF Crash
<1>2. Len(procs) \in Nat /\ DOMAIN procs = 1..Len(procs)
  BY Elements DEF ProcessesOK
<1>3. t = [i \in 1..Len(procs) |-> t[i]]
  BY <1>2
<1>4. IsSeq(t) /\ Len(t) = Len(procs) /\ DOMAIN t = DOMAIN procs
  <2>1. DOMAIN t = DOMAIN procs
    OBVIOUS
  <2> HIDE DEF t
  <2> QED BY <1>2, <1>3, <2>1, SeqIs
<1>5. \A i \in DOMAIN procs : t[i] = Dead /\ Process(t[i]) /\ t[i].state = "dead"
  BY DeadIs
<1> HIDE DEF t
<1>6. ~SomeAlive' /\ OneBridge'
  BY <1>1, <1>4, <1>5 DEF SomeAlive, OneBridge, Alive
<1>7. ProcessesOK'
  BY <1>1, <1>2, <1>4, <1>5, <1>6 DEF ProcessesOK, Process
<1> QED BY <1>1, <1>4, <1>5, <1>6, <1>7

\* handle only ever lets go of a process that is gone.
LEMMA ReleaseStep ==
  ASSUME ProcessesOK, procs' = procs, handle' = 0, ~Alive(handle)
  PROVE  ProcessesOK' /\ ~SomeAlive /\ ~SomeAlive'
<1>1. ~SomeAlive
  BY DEF ProcessesOK, OneBridge, SomeAlive, Alive
<1>2. ~SomeAlive' /\ OneBridge'
  BY <1>1 DEF SomeAlive, OneBridge, Alive
<1>3. Len(procs) \in Nat
  BY Elements DEF ProcessesOK
<1> QED BY <1>1, <1>2, <1>3 DEF ProcessesOK, Process

LEMMA NextSupervised ==
  ASSUME Supervised, [Next]_vars
  PROVE  Supervised'
<1> USE DEF Supervised
<1>1. CASE Quiet
  BY <1>1, ProcessesKept DEF Quiet, coordinator, PlacesOK
<1>2. CASE StartAgent
  <2>1. UNCHANGED <<procs, handle, running>> /\ pc = "begin" /\ agent' = "up" /\ pc' = "begin"
    BY <1>2 DEF StartAgent, PlacesOK
  <2> QED BY <2>1, ProcessesKept DEF PlacesOK, Places
<1>3. CASE StartFromCache \/ StartFails \/ StartWithoutCache
  <2>1. /\ UNCHANGED <<procs, handle, running>> /\ pc = "begin" /\ agent = "up"
        /\ \/ agent' = "up" /\ pc' \in {"first", "poll"}
           \/ agent' = "failed" /\ pc' = "begin"
    BY <1>3 DEF StartFromCache, StartFails, StartWithoutCache, Apply, coordinator
  <2> QED BY <2>1, ProcessesKept DEF PlacesOK, Places
<1>4. CASE PollFindsChange
  <2>1. /\ handle' = handle /\ running' = running /\ agent = "up" /\ agent' = "up"
        /\ pc' = "stopping"
        /\ \/ procs' = procs
           \/ Alive(handle) /\ procs' = [procs EXCEPT ![handle].state = "ending"]
    BY <1>4 DEF PollFindsChange, Polling
  <2> QED BY <2>1, EndingStep DEF PlacesOK, Places
<1>5. CASE ApplyChange \/ ApplyFails
  <2>1. /\ procs' = procs /\ handle' = 0 /\ ~Alive(handle) /\ running' = FALSE
        /\ agent = "up" /\ agent' = "up" /\ pc' \in {"launch", "poll"}
    BY <1>5 DEF ApplyChange, ApplyFails, Apply, Reaped
  <2> QED BY <2>1, ReleaseStep DEF PlacesOK, Places
<1>6. CASE Launch
  <2>1. running' = TRUE /\ agent = "up" /\ agent' = "up" /\ pc' = "poll"
    BY <1>6 DEF Launch
  <2> QED BY <1>6, <2>1, LaunchStep DEF PlacesOK, Places
<1>7. CASE LaunchFails \/ FirstLaunchFails
  <2>1. /\ UNCHANGED <<procs, handle, running>> /\ agent = "up"
        /\ \/ agent' = "up" /\ pc' = "poll"
           \/ pc = "first" /\ agent' = "failed" /\ pc' = "begin"
    BY <1>7 DEF LaunchFails, FirstLaunchFails
  <2> QED BY <2>1, ProcessesKept DEF PlacesOK, Places
<1>8. CASE Lock
  <2>1. /\ handle' = handle /\ running' = running /\ agent' = "locked" /\ pc' = "halting"
        /\ \/ procs' = procs
           \/ Alive(handle) /\ procs' = [procs EXCEPT ![handle].state = "ending"]
    BY <1>8 DEF Lock
  <2> QED BY <2>1, EndingStep DEF PlacesOK, Places
<1>9. CASE Halted
  <2>1. /\ procs' = procs /\ running' = FALSE /\ agent' = "locked" /\ pc' = "ended"
        /\ handle' = handle \/ (handle' = 0 /\ ~Alive(handle))
    BY <1>9 DEF Halted, Reaped, PlacesOK
  <2> QED BY <2>1, ProcessesKept, ReleaseStep DEF PlacesOK, Places
<1>10. CASE Crash
  <2>1. running' = FALSE /\ agent' = "off" /\ pc' = "begin"
    BY <1>10 DEF Crash
  <2> QED BY <1>10, <2>1, CrashStep DEF PlacesOK, Places
<1>11. CASE Watch
  <2>1. /\ procs' = procs /\ handle' = 0 /\ ~Alive(handle)
        /\ running' = running /\ agent' = agent /\ pc' = pc
    BY <1>11 DEF Watch, coordinator
  <2> QED BY <2>1, ReleaseStep DEF PlacesOK
<1>12. ASSUME NEW i \in DOMAIN procs, Boot(i) \/ BootRefused(i) \/ End(i) \/ Exit(i)
       PROVE  Supervised'
  <2>1. /\ ProcessesOK' /\ (SomeAlive' => SomeAlive)
        /\ UNCHANGED <<agent, pc, running, handle>>
    BY <1>12, BridgeStep DEF coordinator
  <2> QED BY <2>1 DEF PlacesOK
<1>13. ASSUME NEW i \in DOMAIN procs, NEW n, SourcePadAdded(i, n)
       PROVE  Supervised'
  <2>1. /\ ProcessesOK' /\ (SomeAlive' => SomeAlive)
        /\ UNCHANGED <<agent, pc, running, handle>>
    BY <1>13, SourcePadStep DEF coordinator
  <2> QED BY <2>1 DEF PlacesOK
<1> QED BY <1>1, <1>2, <1>3, <1>4, <1>5, <1>6, <1>7, <1>8, <1>9, <1>10, <1>11, <1>12, <1>13, Steps

-----------------------------------------------------------------------------
(* The configurations on their way *)

LEMMA CamerasAre ==
  ASSUME NEW c, Listed(c)
  PROVE  /\ IsSeq(c.cameras) /\ Len(c.cameras) \in Nat /\ DOMAIN c.cameras = 1..Len(c.cameras)
         /\ \A m : m \in CamerasOf(c) <=> \E i \in 1..Len(c.cameras) : m = c.cameras[i]
         /\ \A i \in 1..Len(c.cameras) :
              c.cameras[i].enabled = TRUE /\ c.cameras[i].order \in Int
<1>1. IsSeq(c.cameras)
  BY DEF Listed, CamerasOf, IsSeq
<1>2. /\ Len(c.cameras) \in Nat /\ DOMAIN c.cameras = 1..Len(c.cameras)
      /\ \A m : m \in CamerasOf(c) <=> \E i \in 1..Len(c.cameras) : m = c.cameras[i]
  BY <1>1, Elements DEF CamerasOf
<1> QED BY <1>1, <1>2 DEF Listed

LEMMA DeserializeOK ==
  ASSUME NEW row, Listed(row.body)
  PROVE  /\ Listed(Deserialize(row)) /\ Deserialize(row).version = row.body.version
         /\ Deserialize(row) # Nothing
<1> DEFINE c == row.body
           camera(raw) == [id |-> raw.id, key |-> Recovered(raw), url |-> raw.url,
                           enabled |-> raw.enabled, order |-> raw.order, path |-> raw.path]
           cs == [i \in DOMAIN c.cameras |-> camera(c.cameras[i])]
           d == [c EXCEPT !.cameras = cs]
<1>1. Deserialize(row) = d
  BY DEF Deserialize
<1>2. /\ Len(c.cameras) \in Nat /\ DOMAIN c.cameras = 1..Len(c.cameras)
      /\ \A i \in 1..Len(c.cameras) :
           c.cameras[i].enabled = TRUE /\ c.cameras[i].order \in Int
  BY CamerasAre
<1>3. \A i \in 1..Len(c.cameras) : cs[i].enabled = TRUE /\ cs[i].order \in Int
  BY <1>2
<1>4. cs = [i \in 1..Len(c.cameras) |-> cs[i]]
  BY <1>2
<1> HIDE DEF cs
<1>5. IsSeq(cs) /\ DOMAIN cs = 1..Len(c.cameras)
  <2>1. IsSeq(cs) /\ Len(cs) = Len(c.cameras)
    BY <1>2, <1>4, SeqIs
  <2> QED BY <2>1, Elements
<1>6. d = [schema |-> c.schema, version |-> c.version, device |-> c.device,
           branch |-> c.branch, cameras |-> cs]
  <2>1. PICK v1, v2, v3, v4, v5 : c = [schema |-> v1, version |-> v2, device |-> v3,
                                       branch |-> v4, cameras |-> v5]
    BY DEF Listed
  <2> HIDE DEF c
  <2> QED BY <2>1
<1> HIDE DEF d
<1>7. d.cameras = cs /\ d.version = c.version
  BY <1>6
<1>8. \A m \in CamerasOf(d) : m.enabled = TRUE /\ m.order \in Int
  BY <1>3, <1>5, <1>7, Elements DEF CamerasOf
<1>9. d = [schema |-> d.schema, version |-> d.version, device |-> d.device,
           branch |-> d.branch, cameras |-> d.cameras]
  BY <1>6
<1>10. Listed(d)
  BY <1>5, <1>7, <1>8, <1>9 DEF Listed, CamerasOf, IsSeq
<1>11. d # Nothing
  <2>1. "cameras" \in DOMAIN d
    BY <1>6
  <2>2. "cameras" \notin DOMAIN Nothing
    BY DEF Nothing
  <2> QED BY <2>1, <2>2
<1> QED BY <1>1, <1>7, <1>10, <1>11

LEMMA ServedOK ==
  ASSUME NEW c \in Configurations
  PROVE  Listed(c) /\ Parsed(c) /\ c # Nothing /\ Listed(Serialize(c).body) /\ Serialize(c).json
<1>1. Listed(c) /\ Parsed(c)
  BY ConfigurationAssumption
<1>2. c # Nothing
  <2>1. "cameras" \in DOMAIN c
    BY <1>1 DEF Listed
  <2>2. "cameras" \notin DOMAIN Nothing
    BY DEF Nothing
  <2> QED BY <2>1, <2>2
<1> QED BY <1>1, <1>2 DEF Serialize

\* A valid configuration comes back from the cache as it was saved.
LEMMA RoundTrip ==
  ASSUME NEW c \in Configurations, Valid(c)
  PROVE  Readable(Serialize(c)) /\ Deserialize(Serialize(c)) = c
<1> DEFINE row == Serialize(c)
           camera(raw) == [id |-> raw.id, key |-> Recovered(raw), url |-> raw.url,
                           enabled |-> raw.enabled, order |-> raw.order, path |-> raw.path]
           cs == [i \in DOMAIN c.cameras |-> camera(c.cameras[i])]
<1>1. row.json = TRUE /\ row.body = c
  BY DEF Serialize
<1>2. Listed(c) /\ Parsed(c)
  BY ServedOK
<1>3. \A m \in CamerasOf(c) : HasKey(m) /\ camera(m) = m
  <2> SUFFICES ASSUME NEW m \in CamerasOf(c) PROVE HasKey(m) /\ camera(m) = m
    OBVIOUS
  <2>1. m.key \in GoodKeys
    BY DEF Valid, ValidKey
  <2>2. m = [id |-> m.id, key |-> m.key, url |-> m.url, enabled |-> m.enabled,
             order |-> m.order, path |-> m.path]
    BY <1>2 DEF Parsed
  <2>3. HasKey(m)
    BY <2>1, <2>2, ConfigurationAssumption DEF HasKey
  <2>4. Recovered(m) = m.key
    BY <2>3 DEF Recovered
  <2> QED BY <2>2, <2>3, <2>4
<1>4. Readable(row)
  BY <1>1, <1>3 DEF Readable
<1>5. cs = c.cameras
  <2>1. /\ DOMAIN c.cameras = 1..Len(c.cameras)
        /\ \A i \in 1..Len(c.cameras) : c.cameras[i] \in CamerasOf(c)
    BY <1>2, CamerasAre
  <2>2. c.cameras = [i \in DOMAIN c.cameras |-> c.cameras[i]]
    BY <1>2 DEF Listed
  <2>3. \A i \in DOMAIN c.cameras : camera(c.cameras[i]) = c.cameras[i]
    BY <1>3, <2>1
  <2> QED BY <2>2, <2>3
<1>6. Deserialize(row) = [c EXCEPT !.cameras = cs]
  BY <1>1 DEF Deserialize
<1> HIDE DEF cs
<1>7. [c EXCEPT !.cameras = c.cameras] = c
  BY <1>2 DEF Listed
<1> QED BY <1>4, <1>5, <1>6, <1>7

LEMMA InitDataOK == Init => DataOK
BY ConfigurationAssumption DEF Init, DataOK

LEMMA NextDataOK ==
  ASSUME DataOK, [Next]_vars
  PROVE  DataOK'
<1>1. /\ template' = template /\ served' \in Configurations
  <2>1. \/ served' = served
        \/ \E c \in Configurations : Edit(c)
    BY DEF Next, vars, StartAgent, Coordinator, StartFromCache, StartFails, StartWithoutCache,
           PollFindsChange, ApplyChange, ApplyFails, Launch, PollFails, PollFindsNothing,
           LaunchFails, FirstLaunchFails, Lock, Halted, Crash, Bridge, Boot, BootRefused, End,
           Exit, SourcePadAdded, Detect, Watch, Ingest, Receive, Reject, Suppress, Accept,
           InsertFails, CooldownEnds, Rest, Ended
  <2>2. template' = template
    BY DEF Next, vars, StartAgent, Coordinator, StartFromCache, StartFails, StartWithoutCache,
           PollFindsChange, ApplyChange, ApplyFails, Launch, PollFails, PollFindsNothing,
           LaunchFails, FirstLaunchFails, Lock, Halted, Crash, Bridge, Boot, BootRefused, End,
           Exit, SourcePadAdded, Detect, Watch, Ingest, Receive, Reject, Suppress, Accept,
           InsertFails, CooldownEnds, Rest, Ended, Edit
  <2> QED BY <2>1, <2>2 DEF DataOK, Edit
<1>2. CASE PollFindsChange
  <2>1. /\ cache' = Serialize(served) /\ target' = served /\ Valid(served)
        /\ pc' = "stopping" /\ applied' = applied
    BY <1>2 DEF PollFindsChange, Upsert
  <2>2. Listed(cache'.body)
    BY <2>1, ServedOK DEF DataOK
  <2> QED BY <1>1, <2>1, <2>2 DEF DataOK
<1>3. CASE StartFromCache
  <2>1. /\ applied' = Deserialize(cache) /\ cache' = cache /\ pc' \in {"first", "poll"}
        /\ cache # NoCache /\ cache.json /\ Valid(Deserialize(cache))
    BY <1>3 DEF StartFromCache, Apply, UsableCache, Readable
  <2>2. Listed(Deserialize(cache))
    BY <2>1, DeserializeOK DEF DataOK
  <2> QED BY <1>1, <2>1, <2>2 DEF DataOK, Usable
<1>4. CASE ApplyChange
  <2>1. /\ pc = "stopping" /\ applied' = target /\ cache' = cache /\ pc' \in {"launch", "poll"}
    BY <1>4 DEF ApplyChange, Apply
  <2>2. Usable(target)
    BY <2>1, ServedOK DEF DataOK, Usable
  <2> QED BY <1>1, <2>1, <2>2 DEF DataOK
<1>5. CASE \/ StartAgent \/ StartFails \/ StartWithoutCache \/ ApplyFails \/ Launch
           \/ LaunchFails \/ FirstLaunchFails \/ Lock \/ Halted \/ Crash
  <2>1. CASE cache' = cache /\ pc' \in {"begin", "poll", "halting", "ended"}
    BY <1>1, <2>1 DEF DataOK
  <2>2. CASE StartFails
    <3>1. UNCHANGED <<cache, pc, target, applied>>
      BY <2>2 DEF StartFails, coordinator
    <3> QED BY <1>1, <3>1 DEF DataOK, Usable
  <2>3. CASE StartAgent \/ StartWithoutCache \/ ApplyFails \/ Launch \/ LaunchFails
    BY <2>1, <2>3 DEF StartAgent, StartWithoutCache, ApplyFails, Launch, LaunchFails
  <2>4. CASE FirstLaunchFails \/ Lock \/ Halted \/ Crash
    BY <2>1, <2>4 DEF FirstLaunchFails, Lock, Halted, Crash
  <2> QED BY <1>5, <2>2, <2>3, <2>4
<1>6. CASE UNCHANGED <<cache, pc, target, applied>>
  BY <1>1, <1>6 DEF DataOK, Usable
<1>7. CASE Quiet \/ Watch \/ \E i \in DOMAIN procs : Boot(i) \/ BootRefused(i) \/ End(i) \/ Exit(i)
  BY <1>6, <1>7 DEF Quiet, Watch, Boot, BootRefused, End, Exit, coordinator
<1>8. CASE \E i \in DOMAIN procs : \E n \in DOMAIN file.sources : SourcePadAdded(i, n)
  BY <1>6, <1>8 DEF SourcePadAdded, coordinator
<1> QED BY <1>2, <1>3, <1>4, <1>5, <1>7, <1>8, Steps

-----------------------------------------------------------------------------
(* The file, the mapping and what the Bridges have loaded *)

\* A generated file has one section per camera, and names the camera that the
\* mapping names under its number: no two cameras share a source order.
LEMMA GeneratedMatches ==
  ASSUME NEW c, Usable(c), NEW t
  PROVE  LET f == Generate(t, c.cameras)
         IN  /\ Sources(f.sources)
             /\ \A n \in DOMAIN f.sources :
                  n \in DOMAIN SourceMapping(c) /\ SourceMapping(c)[n] = f.sources[n].camera
<1> DEFINE cs == c.cameras
           I == 1..Len(cs)
           numbers == {SectionNumber(cs, i) : i \in I}
           at(n) == cs[CHOOSE i \in I : SectionNumber(cs, i) = n]
           ss == [n \in numbers |->
                   [type |-> 4, url |-> at(n).url, camera |-> at(n).id, path |-> at(n).path,
                    carried |-> t.carried]]
           enabled == {m \in CamerasOf(c) : m.enabled}
<1>1. Generate(t, c.cameras).sources = ss
  BY DEF Generate
<1>2. /\ Len(cs) \in Nat
      /\ \A m : m \in CamerasOf(c) <=> \E i \in I : m = cs[i]
      /\ \A i \in I : cs[i].enabled = TRUE /\ cs[i].order \in Int
  BY CamerasAre DEF Usable
<1>3. \A i, j \in I : cs[i].order = cs[j].order => i = j
  BY DEF Usable, Valid, Differ
<1>4. SourceMapping(c) = [n \in {m.order : m \in enabled} |->
                            (CHOOSE m \in enabled : m.order = n).id]
  BY DEF SourceMapping
<1>5. enabled = CamerasOf(c)
  BY <1>2
<1>6. numbers = {cs[i].order : i \in I}
  BY DEF SectionNumber
<1>7. IsFiniteSet(numbers)
  <2> DEFINE order == [i \in I |-> cs[i].order]
  <2>1. order \in Surjection(I, numbers)
    BY <1>6 DEF Surjection
  <2> HIDE DEF order
  <2>2. ExistsSurjection(I, numbers)
    BY <2>1 DEF ExistsSurjection
  <2> HIDE DEF numbers
  <2> QED BY <1>2, <2>2, FS_NatSurjection
<1>8. numbers \subseteq Int
  BY <1>2, <1>6
<1>9. ASSUME NEW n \in numbers
      PROVE  n \in DOMAIN SourceMapping(c) /\ SourceMapping(c)[n] = ss[n].camera
  <2>1. PICK k \in I : cs[k].order = n
    BY <1>6
  <2>2. (CHOOSE i \in I : SectionNumber(cs, i) = n) = k
    BY <1>3, <2>1 DEF SectionNumber
  <2>3. ss[n].camera = cs[k].id
    BY <2>2
  <2>4. cs[k] \in enabled
    BY <1>2, <1>5
  <2>5. \A m \in enabled : m.order = n => m = cs[k]
    BY <1>2, <1>3, <1>5, <2>1
  <2> HIDE DEF enabled
  <2>6. (CHOOSE m \in enabled : m.order = n) = cs[k]
    BY <2>1, <2>4, <2>5
  <2>7. n \in {m.order : m \in enabled}
    BY <2>1, <2>4
  <2>8. n \in DOMAIN SourceMapping(c)
    BY <1>4, <2>7
  <2>9. SourceMapping(c)[n] = (CHOOSE m \in enabled : m.order = n).id
    BY <1>4, <2>7
  <2> HIDE DEF ss
  <2> QED BY <2>3, <2>6, <2>8, <2>9
<1>10. DOMAIN ss = numbers
  OBVIOUS
<1> HIDE DEF ss, numbers
<1> QED BY <1>1, <1>7, <1>8, <1>9, <1>10 DEF Sources

LEMMA InitLoaded == Init => Loaded
<1> SUFFICES ASSUME Init PROVE Loaded
  OBVIOUS
<1>1. DOMAIN procs = {}
  BY EmptyIsSeq DEF Init
<1>2. DOMAIN file.sources = {}
  BY EmptyIsSeq DEF Init, NoFile
<1>3. Sources(file.sources)
  BY <1>2, FS_EmptySet DEF Sources
<1> QED BY <1>1, <1>2, <1>3 DEF Init, Loaded, BridgeMatchesMapping, Consistent, SomeAlive

\* A step that leaves the file, the mapping and every pipeline as they are.
LEMMA LoadedKept ==
  ASSUME Loaded, UNCHANGED <<file, mapping>>, DOMAIN procs' = DOMAIN procs,
         \A j \in DOMAIN procs : procs'[j].conf \in {procs[j].conf, NoConf},
         \A j : Alive(j)' => Alive(j),
         pc' \in {"first", "launch"} => pc' = pc
  PROVE  Loaded'
<1>1. SomeAlive' => SomeAlive
  BY DEF SomeAlive
<1>2. (SomeAlive \/ pc \in {"first", "launch"} => Consistent)'
  BY <1>1 DEF Loaded, Consistent
<1>3. BridgeMatchesMapping'
  BY DEF Loaded, BridgeMatchesMapping
<1> QED BY <1>2, <1>3 DEF Loaded, Sources, PathsDiffer

\* A step that puts a file or a mapping in place when no Bridge is alive.
LEMMA LoadedAnew ==
  ASSUME Loaded, DOMAIN procs' = DOMAIN procs,
         \A j \in DOMAIN procs : procs'[j].conf \in {procs[j].conf, NoConf},
         ~SomeAlive', Sources(file.sources)', pc' \in {"first", "launch"} => Consistent'
  PROVE  Loaded'
<1>1. BridgeMatchesMapping'
  BY DEF SomeAlive, BridgeMatchesMapping
<1> QED BY <1>1 DEF Loaded, Sources, PathsDiffer

LEMMA ApplyInstalls ==
  ASSUME NEW c, Usable(c), NEW p, Apply(c, p)
  PROVE  Sources(file.sources)' /\ Consistent'
<1> DEFINE f == Generate(template, c.cameras)
<1>1. file' = f /\ mapping' = SourceMapping(c)
  BY DEF Apply
<1>2. /\ Sources(f.sources)
      /\ \A n \in DOMAIN f.sources :
           n \in DOMAIN SourceMapping(c) /\ SourceMapping(c)[n] = f.sources[n].camera
  BY GeneratedMatches
<1> HIDE DEF f
<1> QED BY <1>1, <1>2 DEF Consistent, Sources

\* The places where nothing is alive, and what the steps leave of the processes.
LEMMA QuietPlaces ==
  ASSUME Supervised
  PROVE  /\ pc \in {"begin", "first", "launch"} => ~SomeAlive
         /\ Len(procs) \in Nat /\ DOMAIN procs = 1..Len(procs)
<1>1. pc = "launch" => ~SomeAlive
  BY DEF Supervised, ProcessesOK, PlacesOK, OneBridge, SomeAlive, Alive
<1> QED BY <1>1, Elements DEF Supervised, PlacesOK, ProcessesOK

LEMMA NextLoaded ==
  ASSUME Supervised, DataOK, Loaded, [Next]_vars
  PROVE  Loaded'
<1> USE DEF Supervised
<1>1. CASE /\ UNCHANGED <<file, mapping, procs>>
           /\ pc' \in {"first", "launch"} => pc' = pc
  <2>1. \A j : Alive(j)' => Alive(j)
    BY <1>1 DEF Alive
  <2> QED BY <1>1, <2>1, LoadedKept
<1>2. CASE Quiet
  BY <1>1, <1>2 DEF Quiet, coordinator
<1>3. CASE StartAgent \/ StartWithoutCache
  BY <1>1, <1>3 DEF StartAgent, StartWithoutCache
<1>4. CASE StartFails
  BY <1>1, <1>4 DEF StartFails, coordinator
<1>5. CASE ApplyFails \/ LaunchFails
  BY <1>1, <1>5 DEF ApplyFails, LaunchFails
<1>6. CASE Halted \/ Watch
  <2>1. CASE Halted
    BY <1>1, <2>1 DEF Halted
  <2>2. CASE Watch
    BY <1>1, <2>2 DEF Watch, coordinator
  <2> QED BY <1>6, <2>1, <2>2
<1>7. CASE StartFromCache
  <2> DEFINE c == Deserialize(cache)
  <2>1. /\ procs' = procs /\ Apply(c, "first") /\ Valid(c) /\ cache # NoCache /\ cache.json
        /\ pc = "begin"
    BY <1>7 DEF StartFromCache, UsableCache, Readable
  <2>2. Usable(c)
    BY <2>1, DeserializeOK DEF DataOK, Usable
  <2>3. ~SomeAlive'
    BY <2>1, QuietPlaces DEF SomeAlive, Alive
  <2> HIDE DEF c
  <2>4. Sources(file.sources)' /\ Consistent'
    BY <2>1, <2>2, ApplyInstalls
  <2> QED BY <2>1, <2>3, <2>4, LoadedAnew
<1>8. CASE ApplyChange
  <2>1. /\ procs' = procs /\ Apply(target, "launch") /\ pc = "stopping" /\ ~Alive(handle)
        /\ handle' = 0
    BY <1>8 DEF ApplyChange, Reaped
  <2>2. Usable(target)
    BY <2>1, ServedOK DEF DataOK, Usable
  <2>3. ~SomeAlive'
    BY <2>1, ReleaseStep
  <2>4. Sources(file.sources)' /\ Consistent'
    BY <2>1, <2>2, ApplyInstalls
  <2> QED BY <2>1, <2>3, <2>4, LoadedAnew
<1>9. CASE FirstLaunchFails
  <2>1. procs' = procs /\ pc = "first" /\ pc' = "begin" /\ file' = file
    BY <1>9 DEF FirstLaunchFails
  <2>2. ~SomeAlive'
    BY <2>1, QuietPlaces DEF SomeAlive, Alive
  <2>3. Sources(file.sources)'
    BY <2>1 DEF Loaded, Sources
  <2> QED BY <2>1, <2>2, <2>3, LoadedAnew
<1>10. CASE Crash
  <2>1. pc' = "begin" /\ file' = file
    BY <1>10 DEF Crash
  <2>2. Sources(file.sources)'
    BY <2>1 DEF Loaded, Sources
  <2>3. \A j \in DOMAIN procs : procs'[j].conf = NoConf
    BY <1>10, CrashStep, DeadIs
  <2> QED BY <1>10, <2>1, <2>2, <2>3, CrashStep, LoadedAnew
<1>11. CASE PollFindsChange
  <2>1. /\ handle' = handle /\ UNCHANGED <<file, mapping>> /\ pc' = "stopping"
        /\ \/ procs' = procs
           \/ Alive(handle) /\ procs' = [procs EXCEPT ![handle].state = "ending"]
    BY <1>11 DEF PollFindsChange
  <2> QED BY <2>1, EndingStep, LoadedKept
<1>12. CASE Lock
  <2>1. /\ handle' = handle /\ UNCHANGED <<file, mapping>> /\ pc' = "halting"
        /\ \/ procs' = procs
           \/ Alive(handle) /\ procs' = [procs EXCEPT ![handle].state = "ending"]
    BY <1>12 DEF Lock
  <2> QED BY <2>1, EndingStep, LoadedKept
<1>13. CASE Launch
  <2>1. UNCHANGED <<file, mapping>> /\ pc \in {"first", "launch"} /\ pc' = "poll"
    BY <1>13 DEF Launch
  <2>2. /\ DOMAIN procs' = 1..(Len(procs) + 1) /\ DOMAIN procs = 1..Len(procs)
        /\ Len(procs) \in Nat
        /\ ~SomeAlive /\ \A j : Alive(j)' => j = Len(procs) + 1
        /\ \A j \in DOMAIN procs : procs'[j] = procs[j]
        /\ procs'[Len(procs) + 1].conf = NoConf
    BY <1>13, LaunchStep
  <2>3. Consistent' /\ Sources(file.sources)'
    BY <2>1 DEF Loaded, Consistent, Sources
  <2>4. BridgeMatchesMapping'
    BY <2>2 DEF BridgeMatchesMapping
  <2>5. \A j \in DOMAIN procs' : j \in DOMAIN procs \/ j = Len(procs) + 1
    BY <2>2
  <2>6. \A j \in DOMAIN procs' : procs'[j].conf # NoConf =>
          Sources(procs'[j].conf.sources) /\ PathsDiffer(procs'[j].conf.sources)
    BY <2>2, <2>5 DEF Loaded
  <2> QED BY <2>3, <2>4, <2>6 DEF Loaded, Sources, PathsDiffer
<1>14. ASSUME NEW i \in DOMAIN procs, Boot(i) \/ BootRefused(i) \/ End(i) \/ Exit(i)
       PROVE  Loaded'
  <2>1. /\ DOMAIN procs' = DOMAIN procs /\ UNCHANGED <<file, mapping, pc>>
        /\ \A j : Alive(j)' => Alive(j)
        /\ \A j \in DOMAIN procs : j # i => procs'[j] = procs[j]
        /\ \/ procs'[i].conf = NoConf
           \/ procs'[i].conf = Load(file) /\ Accepts(file) /\ Alive(i)
    BY <1>14, BridgeStep, DeadIs
  <2>2. CASE procs'[i].conf = NoConf
    BY <2>1, <2>2, LoadedKept
  <2>3. CASE procs'[i].conf = Load(file) /\ Accepts(file) /\ Alive(i)
    <3>1. Consistent /\ Sources(file.sources) /\ PathsDiffer(file.sources)
      BY <2>3 DEF Loaded, SomeAlive, Accepts, AcceptsSources, PathsDiffer
    <3>2. Sources(Load(file).sources) /\ PathsDiffer(Load(file).sources)
      BY <3>1, LoadIs DEF Sources, PathsDiffer
    <3>3. \A n \in DOMAIN procs'[i].conf.sources :
            n \in DOMAIN mapping /\ mapping[n] = procs'[i].conf.sources[n].camera
      BY <2>3, <3>1, LoadIs DEF Consistent
    <3>4. BridgeMatchesMapping'
      BY <2>1, <3>3 DEF Loaded, BridgeMatchesMapping
    <3>5. Consistent' /\ Sources(file.sources)'
      BY <2>1, <3>1 DEF Consistent, Sources
    <3>6. \A j \in DOMAIN procs' : procs'[j].conf # NoConf =>
            Sources(procs'[j].conf.sources) /\ PathsDiffer(procs'[j].conf.sources)
      BY <2>1, <2>3, <3>2 DEF Loaded
    <3> QED BY <3>4, <3>5, <3>6 DEF Loaded, Sources, PathsDiffer
  <2> QED BY <2>1, <2>2, <2>3
<1>15. ASSUME NEW i \in DOMAIN procs, NEW n, SourcePadAdded(i, n)
       PROVE  Loaded'
  <2>1. /\ DOMAIN procs' = DOMAIN procs /\ UNCHANGED <<file, mapping, pc>>
        /\ \A j : Alive(j)' => Alive(j)
        /\ \A j \in DOMAIN procs : procs'[j].conf = procs[j].conf
    BY <1>15, SourcePadStep DEF coordinator
  <2> QED BY <2>1, LoadedKept
<1> QED BY <1>2, <1>3, <1>4, <1>5, <1>6, <1>7, <1>8, <1>9, <1>10, <1>11, <1>12, <1>13, <1>14,
           <1>15, Steps

-----------------------------------------------------------------------------
(* What a detection and an event say of their camera *)

\* The steps as ingest sees them: those that leave its detections alone, those
\* that drop them all, and its own.
LEMMA IngestSteps ==
  ASSUME [Next]_vars
  PROVE  \/ UNCHANGED <<wire, queue, stored>>
         \/ wire' = {} /\ queue' = <<>> /\ stored' = stored
         \/ /\ Quiet
            /\ \/ \E i \in DOMAIN procs : \E l \in procs[i].linked : Detect(i, l)
               \/ \E d \in wire : Receive(d)
               \/ Reject \/ Suppress \/ Accept \/ InsertFails
<1>1. CASE \/ StartAgent \/ StartFromCache \/ StartFails \/ StartWithoutCache
           \/ PollFindsChange \/ ApplyChange \/ ApplyFails \/ Launch
           \/ LaunchFails \/ FirstLaunchFails
  BY <1>1 DEF StartAgent, StartFromCache, StartFails, StartWithoutCache, PollFindsChange,
              ApplyChange, ApplyFails, Launch, LaunchFails, FirstLaunchFails, ingest
<1>2. CASE Lock \/ Halted \/ Crash \/ Watch
  BY <1>2 DEF Lock, Halted, Crash, Watch, ingest
<1>3. CASE \/ \E i \in DOMAIN procs : Boot(i) \/ BootRefused(i) \/ End(i) \/ Exit(i)
           \/ \E i \in DOMAIN procs : \E n \in DOMAIN file.sources : SourcePadAdded(i, n)
  BY <1>3 DEF Boot, BootRefused, End, Exit, SourcePadAdded, ingest
<1>4. CASE Quiet
  <2>1. ASSUME NEW c \in Configurations, Edit(c) PROVE UNCHANGED <<wire, queue, stored>>
    BY <2>1 DEF Edit, ingest
  <2>2. CASE PollFails \/ PollFindsNothing \/ Ended \/ UNCHANGED vars
    <3>1. CASE PollFails
      BY <3>1 DEF PollFails, ingest
    <3>2. CASE PollFindsNothing \/ Ended \/ UNCHANGED vars
      BY <3>2 DEF PollFindsNothing, Ended, vars, ingest
    <3> QED BY <2>2, <3>1, <3>2
  <2>3. CASE \E m \in cooling : CooldownEnds(m)
    BY <2>3 DEF CooldownEnds, Rest
  <2> QED BY <1>1, <1>2, <1>3, <1>4, <2>1, <2>2, <2>3 DEF Next, Coordinator, Bridge, Ingest
<1> QED BY <1>1, <1>2, <1>3, <1>4, Steps

\* A generation installed stays known, and the mapping is one of them or empty.
LEMMA OwnersGrow ==
  ASSUME Attributed, [Next]_vars
  PROVE  owners \subseteq owners' /\ MappingOwned'
<1>1. CASE UNCHANGED <<owners, mapping>>
  BY <1>1 DEF Attributed, MappingOwned, Owned
<1>2. CASE owners' = owners /\ mapping' = <<>>
  <2>1. DOMAIN mapping' = {}
    BY <1>2, EmptyIsSeq
  <2> QED BY <1>2, <2>1 DEF MappingOwned
<1>3. ASSUME NEW c, NEW p, Apply(c, p) PROVE owners \subseteq owners' /\ MappingOwned'
  <2> DEFINE m == SourceMapping(c)
  <2>1. mapping' = m /\ owners' = owners \cup {<<n, m[n]>> : n \in DOMAIN m}
    BY <1>3 DEF Apply
  <2> HIDE DEF m
  <2> QED BY <2>1 DEF MappingOwned, Owned
<1>4. CASE FirstLaunchFails \/ Crash
  BY <1>2, <1>4 DEF FirstLaunchFails, Crash
<1>5. CASE StartFromCache \/ ApplyChange
  BY <1>3, <1>5 DEF StartFromCache, ApplyChange
<1>6. CASE StartAgent \/ StartWithoutCache \/ PollFindsChange \/ ApplyFails \/ Launch
  BY <1>1, <1>6 DEF StartAgent, StartWithoutCache, PollFindsChange, ApplyFails, Launch
<1>7. CASE LaunchFails \/ Lock \/ Halted
  BY <1>1, <1>7 DEF LaunchFails, Lock, Halted
<1>8. CASE Quiet \/ StartFails \/ Watch
  BY <1>1, <1>8 DEF Quiet, StartFails, Watch, coordinator
<1>9. CASE \/ \E i \in DOMAIN procs : Boot(i) \/ BootRefused(i) \/ End(i) \/ Exit(i)
           \/ \E i \in DOMAIN procs : \E n \in DOMAIN file.sources : SourcePadAdded(i, n)
  BY <1>1, <1>9 DEF Boot, BootRefused, End, Exit, SourcePadAdded, coordinator
<1> QED BY <1>4, <1>5, <1>6, <1>7, <1>8, <1>9, Steps

LEMMA InitAttributed == Init => Attributed
<1> SUFFICES ASSUME Init PROVE Attributed
  OBVIOUS
<1>1. DOMAIN procs = {} /\ DOMAIN mapping = {} /\ IsSeq(queue) /\ ToSet(queue) = {}
  BY EmptyIsSeq DEF Init
<1> QED BY <1>1 DEF Init, Attributed, MappingOwned, DetectionsOwned, EventsOwned

\* Every pipeline plays what a generation named, under the number it reports.
LEMMA BridgesStayOwned ==
  ASSUME Supervised, Loaded, Attributed, [Next]_vars
  PROVE  \A i \in DOMAIN procs' : BridgeOwned(procs[i])'
<1>1. owners \subseteq owners'
  BY OwnersGrow
<1>2. ASSUME DOMAIN procs' = DOMAIN procs,
             \A j \in DOMAIN procs :
               \/ procs'[j].conf = procs[j].conf /\ procs'[j].linked = procs[j].linked
               \/ procs'[j] = Dead
      PROVE  \A i \in DOMAIN procs' : BridgeOwned(procs[i])'
  BY <1>1, <1>2, DeadIs DEF Attributed, BridgeOwned, Owned
<1>3. CASE procs' = procs
  BY <1>2, <1>3
<1>4. CASE Quiet \/ StartFails \/ StartAgent \/ StartFromCache \/ StartWithoutCache
  BY <1>3, <1>4 DEF Quiet, StartFails, StartAgent, StartFromCache, StartWithoutCache
<1>5. CASE ApplyChange \/ ApplyFails \/ LaunchFails \/ FirstLaunchFails \/ Halted \/ Watch
  BY <1>3, <1>5 DEF ApplyChange, ApplyFails, LaunchFails, FirstLaunchFails, Halted, Watch
<1>6. CASE PollFindsChange \/ Lock
  <2>1. /\ handle' = handle
        /\ \/ procs' = procs
           \/ Alive(handle) /\ procs' = [procs EXCEPT ![handle].state = "ending"]
    BY <1>6 DEF PollFindsChange, Lock
  <2> QED BY <1>2, <2>1, EndingStep DEF Supervised
<1>7. CASE Crash
  BY <1>2, <1>7, CrashStep DEF Supervised
<1>8. CASE Launch
  <2>1. /\ DOMAIN procs' = 1..(Len(procs) + 1) /\ DOMAIN procs = 1..Len(procs)
        /\ Len(procs) \in Nat
        /\ \A j \in DOMAIN procs : procs'[j] = procs[j]
        /\ procs'[Len(procs) + 1].conf = NoConf /\ procs'[Len(procs) + 1].linked = {}
    BY <1>8, LaunchStep DEF Supervised
  <2>2. \A j \in DOMAIN procs' : j \in DOMAIN procs \/ j = Len(procs) + 1
    BY <2>1
  <2> QED BY <1>1, <2>1, <2>2 DEF Attributed, BridgeOwned, Owned
<1>9. ASSUME NEW i \in DOMAIN procs, Boot(i) \/ BootRefused(i) \/ End(i) \/ Exit(i)
      PROVE  \A j \in DOMAIN procs' : BridgeOwned(procs[j])'
  <2>1. /\ DOMAIN procs' = DOMAIN procs /\ owners' = owners
        /\ \A j \in DOMAIN procs : j # i => procs'[j] = procs[j]
        /\ \/ procs'[i] = Dead
           \/ procs'[i].conf = Load(file) /\ Alive(i) /\ procs'[i].linked = {}
    BY <1>9, BridgeStep DEF Supervised
  <2>2. CASE procs'[i] = Dead
    BY <1>2, <2>1, <2>2
  <2>3. CASE procs'[i].conf = Load(file) /\ Alive(i) /\ procs'[i].linked = {}
    <3>1. \A n \in DOMAIN file.sources : Owned(n, file.sources[n].camera)
      BY <2>3 DEF Loaded, SomeAlive, Consistent, Attributed, MappingOwned
    <3>2. \A n \in DOMAIN Load(file).sources : Owned(n, Load(file).sources[n].camera)
      BY <3>1, LoadIs
    <3>3. BridgeOwned(procs[i])'
      BY <2>1, <2>3, <3>2 DEF BridgeOwned, Owned
    <3> QED BY <2>1, <3>3 DEF Attributed, BridgeOwned, Owned
  <2> QED BY <2>1, <2>2, <2>3
<1>10. ASSUME NEW i \in DOMAIN procs, NEW n, SourcePadAdded(i, n)
       PROVE  \A j \in DOMAIN procs' : BridgeOwned(procs[j])'
  <2>1. /\ DOMAIN procs' = DOMAIN procs /\ owners' = owners
        /\ \A j \in DOMAIN procs : j # i => procs'[j] = procs[j]
        /\ procs'[i].conf = procs[i].conf /\ n \in DOMAIN procs[i].conf.sources
        /\ procs'[i].linked = procs[i].linked \cup {[source |-> n, pad |-> n]}
        /\ procs[i].state = "playing"
    BY <1>10, SourcePadStep DEF coordinator, Supervised
  <2>2. procs[i].conf # NoConf
    BY <2>1 DEF Supervised, ProcessesOK, Process
  <2>3. BridgeOwned(procs[i])'
    BY <2>1, <2>2 DEF Attributed, BridgeOwned, Owned
  <2> QED BY <2>1, <2>3 DEF Attributed, BridgeOwned, Owned
<1> QED BY <1>4, <1>5, <1>6, <1>7, <1>8, <1>9, <1>10, Steps

\* A detection carries its camera and the number it had when the Bridge saw it;
\* its event the camera the number means when the event is stored.
LEMMA DetectionsAndEventsStayOwned ==
  ASSUME Attributed, [Next]_vars
  PROVE  DetectionsOwned' /\ EventsOwned'
<1>1. owners \subseteq owners'
  BY OwnersGrow
<1>2. CASE UNCHANGED <<wire, queue, stored>>
  BY <1>1, <1>2 DEF Attributed, DetectionsOwned, EventsOwned, Owned, IsSeq
<1>3. CASE wire' = {} /\ queue' = <<>> /\ stored' = stored
  <2>1. IsSeq(queue') /\ ToSet(queue') = {}
    BY <1>3, EmptyIsSeq
  <2>2. DetectionsOwned'
    BY <1>3, <2>1 DEF DetectionsOwned, IsSeq
  <2> QED BY <1>1, <1>3, <2>2 DEF Attributed, EventsOwned, Owned
<1>4. ASSUME NEW i \in DOMAIN procs, NEW l \in procs[i].linked, Detect(i, l)
      PROVE  DetectionsOwned' /\ EventsOwned'
  <2> DEFINE d == [id |-> made', proc |-> i, source |-> l.pad,
                   seen |-> procs[i].conf.sources[l.source].camera]
  <2>1. wire' = wire \cup {d} /\ queue' = queue /\ stored' = stored
    BY <1>4 DEF Detect
  <2>2. Owned(d.source, d.seen)
    BY DEF Attributed, BridgeOwned
  <2> HIDE DEF d
  <2> QED BY <1>1, <2>1, <2>2 DEF Attributed, DetectionsOwned, EventsOwned, Owned, IsSeq
<1>5. ASSUME NEW d \in wire, Receive(d)
      PROVE  DetectionsOwned' /\ EventsOwned'
  <2>1. /\ wire' = wire \ {d} /\ stored' = stored
        /\ queue' = queue \/ queue' = Append(queue, d)
    BY <1>5 DEF Receive, Enqueue
  <2>2. IsSeq(queue') /\ \A e \in ToSet(queue') : e = d \/ e \in ToSet(queue)
    <3>1. IsSeq(queue)
      BY DEF Attributed, DetectionsOwned
    <3>2. CASE queue' = queue
      BY <3>1, <3>2 DEF IsSeq
    <3>3. CASE queue' = Append(queue, d)
      BY <3>1, <3>3, Appended
    <3> QED BY <2>1, <3>2, <3>3
  <2>3. DetectionsOwned'
    BY <1>1, <2>1, <2>2 DEF Attributed, DetectionsOwned, Owned, IsSeq
  <2> QED BY <1>1, <2>1, <2>3 DEF Attributed, EventsOwned, Owned
<1>6. CASE Quiet /\ (Reject \/ Suppress \/ Accept \/ InsertFails)
  <2> DEFINE d == Head(queue)
             e == [det |-> d, camera |-> CameraOf(d)]
  <2>1. /\ queue # <<>> /\ queue' = Tail(queue) /\ wire' = wire
        /\ stored' = stored \/ (Resolves(d) /\ stored' = stored \cup {e})
    BY <1>6 DEF Reject, Suppress, Accept, InsertFails, Take, Rest, Failed, Record
  <2>2. d \in ToSet(queue) /\ IsSeq(queue') /\ ToSet(queue') \subseteq ToSet(queue)
    BY <2>1, FirstAndRest DEF Attributed, DetectionsOwned
  <2>3. DetectionsOwned'
    BY <1>1, <2>1, <2>2 DEF Attributed, DetectionsOwned, Owned, IsSeq
  <2>4. Resolves(d) => Owned(d.source, d.seen) /\ Owned(d.source, CameraOf(d))
    BY <2>2 DEF Resolves, CameraOf, Attributed, DetectionsOwned, MappingOwned
  <2>5. Resolves(d) => Owned(e.det.source, e.det.seen) /\ Owned(e.det.source, e.camera)
    BY <2>4
  <2> HIDE DEF d, e
  <2> QED BY <1>1, <2>1, <2>3, <2>5 DEF Attributed, EventsOwned, Owned
<1> QED BY <1>2, <1>3, <1>4, <1>5, <1>6, IngestSteps

LEMMA NextAttributed ==
  ASSUME Supervised, Loaded, Attributed, [Next]_vars
  PROVE  Attributed'
<1>1. MappingOwned'
  BY OwnersGrow
<1>2. \A i \in DOMAIN procs' : BridgeOwned(procs[i])'
  BY BridgesStayOwned
<1>3. DetectionsOwned' /\ EventsOwned'
  BY DetectionsAndEventsStayOwned
<1> QED BY <1>1, <1>2, <1>3 DEF Attributed

-----------------------------------------------------------------------------
(* The cache and what is applied *)

LEMMA TemplateKept ==
  ASSUME [Next]_vars
  PROVE  template' = template
BY DEF Next, vars, StartAgent, Coordinator, StartFromCache, StartFails, StartWithoutCache,
       PollFindsChange, ApplyChange, ApplyFails, Launch, PollFails, PollFindsNothing,
       LaunchFails, FirstLaunchFails, Lock, Halted, Crash, Bridge, Boot, BootRefused, End,
       Exit, SourcePadAdded, Detect, Watch, Ingest, Receive, Reject, Suppress, Accept,
       InsertFails, CooldownEnds, Rest, Ended, Edit

LEMMA InitKept == Init => Kept
BY DEF Init, Kept, Setbacks

LEMMA CacheKept ==
  ASSUME UNCHANGED <<template, cache>>
  PROVE  /\ Restored' = Restored /\ UsableCache' = UsableCache
         /\ \A c : Cached(c)' <=> Cached(c)
BY DEF Restored, UsableCache, Generable, Cached

\* A cache that holds the configuration being applied restores it, if anything.
LEMMA CachedTarget ==
  ASSUME DataOK, pc = "stopping"
  PROVE  /\ target \in Configurations /\ Valid(target) /\ target # Nothing
         /\ Readable(cache) /\ Deserialize(cache) = target
         /\ cache = Serialize(target)
BY RoundTrip, ServedOK DEF DataOK

LEMMA NextKept ==
  ASSUME Supervised, DataOK, Kept, [Next]_vars
  PROVE  Kept'
<1>1. template' = template /\ Setbacks = {"none", "apply", "bridge"}
  BY TemplateKept DEF Setbacks
<1>2. ASSUME cache' = cache PROVE (UsableCache' <=> UsableCache) /\ \A c : Cached(c)' <=> Cached(c)
  BY <1>1, <1>2, CacheKept
<1>3. CASE UNCHANGED <<cache, pc, target, applied, setback>> /\ (SomeAlive' => SomeAlive)
  BY <1>2, <1>3 DEF Kept, CacheKnown, Cached
<1>4. CASE procs' = procs /\ UNCHANGED <<cache, pc, target, applied, setback>>
  <2>1. SomeAlive' => SomeAlive
    BY <1>4 DEF SomeAlive, Alive
  <2> QED BY <1>3, <1>4, <2>1
<1>5. CASE Quiet \/ StartFails \/ Watch
  BY <1>4, <1>5 DEF Quiet, StartFails, Watch, coordinator
<1>6. CASE StartAgent
  <2>1. pc = "begin" /\ procs' = procs /\ UNCHANGED <<cache, pc, target, applied, setback>>
    BY <1>6 DEF StartAgent, Supervised, PlacesOK
  <2> QED BY <1>4, <2>1
<1>7. CASE StartWithoutCache
  <2>1. /\ pc = "begin" /\ pc' = "poll" /\ UNCHANGED <<cache, applied, setback>>
        /\ ~UsableCache
    BY <1>7 DEF StartWithoutCache
  <2> QED BY <1>2, <2>1 DEF Kept, CacheKnown
<1>8. CASE StartFromCache
  <2> DEFINE c == Deserialize(cache)
  <2>1. /\ applied' = c /\ cache' = cache /\ pc' # "begin" /\ setback' = "none"
        /\ Readable(cache) /\ cache # NoCache
    BY <1>8 DEF StartFromCache, Apply, UsableCache
  <2>2. c # Nothing
    BY <2>1, DeserializeOK DEF DataOK, Readable
  <2>3. Cached(applied)'
    BY <2>1 DEF Cached
  <2> HIDE DEF c
  <2> QED BY <1>1, <2>1, <2>2, <2>3 DEF Kept, CacheKnown
<1>9. CASE ApplyChange
  <2>1. /\ applied' = target /\ cache' = cache /\ pc' # "begin" /\ pc = "stopping"
        /\ setback' = "none"
    BY <1>9 DEF ApplyChange, Apply
  <2>2. target # Nothing /\ Cached(target)
    BY <2>1, CachedTarget DEF Cached
  <2>3. Cached(applied)'
    BY <2>1, <2>2 DEF Cached
  <2> QED BY <1>1, <2>1, <2>2, <2>3 DEF Kept, CacheKnown
<1>10. CASE ApplyFails
  <2>1. /\ target' = target /\ cache' = cache /\ pc' = "poll" /\ pc = "stopping"
        /\ setback' = "apply" /\ procs' = procs /\ handle' = 0 /\ ~Alive(handle)
    BY <1>10 DEF ApplyFails, Reaped
  <2>2. Cached(target)'
    BY <2>1, CachedTarget DEF Cached
  <2>3. ~SomeAlive'
    BY <2>1, ReleaseStep DEF Supervised
  <2> QED BY <1>1, <2>1, <2>2, <2>3 DEF Kept, CacheKnown
<1>11. CASE FirstLaunchFails \/ Crash
  <2>1. /\ applied' = Nothing /\ pc' = "begin"
        /\ (setback' = setback /\ setback # "apply") \/ setback' = "none"
    BY <1>11 DEF FirstLaunchFails, Crash, Kept
  <2> QED BY <1>1, <2>1 DEF Kept
<1>12. CASE PollFindsChange \/ Lock \/ Halted
  <2>1. /\ setback' = setback /\ pc' \in {"stopping", "halting", "ended"}
        /\ handle' = handle \/ procs' = procs
        /\ \/ procs' = procs
           \/ Alive(handle) /\ procs' = [procs EXCEPT ![handle].state = "ending"]
    BY <1>12 DEF PollFindsChange, Lock, Halted
  <2>2. SomeAlive' => SomeAlive
    <3>1. CASE procs' = procs
      BY <3>1 DEF SomeAlive, Alive
    <3>2. CASE handle' = handle
      BY <2>1, <3>2, EndingStep DEF Supervised
    <3> QED BY <2>1, <3>1, <3>2
  <2> QED BY <2>1, <2>2 DEF Kept
<1>13. CASE Launch
  <2>1. /\ UNCHANGED <<cache, target, applied, setback>> /\ pc \in {"first", "launch"}
        /\ pc' = "poll"
    BY <1>13 DEF Launch
  <2> QED BY <1>2, <2>1 DEF Kept, CacheKnown, Cached
<1>14. CASE LaunchFails
  <2>1. /\ UNCHANGED <<cache, target, applied>> /\ pc = "launch" /\ pc' = "poll"
        /\ setback' = "bridge"
    BY <1>14 DEF LaunchFails
  <2> QED BY <1>1, <1>2, <2>1 DEF Kept, CacheKnown, Cached
<1>15. ASSUME NEW i \in DOMAIN procs, Boot(i) \/ BootRefused(i) \/ End(i)
       PROVE  Kept'
  <2>1. UNCHANGED <<cache, pc, target, applied, setback>>
    BY <1>15 DEF Boot, BootRefused, End, coordinator
  <2>2. SomeAlive' => SomeAlive
    BY <1>15, BridgeStep DEF Supervised
  <2> QED BY <1>3, <2>1, <2>2
<1>16. ASSUME NEW i \in DOMAIN procs, Exit(i)
       PROVE  Kept'
  <2>1. UNCHANGED <<cache, pc, target, applied>> /\ setback' = "bridge" /\ SomeAlive
    BY <1>16 DEF Exit, SomeAlive, Alive
  <2> QED BY <1>1, <1>2, <2>1 DEF Kept, CacheKnown, Cached
<1>17. ASSUME NEW i \in DOMAIN procs, NEW n, SourcePadAdded(i, n)
       PROVE  Kept'
  <2>1. UNCHANGED <<cache, pc, target, applied, setback>>
    BY <1>17 DEF SourcePadAdded, coordinator
  <2>2. SomeAlive' => SomeAlive
    BY <1>17, SourcePadStep DEF Supervised
  <2> QED BY <1>3, <2>1, <2>2
<1> QED BY <1>5, <1>6, <1>7, <1>8, <1>9, <1>10, <1>11, <1>12, <1>13, <1>14, <1>15, <1>16,
           <1>17, Steps

-----------------------------------------------------------------------------
(* How many Bridges are started *)

LEMMA InitCounted == Init => Counted
<1> SUFFICES ASSUME Init PROVE Counted
  OBVIOUS
<1>1. Len(procs) = 0
  BY EmptyIsSeq DEF Init
<1>2. Due <= 2 /\ Due \in Nat
  BY DEF Init, Due, One, Stale
<1>3. MaxEdits \in Nat /\ MaxFaults \in Nat
  BY ConfigurationAssumption
<1>4. edits = 0 /\ faults = 0
  BY DEF Init
<1> HIDE DEF Init
<1> QED BY <1>1, <1>2, <1>3, <1>4 DEF Counted

LEMMA DueBounded == Due \in 0..2 /\ Due' \in 0..2
<1>1. \A p : One(p) \in {0, 1}
  BY DEF One
<1>2. \A c : Stale(c) \in {0, 1} /\ Stale(c)' \in {0, 1}
  BY <1>1 DEF Stale
<1>3. Due \in 0..2
  BY <1>1, <1>2 DEF Due
<1>4. Due' \in 0..2
  <2>1. /\ Stale(Deserialize(cache))' \in {0, 1} /\ Stale(target)' \in {0, 1}
        /\ Stale(applied)' \in {0, 1}
    BY <1>1 DEF Stale
  <2> QED BY <1>1, <2>1 DEF Due
<1> QED BY <1>3, <1>4

\* What is due at the places the steps lead to.
LEMMA DueIs ==
  ASSUME PlacesOK
  PROVE  /\ Due \in 0..2
         /\ agent = "locked" => Due = 0
         /\ pc = "poll" => Due = One(Changed(served) \/ Behind) /\ Due <= 1
         /\ pc = "stopping" => Due = 1 + Stale(target) /\ Due >= 1
         /\ pc \in {"first", "launch"} => Due = 1 + Stale(applied) /\ Due >= 1
         /\ pc = "begin" /\ Restored => Due = 1 + Stale(Deserialize(cache)) /\ Due >= 1
         /\ pc = "begin" /\ ~Restored => Due = One(~UsableCache) /\ Due <= 1
<1>1. \A p : One(p) \in {0, 1}
  BY DEF One
<1>2. \A c : Stale(c) \in {0, 1}
  BY DEF Stale, One
<1>3. /\ agent = "locked" <=> pc \in {"halting", "ended"}
      /\ pc \in {"begin", "first", "poll", "stopping", "launch", "halting", "ended"}
  BY DEF PlacesOK, Places
<1> QED BY <1>1, <1>2, <1>3 DEF Due

\* A step that starts no Bridge, and makes no more due than it spends.
LEMMA CountedKept ==
  ASSUME Counted, Len(procs) \in Nat, Len(procs') = Len(procs),
         \/ UNCHANGED <<edits, faults>> /\ Due' <= Due
         \/ edits < MaxEdits /\ edits' = edits + 1 /\ faults' = faults /\ Due' <= Due + 1
         \/ Faulty /\ edits' = edits /\ Due' <= Due + 1
  PROVE  Counted'
<1>1. Due \in 0..2 /\ Due' \in 0..2
  BY DueBounded
<1>2. MaxEdits \in Nat /\ MaxFaults \in Nat
  BY ConfigurationAssumption
<1> QED BY <1>1, <1>2, SMTT(30) DEF Counted, Faulty

LEMMA DueKept ==
  ASSUME PlacesOK, UNCHANGED <<template, served, cache, agent, pc, target, applied>>
  PROVE  Due' = Due
<1>1. Restored' = Restored /\ UsableCache' = UsableCache
  BY CacheKept
<1> QED BY <1>1 DEF Due, One, Stale, Changed, Behind

\* The same, of the state a step leads to.
LEMMA DueBecomes ==
  ASSUME PlacesOK'
  PROVE  /\ agent' = "locked" => Due' = 0
         /\ pc' = "poll" => Due' = One(Changed(served)' \/ Behind') /\ Due' <= 1
         /\ pc' = "stopping" => Due' = 1 + Stale(target)'
         /\ pc' \in {"first", "launch"} => Due' = 1 + Stale(applied)'
         /\ pc' = "begin" /\ Restored' => Due' = 1 + Stale(Deserialize(cache))'
         /\ pc' = "begin" /\ ~Restored' => Due' = One(~UsableCache') /\ Due' <= 1
<1>1. \A p : One(p) \in {0, 1}
  BY DEF One
<1>2. /\ agent' = "locked" <=> pc' \in {"halting", "ended"}
      /\ pc' \in {"begin", "first", "poll", "stopping", "launch", "halting", "ended"}
  BY DEF PlacesOK, Places
<1> QED BY <1>1, <1>2 DEF Due

LEMMA NextCounted ==
  ASSUME Supervised, DataOK, Kept, Counted, [Next]_vars, Supervised'
  PROVE  Counted'
<1>1. PlacesOK /\ PlacesOK' /\ Len(procs) \in Nat /\ Due \in 0..2 /\ Due' \in 0..2
  BY QuietPlaces, DueBounded DEF Supervised
<1>2. CASE /\ UNCHANGED <<template, served, cache, agent, pc, target, applied, edits>>
           /\ Len(procs') = Len(procs)
           /\ faults' = faults \/ Faulty
  <2>1. Due' = Due
    BY <1>1, <1>2, DueKept
  <2> QED BY <1>1, <1>2, <2>1, CountedKept
<1>3. ASSUME NEW c \in Configurations, Edit(c)
      PROVE  Counted'
  <2>1. /\ edits < MaxEdits /\ edits' = edits + 1 /\ faults' = faults /\ procs' = procs
        /\ UNCHANGED <<template, cache, agent, pc, target, applied>>
    BY <1>3 DEF Edit, coordinator
  <2>2. \A p : One(p) \in {0, 1}
    BY DEF One
  <2>3. \A x, y : (1 + One(x)) <= (1 + One(y)) + 1 /\ One(x) <= One(y) + 1
    <3> SUFFICES ASSUME NEW x, NEW y
                 PROVE  (1 + One(x)) <= (1 + One(y)) + 1 /\ One(x) <= One(y) + 1
      OBVIOUS
    <3>1. One(x) \in {0, 1} /\ One(y) \in {0, 1}
      BY <2>2
    <3> QED BY <3>1
  <2>4. Restored' = Restored /\ UsableCache' = UsableCache
    BY <2>1, CacheKept
  <2>5. Due' <= Due + 1
    <3>1. CASE agent = "locked"
      BY <1>1, <2>1, <3>1, DueBecomes
    <3>2. CASE pc = "poll"
      BY <1>1, <2>1, <3>2, DueBecomes
    <3>3. CASE pc = "stopping" \/ pc \in {"first", "launch"}
      BY <1>1, <2>1, <3>3, DueIs
    <3>4. CASE pc = "begin" /\ Restored
      BY <1>1, <2>1, <3>4, DueIs
    <3>5. CASE pc = "begin" /\ ~Restored
      BY <1>1, <2>1, <2>4, <3>5, DueBecomes
    <3> QED BY <1>1, <3>1, <3>2, <3>3, <3>4, <3>5 DEF PlacesOK, Places
  <2> QED BY <1>1, <2>1, <2>5, CountedKept
<1>4. CASE StartAgent
  <2>1. /\ UNCHANGED <<template, served, cache, procs, edits, faults>>
        /\ pc = "begin" /\ pc' = "begin"
    BY <1>4 DEF StartAgent, Supervised, PlacesOK
  <2>2. Restored' = Restored /\ UsableCache' = UsableCache
    BY <2>1, CacheKept
  <2>3. Stale(Deserialize(cache))' = Stale(Deserialize(cache))
    BY <2>1 DEF Stale
  <2>4. Due' = Due
    BY <1>1, <2>1, <2>2, <2>3, DueIs, DueBecomes
  <2> QED BY <1>1, <2>1, <2>4, CountedKept
<1>5. CASE StartFails
  <2>1. /\ UNCHANGED <<template, served, cache, procs, edits>> /\ (faults' = faults \/ Faulty)
        /\ pc = "begin" /\ pc' = "begin"
    BY <1>5 DEF StartFails, GenerateFails, coordinator
  <2>2. Restored' = Restored /\ UsableCache' = UsableCache
    BY <2>1, CacheKept
  <2>3. Stale(Deserialize(cache))' = Stale(Deserialize(cache))
    BY <2>1 DEF Stale
  <2>4. Due' = Due
    BY <1>1, <2>1, <2>2, <2>3, DueIs, DueBecomes
  <2> QED BY <1>1, <2>1, <2>4, CountedKept
<1>6. CASE StartFromCache
  <2>1. /\ UNCHANGED <<served, procs, edits, faults>> /\ applied' = Deserialize(cache)
        /\ pc' \in {"first", "poll"} /\ pc = "begin" /\ Restored
    BY <1>6 DEF StartFromCache, Apply, Restored, Generable
  <2>2. Due = 1 + Stale(Deserialize(cache)) /\ Due >= 1
    BY <1>1, <2>1, DueIs
  <2>3. Stale(applied)' = Stale(Deserialize(cache))
    BY <2>1 DEF Stale
  <2>4. Due' <= Due
    BY <1>1, <2>1, <2>2, <2>3, DueBecomes
  <2> QED BY <1>1, <2>1, <2>4, CountedKept
<1>7. CASE StartWithoutCache
  <2>1. /\ UNCHANGED <<procs, edits, faults>> /\ pc = "begin" /\ pc' = "poll" /\ ~UsableCache
    BY <1>7 DEF StartWithoutCache
  <2>2. Due = 1
    BY <1>1, <2>1, DueIs DEF Restored, One
  <2> QED BY <1>1, <2>1, <2>2, DueBecomes, CountedKept
<1>8. CASE PollFindsChange
  <2>1. /\ UNCHANGED <<served, edits, faults>> /\ pc = "poll" /\ pc' = "stopping"
        /\ Changed(served) /\ target' = served
    BY <1>8 DEF PollFindsChange, Polling
  <2>2. Len(procs') = Len(procs)
    <3>1. /\ IsSeq(procs)
          /\ \/ procs' = procs
             \/ procs' = [procs EXCEPT ![handle] = [procs[handle] EXCEPT !.state = "ending"]]
      BY <1>8 DEF PollFindsChange, Supervised, ProcessesOK
    <3> DEFINE p == [procs[handle] EXCEPT !.state = "ending"]
    <3> HIDE DEF p
    <3> QED BY <3>1, OneChanged DEF p
  <2>3. Due = 1
    BY <1>1, <2>1, DueIs DEF One
  <2>4. Stale(target)' = 0
    BY <2>1 DEF Stale, One
  <2> QED BY <1>1, <2>1, <2>2, <2>3, <2>4, DueBecomes, CountedKept
<1>9. CASE ApplyChange
  <2>1. /\ UNCHANGED <<served, procs, edits, faults>> /\ applied' = target
        /\ pc' \in {"launch", "poll"} /\ pc = "stopping"
    BY <1>9 DEF ApplyChange, Apply
  <2>2. Due = 1 + Stale(target) /\ Due >= 1
    BY <1>1, <2>1, DueIs
  <2>3. Stale(applied)' = Stale(target)
    BY <2>1 DEF Stale
  <2>4. Due' <= Due
    BY <1>1, <2>1, <2>2, <2>3, DueBecomes
  <2> QED BY <1>1, <2>1, <2>4, CountedKept
<1>10. CASE ApplyFails
  <2>1. /\ UNCHANGED <<procs, edits>> /\ (faults' = faults \/ Faulty)
        /\ pc = "stopping" /\ pc' = "poll"
    BY <1>10 DEF ApplyFails, GenerateFails
  <2>2. Due >= 1
    BY <1>1, <2>1, DueIs
  <2> QED BY <1>1, <2>1, <2>2, DueBecomes, CountedKept
<1>11. CASE Launch
  <2>1. /\ UNCHANGED <<template, served, cache, applied, edits, faults>> /\ pc' = "poll"
        /\ pc \in {"first", "launch"}
    BY <1>11 DEF Launch
  <2>2. Len(procs') = Len(procs) + 1
    BY <1>11, LaunchStep DEF Supervised
  <2>3. applied # Nothing
    <3>1. "cameras" \in DOMAIN applied
      BY <2>1 DEF DataOK, Usable, Listed
    <3>2. "cameras" \notin DOMAIN Nothing
      BY DEF Nothing
    <3> QED BY <3>1, <3>2
  <2>4. Due = 1 + Stale(applied)
    BY <1>1, <2>1, DueIs
  <2>5. Due' = One(Changed(served)' \/ Behind')
    BY <1>1, <2>1, DueBecomes
  <2>6. Deserialize(cache) = applied
    BY <2>1, <2>3 DEF Kept, CacheKnown, Cached
  <2>7. Behind' => Changed(served)'
    BY <2>1, <2>6 DEF Behind, Changed
  <2>8. One(Changed(served)' \/ Behind') = Stale(applied)
    BY <2>1, <2>3, <2>7 DEF Changed, Stale, One
  <2>9. Len(procs') + Due' = Len(procs) + Due
    BY <1>1, <2>2, <2>4, <2>5, <2>8
  <2> QED BY <2>1, <2>9 DEF Counted
<1>12. CASE LaunchFails \/ FirstLaunchFails
  <2>1. /\ UNCHANGED <<procs, edits>> /\ Faulty
        /\ pc \in {"first", "launch"}
    BY <1>12 DEF LaunchFails, FirstLaunchFails
  <2>2. Due >= 1
    BY <1>1, <2>1, DueIs
  <2> QED BY <1>1, <2>1, <2>2, CountedKept
<1>13. CASE Lock \/ Halted
  <2>1. UNCHANGED <<edits, faults>> /\ agent' = "locked"
    BY <1>13 DEF Lock, Halted
  <2>2. Len(procs') = Len(procs)
    <3>1. /\ IsSeq(procs)
          /\ \/ procs' = procs
             \/ procs' = [procs EXCEPT ![handle] = [procs[handle] EXCEPT !.state = "ending"]]
      BY <1>13 DEF Lock, Halted, Supervised, ProcessesOK
    <3> DEFINE p == [procs[handle] EXCEPT !.state = "ending"]
    <3> HIDE DEF p
    <3> QED BY <3>1, OneChanged DEF p
  <2>3. Due' = 0
    BY <1>1, <2>1, DueBecomes
  <2> QED BY <1>1, <2>1, <2>2, <2>3, CountedKept
<1>14. CASE Crash
  <2>1. /\ UNCHANGED <<template, served, cache, edits>> /\ Faulty /\ pc' = "begin"
        /\ agent = "up"
    BY <1>14 DEF Crash
  <2>2. Len(procs') = Len(procs)
    BY <1>14, CrashStep DEF Supervised
  <2>3. Restored' = Restored /\ UsableCache' = UsableCache
    BY <2>1, CacheKept
  <2>4. Stale(Deserialize(cache))' = Stale(Deserialize(cache))
    BY <2>1 DEF Stale
  <2>5. Due' <= Due + 1
    <3>1. CASE pc = "begin"
      BY <1>1, <2>1, <2>3, <2>4, <3>1, DueIs, DueBecomes
    <3>2. CASE pc \in {"stopping", "first", "launch"}
      BY <1>1, <3>2, DueIs
    <3>3. CASE ~Restored
      BY <1>1, <2>1, <2>3, <3>3, DueBecomes
    <3>4. CASE pc = "poll" /\ Behind
      BY <1>1, <3>4, DueIs DEF One
    <3>5. CASE pc = "poll" /\ Restored /\ ~Behind
      <4>1. Stale(Deserialize(cache)) = 0
        BY <3>5 DEF Behind, Stale, One
      <4> QED BY <1>1, <2>1, <2>3, <2>4, <3>5, <4>1, DueBecomes
    <3>6. pc \in {"begin", "first", "poll", "stopping", "launch"}
      BY <1>1, <2>1 DEF PlacesOK, Places
    <3> QED BY <3>1, <3>2, <3>3, <3>4, <3>5, <3>6
  <2> QED BY <1>1, <2>1, <2>2, <2>5, CountedKept
<1>15. CASE Watch
  BY <1>2, <1>15 DEF Watch, coordinator
<1>16. ASSUME NEW i \in DOMAIN procs, Boot(i) \/ BootRefused(i) \/ End(i) \/ Exit(i)
       PROVE  Counted'
  <2>1. /\ UNCHANGED <<template, served, cache, agent, pc, target, applied, edits>>
        /\ faults' = faults \/ Faulty
    BY <1>16 DEF Boot, BootRefused, End, Exit, coordinator
  <2>2. /\ IsSeq(procs)
        /\ \E p : procs' = [procs EXCEPT ![i] = p]
    BY <1>16 DEF Boot, BootRefused, End, Exit, Supervised, ProcessesOK
  <2>3. Len(procs') = Len(procs)
    BY <2>2, OneChanged
  <2> QED BY <1>2, <2>1, <2>3
<1>17. ASSUME NEW i \in DOMAIN procs, NEW n, SourcePadAdded(i, n)
       PROVE  Counted'
  <2>1. UNCHANGED <<template, served, cache, agent, pc, target, applied, edits, faults>>
    BY <1>17 DEF SourcePadAdded, coordinator
  <2>2. /\ IsSeq(procs)
        /\ \E p : procs' = [procs EXCEPT ![i] = p]
    BY <1>17 DEF SourcePadAdded, Supervised, ProcessesOK
  <2>3. Len(procs') = Len(procs)
    BY <2>2, OneChanged
  <2> QED BY <1>2, <2>1, <2>3
<1>18. ASSUME NEW i \in DOMAIN procs, NEW l, Detect(i, l)
       PROVE  Counted'
  BY <1>2, <1>18 DEF Detect, coordinator
<1>19. CASE PollFails \/ PollFindsNothing \/ Ended \/ UNCHANGED vars
  <2>1. CASE PollFails
    BY <1>2, <2>1 DEF PollFails, coordinator
  <2>2. CASE PollFindsNothing \/ Ended \/ UNCHANGED vars
    BY <1>2, <2>2 DEF PollFindsNothing, Ended, vars, coordinator
  <2> QED BY <1>19, <2>1, <2>2
<1>20. CASE Ingest
  <2>1. ASSUME NEW d, Receive(d) PROVE Counted'
    BY <1>2, <2>1 DEF Receive, coordinator
  <2>2. CASE Reject \/ Suppress \/ Accept \/ InsertFails
    BY <1>2, <2>2 DEF Reject, Suppress, Accept, InsertFails, Rest, coordinator
  <2>3. ASSUME NEW m, CooldownEnds(m) PROVE Counted'
    BY <1>2, <2>3 DEF CooldownEnds, Rest, coordinator
  <2> QED BY <1>20, <2>1, <2>2, <2>3 DEF Ingest
<1> QED BY <1>3, <1>4, <1>5, <1>6, <1>7, <1>8, <1>9, <1>10, <1>11, <1>12, <1>13, <1>14, <1>15,
           <1>16, <1>17, <1>18, <1>19, <1>20 DEF Next, Coordinator, Bridge

-----------------------------------------------------------------------------
(* The queue *)

LEMMA InitQueued == Init => Queued
<1> SUFFICES ASSUME Init PROVE Queued
  OBVIOUS
<1>1. Len(queue) = 0 /\ ToSet(queue) = {}
  BY EmptyIsSeq DEF Init
<1>2. QueueCapacity \in Nat /\ MaxDetections \in Nat
  BY ConfigurationAssumption
<1> QED BY <1>1, <1>2 DEF Init, Queued

\* Processes are only ever added.
LEMMA ProcessesStay ==
  ASSUME Supervised, [Next]_vars
  PROVE  DOMAIN procs \subseteq DOMAIN procs'
<1>1. IsSeq(procs) /\ ProcessesOK
  BY DEF Supervised, ProcessesOK
<1>2. CASE Quiet \/ StartFails \/ StartAgent \/ StartFromCache \/ StartWithoutCache
  BY <1>2 DEF Quiet, StartFails, StartAgent, StartFromCache, StartWithoutCache
<1>3. CASE ApplyChange \/ ApplyFails \/ LaunchFails \/ FirstLaunchFails \/ Halted \/ Watch
  BY <1>3 DEF ApplyChange, ApplyFails, LaunchFails, FirstLaunchFails, Halted, Watch
<1>4. CASE PollFindsChange \/ Lock
  <2>1. /\ handle' = handle
        /\ \/ procs' = procs
           \/ Alive(handle) /\ procs' = [procs EXCEPT ![handle].state = "ending"]
    BY <1>4 DEF PollFindsChange, Lock
  <2> QED BY <1>1, <2>1, EndingStep
<1>5. CASE Crash
  BY <1>1, <1>5, CrashStep
<1>6. CASE Launch
  <2>1. /\ DOMAIN procs' = 1..(Len(procs) + 1) /\ DOMAIN procs = 1..Len(procs)
        /\ Len(procs) \in Nat
    BY <1>1, <1>6, LaunchStep
  <2> QED BY <2>1
<1>7. ASSUME NEW i \in DOMAIN procs, Boot(i) \/ BootRefused(i) \/ End(i) \/ Exit(i)
      PROVE  DOMAIN procs' = DOMAIN procs
  BY <1>1, <1>7, BridgeStep
<1>8. ASSUME NEW i \in DOMAIN procs, NEW n, SourcePadAdded(i, n)
      PROVE  DOMAIN procs' = DOMAIN procs
  BY <1>1, <1>8, SourcePadStep
<1> QED BY <1>2, <1>3, <1>4, <1>5, <1>6, <1>7, <1>8, Steps

LEMMA DetectionsMade ==
  ASSUME [Next]_vars
  PROVE  \/ made' = made
         \/ \E i \in DOMAIN procs : \E l \in procs[i].linked : Detect(i, l)
<1>1. CASE \/ StartAgent \/ StartFromCache \/ StartFails \/ StartWithoutCache
           \/ PollFindsChange \/ ApplyChange \/ ApplyFails \/ Launch
           \/ LaunchFails \/ FirstLaunchFails
  BY <1>1 DEF StartAgent, StartFromCache, StartFails, StartWithoutCache, PollFindsChange,
              ApplyChange, ApplyFails, Launch, LaunchFails, FirstLaunchFails, ingest
<1>2. CASE Lock \/ Halted \/ Watch \/ Crash \/ PollFails
  BY <1>2 DEF Lock, Halted, Watch, Crash, PollFails, ingest
<1>3. CASE PollFindsNothing \/ Ended \/ UNCHANGED vars
  BY <1>3 DEF PollFindsNothing, Ended, vars, ingest
<1>4. ASSUME NEW c \in Configurations, Edit(c) PROVE made' = made
  BY <1>4 DEF Edit, ingest
<1>5. ASSUME NEW i \in DOMAIN procs, Bridge(i)
      PROVE  made' = made \/ \E l \in procs[i].linked : Detect(i, l)
  BY <1>5 DEF Bridge, Boot, BootRefused, End, Exit, SourcePadAdded, ingest
<1>6. CASE Ingest
  BY <1>6 DEF Ingest, Receive, Reject, Suppress, Accept, InsertFails, CooldownEnds, Rest
<1> QED BY <1>1, <1>2, <1>3, <1>4, <1>5, <1>6 DEF Next, Coordinator

LEMMA NextQueued ==
  ASSUME Supervised, Attributed, Queued, [Next]_vars
  PROVE  Queued'
<1>1. DOMAIN procs \subseteq DOMAIN procs'
  BY ProcessesStay
<1>2. QueueCapacity \in Nat /\ IsSeq(queue) /\ Len(queue) \in Nat
  BY ConfigurationAssumption, Elements DEF Attributed, DetectionsOwned
<1>3. ASSUME NEW i \in DOMAIN procs, NEW l \in procs[i].linked, Detect(i, l)
      PROVE  Queued'
  <2>1. queue' = queue /\ made' = made + 1 /\ made < MaxDetections
    BY <1>3 DEF Detect
  <2>2. PICK d : wire' = wire \cup {d} /\ d.id = made' /\ d.proc = i
    <3> DEFINE d == [id |-> made', proc |-> i, source |-> l.pad,
                     seen |-> procs[i].conf.sources[l.source].camera]
    <3>1. wire' = wire \cup {d}
      BY <1>3 DEF Detect
    <3>2. d.id = made' /\ d.proc = i
      OBVIOUS
    <3> HIDE DEF d
    <3> QED BY <3>1, <3>2
  <2>3. made \in Nat /\ MaxDetections \in Nat
    BY ConfigurationAssumption DEF Queued
  <2>4. d.id \in 1..made' /\ d.proc \in DOMAIN procs'
    BY <1>1, <2>1, <2>2, <2>3
  <2>5. \A e \in wire \cup ToSet(queue) : e.id \in 1..made' /\ e.proc \in DOMAIN procs'
    BY <1>1, <2>1, <2>3 DEF Queued, Numbered
  <2> QED BY <2>1, <2>2, <2>3, <2>4, <2>5 DEF Queued, Numbered
<1>4. ASSUME made' = made, Len(queue') <= QueueCapacity,
             \A d \in wire' \cup ToSet(queue') : d \in wire \cup ToSet(queue)
      PROVE  Queued'
  BY <1>1, <1>4 DEF Queued, Numbered
<1>5. CASE UNCHANGED <<wire, queue, stored>>
  BY <1>3, <1>4, <1>5, DetectionsMade DEF Queued
<1>6. CASE wire' = {} /\ queue' = <<>>
  <2>1. Len(queue') = 0 /\ ToSet(queue') = {}
    BY <1>6, EmptyIsSeq
  <2> QED BY <1>2, <1>3, <1>4, <1>6, <2>1, DetectionsMade
<1>7. ASSUME NEW d \in wire, Receive(d)
      PROVE  Queued'
  <2>1. /\ wire' = wire \ {d} /\ made' = made
        /\ \/ queue' = queue
           \/ Len(queue) < QueueCapacity /\ queue' = Append(queue, d)
    BY <1>7 DEF Receive, Enqueue
  <2>2. CASE queue' = queue
    BY <1>4, <2>1, <2>2 DEF Queued
  <2>3. CASE Len(queue) < QueueCapacity /\ queue' = Append(queue, d)
    <3>1. /\ Len(queue') = Len(queue) + 1
          /\ \A e : e \in ToSet(queue') <=> e = d \/ e \in ToSet(queue)
      BY <1>2, <2>3, Appended
    <3>2. Len(queue') <= QueueCapacity
      BY <1>2, <2>3, <3>1
    <3> QED BY <1>4, <2>1, <3>1, <3>2
  <2> QED BY <2>1, <2>2, <2>3
<1>8. CASE Reject \/ Suppress \/ Accept \/ InsertFails
  <2>1. queue # <<>> /\ queue' = Tail(queue) /\ wire' = wire /\ made' = made
    BY <1>8 DEF Reject, Suppress, Accept, InsertFails, Take, Rest
  <2>2. Len(queue') = Len(queue) - 1 /\ ToSet(queue') \subseteq ToSet(queue)
    BY <1>2, <2>1, FirstAndRest
  <2>3. Len(queue') <= QueueCapacity
    BY <1>2, <2>2 DEF Queued
  <2> QED BY <1>4, <2>1, <2>2, <2>3
<1> QED BY <1>3, <1>5, <1>6, <1>7, <1>8, IngestSteps

-----------------------------------------------------------------------------
(* The invariant, and what it gives *)

LEMMA InitIInv == Init => IInv
BY InitSupervised, InitDataOK, InitLoaded, InitAttributed, InitKept, InitCounted, InitQueued
   DEF IInv

LEMMA NextIInv == IInv /\ [Next]_vars => IInv'
BY NextSupervised, NextDataOK, NextLoaded, NextAttributed, NextKept, NextCounted, NextQueued
   DEF IInv

LEMMA Inductive == Spec => []IInv
<1>1. Init => IInv
  BY InitIInv
<1>2. IInv /\ [Next]_vars => IInv'
  BY NextIInv
<1> QED BY <1>1, <1>2, PTL DEF Spec

\* The shape of the state, and how many Bridges, queued detections and events
\* there can be: no Bridge is started but for the cache, the Backend's answer, an
\* edit or a fault.
THEOREM TypeCorrect == Spec => []TypeOK
<1>1. IInv => TypeOK
  <2> SUFFICES ASSUME IInv PROVE TypeOK
    OBVIOUS
  <2>1. /\ agent \in {"off", "up", "locked", "failed"} /\ pc \in Places
        /\ running \in BOOLEAN /\ handle \in 0..Len(procs)
        /\ \A i \in DOMAIN procs : procs[i].state \in States
    BY DEF IInv, Supervised, ProcessesOK, PlacesOK, Process
  <2>2. /\ template \in {d.template : d \in Deployments} /\ served \in Configurations
        /\ setback \in Setbacks
    BY DEF IInv, DataOK, Kept
  <2>3. Len(procs) <= MaxStarts
    <3>1. Len(procs) \in Nat /\ Due \in 0..2
      BY QuietPlaces, DueBounded DEF IInv
    <3>2. MaxEdits \in Nat /\ MaxFaults \in Nat
      BY ConfigurationAssumption
    <3> QED BY <3>1, <3>2 DEF IInv, Counted, MaxStarts
  <2>4. /\ made <= MaxDetections /\ edits <= MaxEdits /\ faults <= MaxFaults
        /\ Len(queue) <= QueueCapacity
        /\ \A d \in wire \cup ToSet(queue) : d.id \in 1..made /\ d.proc \in DOMAIN procs
    BY DEF IInv, Counted, Queued, Numbered
  <2> QED BY <2>1, <2>2, <2>3, <2>4 DEF TypeOK
<1> QED BY <1>1, Inductive, PTL

\* "only one Bridge process is ever alive at a time" (process_manager.py): it is
\* the one the process manager holds, through restarts of the Bridge, failed
\* launches, exits by itself, locks, kills and restarts of the Agent.
THEOREM AtMostOneBridge == Spec => []OneBridge
<1>1. IInv => OneBridge
  BY DEF IInv, Supervised, ProcessesOK
<1> QED BY <1>1, Inductive, PTL

\* The mapping that SourceGenerationTracker installed is that of the file the
\* alive Bridge loaded, whatever was published meanwhile.
THEOREM MappingIsThePlayedOne == Spec => []BridgeMatchesMapping
<1>1. IInv => BridgeMatchesMapping
  BY DEF IInv, Loaded
<1> QED BY <1>1, Inductive, PTL

\* An event stored by the ingest handler names the camera whose frame it is of,
\* as long as no source order passes from one camera to another.
THEOREM EventsAreAttributed == Spec => []EventsNameTheirCamera
<1>1. IInv => EventsNameTheirCamera
  <2> SUFFICES ASSUME IInv, OrdersNotReused, NEW e \in stored
               PROVE  e.camera = e.det.seen
    BY DEF EventsNameTheirCamera
  <2>1. <<e.det.source, e.det.seen>> \in owners /\ <<e.det.source, e.camera>> \in owners
    BY DEF IInv, Attributed, EventsOwned, Owned
  <2> QED BY <2>1 DEF OrdersNotReused
<1> QED BY <1>1, Inductive, PTL

\* Between polls the cache row brings back what the coordinator has applied, or,
\* after an apply that failed, because no file can be generated or because reading
\* the template or writing the file failed this once, what that one was about: the
\* row is replaced before the file (coordinator.py).
THEOREM CacheRestoresWhatRuns == Spec => []CacheIsWhatRuns
<1>1. IInv => CacheIsWhatRuns
  BY DEF IInv, Kept, CacheKnown, Cached, CacheIsWhatRuns
<1> QED BY <1>1, Inductive, PTL

-----------------------------------------------------------------------------
(* The outputs of a pipeline *)

LEMMA PortsOrdered ==
  ASSUME NEW b, Sources(b.sources), NEW n \in WithOutput(b), NEW m \in WithOutput(b), n < m
  PROVE  /\ Offset(b, n) \in Nat /\ Offset(b, m) \in Nat
         /\ Offset(b, n) < Offset(b, m)
<1> DEFINE W == WithOutput(b)
           S == {k \in W : k < n}
           T == {k \in W : k < m}
<1>1. IsFiniteSet(W) /\ W \subseteq Int
  <2>1. WithOutput(b) \in SUBSET DOMAIN b.sources
    BY DEF WithOutput
  <2> QED BY <2>1, FS_Subset DEF Sources
<1>2. n \in T /\ n \notin S /\ S \subseteq T
  BY <1>1
<1>3. Offset(b, n) = Cardinality(S) /\ Offset(b, m) = Cardinality(T)
  BY DEF Offset
<1>4. T \in SUBSET W
  OBVIOUS
<1> HIDE DEF S, T, W
<1>5. IsFiniteSet(T)
  BY <1>1, <1>4, FS_Subset
<1>6. S \in SUBSET T
  BY <1>2
<1>7. /\ IsFiniteSet(S) /\ Cardinality(S) <= Cardinality(T)
      /\ Cardinality(S) # Cardinality(T)
  BY <1>2, <1>5, <1>6, FS_Subset
<1>8. Cardinality(S) \in Nat /\ Cardinality(T) \in Nat
  BY <1>5, <1>7, FS_CardinalityType
<1> QED BY <1>3, <1>7, <1>8

\* Every branch has an even port of its own.
LEMMA PortsDiffer ==
  ASSUME NEW b, Sources(b.sources)
  PROVE  /\ \A n \in WithOutput(b) : \E k \in Nat : UdpPort(b, n) = 2 * k
         /\ \A n, m \in WithOutput(b) : UdpPort(b, n) = UdpPort(b, m) => n = m
<1>1. \A n \in WithOutput(b) : n \in Int
  BY DEF WithOutput, Sources
<1>2. ASSUME NEW n \in WithOutput(b) PROVE Offset(b, n) \in Nat
  <2> DEFINE S == {k \in WithOutput(b) : k < n}
  <2>1. S \in SUBSET DOMAIN b.sources
    BY DEF WithOutput
  <2>2. Offset(b, n) = Cardinality(S)
    BY DEF Offset
  <2> HIDE DEF S
  <2>3. IsFiniteSet(S)
    BY <2>1, FS_Subset DEF Sources
  <2> QED BY <2>2, <2>3, FS_CardinalityType
<1>3. ASSUME NEW n \in WithOutput(b), NEW m \in WithOutput(b), UdpPort(b, n) = UdpPort(b, m)
      PROVE  n = m
  <2>1. Offset(b, n) = Offset(b, m)
    BY <1>2, <1>3 DEF UdpPort
  <2>2. n < m => Offset(b, n) < Offset(b, m)
    BY PortsOrdered
  <2>3. m < n => Offset(b, m) < Offset(b, n)
    BY PortsOrdered
  <2> QED BY <1>1, <1>2, <2>1, <2>2, <2>3
<1> QED BY <1>2, <1>3 DEF UdpPort

ChainElements == {"mux", "infer", "tracker", "convert", "osd", "demux", "queue"}

\* Nothing of a chain draws on the frames, or its last element alone does.
Undrawn(s) == s \in Seq(ChainElements) /\ \A j \in DOMAIN s : s[j] # "osd"
DrawnAtTheEnd(s) ==
  s \in Seq(ChainElements) /\ s # <<>> /\ \A j \in DOMAIN s : s[j] = "osd" <=> j = Len(s)

LEMMA Chained ==
  ASSUME NEW s, NEW t, Undrawn(s)
  PROVE  /\ Undrawn(t) => Undrawn(s \o t)
         /\ DrawnAtTheEnd(t) => DrawnAtTheEnd(s \o t)
<1> DEFINE u == s \o t
<1>1. ASSUME t \in Seq(ChainElements)
      PROVE  /\ u \in Seq(ChainElements) /\ Len(u) = Len(s) + Len(t)
             /\ Len(s) \in Nat /\ Len(t) \in Nat
             /\ DOMAIN s = 1..Len(s) /\ DOMAIN t = 1..Len(t) /\ DOMAIN u = 1..Len(u)
             /\ \A j \in DOMAIN u : \/ j \in DOMAIN s /\ u[j] = s[j]
                                    \/ j - Len(s) \in DOMAIN t /\ u[j] = t[j - Len(s)] /\ j > Len(s)
  BY <1>1, ConcatProperties DEF Undrawn
<1> HIDE DEF u
<1>2. Undrawn(t) => Undrawn(u)
  BY <1>1 DEF Undrawn
<1>3. ASSUME DrawnAtTheEnd(t) PROVE DrawnAtTheEnd(u)
  <2>1. Len(t) > 0
    BY <1>3, EmptySeq DEF DrawnAtTheEnd
  <2>2. u # <<>>
    BY <1>1, <1>3, <2>1, EmptySeq DEF DrawnAtTheEnd
  <2>3. \A j \in DOMAIN u : u[j] = "osd" <=> j = Len(u)
    BY <1>1, <1>3, <2>1 DEF DrawnAtTheEnd, Undrawn
  <2> QED BY <1>1, <1>3, <2>2, <2>3 DEF DrawnAtTheEnd
<1> QED BY <1>2, <1>3 DEF u

LEMMA Tuples ==
  ASSUME NEW S, NEW x \in S
  PROVE  /\ <<x>> \in Seq(S) /\ <<x>> # <<>> /\ Len(<<x>>) = 1
         /\ \A j \in DOMAIN <<x>> : j = 1 /\ <<x>>[j] = x
<1>1. <<x>> \in Seq(S)
  OBVIOUS
<1>2. Len(<<x>>) = 1
  OBVIOUS
<1> DEFINE t == <<x>>
<1>3. t[1] = x
  OBVIOUS
<1> HIDE DEF t
<1>4. t \in Seq(S) /\ Len(t) = 1
  BY <1>1, <1>2 DEF t
<1>5. DOMAIN t = 1..1
  BY <1>4
<1>6. \A j \in DOMAIN t : j = 1 /\ t[j] = x
  <2>1. \A j \in 1..1 : j = 1
    OBVIOUS
  <2> QED BY <1>3, <1>5, <2>1
<1>7. t # <<>>
  BY <1>4, EmptySeq
<1> QED BY <1>4, <1>6, <1>7 DEF t

LEMMA OsdDraws == DrawnAtTheEnd(<<"osd">>)
<1>1. "osd" \in ChainElements
  BY DEF ChainElements
<1> QED BY <1>1, Tuples DEF DrawnAtTheEnd

LEMMA SharedChainDraws ==
  ASSUME NEW b
  PROVE  /\ DynamicOutputs(b) => Undrawn(SharedChain(b))
         /\ ~DynamicOutputs(b) => DrawnAtTheEnd(SharedChain(b))
<1> DEFINE front == <<"mux", "infer">>
           tracker == IF b.tracker THEN <<"tracker">> ELSE <<>>
           convert == <<"convert">>
           drawn == IF DynamicOutputs(b) THEN <<>> ELSE <<"osd">>
<1>1. Undrawn(front) /\ Undrawn(convert) /\ Undrawn(<<"tracker">>)
  <2>1. ASSUME NEW x \in ChainElements, x # "osd" PROVE Undrawn(<<x>>)
    BY <2>1, Tuples DEF Undrawn
  <2>2. Undrawn(<<"mux">>) /\ Undrawn(<<"infer">>)
    BY <2>1 DEF ChainElements
  <2>3. front = <<"mux">> \o <<"infer">>
    OBVIOUS
  <2> HIDE DEF front
  <2>4. Undrawn(front)
    BY <2>2, <2>3, Chained
  <2>5. Undrawn(<<"convert">>) /\ Undrawn(<<"tracker">>)
    BY <2>1 DEF ChainElements
  <2> QED BY <2>4, <2>5
<1>2. Undrawn(<<>>)
  BY EmptySeq, EmptyIsSeq DEF Undrawn
<1>3. Undrawn(tracker)
  BY <1>1, <1>2
<1>4. DynamicOutputs(b) => Undrawn(drawn)
  BY <1>2
<1>5. DrawnAtTheEnd(<<"osd">>)
  BY OsdDraws
<1>6. ~DynamicOutputs(b) => DrawnAtTheEnd(drawn)
  BY <1>5
<1>7. SharedChain(b) = ((front \o tracker) \o convert) \o drawn
  BY DEF SharedChain
<1> HIDE DEF front, tracker, convert, drawn
<1>8. Undrawn(front \o tracker)
  BY <1>1, <1>3, Chained
<1>9. Undrawn((front \o tracker) \o convert)
  BY <1>1, <1>8, Chained
<1> QED BY <1>4, <1>6, <1>7, <1>9, Chained

LEMMA ChainsDrawOnce ==
  ASSUME NEW b, NEW o \in Outputs(b)
  PROVE  \E k \in DOMAIN o.chain : \A j \in DOMAIN o.chain : o.chain[j] = "osd" <=> j = k
<1>1. DrawnAtTheEnd(o.chain)
  <2>1. CASE DynamicOutputs(b)
    <3> DEFINE tail == <<"demux", "queue", "convert", "osd">>
    <3>1. o.chain = SharedChain(b) \o tail
      BY <2>1 DEF Outputs, Branch
    <3>2. DrawnAtTheEnd(tail)
      <4>1. ASSUME NEW x \in ChainElements, x # "osd" PROVE Undrawn(<<x>>)
        BY <4>1, Tuples DEF Undrawn
      <4>2. Undrawn(<<"demux">>) /\ Undrawn(<<"queue">>) /\ Undrawn(<<"convert">>)
        BY <4>1 DEF ChainElements
      <4>3. tail = <<"demux">> \o (<<"queue">> \o (<<"convert">> \o <<"osd">>))
        OBVIOUS
      <4>4. DrawnAtTheEnd(<<"convert">> \o <<"osd">>)
        BY <4>2, OsdDraws, Chained
      <4>5. DrawnAtTheEnd(<<"queue">> \o (<<"convert">> \o <<"osd">>))
        BY <4>2, <4>4, Chained
      <4> HIDE DEF tail
      <4> QED BY <4>2, <4>3, <4>5, Chained
    <3> HIDE DEF tail
    <3> QED BY <2>1, <3>1, <3>2, SharedChainDraws, Chained
  <2>2. CASE ~DynamicOutputs(b)
    <3>1. o = SharedBranch(b)
      BY <2>2 DEF Outputs
    <3>2. o.chain = SharedChain(b)
      BY <3>1 DEF SharedBranch
    <3> QED BY <2>2, <3>2, SharedChainDraws
  <2> QED BY <2>1, <2>2
<1> DEFINE s == o.chain
<1> HIDE DEF s
<1>2. DrawnAtTheEnd(s)
  BY <1>1 DEF s
<1>3. Len(s) \in Nat /\ DOMAIN s = 1..Len(s) /\ Len(s) > 0
  BY <1>2, EmptySeq DEF DrawnAtTheEnd
<1>4. Len(s) \in DOMAIN s /\ \A j \in DOMAIN s : s[j] = "osd" <=> j = Len(s)
  BY <1>2, <1>3 DEF DrawnAtTheEnd
<1> QED BY <1>4 DEF s

\* A pipeline of numbered sources, no output path of which is given twice,
\* shows every camera on its own mount and nowhere else.
LEMMA OutputsAreTheirCameras ==
  ASSUME NEW b, Sources(b.sources), PathsDiffer(b.sources)
  PROVE  /\ DynamicOutputs(b) => \A n \in WithOutput(b) :
              Shown(b, b.sources[n].path) = {b.sources[n].camera}
         /\ \A o, p \in Outputs(b) : o.port + 1 # p.port
         /\ DynamicOutputs(b) /\ b.snapshot.enabled => \A o \in Outputs(b) : o.tap = {o.pad}
<1>1. \A n : /\ Branch(b, n).pad = n /\ Branch(b, n).port = UdpPort(b, n)
             /\ Branch(b, n).mount = b.sources[n].path
             /\ b.snapshot.enabled => Branch(b, n).tap = {n}
  BY DEF Branch, DemuxPad
<1>2. ASSUME DynamicOutputs(b), NEW n \in WithOutput(b)
      PROVE  Shown(b, b.sources[n].path) = {b.sources[n].camera}
  <2> DEFINE path == b.sources[n].path
             read == {o.port : o \in {p \in Outputs(b) : p.mount = path}}
             pads == {o.pad : o \in {p \in Outputs(b) : p.port \in read}}
  <2>1. Outputs(b) = {Branch(b, k) : k \in WithOutput(b)}
    BY <1>2 DEF Outputs
  <2>2. \A k \in WithOutput(b) : b.sources[k].path = path => k = n
    BY DEF WithOutput, PathsDiffer
  <2>3. {p \in Outputs(b) : p.mount = path} = {Branch(b, n)}
    BY <1>1, <2>1, <2>2
  <2>4. read = {UdpPort(b, n)}
    BY <1>1, <2>3
  <2>5. {p \in Outputs(b) : p.port \in read} = {Branch(b, n)}
    <3>1. \A k \in WithOutput(b) : UdpPort(b, k) = UdpPort(b, n) => k = n
      BY PortsDiffer
    <3>2. \A k \in WithOutput(b) : Branch(b, k).port \in read <=> k = n
      BY <1>1, <2>4, <3>1
    <3> HIDE DEF read
    <3> QED BY <2>1, <3>2
  <2>6. pads = {n}
    BY <1>1, <2>5
  <2>7. Shown(b, path) = {b.sources[k].camera : k \in pads \cap DOMAIN b.sources}
    BY DEF Shown
  <2>8. pads \cap DOMAIN b.sources = {n}
    BY <2>6 DEF WithOutput
  <2> HIDE DEF path, pads
  <2> QED BY <2>7, <2>8 DEF path
<1>3. ASSUME NEW o \in Outputs(b) PROVE \E k \in Nat : o.port = 2 * k
  <2>1. CASE DynamicOutputs(b)
    <3>1. PICK n \in WithOutput(b) : o = Branch(b, n)
      BY <2>1 DEF Outputs
    <3> QED BY <1>1, <3>1, PortsDiffer
  <2>2. CASE ~DynamicOutputs(b)
    <3>1. o = SharedBranch(b)
      BY <2>2 DEF Outputs
    <3>2. o.port = 0
      BY <3>1 DEF SharedBranch
    <3>3. o.port = 2 * 0
      BY <3>2
    <3> QED BY <3>3
  <2> QED BY <2>1, <2>2
<1>4. ASSUME NEW o \in Outputs(b), NEW p \in Outputs(b) PROVE o.port + 1 # p.port
  <2>1. PICK k \in Nat : o.port = 2 * k
    BY <1>3
  <2>2. PICK l \in Nat : p.port = 2 * l
    BY <1>3
  <2> QED BY <2>1, <2>2
<1>5. ASSUME DynamicOutputs(b), b.snapshot.enabled, NEW o \in Outputs(b)
      PROVE  o.tap = {o.pad}
  BY <1>1, <1>5 DEF Outputs
<1> QED BY <1>2, <1>4, <1>5

\* "output N showing Camera N and nothing else" (pipeline.py), for every set of
\* source orders the Backend may give and every template.
THEOREM OutputsAreSeparate == Spec => []OutputsShowTheirCamera
<1>1. IInv => OutputsShowTheirCamera
  <2> SUFFICES ASSUME IInv PROVE OutputsShowTheirCamera
    OBVIOUS
  <2>1. ASSUME NEW i \in DOMAIN procs, procs[i].conf # NoConf
        PROVE  Sources(procs[i].conf.sources) /\ PathsDiffer(procs[i].conf.sources)
    BY <2>1 DEF IInv, Loaded
  <2> QED BY <2>1, ChainsDrawOnce, OutputsAreTheirCameras DEF OutputsShowTheirCamera
<1> QED BY <1>1, Inductive, PTL

-----------------------------------------------------------------------------
(* The cooldown *)

LEMMA NextCooldown ==
  ASSUME CooldownCountsStored, [Next]_vars
  PROVE  CooldownCountsStored'
<1>1. CASE UNCHANGED <<stored, cooling, answers>>
  BY <1>1 DEF CooldownCountsStored
<1>2. CASE Accept
  <2> DEFINE d == Head(queue)
             e == [det |-> d, camera |-> CameraOf(d)]
  <2>1. /\ stored' = stored \cup {e} /\ cooling' = cooling \cup {CameraOf(d)}
        /\ answers' \subseteq answers \cup {d}
    BY <1>2 DEF Accept, Record, Answer
  <2>2. e.det = d /\ e.camera = CameraOf(d)
    OBVIOUS
  <2> HIDE DEF d, e
  <2> QED BY <2>1, <2>2 DEF CooldownCountsStored
<1>3. CASE stored' = stored /\ cooling' \subseteq cooling /\ answers' = answers
  BY <1>3 DEF CooldownCountsStored
<1>4. CASE Crash
  BY <1>3, <1>4 DEF Crash
<1>5. CASE \/ StartAgent \/ StartFromCache \/ StartFails \/ StartWithoutCache
           \/ PollFindsChange \/ ApplyChange \/ ApplyFails \/ Launch
           \/ LaunchFails \/ FirstLaunchFails
  BY <1>1, <1>5 DEF StartAgent, StartFromCache, StartFails, StartWithoutCache, PollFindsChange,
              ApplyChange, ApplyFails, Launch, LaunchFails, FirstLaunchFails, ingest
<1>6. CASE Lock \/ Halted \/ Watch \/ PollFails
  BY <1>1, <1>6, ZenonT(40) DEF Lock, Halted, Watch, PollFails, ingest
<1>7. CASE PollFindsNothing \/ Ended \/ UNCHANGED vars
  BY <1>1, <1>7 DEF PollFindsNothing, Ended, vars, ingest
<1>8. ASSUME NEW c \in Configurations, Edit(c) PROVE CooldownCountsStored'
  BY <1>1, <1>8 DEF Edit, ingest
<1>9. ASSUME NEW i \in DOMAIN procs, Bridge(i) PROVE CooldownCountsStored'
  BY <1>1, <1>9 DEF Bridge, Boot, BootRefused, End, Exit, SourcePadAdded, Detect, ingest
<1>10. CASE (\E d \in wire : Receive(d)) \/ Reject \/ Suppress \/ InsertFails
  BY <1>1, <1>10 DEF Receive, Reject, Suppress, InsertFails, Failed
<1>11. CASE \E m \in cooling : CooldownEnds(m)
  BY <1>3, <1>11 DEF CooldownEnds
<1> QED BY <1>2, <1>4, <1>5, <1>6, <1>7, <1>8, <1>9, <1>10, <1>11 DEF Next, Coordinator, Ingest

\* "accepted for cooldown means successfully persisted" (ingest_handler.py): no
\* window opens and no acknowledgement says accepted without a stored event,
\* through failing inserts, locks and kills.
THEOREM CooldownIsEarned == Spec => []CooldownCountsStored
<1>1. Init => CooldownCountsStored
  BY DEF Init, CooldownCountsStored
<1> QED BY <1>1, NextCooldown, PTL DEF Spec
=============================================================================
