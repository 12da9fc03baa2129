------------------------- MODULE OperationalRuntime -------------------------
(***************************************************************************)
(* How the Agent's components come up and go down: the lifespan that makes *)
(* the clients, the supervisor that decides whether to operate and owns    *)
(* the validation monitor, and the coordinator that starts the components  *)
(* in order and stops them in reverse: after a failed start, when the      *)
(* monitor ends, and at shutdown, which may cancel the monitor's task in   *)
(* the middle of such a pass.                                              *)
(*                                                                         *)
(* A pass goes through the awaits of each component's stop: an await is    *)
(* where the event loop switches and where a cancellation arrives.  What   *)
(* the validation answers is another module's; here its terminal results   *)
(* come at any time.  The coordinator's lock is never waited for: the      *)
(* monitor starts after the start, and shutdown awaits the monitor first.  *)
(***************************************************************************)
EXTENDS Integers, Sequences, SequencesExt

CONSTANTS
  Deployments,  \* the component lists the kill switches compose, in order
  MaxFaults     \* bound: failing starts and stops, exits, dying tasks

Workers == {"sync", "snapshot"}
ComponentNames == {"ingest", "deepstream", "configuration"} \cup Workers

(* What the factories compose: every component once, ingest before all     *)
(* others, and no Bridge of the settings beside the configuration's.       *)
ASSUME RuntimeAssumption ==
  /\ MaxFaults \in Nat /\ Deployments \subseteq Seq(ComponentNames)
  /\ \A cs \in Deployments :
       /\ \A i, j \in DOMAIN cs : cs[i] = cs[j] => i = j
       /\ \A i \in DOMAIN cs : cs[i] = "ingest" => i = 1
       /\ ~ {"deepstream", "configuration"} \subseteq ToSet(cs)

VARIABLES
  components,            \* the registered components, a sequence
  phase,                 \* the lifespan's, see Phases
  made, closed,          \* the clients made; the clients closed
  locked,                \* the coordinator's state is ReactivationRequired
  tracked,               \* _running, in start order
  monitor,               \* "none", "polling", "locking" or "done"
  pass, todo, step,      \* the pass under way, what is left of it, the await
  failed,                \* a stop of this pass has failed
  server,                \* _server of the ingest handler is set
  held,                  \* what ingest holds: subset of IngestParts
  connected,             \* the Bridge is connected to the socket
  tasks,                 \* components whose background task is alive
  place,                 \* configuration's task: "idle", "reaping", "spawning"
  bridge, bridgeRunning, \* the child process; configuration's flag for it
  dead,                  \* components whose task ended with an exception
  torn,                  \* history: what was left half way, see TornParts
  python312,             \* wait_closed waits for the connections
  faults

clients == <<made, closed>>
passing == <<pass, todo, step, failed>>
ingest == <<server, held>>
background == <<tasks, dead>>
process == <<bridge, connected>>
configuration == <<place, bridgeRunning>>
vars == <<components, phase, clients, locked, tracked, monitor, passing, ingest,
          background, process, configuration, torn, python312, faults>>

(* A client whose close raised, the stop of the configuration's coordinator *)
(* that left its Bridge running, a start or stop of ingest.                *)
TornParts == {"backend", "validation", "configuration", "ingest"}
Phases == {"loading", "starting", "serving", "failing", "closing", "failed", "down"}
IngestParts == {"listener", "connections", "consumer", "socket"}
Faulty == faults < MaxFaults /\ faults' = faults + 1

Init ==
  /\ components \in Deployments /\ phase = "loading"
  /\ made = {} /\ closed = {} /\ locked = FALSE /\ tracked = <<>>
  /\ monitor = "none" /\ pass = "none" /\ todo = <<>> /\ step = 1 /\ failed = FALSE
  /\ server = FALSE /\ held = {} /\ torn = {} /\ connected = FALSE
  /\ tasks = {} /\ dead = {} /\ place = "idle" /\ bridge = "none" /\ bridgeRunning = FALSE
  /\ python312 \in BOOLEAN /\ faults = 0

-----------------------------------------------------------------------------
(* The foundation: settings, paths, logging, schema.  No client exists yet. *)
FoundationFails ==
  /\ phase = "loading" /\ made = {} /\ Faulty
  /\ phase' = "failed"
  /\ UNCHANGED <<components, clients, locked, tracked, monitor, passing, ingest,
                 background, process, configuration, torn, python312>>

MakeClients ==
  /\ phase = "loading" /\ made = {}
  /\ made' = {"backend", "validation"}
  /\ UNCHANGED <<components, phase, closed, locked, tracked, monitor, passing,
                 ingest, background, process, configuration, torn, python312,
                 faults>>

(* A factory raises, the validation client's or a component's, before      *)
(* there is a supervisor: what was made is closed.                         *)
FactoryFails ==
  /\ phase = "loading" /\ Faulty
  /\ made' = IF made = {} THEN {"backend"} ELSE made
  /\ phase' = "failing" /\ pass' = "last"
  /\ UNCHANGED <<components, closed, locked, tracked, monitor, todo, step, failed,
                 ingest, background, process, configuration, torn, python312>>

(* supervisor.startup: without a usable identity, after a failed           *)
(* activation, or when a rejection cannot be stored, it raises; a locked   *)
(* or rejected identity gives a locked coordinator and nothing else.       *)
StartupRefused ==
  /\ phase = "loading" /\ made # {}
  /\ phase' = "failing" /\ locked' \in BOOLEAN
  /\ UNCHANGED <<components, clients, tracked, monitor, passing, ingest, background,
                 process, configuration, torn, python312, faults>>

StartupLocked ==
  /\ phase = "loading" /\ made # {}
  /\ locked' = TRUE /\ phase' = "serving"
  /\ UNCHANGED <<components, clients, tracked, monitor, passing, ingest, background,
                 process, configuration, torn, python312, faults>>

EnterOperational ==
  /\ phase = "loading" /\ made # {}
  /\ phase' = "starting"
  /\ UNCHANGED <<components, clients, locked, tracked, monitor, passing, ingest,
                 background, process, configuration, torn, python312, faults>>

-----------------------------------------------------------------------------
(* start_operational_components, one component after the other. *)
Starting == phase = "starting" /\ pass = "none"
ToStart == components[Len(tracked) + 1]   \* the component to start
Track == tracked' = Append(tracked, ToStart)
More == Starting /\ Len(tracked) < Len(components)

StartIngest ==
  /\ More /\ ToStart = "ingest" /\ Track
  /\ server' = TRUE /\ held' = IngestParts
  /\ UNCHANGED <<components, phase, clients, locked, monitor, passing, background,
                 process, configuration, torn, python312, faults>>

StartDeepStream ==
  /\ More /\ ToStart = "deepstream" /\ Track
  /\ bridge' = "alive"
  /\ UNCHANGED <<components, phase, clients, locked, monitor, passing, ingest,
                 background, connected, configuration, torn, python312, faults>>

(* With a usable cache the Bridge comes first, then the poll loop. *)
StartConfiguration ==
  /\ More /\ ToStart = "configuration" /\ Track
  /\ bridge' \in {"none", "alive"} /\ bridgeRunning' = (bridge' = "alive")
  /\ tasks' = tasks \cup {"configuration"} /\ place' = "idle"
  /\ UNCHANGED <<components, phase, clients, locked, monitor, passing, ingest, dead,
                 connected, torn, python312, faults>>

StartWorker ==
  /\ More /\ ToStart \in Workers /\ Track
  /\ tasks' = tasks \cup {ToStart}
  /\ UNCHANGED <<components, phase, clients, locked, monitor, passing, ingest, dead,
                 process, configuration, torn, python312, faults>>

(* A pass stops components in the reverse of the order they started in. *)
FaultyOrder(cs) == cs   \* bug: in the order they started in
Order(cs) == Reverse(cs)
Begin(kind) == pass' = kind /\ todo' = Order(tracked) /\ step' = 1 /\ failed' = FALSE

(* The identity, the socket path or the executable is missing, or the file *)
(* cannot be generated: what this attempt started is rolled back.  Ingest  *)
(* may fail after the bind, on the socket's mode: then it listens, but has *)
(* no handle to stop it by.                                                *)
StartFails ==
  /\ More /\ ToStart \notin Workers /\ Faulty
  /\ \/ UNCHANGED <<held, torn>>
     \/ ToStart = "ingest" /\ held' = {"listener", "socket"} /\ torn' = torn \cup {"ingest"}
  /\ Begin("rollback")
  /\ UNCHANGED <<components, phase, clients, locked, tracked, monitor, server,
                 background, process, configuration, python312>>

(* The components run, and one monitor; then the cache is read once more.  *)
StartMonitor ==
  /\ Starting /\ Len(tracked) = Len(components)
  /\ monitor = "none" /\ monitor' = "polling" /\ phase' = "serving"
  /\ UNCHANGED <<components, clients, locked, tracked, passing, ingest, background,
                 process, configuration, torn, python312, faults>>

CacheUnreadable ==
  /\ Starting /\ Len(tracked) = Len(components) /\ Faulty
  /\ monitor = "none" /\ monitor' = "polling" /\ phase' = "failing"
  /\ UNCHANGED <<components, clients, locked, tracked, passing, ingest, background,
                 process, configuration, torn, python312>>

-----------------------------------------------------------------------------
(* The monitor's poll ends: rejected, or with an error it did not expect.  *)
(* Either way the runtime is locked before anything is stopped; after an   *)
(* error, a failed stop is not tried again.                                *)
MonitorEnds ==
  /\ monitor = "polling" /\ phase = "serving" /\ pass = "none"
  /\ monitor' = "locking" /\ locked' = TRUE
  /\ \E kind \in {"lock", "retry"} : Begin(kind)
  /\ UNCHANGED <<components, phase, clients, tracked, ingest, background, process,
                 configuration, torn, python312, faults>>

(* shutdown: the signal, or the end of a failed startup. *)
Closing == phase \in {"closing", "failing"}
Signal ==
  /\ phase = "serving" /\ phase' = "closing"
  /\ UNCHANGED <<components, clients, locked, tracked, monitor, passing, ingest,
                 background, process, configuration, torn, python312, faults>>

(* The awaits of each component's stop. *)
Awaits(c) ==
  CASE c = "ingest" -> <<"enter", "yields", "closed", "connections", "consumer">>
    [] c = "deepstream" -> <<"signal", "reap">>
    [] c = "configuration" -> <<"task", "signal", "reap", "client">>
    [] OTHER -> <<"task", "client">>

Current == Head(todo)
At(s) == pass # "none" /\ todo # <<>> /\ Awaits(Current)[step] = s
Untrack == \E i \in DOMAIN tracked :
             tracked[i] = Current /\ tracked' = RemoveAt(tracked, i)

(* The stop of the current component goes on, is over, or has failed: then *)
(* the component stays tracked, except in a rollback.                      *)
Over == todo' = Tail(todo) /\ step' = 1 /\ Untrack /\ UNCHANGED <<pass, failed>>
Advance ==
  IF step < Len(Awaits(Current))
  THEN step' = step + 1 /\ UNCHANGED <<pass, todo, failed, tracked>>
  ELSE Over
Raise ==
  /\ todo' = Tail(todo) /\ step' = 1 /\ failed' = TRUE
  /\ IF pass = "rollback" THEN Untrack ELSE UNCHANGED tracked
  /\ UNCHANGED pass

(* A background task is cancelled and awaited.  The configuration's may be *)
(* spawning a Bridge: the spawn is undone with it.                         *)
StopTask ==
  /\ At("task") /\ Current \notin dead
  /\ tasks' = tasks \ {Current}
  /\ place' = IF Current = "configuration" THEN "idle" ELSE place
  /\ Advance
  /\ UNCHANGED <<components, phase, clients, locked, monitor, ingest, dead, process,
                 bridgeRunning, torn, python312, faults>>

(* Only the cancellation is suppressed: a task that has died raises again, *)
(* here, before the Bridge is stopped and the client closed.  The handle   *)
(* has gone by then, so a second stop does the rest.                       *)
StopTaskRaises ==
  /\ At("task") /\ Current \in dead
  /\ dead' = dead \ {Current}
  /\ torn' = torn \cup (IF bridgeRunning THEN {Current} \ Workers ELSE {})
  /\ Raise
  /\ UNCHANGED <<components, phase, clients, locked, monitor, ingest, tasks,
                 process, configuration, python312, faults>>

(* The child is told to end and reaped: at once if nothing is tracked. *)
Wanted == Current = "configuration" => bridgeRunning
StopSignal ==
  /\ At("signal")
  /\ bridge' = IF Wanted /\ bridge = "alive" THEN "ending" ELSE bridge
  /\ Advance
  /\ UNCHANGED <<components, phase, clients, locked, monitor, ingest, background,
                 connected, configuration, torn, python312, faults>>

StopReap ==
  /\ At("reap") /\ (Wanted => bridge = "none")
  /\ bridgeRunning' = FALSE /\ torn' = torn \ {Current}
  /\ Advance
  /\ UNCHANGED <<components, phase, clients, locked, monitor, ingest, background,
                 process, place, python312, faults>>

StopClient ==
  /\ At("client")
  /\ closed' = closed \cup {Current}
  /\ Advance
  /\ UNCHANGED <<components, phase, made, locked, monitor, ingest, background,
                 process, configuration, torn, python312, faults>>

StopClientFails ==
  /\ At("client") /\ Faulty
  /\ Raise
  /\ UNCHANGED <<components, phase, clients, locked, monitor, ingest, background,
                 process, configuration, torn, python312>>

(* The ingest handler: its handle goes first, without it there is nothing  *)
(* to stop; then some ticks for accepts under way, then the listener.      *)
StopEnters ==
  /\ At("enter")
  /\ IF server THEN server' = FALSE /\ Advance ELSE Over /\ UNCHANGED server
  /\ UNCHANGED <<components, phase, clients, locked, monitor, held, background,
                 process, configuration, torn, python312, faults>>

StopYields ==
  /\ At("yields")
  /\ held' = held \ {"listener"}
  /\ Advance
  /\ UNCHANGED <<components, phase, clients, locked, monitor, server, background,
                 process, configuration, torn, python312, faults>>

StopListening ==
  /\ At("closed") /\ (python312 => ~connected)
  /\ Advance
  /\ UNCHANGED <<components, phase, clients, locked, monitor, ingest, background,
                 process, configuration, torn, python312, faults>>

StopConnections ==
  /\ At("connections")
  /\ held' = held \ {"connections"} /\ connected' = FALSE
  /\ Advance
  /\ UNCHANGED <<components, phase, clients, locked, monitor, server, background,
                 bridge, configuration, torn, python312, faults>>

(* A connection that was reset in this very tick raises when awaited. *)
ConnectionReset ==
  /\ At("connections") /\ Faulty
  /\ torn' = torn \cup {"ingest"}
  /\ Raise
  /\ UNCHANGED <<components, phase, clients, locked, monitor, ingest, background,
                 process, configuration, python312>>

StopConsumer ==
  /\ At("consumer")
  /\ held' = held \ {"consumer", "socket"}
  /\ Advance
  /\ UNCHANGED <<components, phase, clients, locked, monitor, server, background,
                 process, configuration, torn, python312, faults>>

-----------------------------------------------------------------------------
(* The end of a pass.  A failed rollback raises out of startup; the        *)
(* monitor, whose first pass failed, makes one more for the fatal error.   *)
PassOver == pass # "none" /\ todo = <<>>
Idle == pass' = "none" /\ UNCHANGED <<todo, step, failed>>

RolledBack ==
  /\ PassOver /\ pass = "rollback"
  /\ Idle /\ phase' = "failing"
  /\ UNCHANGED <<components, clients, locked, tracked, monitor, ingest, background,
                 process, configuration, torn, python312, faults>>

MonitorStops ==
  /\ PassOver /\ pass \in {"lock", "retry"}
  /\ IF pass = "lock" /\ failed
     THEN Begin("retry") /\ UNCHANGED monitor
     ELSE Idle /\ monitor' = "done"
  /\ UNCHANGED <<components, phase, clients, locked, tracked, ingest, background,
                 process, configuration, torn, python312, faults>>

(* shutdown cancels the monitor's task where it waits.  An await of a      *)
(* cancelled task swallows the cancellation, and the monitor goes on; any  *)
(* other await ends the pass there.                                        *)
Raises == At("yields") \/ (At("closed") /\ python312) \/ At("reap") \/ At("client")
CancelMonitor ==
  /\ Closing /\ monitor \in {"polling", "locking"}
  /\ monitor = "locking" => Raises
  /\ torn' = torn \cup (IF At("yields") \/ At("closed") THEN {"ingest"} ELSE {})
  /\ monitor' = "done" /\ pass' = "none" /\ todo' = <<>> /\ step' = 1
  /\ UNCHANGED <<components, phase, clients, locked, tracked, failed, ingest,
                 background, process, configuration, python312, faults>>

(* In memory only: what is stored decides the next startup. *)
LastPass ==
  /\ Closing /\ monitor \in {"none", "done"} /\ pass = "none"
  /\ locked' = TRUE
  /\ Begin("last")
  /\ UNCHANGED <<components, phase, clients, tracked, monitor, ingest, background,
                 process, configuration, torn, python312, faults>>

(* Then the validation client is closed, and the Backend's.  When that of  *)
(* the first raises, a failed startup leaves the second open; shutdown     *)
(* goes on.                                                                *)
Close(c) == closed' = closed \cup (made \cap {c})
LastPhase == phase' = IF phase = "failing" THEN "failed" ELSE "down"
CloseValidation ==
  /\ PassOver /\ pass = "last"
  /\ Close("validation") /\ pass' = "backend"
  /\ UNCHANGED <<components, phase, made, locked, tracked, monitor, todo, step,
                 failed, ingest, background, process, configuration, torn,
                 python312, faults>>

CloseValidationFails ==
  /\ PassOver /\ pass = "last" /\ "validation" \in made /\ Faulty
  /\ torn' = torn \cup {"validation"}
  /\ IF phase = "failing" THEN pass' = "none" /\ LastPhase
     ELSE pass' = "backend" /\ UNCHANGED phase
  /\ UNCHANGED <<components, clients, locked, tracked, monitor, todo, step, failed,
                 ingest, background, process, configuration, python312>>

CloseBackend ==
  /\ PassOver /\ pass = "backend"
  /\ Close("backend") /\ Idle /\ LastPhase
  /\ UNCHANGED <<components, made, locked, tracked, monitor, ingest, background,
                 process, configuration, torn, python312, faults>>

CloseBackendFails ==
  /\ PassOver /\ pass = "backend" /\ Faulty
  /\ torn' = torn \cup {"backend"} /\ Idle /\ LastPhase
  /\ UNCHANGED <<components, clients, locked, tracked, monitor, ingest, background,
                 process, configuration, python312>>

-----------------------------------------------------------------------------
(* The child process, as far as a start or a stop can see it. *)
Connect ==
  /\ bridge = "alive" /\ "listener" \in held /\ ~connected
  /\ connected' = TRUE
  /\ UNCHANGED <<components, phase, clients, locked, tracked, monitor, passing,
                 ingest, background, bridge, configuration, torn, python312,
                 faults>>

FaultyGone == UNCHANGED process   \* bug: a child that ignores the signal is not killed
Gone == bridge' = "none" /\ connected' = FALSE
BridgeEnds ==
  /\ bridge = "ending" /\ Gone
  /\ UNCHANGED <<components, phase, clients, locked, tracked, monitor, passing,
                 ingest, background, configuration, torn, python312, faults>>

BridgeExits ==
  /\ bridge = "alive" /\ Faulty /\ Gone
  /\ UNCHANGED <<components, phase, clients, locked, tracked, monitor, passing,
                 ingest, background, configuration, torn, python312>>

(* The configuration task restarts it for a new configuration, at any time *)
(* before it is itself cancelled; the flag falls when the child is reaped. *)
Applying(from) == "configuration" \in tasks /\ place = from
FaultyFlag == bridgeRunning' = FALSE   \* bug: the flag falls with the signal
Flag == UNCHANGED bridgeRunning
ApplyStops ==
  /\ Applying("idle") /\ place' = "reaping"
  /\ bridge' = IF bridge = "alive" THEN "ending" ELSE bridge
  /\ Flag
  /\ UNCHANGED <<components, phase, clients, locked, tracked, monitor, passing,
                 ingest, background, connected, torn, python312, faults>>

ApplyReaps ==
  /\ Applying("reaping") /\ bridge = "none"
  /\ place' \in {"idle", "spawning"} /\ bridgeRunning' = FALSE
  /\ UNCHANGED <<components, phase, clients, locked, tracked, monitor, passing,
                 ingest, background, process, torn, python312, faults>>

ApplySpawns ==
  /\ Applying("spawning") /\ place' = "idle"
  /\ bridge' = "alive" /\ bridgeRunning' = TRUE
  /\ UNCHANGED <<components, phase, clients, locked, tracked, monitor, passing,
                 ingest, background, connected, torn, python312, faults>>

ApplySpawnFails ==
  /\ Applying("spawning") /\ Faulty /\ place' = "idle"
  /\ UNCHANGED <<components, phase, clients, locked, tracked, monitor, passing,
                 ingest, background, process, bridgeRunning, torn, python312>>

(* The backoff of a loop multiplies by a power of two before it takes the  *)
(* cap: after hours of failed attempts that overflows, and the task dies.  *)
TaskDies(c) ==
  /\ c \in tasks /\ phase \in {"serving", "closing"} /\ Faulty
  /\ c = "configuration" => place = "idle"
  /\ tasks' = tasks \ {c} /\ dead' = dead \cup {c}
  /\ UNCHANGED <<components, phase, clients, locked, tracked, monitor, passing,
                 ingest, process, configuration, torn, python312>>

(* The configuration's coordinator raised in its stop before it came to    *)
(* the Bridge, and no later stop has made up for it.                       *)
BridgeLeft == "configuration" \in torn

(* Where wait_closed waits for connections, that of such a Bridge keeps    *)
(* the stop of ingest waiting.  Nothing else stops the program for good.   *)
Hung == BridgeLeft /\ python312 /\ connected
Finished == (phase \in {"failed", "down"} \/ Hung) /\ UNCHANGED vars

-----------------------------------------------------------------------------
Startup ==
  \/ MakeClients \/ StartupRefused \/ StartupLocked \/ EnterOperational
  \/ StartIngest \/ StartDeepStream \/ StartConfiguration \/ StartWorker
  \/ StartMonitor
Stopping ==
  \/ StopTask \/ StopTaskRaises \/ StopSignal \/ StopReap \/ StopClient
  \/ StopEnters \/ StopYields \/ StopListening \/ StopConnections \/ StopConsumer
Ending ==
  \/ RolledBack \/ MonitorStops \/ CancelMonitor \/ LastPass
  \/ CloseValidation \/ CloseBackend
Failing ==
  \/ FoundationFails \/ FactoryFails \/ StartFails \/ CacheUnreadable
  \/ StopClientFails \/ ConnectionReset \/ CloseValidationFails \/ CloseBackendFails
Child == Connect \/ BridgeEnds \/ BridgeExits
Configuration ==
  \/ ApplyStops \/ ApplyReaps \/ ApplySpawns \/ ApplySpawnFails
  \/ \E c \in tasks : TaskDies(c)

Next ==
  \/ Startup \/ Failing \/ MonitorEnds \/ Signal
  \/ Stopping \/ Ending
  \/ Child \/ Configuration \/ Finished

(* The event loop runs what is ready, and a child told to end is killed    *)
(* after the stop timeout.  No signal and no verdict need ever come.       *)
Fairness == WF_vars(Stopping) /\ WF_vars(Ending) /\ WF_vars(BridgeEnds)

Spec == Init /\ [][Next]_vars
FairSpec == Spec /\ Fairness

-----------------------------------------------------------------------------
(* The shape of the state. *)
TypeOK ==
  /\ components \in Deployments /\ phase \in Phases
  /\ closed \subseteq {"backend", "validation"} \cup ComponentNames
  /\ ToSet(tracked) \subseteq ToSet(components)
  /\ monitor \in {"none", "polling", "locking", "done"}
  /\ pass \in {"none", "rollback", "lock", "retry", "last", "backend"}
  /\ ToSet(todo) \subseteq ToSet(tracked) /\ step \in 1..5
  /\ held \subseteq IngestParts /\ tasks \subseteq ComponentNames
  /\ dead \subseteq ComponentNames \ tasks /\ torn \subseteq TornParts
  /\ bridge \in {"none", "alive", "ending"}
  /\ faults <= MaxFaults

(* "the Bridge can never race an absent listener", nor make a detection    *)
(* "with nowhere for it to land": while its process lives the socket is    *)
(* bound, through failed starts, stops that fail or are cancelled in the   *)
(* client or in ingest, and restarts by the configuration task, which the  *)
(* lock does not hold up.  A dead configuration task is the exception: its *)
(* stop raises before the Bridge is stopped, and ingest is stopped next.   *)
BridgeHasListener ==
  bridge # "none" /\ "ingest" \in ToSet(components) /\ ~BridgeLeft
    => "listener" \in held

(* A locked runtime that has finished stopping runs no task and no Bridge, *)
(* even if a stop was cancelled, or the close of a client failed in it;    *)
(* nor does one that is down, except for the Bridge that a dead            *)
(* configuration task has left.  A failed startup leaves nothing running   *)
(* at all.  Both have closed every client made whose close did not raise,  *)
(* but for the Backend's client of a failed startup in which that of the   *)
(* validation client raised; and ingest holds nothing, unless a start or a *)
(* stop of it was left half way.                                           *)
Quiet == tasks = {} /\ bridge = "none"
StoppedIsReleased ==
  /\ phase = "serving" /\ locked /\ pass = "none" => tasks = {} /\ (Quiet \/ BridgeLeft)
  /\ phase = "down" => tasks = {} /\ (Quiet \/ BridgeLeft)
  /\ phase = "failed" => Quiet
  /\ phase \in {"failed", "down"} =>
       /\ monitor \in {"none", "done"}
       /\ \A c \in made \ closed : c \in torn \/ (phase = "failed" /\ "validation" \in torn)
       /\ "ingest" \in torn \/ (held = {} /\ ~connected)

(* Shutdown ends, a failed startup too, and a locked runtime comes to rest *)
(* without one: no wait for a child or for the monitor is for ever.  The   *)
(* wait for the listener is, where wait_closed waits for connections, when *)
(* a dead configuration task has left a Bridge that does not hang up; and  *)
(* what a locked runtime leaves running is that Bridge.                    *)
ComesDown ==
  /\ Closing ~> (phase \in {"failed", "down"} \/ []Hung)
  /\ (locked /\ phase = "serving") ~> (Quiet \/ []BridgeLeft)
=============================================================================
