# A verification project for the edge weapon detection platform

A Jetson in a branch runs inference on its cameras and keeps what it finds until
a Backend has it. This directory holds TLA+ specifications of the parts of the
platform in which order, failure and concurrency decide whether that works, TLC
configurations that check them on small instances, and TLAPS proofs for every
value of the constants.

## 1. Inventory

| Component | State it keeps | Operations | What is hard |
|---|---|---|---|
| Bridge (`deployment/jetson/deepstream/bridge`) | bounded queues, reconnecting Unix socket, rendezvous of JPEG and acknowledgement | probe, encode, send, read acknowledgement, expire | four threads, three orders of arrival, full queues |
| Agent ingest (`detection/`) | listener, one queue, cooldown windows | validate, cooldown, insert, acknowledge, capture snapshot | backpressure, stop with a full queue, cooldown against failed inserts |
| Agent outboxes (`persistence/`) | SQLite `DetectionEvent`, `SnapshotOutbox`, `DeviceIdentity`, `ConfigCache`; JPEG spool | one transaction per call | two stores (rows and files) that no transaction spans |
| Agent sync worker (`sync/`) | backoff; a batch across an await | drain, mark delivered or suppressed, link AlertIds, cancel snapshots | lost and late answers, stale batch, head-of-line rows, kills between commits |
| Agent upload worker (`snapshot/`) | backoff; a batch across many awaits | list, upload, mark, unlink | the same, and the file system |
| Agent runtime (`runtime/`, `validation/`, `activation/`) | operational state, started components | activate, validate, lock, reactivate, start and stop components | partial starts and stops, a lock that must survive a restart |
| Agent configuration (`configuration/`, `deepstream/`) | applied configuration, cache, Bridge process | poll, apply, restart Bridge, resolve source ids | failed starts, stale source ids |
| Backend sync (`AlertSyncService`) | `Alert`, `SuppressedDetectionEvent`, `BranchDailyAlertQuota` | `POST /sync/events` | concurrent transactions, unique-key races, savepoints, a counter at its limit |
| Backend upload (`AlertSnapshotUploadService`) | the Alert's snapshot fields, files | `POST` a snapshot | two uploads at once, file before row |
| Backend devices (`DeviceService`, `DeviceCredentialValidator`) | `Device`, `ActivationKey` | regenerate, activate, validate | single use of a key, a lost response, regeneration against activation |
| Administration, queries, frontend | sessions, branches, cameras; nothing of their own | single-row requests, projections | nothing a model checker would find |

Components meet in five places: the Bridge sends frames to the ingest handler and
gets acknowledgements back on the same socket; the ingest handler and the two
workers share the SQLite file and the spool and run on one asyncio loop; the
workers call the Backend over HTTP and may give up before it does; Backend
requests share a database at READ COMMITTED; the coordinator starts and stops all
of the Agent's components together.

What each must get right:

- *Backend sync*: a branch-local day never holds more Alerts than its quota; the
  counters equal the tables; a response says what was committed; an event has one
  outcome.
- *Outboxes and workers*: an event stops being sent only when its outcome is on
  the Backend; a suppressed event's snapshot never leaves; a file outlives every
  row that still needs it; final is final; everything sendable drains.
- *Spool*: rows and files agree after a kill.
- *Devices*: a key is used once; a refused credential locks the Agent durably.
- *Bridge*: a snapshot is sent once, for an accepted event, and shows the frame the
  event was seen in; memory is bounded; a stop releases everything.
- *Configuration*: one Bridge runs, the published configuration, and a detection is
  attributed to the camera that saw it; a camera's mount shows that camera.
- *Runtime*: a Bridge never runs without its listener; whatever fails or is
  cancelled, a lock and a shutdown leave nothing running.

The hazards behind these, each at its line, are in `PROJECT.json`.

## 2. Modules

`AlertLedger` is the abstract promise of the Backend: decisions about events,
never taken back, never more than the quota a day, suppression only on a full
day. Two detailed modules use it:

- `AlertSync` refines it (`ImplementsLedger`);
- `EvidenceDelivery` uses its step `Record` for the Backend's side of a sync
  request, so that what the Agent is checked against is what the Backend was
  shown to do.

**AlertSync** models `SyncEventsAsync`. Each request slot `r` runs one
transaction; `pc[r]` names the await it has reached, `own[r]` its uncommitted
writes, `save[r]` those writes at the event's savepoint, `db` the committed
tables. One action is one statement to the database: the two lookups, the
existence check and insert of the quota row, the conditional update, the Alert
insert, the suppressed insert, the counter update, commit. A write waits for an
uncommitted write of the same key or row; a unique key that is committed already
takes the `catch` branch, which restores `save[r]` (`Undo`). `Abort` is a
deadlock victim, a timeout or a restart. Validation of confidence and boxes and an
unresolvable camera are one rejection (`RejectEvent`); administrators change what
a camera name resolves to (`EditCameras`). Within a batch, events are taken in any
order, which includes the one the request lists. There are finitely many events, so
that the counters can be compared with sizes of sets (`SyncAssumption`). Left out: the
statistics per class, timestamps and log throttling. **AlertSyncProofs** holds the
theorems about it.

**EvidenceDelivery** models the Agent. `event`, `capture`, `upload`, `linked`,
`capturedAt` are columns of its two tables, `spool` the files; `syncPc` and `upPc`
name where the workers stand, `batch`, `ok`, `over`, `todo`, `list`, `record` are
what they hold across awaits. All tasks share one event loop, so code between two
awaits is not interleaved with another task: `loop` names the task that has it.
Yet each SQLite commit and each file operation is an action of its own, so that
`Stop` (a kill, or the coordinator cancelling the tasks) can fall between any two.
The network loses and delays: a worker may give up at any time (`SyncFails`,
`UploadFails`), and what it gave up may be executed later (`DecideLate`,
`AttachLate`). SQLite and the file system fail where the code has a handler for
it (`MarkFails`, `SinkFails`, `FinishFails`, `CreateCapturedFails`,
`StartUnreconciled`). The Bridge is reduced to the set `frames` of snapshots on
their way. Somebody may remove snapshot files, any number at once (`RemoveFiles`); a
JPEG that was modified is treated like one that was removed: both are skipped without a
change of status. `Starved` names the state in which a full batch of rows without files
is at the head of the snapshot outbox.

**EvidenceDeliveryProofs** holds the theorems about it.

**DeviceCredential** models the life of a device's credential on both sides. On the
Backend, `keys` and `device` are the committed tables, and each request slot is a
transaction: a regeneration reads the device (`ReadDevice`), then its unconsumed
keys (`ReadKeys`), and saves (`CommitRegeneration`) unless the filtered unique
index objects (`NoConflict`) or a lock makes it wait (`MaySave`); an activation
takes the update lock on the key (`LockKey`), reads the device (`LoadDevice`) and
saves (`CommitActivation`). `SaveChanges` is what a save of a tracked entity does: it
writes the columns that differ from what was read. `RollBack` and `FailActivation`
are a conflict, a deadlock victim, a cancelled request, a restart. On the Agent,
`keyFile` and `identity` survive a stop, `pc` says where the supervisor, the
activation service or the validation monitor stands, and each commit or deletion is
an action of its own, so that `Stop` can fall between them. A request the Agent gave
up runs on in its slot. `ProvisionKey` is the operator's script, which may be run at
any time, with any key whose plaintext was disclosed, an old one or another
branch's included. The n-th activation issues secret n; `issued[n]` is the key that
bought it. Left out: the key in the environment (never deleted), deletion of a
branch, an Agent that starts with neither identity nor key (it fails and changes
nothing), and how components start and stop.

**DeviceCredentialProofs** holds the theorems about it.

**BridgeEvidence** models a running Bridge, thread by thread. A buffer passes the
metadata probe (`HandleBuffer`, then for each object `OnCandidate` and `Enqueue`),
then its camera's snapshot branch (`PassBuffer` into the leaky queue, `GateBuffer`
at the valve, `NewSample` at the appsink). `sender` and `reader` say where the
transport's two threads stand, `hand` and `readerHand` what they hold. The
rendezvous is `byMessage`, a sequence because the store is ordered, and `byFrame`;
its lock makes each method one step, built from the same operators (`Arrive`,
`Drop`, `Update`) whichever thread calls. Time is abstracted: all candidates live
equally long, so each call may find any number of the oldest ones expired. The
socket is `connected`, what the Agent has still to answer (`inbox`) and what it
answered (`acks`); `synced` is lost when `_recv_exact` gives up part of a frame
(`LoseStep`). A message is `<<source, frame, object>>`. The Agent and GStreamer are
external. **BridgeEvidenceProofs** and, for the promise that neither order of picture and
acknowledgement loses a snapshot, **BridgeOrderProofs** hold the theorems about it.

**ConfigurationPath** holds what happens to a configuration on its way: the client's
limits, validation, the cached form with its recovery of old rows, the source
mapping, the generated DeepStream file, the Bridge's reading of it, and the pads,
ports, mounts and snapshot taps of the pipeline built from it. Each conversion is an
operator; strings are records of what the conversions look at.

**CameraConfiguration** runs it: `pc` is where `DeviceConfigurationCoordinator` stands
between two awaits, `handle` the process the process manager holds, `procs` every
Bridge ever started with the file it loaded, `wire` and `queue` the detections on
their way, `stored`, `cooling` and `answers` what the ingest handler did with them.
`PollFindsChange` saves the cache and stops the Bridge, `ApplyChange` writes the file
and installs the mapping, `Launch` spawns. `ApplyFails` is a file that cannot be
generated (`GenerateFails`): for this configuration or template at all, or only this
time, when the template cannot be read or the new file written. The row is cached and
the Bridge stopped by then, and `setback` remembers it; it also remembers a Bridge that
was not launched or that exited. A Bridge reads the file when it boots (`Boot`, `BootRefused`), which may be
later than the spawn, links its sources in any order and may exit by itself. `Take`
is one turn of the consumer: `Reject`, `Suppress`, `Accept` or `InsertFails`.
`ConfigurationAssumption` says what may be published and cached: enabled cameras, as
`DeviceConfigurationService` lists them, with keys that are not empty and URLs that a
Bridge can be given. **CameraConfigurationProofs** holds the theorems about it.

**OperationalRuntime** models how the components come up and down: the lifespan's
phases, the supervisor's monitor task, and the passes of the coordinator
(`rollback`, `lock`, the monitor's `retry`, shutdown's `last`). `Awaits` lists the awaits
of each component's `stop`; a pass advances one await at a time, and
`CancelMonitor` can end it at each one at which a cancellation raises. The ingest
handler's parts, the workers' tasks, the configuration's task, which may be in the
middle of restarting the Bridge, and the child process are separate pieces of
state. A background task may have died (`TaskDies`): its stop then raises where it awaits the
task (`StopTaskRaises`), before the Bridge is stopped and the client closed. An ingest
start that fails on the socket's mode has bound the socket already (`StartFails`). The
two clients are closed one after the other, and each close may raise. What a failure leaves
half way is noted in `torn`. Whether `wait_closed` waits for open connections depends on the Python
version: `python312` is both. `RuntimeAssumption` says what lists of components the
factories compose: each component once, ingest before all others (`main.py`), and the
Bridge of the settings only without the configuration's (`process_manager.py`).
**OperationalRuntimeProofs** holds the theorems about it.

**SequenceFacts** holds lemmas about `Append`, `Tail`, `Reverse`, `RemoveAt` and `EXCEPT` on
sequences, which the last two modules of proofs share.

How the modules meet: `EvidenceDelivery` starts where `BridgeEvidence` ends (a
snapshot sent is a frame in its set `frames`); `CameraConfiguration` decides the camera of the
events `EvidenceDelivery` delivers, and takes from `OperationalRuntime` that ingest is
there whenever a Bridge is (`BridgeHasListener`); `OperationalRuntime` takes a
terminal verdict at any time where `DeviceCredential` says which one comes.

## 3. Runs

| Run | Instance | Shows |
|---|---|---|
| `SyncQuota` | 2 requests, 3 events on one day, quota 2, batches of 2 | counters, quota, one Alert per event, true answers, refinement of `AlertLedger` |
| `SyncTwoVerdicts` | 2 requests, 2 events, quota 1 | *violated*: an event accepted and suppressed |
| `EvidenceFaults` | 2 events, quota 1, 1 stop, 2 faults, 2 late | the safety properties under every failure |
| `EvidenceLive` | 3 events, one foreign, quota 2, 1 stop, 1 fault, batches of 2 | the metadata outbox drains; linked rows are uploaded past a missing file; no task keeps the loop; except when a full batch of files is missing |
| `EvidenceOvertaken` | 2 events, quota 1, batches of 1 | *violated*: an answer that overtakes the capture never reaches the snapshot |
| `CredentialRaces` | 1 device, 3 keys, 2 activations, 2 regenerations | one unconsumed key, one secret per key |
| `CredentialAgent` | 2 devices, 3 keys, 1 activation, 1 regeneration, 1 stop, 1 fault | a stored secret is the stored device's own; the device id is permanent; the lock is justified; a revoked Agent locks or stops |
| `BridgeRendezvous` | 2 cameras, 2 frames and 1, 1 object each, 1 candidate, queues of 1, 1 split frame | bounded memory; the right picture, once, in both orders of arrival; a stop completes |
| `BridgeTwoObjects` | 1 camera, 1 frame, 2 objects | *violated*: the first object of a frame never gets its picture |
| `CameraConfiguration` | 6 configurations, 5 deployments, 2 detections, queue 1, 1 edit, 2 faults | one Bridge, mapping and file in step, attribution, outputs, cooldown, cache; a published configuration takes effect |
| `ConfigPoison` | 2 configurations, one with a `%` in a URL, 1 edit, no fault | *violated*: the applied camera does not keep running |
| `OperationalRuntime` | 3 component lists, both Pythons, 4 faults | no Bridge without listener; nothing left running; everything comes down; except for what a dead configuration task leaves |

Bounds and why they suffice. Two requests are enough for every race in
`AlertSync`: each lock, key and row has one holder and one waiter, and a third
request only adds a second waiter. Three events with batches of two give batches
that overlap in one event, meet at the quota row, or contain each other's events.
Two days would add requests that take two quota rows in opposite order; the victim
of that deadlock is an `Abort`, which may happen anyway. With a quota of one the
key of an Alert is never found taken after the quota was (the first Alert fills
the day), so `SyncQuota` uses a quota of two: one Alert lost to a race, one
accepted, one event turned away.

In `EvidenceDelivery`, two events give one outcome of each kind, and three with
batches of two a row left behind by a batch. `MaxStops`, `MaxFaults` and `MaxLate`
are the only bounds on behaviours: how often the Agent is killed, how often a
local operation fails, and how many events of abandoned requests are in flight
(a request beyond that bound is treated as lost). The evidence runs switch
deadlock checking off: the system stops when all is delivered and the bounded
failures are used up. In `EvidenceLive` the two delivered events fill a batch, and the one
fault may remove both their files, so the run reaches `Starved`. A third linked row behind
that batch would need four events, whose state space (more than a million states with
liveness) does not finish; that such a row starves is plain from the text of
`_drain_once`, and the properties do not deny it.

In `DeviceCredential` three keys are the first one and two replacements, so that a
regeneration meets one that has just committed; two activations are two holders of
one key, or one of the old key and one of the new. A slot is used again when its
request has ended, so the number of requests is not bounded, only how many overlap.
`CredentialAgent` has liveness, hence no symmetry, and one activation at a time (the
races are `CredentialRaces`'), and switches deadlock checking off: a locked Agent
without a fresh key stays so.

In `BridgeEvidence` two cameras with the same frame numbers are what an index
without the source would confuse, and two frames of one camera are what a leak of
the branch's queue or a used-up number would. One retained candidate and queues of
one are full at once, so overflow, shedding and expiry all happen (806 thousand
states). More objects per frame are `BridgeTwoObjects`.

In `CameraConfiguration` the configurations differ where the code looks: a
camera added, one removed and its source order given to another, none left,
two with one order, which validation refuses, and a URL with a lone `%`, for which no
file can be generated. The deployments are the shipped file, without a cache and with
the first configuration cached, so that one edit suffices to publish the `%` and go back; one with a single shared output and a cache that does not parse; one the
Bridge refuses, with a cache from before camera keys; and one without a source
section, for which no file can be generated. Two detections and a queue of one
give one queued across a restart and one that finds the queue full. Two faults are an
apply that fails and a kill before the next one (795 thousand states). In `OperationalRuntime` the lists are the server-driven one, the static one and
the one with everything switched off; four faults are a task that dies, a stop that fails
in the lock's pass, another in the next pass, and a close that raises at the end.

### Fairness

`FairSpec` asks for weak fairness of what runs on the loop without waiting for
anything (applying an answer, working through a batch, the row of a written
snapshot) and of a restart, which systemd and the coordinator provide. Calls to
the Backend and the wake-ups after them need strong fairness: the loop or the
network is taken by others in between, again and again, but a call that is retried
for ever is not refused for ever. Nothing is assumed about detections, snapshot
frames, failures or stops. `DecideLate` and `AttachLate` are not fair: a request
that was given up may never be executed.

`DeviceCredential` assumes that the monitor's loop goes on (`SendValidation`), that
of validations repeated for ever one reaches the Backend and one rejection comes
back (strong fairness), and that the Agent acts on it. Nothing is assumed about
administrators, operators, activations or stops.

`BridgeEvidence` assumes that the sender and the reader thread run, which the
operating system provides, and that `main` gets from one shutdown call to the next.
Nothing makes a camera deliver, an Agent answer, a connection succeed or a signal
come. `CameraConfiguration` assumes that systemd starts the Agent again, that the event
loop runs its tasks, that a poll is answered in the end (failed ones are bounded by
`MaxFaults`), that a started process reads its file and that one told to stop is gone
within the stop timeout, when the process manager kills it. `OperationalRuntime` assumes the
last and that the event loop runs what is ready. Its locked runtime comes to rest, and its
shutdown ends, without any assumption about signals, verdicts or the Bridge.

`PendingIsFinalised`, `LinkedIsUploaded` and `LoopIsYielded` hold unless the outbox is
`Starved` for good: from then on the upload worker holds the loop without a pause, and no
fairness gets anybody past it but a restart, whose reconciliation takes the rows off the
list. `ComesDown` in the same way excepts `Hung`, and
`PublishedTakesEffect` what `setback` names. `PendingIsFinalised` also excludes foreign
rows and events whose camera may be
disabled; both stay pending, and `EvidenceLive` keeps fewer of them than a batch
holds. With a full batch of them no later row is ever sent; the code has no other
answer to that and the documents do not claim one.

### Disagreements found

1. *Two verdicts* (`SyncTwoVerdicts`). FS-09 section 8 says the quota layer only
   runs for events that have no Alert and no suppressed record. The lookups hold
   no lock until the update. Two requests with the same event, for instance a
   retry while the first is still executing, both find nothing; the first commits
   its Alert and fills the day; the second records a suppression. The Agent then
   keeps the event as suppressed although it has an Alert.
2. *Overtaken capture* (`EvidenceOvertaken`). FS-08 section 7 says capture-first
   and metadata-first must both work. `associate_alert_id` does nothing when the
   row is not there yet, and a delivered event is never sent again: its snapshot is
   never uploaded. FS-09 section 10 says `cancel_for_quota` also takes care of a row
   that does not exist yet. It is an `UPDATE` and leaves nothing behind.
3. *Second object* (`BridgeTwoObjects`). `snapshot.py` says that both orders of
   arrival are legitimate and neither may lose the snapshot. The index from a frame
   to its message holds one message: of two objects in one frame, the first never
   gets its picture, in whichever order picture and acknowledgement come.
4. *Poisoned configuration* (`ConfigPoison`). The coordinator says that any failure
   leaves what is applied running, FS-11 section 5 that an invalid configuration
   does. A stream URL with a lone `%` is valid everywhere and refused by
   `configparser` after the cache was saved and the Bridge stopped. Every poll fails
   again; publishing the old version does not help, because it still counts as applied.
   A kill then makes it worse: the cached row fails `start` itself, before any poll. A
   passing error while the file is written has the first two effects as well, until the next
   poll succeeds. `CameraConfiguration` has all of this in its instance:
   `CacheIsWhatRuns` says what the cache holds after a failed apply, and
   `PublishedTakesEffect` excepts the Bridge that stays down (`setback`) and the row that
   start fails on (`Unstartable`).

Seen while modelling, without a run of their own:

- *Reused source order.* `coordinator.py:24-27` and FS-11 section 9 say a detection is
  never interpreted against the wrong generation. The queue outlives the Bridge that
  sent it: when an edit gives a camera's source order to another one, a detection of the
  first still queued is stored for the second. `EventsNameTheirCamera` therefore
  assumes that no order is reused (`OrdersNotReused`); without that assumption TLC
  finds the case.
- *Missing files.* `snapshot/worker.py:8-10` says a local problem never blocks a later
  row. After a batch full of rows without a file, `_drain_once` reports "not idle" and
  the same batch is read again without suspending, which also holds the event loop: later
  rows starve, and so do detections and the metadata outbox. `EvidenceLive` reaches this
  state; its three properties except it by name (`Starved`).
- *Not revoked.* FS-02 section 5.3 and AC-17 say a regeneration revokes the secret of an
  activated device. `DeviceService` tests the status of a row read without a lock: an
  activation that commits before the save leaves the device Activated with the secret
  the old key bought, next to a new key.
- *Spent key presented again.* The deployment guide says the Agent never re-uses a
  one-time key. After a time-out, a failed store or a kill the key file is still there,
  and the next start presents it again, also when the stored identity is good.
- *Reader closes.* `transport.py:20-26` says the reader thread never closes the socket.
  `_read_one_frame` does, for an oversized frame; between the sender's look at
  `_sock` and its assertion that ends the sender's thread (`SenderDies`), and nothing
  starts it again.
- *Torn stop.* A cancellation in the ticks of the ingest handler's `stop`, after its handle
  was given up, leaves listener, consumer and socket file: the next `stop` finds nothing
  to do. A start that fails on `chmod` of the socket, after the bind, leaves listener and
  socket file the same way, because the handle is stored last. `StoppedIsReleased` names both
  (`"ingest"` in `torn`).
- *Skipped close.* After a failed startup a validation client whose `aclose` raises leaves the
  Backend's client open (`startup.py:229-233`); `shutdown` has a handler of its own there.
- *Shared snapshot tap.* In the legacy topology the snapshot branch asks the rendezvous under
  source -1, which no detection carries: snapshots switched on there are never taken.
  `OutputsShowTheirCamera` speaks of the production topology.
- *A failed launch is not retried.* The configuration counts as applied before the
  Bridge is spawned, and nobody restarts a Bridge that exits; `PublishedTakesEffect`
  excepts both (`setback`).
- *Backoff overflow.* `initial * 2**attempt` is computed before the cap; after about a
  thousand failures in a row (some 13 hours at the defaults) the conversion to float raises
  and the task ends. The component stays registered, and the next `stop` raises the error out of
  `await task`. For the configuration's coordinator that is before the Bridge is stopped:
  the pass goes on, ingest is stopped, and the Bridge lives without a listener. A second pass
  would stop it, but the last one has none after it. Where `wait_closed` waits for
  connections (Python 3.12), the Bridge's connection can keep the stop of ingest waiting for
  ever (`Hung`). The three properties of `OperationalRuntime` except that Bridge
  (`BridgeLeft`) and nothing else of it.

## 4. Proofs

`EvidenceDeliveryProofs` proves, for any finite set of events, any quota, batch
size, spool and bounds (`LedgerAssumption`, `EvidenceAssumption`), that every safety
property of the `EvidenceFaults` run holds: `TypeCorrect`, `NothingIsLost`,
`SuppressedStaysLocal`, `UploadedIsStored`, `FileKept`, and the action property
`FinalIsFinal`.

All rest on one inductive invariant, `IInv`. None of the properties is inductive
by itself: that a finalised event is recorded depends on what the worker holds of
the answer (`AnswerHeld`: `ok` are Alerts, `over` are suppressed, and the events of
the batch are still pending when they are marked); that in turn depends on nobody
else having the loop while an answer is applied (`LoopHeld`); that a listed row is of
a delivered event depends on how it got its AlertId, and on a delivered event never
being cancelled (`UploadsLinked`); and that a pending row keeps its file depends on
both workers writing the terminal status first (`RowsSound`). Each part has one lemma,
with one step per action that touches its variables and one for all others.
`IInv` was checked by TLC on the instance of `EvidenceFaults` before it was proved.

`DeviceCredentialProofs` proves, for any branches, keys and numbers of overlapping
requests (`CredentialAssumption`), every safety property of the passing
`Credential` runs: `TypeCorrect`, `OneKeyAtMost`, `OneSecretPerKey`, `NoForeignSecret`,
`IdIsPermanent` and `LocksJustified`. The argument again goes through an `IInv`. That a
device's id and keys survive overlapping saves rests on what a lock holder knows:
the key it holds is unconsumed, the id it read is still the device's (`Handlers`),
nobody else holds the key (`LocksExclude`), and no other key of the device is
unconsumed (`OneKey`), so no second activation can be about to save the same
device. That a key buys once needs spent keys to stay spent (`Spent`), also when a
regeneration overwrites *consumed* by *invalidated*. That a lock is justified
(`Justified`) needs a refused secret to stay refused (`RefusedForGood`): every later
activation issues a new secret, a regeneration only takes one away; and it needs the
Agent not to replace its secret while an answer is under way (`Standing`). Two
lemmas, `ActivationEffect` and `RegenerationEffect`, say what the two transactions do
to the tables, and `OnlyCommitsWrite` that nothing else writes them.

`AlertSyncProofs` proves, for any finite set of events, any number of overlapping
requests, any batches and any quota (`SyncAssumption`), `TypeCorrect`, `AnswersRecorded`,
`OneCreator`, `CountersAreExact`, `QuotaIsKept` and `LedgerImplemented`, the last under the
hypothesis `QuotaEnabled`: with the quota switched off an Alert is no step of
`AlertLedger`, which `SyncQuota` and the code agree on. `CountersExact` speaks of the committed
row and the committed tables, but the row is moved by statements whose Alert or suppressed
event is written later, taken back at a savepoint, or lost to another request's key. The
invariant therefore counts for each request what it has added to the row and not yet to
a table, and says who holds which lock: two requests never have uncommitted writes to one
key or one row. `WithinQuota` then follows from the counter's guard, and the refinement
from the counters being exact at each commit.

`BridgeEvidenceProofs` proves, for any cameras, frames, objects per frame and capacities,
`TypeCorrect`, `MemoryStaysBounded`, `SnapshotsShowTheirDetection` and `SnapshotsAreSentOnce`. The
store has at most one candidate of a message, its index leads from a frame to a candidate
of that frame only (`Leads`), and the frame numbers kept for the encoder are those of the
pictures in it (`InStep`), so a picture meets its own detection. A message whose
snapshot was offered has no candidate any more (`OfferedIsGone`) and can get none, since
what the probe has still to register is new (`StillNew`).

`BridgeOrderProofs` proves `NoOrderLosesEvidence`: `NeitherOrderLosesEvidence` holds for all these
constants under the hypothesis `MaxObjects = 1`, which cannot be left out
(`BridgeTwoObjects`). The argument, `OrderInv`, follows a detection from its registration to its
answer: about to be enqueued, queued, in the sender's hand, at the Agent, among the
answers or in the reader's hand, and in one of these places only (`Apart`). Whatever
is on that way or was accepted has its candidate still, unless that was forfeited or its
snapshot offered (`Accounted`); a declined one loses its candidate, and because it was
nowhere else it cannot come back as accepted. A candidate has noted each half that came
and can be found by its frame (`Meets`, `Indexed`), so the second half completes it; and no
picture of a frame can be there before the frame was registered (`Ahead`).

`CameraConfigurationProofs` proves, for any configurations, deployments, templates and bounds
(`ConfigurationAssumption`), all seven safety properties of the run: `TypeCorrect`, `AtMostOneBridge`,
`MappingIsThePlayedOne`, `EventsAreAttributed`, `CacheRestoresWhatRuns`, `OutputsAreSeparate` and
`CooldownIsEarned`. Four pieces carry it. What the client accepts survives the cache, the mapping
and the generated file, operator by operator. At each await of the coordinator, what runs, what
the mapping says and what the file says are tied to the configuration being applied
(`Supervised`, `Loaded`); this includes a Bridge that boots later than its spawn and reads a
file that was rewritten meanwhile. Detections on the wire and in the queue name a source
order that was somebody's and, when orders do not pass between cameras, is still (`Attributed`).
The bound on Bridges ever started counts the starts that are still due. For
`CacheRestoresWhatRuns` the invariant follows the row through a failed apply: from the
save on it holds the configuration being applied (`CacheKnown`), whether or not
the file could be written, so it holds without any assumption on URLs or on the disk.

`OperationalRuntimeProofs` proves, for any list of components that the factories can compose and any
number of faults (`RuntimeAssumption`), `BridgeFindsListener`, `StoppedReleases` and the type. Both
properties are about what a pass leaves behind; the invariant says what holds at each of
its awaits. A component that is not left of the pass is stopped (`Owned`), `Progress`
says how far the current one's stop has come, and because ingest is started first it is
stopped last (`Ordered`): when the listener is closed nothing is left that could spawn a
Bridge, also in a second pass after a failed or a cancelled one (`Listening`). A stop that
raised on a dead task is the exception, and both theorems name it: from then until the
Bridge is reaped, it is `BridgeLeft`. `Released`
says that ingest holds something only while its handle is there, its stop is under way,
or it was torn.

Each of these invariants was checked by TLC on its run's instance before it was proved.

Only model-checked:

- the liveness properties (`PendingIsFinalised`, `LinkedIsUploaded`, `LoopIsYielded`,
  `RevokedAgentStops`, `StopReleasesEverything`, `PublishedTakesEffect`, `ComesDown`): temporal
  reasoning with fairness and `ENABLED` is outside the prover's reach.

Every safety property of the passing runs is stated by a theorem.

## 5. Plan

Modules that exist are in section 2. What is left, in order of importance:

1. An abstract outbox (recorded, decided, evidence stored) that
   `EvidenceDelivery` implements, and its proof.
2. `SnapshotUpload`: two uploads of different pictures for one Alert, file before row.

Each module got one passing run for all of its properties, on one instance, and
a run that refutes a documented claim only where the code disagrees.

## 6. Not modelled

Inference, drawing, encoding and GStreamer's own negotiation (computation), the
Angular frontend and the read-only queries (no state), authentication of
administrators and branch records (single-row requests), SQLite migrations (run
once, before anything else starts), the parsing of settings, the rules on class names
and bounding boxes, the HTTP clients' classification of errors beyond retry or not,
deployment scripts. Of the partly modelled components the parts left out are named in
`PROJECT.json`.
