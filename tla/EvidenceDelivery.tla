-------------------------- MODULE EvidenceDelivery --------------------------
(***************************************************************************)
(* How a detection and its snapshot leave the Jetson: the Agent's SQLite   *)
(* outbox (DetectionEvent and SnapshotOutbox) and snapshot spool, the      *)
(* ingest handler that fills them, DetectionEventSyncWorker and            *)
(* SnapshotUploadWorker that drain them, a network that fails and delays,  *)
(* and the Backend, whose decisions are steps of AlertLedger.              *)
(*                                                                         *)
(* The Agent's tasks share one asyncio loop: between two awaits a task     *)
(* runs alone, so only a kill of the process separates its SQLite commits  *)
(* and file operations.  "loop" names the task that is between two awaits. *)
(* An event is a natural number; its order is (DetectedAtUtc, EventId).    *)
(* Operators named Faulty... are variants with a bug; no action uses them. *)
(***************************************************************************)
EXTENDS AlertLedger

CONSTANTS
    BatchSize,      \* rows per drain, of either worker
    SpoolCapacity,  \* snapshots the spool has room for
    Foreign,        \* rows recorded under an earlier device identity
    Rejectable,     \* events whose camera an administrator may disable
    MaxStops,       \* bound: kills or stops of the Agent
    MaxFaults,      \* bound: local SQLite and file-system failures
    MaxLate,        \* bound: events of abandoned requests still executing
    NoEvent

ASSUME EvidenceAssumption ==
    /\ Events \subseteq Nat
    /\ BatchSize \in Nat \ {0}
    /\ SpoolCapacity \in Nat
    /\ Foreign \subseteq Events
    /\ Rejectable \subseteq Events
    /\ MaxStops \in Nat
    /\ MaxFaults \in Nat
    /\ MaxLate \in Nat
    /\ NoEvent \notin Events

VARIABLES
    \* The Backend, with alerts and suppressed of AlertLedger.
    attached,       \* Alerts that have a snapshot
    unresolvable,   \* events whose camera does not resolve at present
    \* The Agent's disk.
    event,          \* DetectionEvent.DeliveryStatus, or "absent"
    capture,        \* SnapshotOutbox.CaptureStatus, or "none"
    upload,         \* SnapshotOutbox.UploadStatus, or "none"
    linked,         \* rows with a BackendAlertId
    capturedAt,     \* SnapshotOutbox.CapturedAtUtc, as a logical clock
    spool,          \* JPEG files
    removed,        \* files deleted by something other than the Agent
    \* The Agent's memory.
    running,        \* its components are started
    loop,           \* the task between two awaits, or "free"
    frames,         \* snapshot frames the Bridge has sent or will send
    writing,        \* the snapshot whose file is written and row is not
    syncPc, batch,  \* sync worker: its await, the events it sent
    fresh,          \* Backend: events its lookup found undecided
    ok, over,       \* answer: accepted or duplicate, quota_exceeded
    todo,           \* sync worker: events its sinks have still to see
    upPc, list,     \* upload worker: its await, the rows it read
    fullBatch,      \* upload worker: it read as many rows as it asked for
    record,         \* upload worker: the row it is at
    \* Requests the Agent has given up and the Backend may still execute.
    late, lateUploads,
    \* Bounds.
    stops, faults

backend == <<alerts, suppressed, attached, unresolvable>>
disk == <<event, capture, upload, linked, capturedAt, spool, removed>>
syncVars == <<syncPc, batch, fresh, ok, over, todo>>
upVars == <<upPc, list, fullBatch, record>>
lateVars == <<late, lateUploads>>
bounds == <<stops, faults>>

vars == <<backend, disk, running, loop, frames, writing, syncVars, upVars,
          lateVars, bounds>>

-----------------------------------------------------------------------------

\* The first n elements of S in the order of the keys at: ORDER BY ... LIMIT.
Oldest(S, n, at) == {e \in S : Cardinality({f \in S : at[f] < at[e]}) < n}

IsFirst(e, S, at) == e \in S /\ \A f \in S : at[e] <= at[f]

DetectedAt == [e \in Events |-> e]

PendingEvents == {e \in Events : event[e] = "pending"}

FaultyUploadReady ==
    {e \in Events : capture[e] = "captured" /\ upload[e] = "pending"}

\* SnapshotOutboxRepository.list_upload_ready's selection.
UploadReady ==
    {e \in linked : capture[e] = "captured" /\ upload[e] = "pending"}

Terminal == {"delivered", "suppressed_by_quota"}

\* What may still execute once the Agent has given up requests for B.
Abandoned(L, B) == IF Cardinality(L \cup B) <= MaxLate THEN L \cup B ELSE L

Fault == faults < MaxFaults /\ faults' = faults + 1

TypeOK ==
    /\ LedgerTypeOK
    /\ attached \in SUBSET Events
    /\ unresolvable \in SUBSET Rejectable
    /\ event \in [Events -> {"absent", "pending"} \cup Terminal]
    /\ capture \in [Events -> {"none", "captured", "capture_failed"}]
    /\ upload \in [Events -> {"none", "pending", "uploaded",
                              "suppressed_by_quota"}]
    /\ linked \in SUBSET Events
    /\ capturedAt \in [Events -> Nat]
    /\ spool \in SUBSET Events
    /\ removed \in SUBSET Events
    /\ running \in BOOLEAN
    /\ loop \in {"free", "ingest", "sync", "upload"}
    /\ frames \in SUBSET Events
    /\ writing \in Events \cup {NoEvent}
    /\ syncPc \in {"idle", "sent", "looked", "answered", "marking", "linking",
                   "refusing", "cancelling", "unlinking"}
    /\ batch \in SUBSET Events
    /\ fresh \in SUBSET Events
    /\ ok \in SUBSET Events
    /\ over \in SUBSET Events
    /\ todo \in SUBSET Events
    /\ upPc \in {"idle", "again", "next", "calling", "stored", "marking",
                 "unlinking"}
    /\ list \in SUBSET Events
    /\ fullBatch \in BOOLEAN
    /\ record \in Events \cup {NoEvent}
    /\ late \in SUBSET Events
    /\ lateUploads \in SUBSET Events
    /\ stops \in Nat
    /\ faults \in Nat

SyncIdle ==
    /\ syncPc' = "idle"
    /\ batch' = {}
    /\ fresh' = {}
    /\ ok' = {}
    /\ over' = {}
    /\ todo' = {}

UploadIdle ==
    /\ upPc' = "idle"
    /\ list' = {}
    /\ fullBatch' = FALSE
    /\ record' = NoEvent

Init ==
    /\ LedgerInit
    /\ attached = {}
    /\ unresolvable = {}
    /\ event = [e \in Events |-> IF e \in Foreign THEN "pending" ELSE "absent"]
    /\ capture = [e \in Events |-> "none"]
    /\ upload = [e \in Events |-> "none"]
    /\ linked = {}
    /\ capturedAt = [e \in Events |-> 0]
    /\ spool = {}
    /\ removed = {}
    /\ running = TRUE
    /\ loop = "free"
    /\ frames = {}
    /\ writing = NoEvent
    /\ syncPc = "idle"
    /\ batch = {}
    /\ fresh = {}
    /\ ok = {}
    /\ over = {}
    /\ todo = {}
    /\ upPc = "idle"
    /\ list = {}
    /\ fullBatch = FALSE
    /\ record = NoEvent
    /\ late = {}
    /\ lateUploads = {}
    /\ stops = 0
    /\ faults = 0

-----------------------------------------------------------------------------
(* Ingest: DetectionIngestHandler._process and _process_snapshot *)

\* A detection passes validation and cooldown, its row commits, and the
\* acknowledgement goes to the Bridge, which may answer with a snapshot.
Detect(e) ==
    /\ running /\ loop = "free"
    /\ event[e] = "absent"
    /\ event' = [event EXCEPT ![e] = "pending"]
    /\ frames' \in {frames, frames \cup {e}}
    /\ UNCHANGED <<backend, capture, upload, linked, capturedAt, spool, removed,
                   running, loop, writing, syncVars, upVars, lateVars, bounds>>

\* The frame is lost on the way, shed by a full queue, refused as malformed
\* or skipped because the spool is full.
DropFrame(e) ==
    /\ e \in frames
    /\ frames' = frames \ {e}
    /\ UNCHANGED <<backend, disk, running, loop, writing, syncVars, upVars,
                   lateVars, bounds>>

\* The spool has room: the JPEG is written and renamed into place ...
WriteSnapshot(e) ==
    /\ running /\ loop = "free"
    /\ e \in frames
    /\ Cardinality(spool) < SpoolCapacity
    /\ frames' = frames \ {e}
    /\ spool' = spool \cup {e}
    /\ writing' = e
    /\ loop' = "ingest"
    /\ UNCHANGED <<backend, event, capture, upload, linked, capturedAt, removed,
                   running, syncVars, upVars, lateVars, bounds>>

\* ... and its SnapshotOutbox row inserted.
CreateCaptured(e) ==
    /\ loop = "ingest"
    /\ e = writing
    /\ capture[e] = "none"
    /\ capture' = [capture EXCEPT ![e] = "captured"]
    /\ upload' = [upload EXCEPT ![e] = "pending"]
    /\ capturedAt' = [capturedAt EXCEPT ![e] =
                        1 + Cardinality({f \in Events : capture[f] # "none"})]
    /\ writing' = NoEvent
    /\ loop' = "free"
    /\ UNCHANGED <<backend, event, linked, spool, removed, running, frames,
                   syncVars, upVars, lateVars, bounds>>

\* The INSERT raises: logged and swallowed, the file stays behind.
CreateCapturedFails ==
    /\ loop = "ingest"
    /\ Fault
    /\ writing' = NoEvent
    /\ loop' = "free"
    /\ UNCHANGED <<backend, disk, running, frames, syncVars, upVars, lateVars,
                   stops>>

Ingest ==
    \/ \E e \in Events : Detect(e) \/ DropFrame(e) \/ WriteSnapshot(e)
                         \/ CreateCaptured(e)
    \/ CreateCapturedFails

-----------------------------------------------------------------------------
(* DetectionEventSyncWorker and the Backend's side of its request *)

FaultySendable ==
    LET oldest == Oldest(PendingEvents, BatchSize, DetectedAt)
    IN  IF oldest \cap Foreign = {} THEN oldest ELSE {}

\* The oldest pending rows, without those of an earlier device identity.
Sendable == Oldest(PendingEvents, BatchSize, DetectedAt) \ Foreign

SendBatch ==
    /\ running /\ loop = "free"
    /\ syncPc = "idle"
    /\ Sendable # {}
    /\ syncPc' = "sent"
    /\ batch' = Sendable
    /\ UNCHANGED <<backend, disk, running, loop, frames, writing, fresh, ok, over,
                   todo, upVars, lateVars, bounds>>

Undecided(B) == B \ (alerts \cup suppressed)

\* The Backend's idempotency lookups, before it takes from the quota.
LookUp ==
    /\ syncPc = "sent"
    /\ syncPc' = "looked"
    /\ fresh' = Undecided(batch)
    /\ UNCHANGED <<backend, disk, running, loop, frames, writing, batch, ok, over,
                   todo, upVars, lateVars, bounds>>

\* The Backend commits.  New events are accepted or suppressed; those of
\* "stale", looked up before a late request made them Alerts, meet a full
\* day; the rest get their earlier outcome again; an unresolvable camera
\* means "rejected", which the Agent leaves pending.
Decide ==
    /\ syncPc = "looked"
    /\ \E accepted \in SUBSET (Undecided(batch) \ unresolvable),
          stale \in SUBSET ((batch \cap fresh \cap alerts) \ unresolvable) :
        LET known == batch \ unresolvable
            refused == (Undecided(known) \ accepted) \cup stale
        IN  /\ Record(accepted, refused \ suppressed)
            /\ over' = refused \cup ((known \cap suppressed) \ alerts)
            /\ ok' = known \ over'
    /\ syncPc' = "answered"
    /\ UNCHANGED <<attached, unresolvable, disk, running, loop, frames, writing,
                   batch, fresh, todo, upVars, lateVars, bounds>>

\* No usable answer: refused, timed out, unparseable, or the answer is lost.
\* The Backend may still be executing the request.
SyncFails ==
    /\ syncPc \in {"sent", "looked", "answered"} /\ loop = "free"
    /\ late' = IF syncPc = "answered"
               THEN late ELSE Abandoned(late, Undecided(batch))
    /\ SyncIdle
    /\ UNCHANGED <<backend, disk, running, loop, frames, writing, upVars,
                   lateUploads, bounds>>

\* An abandoned request commits after all.
DecideLate ==
    /\ \E accepted, refused \in SUBSET late :
        /\ accepted \cup refused # {}
        /\ Record(accepted, refused)
        /\ late' = late \ (accepted \cup refused)
    /\ UNCHANGED <<attached, unresolvable, disk, running, loop, frames, writing,
                   syncVars, upVars, lateUploads, bounds>>

ReceiveAnswer ==
    /\ syncPc = "answered" /\ loop = "free"
    /\ syncPc' = "marking"
    /\ loop' = "sync"
    /\ UNCHANGED <<backend, disk, running, frames, writing, batch, fresh, ok, over,
                   todo, upVars, lateVars, bounds>>

FaultyFinalise(E, status) ==
    event' = [e \in Events |->
                IF e \in E THEN status
                ELSE IF e \in batch THEN "pending" ELSE event[e]]

\* Finalises the rows of E that are still pending, in one transaction.
Finalise(E, status) ==
    event' = [e \in Events |->
                IF e \in E /\ event[e] = "pending" THEN status ELSE event[e]]

FaultyAcknowledged == batch

\* Outcomes that make an event delivered.
Acknowledged == ok

MarkDelivered ==
    /\ syncPc = "marking"
    /\ Finalise(Acknowledged, "delivered")
    /\ todo' = Acknowledged
    /\ syncPc' = IF Acknowledged = {} THEN "refusing" ELSE "linking"
    /\ UNCHANGED <<backend, capture, upload, linked, capturedAt, spool, removed,
                   running, loop, frames, writing, batch, fresh, ok, over, upVars,
                   lateVars, bounds>>

\* associate_alert_id: sets the row's BackendAlertId if there is a row.
AssociateAlertId(e) ==
    /\ syncPc = "linking"
    /\ IsFirst(e, todo, DetectedAt)
    /\ linked' = IF capture[e] = "none" THEN linked ELSE linked \cup {e}
    /\ todo' = todo \ {e}
    /\ UNCHANGED <<backend, event, capture, upload, capturedAt, spool, removed,
                   running, loop, frames, writing, syncPc, batch, fresh, ok, over,
                   upVars, lateVars, bounds>>

AllAssociated ==
    /\ syncPc = "linking" /\ todo = {}
    /\ syncPc' = "refusing"
    /\ UNCHANGED <<backend, disk, running, loop, frames, writing, batch, fresh, ok,
                   over, todo, upVars, lateVars, bounds>>

MarkSuppressed ==
    /\ syncPc = "refusing"
    /\ Finalise(over, "suppressed_by_quota")
    /\ todo' = over
    /\ syncPc' = "cancelling"
    /\ UNCHANGED <<backend, capture, upload, linked, capturedAt, spool, removed,
                   running, loop, frames, writing, batch, fresh, ok, over, upVars,
                   lateVars, bounds>>

\* cancel_for_quota: only a row that exists and is pending changes ...
CancelForQuota(e) ==
    /\ syncPc = "cancelling"
    /\ IsFirst(e, todo, DetectedAt)
    /\ IF upload[e] = "pending"
       THEN /\ upload' = [upload EXCEPT ![e] = "suppressed_by_quota"]
            /\ syncPc' = "unlinking"
            /\ UNCHANGED todo
       ELSE /\ todo' = todo \ {e}
            /\ UNCHANGED <<upload, syncPc>>
    /\ UNCHANGED <<backend, event, capture, linked, capturedAt, spool, removed,
                   running, loop, frames, writing, batch, fresh, ok, over, upVars,
                   lateVars, bounds>>

\* ... and then its file goes.
UnlinkCancelled(e) ==
    /\ syncPc = "unlinking"
    /\ IsFirst(e, todo, DetectedAt)
    /\ spool' = spool \ {e}
    /\ todo' = todo \ {e}
    /\ syncPc' = "cancelling"
    /\ UNCHANGED <<backend, event, capture, upload, linked, capturedAt, removed,
                   running, loop, frames, writing, batch, fresh, ok, over, upVars,
                   lateVars, bounds>>

\* A sink raises for one event: logged and swallowed.
SinkFails(e) ==
    /\ syncPc \in {"linking", "cancelling", "unlinking"}
    /\ IsFirst(e, todo, DetectedAt)
    /\ Fault
    /\ todo' = todo \ {e}
    /\ syncPc' = IF syncPc = "linking" THEN "linking" ELSE "cancelling"
    /\ UNCHANGED <<backend, disk, running, loop, frames, writing, batch, fresh, ok,
                   over, upVars, lateVars, stops>>

\* mark_delivered_many or mark_suppressed_by_quota_many raises: _run's
\* backstop drops the rest of the answer.
MarkFails ==
    /\ \/ syncPc = "marking" /\ Acknowledged # {}
       \/ syncPc = "refusing" /\ over # {}
    /\ Fault
    /\ SyncIdle
    /\ loop' = "free"
    /\ UNCHANGED <<backend, disk, running, frames, writing, upVars, lateVars, stops>>

BatchDone ==
    /\ syncPc = "cancelling" /\ todo = {}
    /\ SyncIdle
    /\ loop' = "free"
    /\ UNCHANGED <<backend, disk, running, frames, writing, upVars, lateVars, bounds>>

ApplyAnswer ==
    \/ MarkDelivered \/ AllAssociated \/ MarkSuppressed \/ BatchDone
    \/ \E e \in Events : AssociateAlertId(e) \/ CancelForQuota(e)
                         \/ UnlinkCancelled(e)

Sync ==
    \/ SendBatch \/ LookUp \/ Decide \/ SyncFails \/ DecideLate \/ ReceiveAnswer
    \/ ApplyAnswer \/ MarkFails
    \/ \E e \in Events : SinkFails(e)

-----------------------------------------------------------------------------
(* SnapshotUploadWorker and the Backend's side of its upload *)

FaultyReadFullBatch == TRUE

\* len(pending) == batch_size.
ReadFullBatch == Cardinality(UploadReady) >= BatchSize

\* The batch is read once; its rows are worked through across many awaits.
ListUploadReady ==
    /\ \/ upPc = "idle" /\ running /\ loop = "free"
       \/ upPc = "again"
    /\ UploadReady # {}
    /\ list' = Oldest(UploadReady, BatchSize, capturedAt)
    /\ fullBatch' = ReadFullBatch
    /\ upPc' = "next"
    /\ loop' = "upload"
    /\ UNCHANGED <<backend, disk, running, frames, writing, syncVars, record,
                   lateVars, bounds>>

\* The file is there: its upload starts.
StartUpload(e) ==
    /\ upPc = "next"
    /\ IsFirst(e, list, capturedAt)
    /\ e \in spool
    /\ record' = e
    /\ list' = list \ {e}
    /\ upPc' = "calling"
    /\ loop' = "free"
    /\ UNCHANGED <<backend, disk, running, frames, writing, syncVars, fullBatch,
                   lateVars, bounds>>

FaultyRestAfterMissing(e) == {}

\* _upload_one returns True for a missing file: the rest of the batch goes on.
RestAfterMissing(e) == list \ {e}

\* LOCAL_FILE_MISSING: the attempt is recorded and the next row tried.
SkipMissing(e) ==
    /\ upPc = "next"
    /\ IsFirst(e, list, capturedAt)
    /\ e \notin spool
    /\ list' = RestAfterMissing(e)
    /\ UNCHANGED <<backend, disk, running, loop, frames, writing, syncVars, upPc,
                   fullBatch, record, lateVars, bounds>>

\* A full batch may have more rows behind it, so the next one is read at
\* once, with no await in between; a short one means sleep.
ListDone ==
    /\ upPc = "next" /\ list = {}
    /\ fullBatch
    /\ upPc' = "again"
    /\ UNCHANGED <<backend, disk, running, loop, frames, writing, syncVars, list,
                   fullBatch, record, lateVars, bounds>>

RestFromUploads ==
    /\ \/ upPc = "next" /\ list = {} /\ ~fullBatch
       \/ upPc = "again" /\ UploadReady = {}
    /\ UploadIdle
    /\ loop' = "free"
    /\ UNCHANGED <<backend, disk, running, frames, writing, syncVars, lateVars,
                   bounds>>

\* UploadAsync: attaches, or finds the same bytes attached already.
Attach ==
    /\ upPc = "calling"
    /\ record \in alerts
    /\ attached' = attached \cup {record}
    /\ upPc' = "stored"
    /\ UNCHANGED <<alerts, suppressed, unresolvable, disk, running, loop, frames,
                   writing, syncVars, list, fullBatch, record, lateVars,
                   bounds>>

\* Refused, timed out or the answer lost: the rest of the batch waits.
UploadFails ==
    /\ upPc \in {"calling", "stored"} /\ loop = "free"
    /\ lateUploads' = IF upPc = "stored"
                      THEN lateUploads ELSE Abandoned(lateUploads, {record})
    /\ UploadIdle
    /\ UNCHANGED <<backend, disk, running, loop, frames, writing, syncVars, late,
                   bounds>>

AttachLate(e) ==
    /\ e \in lateUploads \cap alerts
    /\ attached' = attached \cup {e}
    /\ lateUploads' = lateUploads \ {e}
    /\ UNCHANGED <<alerts, suppressed, unresolvable, disk, running, loop, frames,
                   writing, syncVars, upVars, late, bounds>>

FaultyUploadAnswered == upPc \in {"calling", "stored"}

UploadAnswered == upPc = "stored"

ReceiveUploaded ==
    /\ UploadAnswered /\ loop = "free"
    /\ upPc' = "marking"
    /\ loop' = "upload"
    /\ UNCHANGED <<backend, disk, running, frames, writing, syncVars, list, fullBatch,
                   record, lateVars, bounds>>

MarkUploaded ==
    /\ upPc = "marking"
    /\ upload' = [upload EXCEPT ![record] =
                    IF @ = "pending" THEN "uploaded" ELSE @]
    /\ upPc' = "unlinking"
    /\ UNCHANGED <<backend, event, capture, linked, capturedAt, spool, removed,
                   running, loop, frames, writing, syncVars, list, fullBatch, record,
                   lateVars, bounds>>

UnlinkUploaded ==
    /\ upPc = "unlinking"
    /\ spool' = spool \ {record}
    /\ upPc' = "next"
    /\ record' = NoEvent
    /\ UNCHANGED <<backend, event, capture, upload, linked, capturedAt, removed,
                   running, loop, frames, writing, syncVars, list, fullBatch, lateVars,
                   bounds>>

\* record_attempt_failure, mark_uploaded or unlink raises: _run's backstop
\* drops the batch.
FinishFails ==
    /\ \/ upPc \in {"marking", "unlinking"}
       \/ upPc = "next" /\ ~(list \subseteq spool)
    /\ Fault
    /\ UploadIdle
    /\ loop' = "free"
    /\ UNCHANGED <<backend, disk, running, frames, writing, syncVars, lateVars,
                   stops>>

WorkList ==
    \/ \E e \in Events : StartUpload(e) \/ SkipMissing(e)
    \/ ListDone \/ RestFromUploads \/ MarkUploaded \/ UnlinkUploaded

Uploads ==
    \/ ListUploadReady \/ WorkList \/ Attach \/ UploadFails \/ ReceiveUploaded
    \/ FinishFails
    \/ \E e \in Events : AttachLate(e)

-----------------------------------------------------------------------------
(* The process, the disk and the administrator *)

FaultyUploadUnderway == upPc # "idle"

\* An upload is in flight and not executed yet.
UploadUnderway == upPc = "calling"

\* A kill at any point, or the coordinator stopping the components at an
\* await: memory is gone, what was sent may still be executed.
Stop ==
    /\ running
    /\ stops < MaxStops
    /\ stops' = stops + 1
    /\ running' = FALSE
    /\ loop' = "free"
    /\ writing' = NoEvent
    /\ SyncIdle
    /\ UploadIdle
    /\ late' = IF syncPc \in {"sent", "looked"}
               THEN Abandoned(late, Undecided(batch)) ELSE late
    /\ lateUploads' = IF UploadUnderway
                      THEN Abandoned(lateUploads, {record}) ELSE lateUploads
    /\ UNCHANGED <<backend, disk, frames, faults>>

FaultyHasRow(e) == e \in linked

HasRow(e) == capture[e] # "none"

\* DetectionIngestHandler.start reconciles rows and spool before anything
\* else runs: a captured row without a file is capture_failed, a file without
\* a row is deleted.
Start ==
    /\ ~running
    /\ running' = TRUE
    /\ capture' = [e \in Events |->
                    IF capture[e] = "captured" /\ e \notin spool
                    THEN "capture_failed" ELSE capture[e]]
    /\ spool' = {e \in spool : HasRow(e)}
    /\ UNCHANGED <<backend, event, upload, linked, capturedAt, removed, loop,
                   frames, writing, syncVars, upVars, lateVars, bounds>>

\* The rows cannot be read: reconcile_snapshot_spool swallows that and does
\* nothing.
StartUnreconciled ==
    /\ ~running
    /\ Fault
    /\ running' = TRUE
    /\ UNCHANGED <<backend, disk, loop, frames, writing, syncVars, upVars, lateVars,
                   stops>>

\* Something other than the Agent deletes snapshot files.
RemoveFiles(S) ==
    /\ S # {}
    /\ Fault
    /\ spool' = spool \ S
    /\ removed' = removed \cup S
    /\ UNCHANGED <<backend, event, capture, upload, linked, capturedAt, running,
                   loop, frames, writing, syncVars, upVars, lateVars, stops>>

\* An administrator disables or enables the event's camera.
EditCamera(e) ==
    /\ e \in Rejectable
    /\ unresolvable' = IF e \in unresolvable THEN unresolvable \ {e}
                                             ELSE unresolvable \cup {e}
    /\ UNCHANGED <<alerts, suppressed, attached, disk, running, loop, frames,
                   writing, syncVars, upVars, lateVars, bounds>>

Environment ==
    \/ Stop \/ Start \/ StartUnreconciled
    \/ \E S \in SUBSET spool : RemoveFiles(S)
    \/ \E e \in Events : EditCamera(e)

Next == Ingest \/ Sync \/ Uploads \/ Environment

Spec == Init /\ [][Next]_vars

(***************************************************************************)
(* The loop runs every task that is ready, so a section between two awaits *)
(* ends and a stopped Agent is started again (systemd, the coordinator).   *)
(* A request that is retried for ever does not fail for ever, and a task   *)
(* that is ready again and again gets the loop: strong fairness.           *)
(***************************************************************************)
Fairness ==
    /\ WF_vars(Start)
    /\ WF_vars(ApplyAnswer)
    /\ WF_vars(WorkList)
    /\ WF_vars(upPc = "again" /\ ListUploadReady)
    /\ WF_vars(\E e \in Events : CreateCaptured(e))
    /\ SF_vars(SendBatch)
    /\ SF_vars(LookUp)
    /\ SF_vars(Decide)
    /\ SF_vars(ReceiveAnswer)
    /\ SF_vars(ListUploadReady)
    /\ SF_vars(Attach)
    /\ SF_vars(ReceiveUploaded)

FairSpec == Spec /\ Fairness

-----------------------------------------------------------------------------
(* Properties *)

\* The Agent stops sending an event only when the Backend has committed the
\* outcome it was finalised with, whatever was lost, late or interrupted
\* (mark_delivered_many, mark_suppressed_by_quota_many; FS-06 section 7.2).
FinalisedIsRecorded ==
    \A e \in Events :
        /\ event[e] = "delivered" => e \in alerts
        /\ event[e] = "suppressed_by_quota" => e \in suppressed

\* A snapshot is only ever uploaded for an event that is finalised as
\* delivered, never for one the Agent has accepted as suppressed: neither by
\* the batch the upload worker still holds while the sync worker runs, nor by
\* an upload that arrives late (list_upload_ready, cancel_for_quota).
OnlyDeliveredIsUploaded ==
    \A e \in Events :
        e \in linked \cup attached \cup list \cup lateUploads =>
            event[e] = "delivered" /\ upload[e] # "suppressed_by_quota"

\* A row is marked uploaded only when the Backend holds the snapshot
\* (SnapshotUploadWorker._upload_one).
UploadedIsAttached ==
    \A e \in Events : upload[e] = "uploaded" => e \in attached

\* The Agent never deletes a JPEG whose row is still to be uploaded: the
\* terminal status is committed before the file goes, in both workers and
\* across every kill and start (FS-09 section 10, FS-08 section 11).
PendingKeepsFile ==
    \A e \in Events : upload[e] = "pending" => e \in spool \cup removed

KeepsFinal ==
    \A e \in Events :
        /\ event[e] \in Terminal => event'[e] = event[e]
        /\ upload[e] \in {"uploaded", "suppressed_by_quota"} =>
                upload'[e] = upload[e]
        /\ e \in linked => e \in linked'

\* A final status is final, for the event and for its snapshot, through late
\* answers, repeated batches and restarts; a BackendAlertId is never unset
\* (mark_delivered_many, cancel_for_quota and associate_alert_id).
FinalStaysFinal == [][KeepsFinal]_vars

\* The upload worker's next rows are a full batch, and none has its file: it
\* reads them again and again without an await, skips each as missing or
\* modified, and no other row has a turn (_drain_once: "never blocks a later
\* row" does not hold of a full batch of them).
Starved ==
    /\ Cardinality(UploadReady) >= BatchSize
    /\ Oldest(UploadReady, BatchSize, capturedAt) \cap spool = {}

\* Every event that is neither foreign nor rejected is eventually finalised,
\* if the rows that can never be sent do not fill a batch, unless the upload
\* worker is starved for good and keeps the loop; a restart that reconciles
\* the spool ends that (DetectionEventSyncWorker; FS-06 section 9).
PendingIsFinalised ==
    \A e \in Events \ (Foreign \cup Rejectable) :
        event[e] = "pending" ~> (event[e] \in Terminal \/ []Starved)

\* A row that has got its BackendAlertId is eventually uploaded, unless its
\* own file has gone or a full batch of rows before it have lost theirs for good
\* (SnapshotUploadWorker).
LinkedIsUploaded ==
    \A e \in Events :
        e \in linked ~> (upload[e] = "uploaded" \/ e \in removed \/ []Starved)

\* A task that has the loop gives it back, so that the workers do not lock
\* detection ingest out, with rows that fail, cannot be sent or have lost
\* their file.  Only a full batch of rows that have all lost their files
\* keeps it for ever (the drain loops of both workers).
LoopIsYielded == loop # "free" ~> (loop = "free" \/ []Starved)

\* FS-08 section 7: capture-first and metadata-first must both work; FS-09
\* section 10: a quota answer takes care of a row that does not exist yet.  So
\* the outcome of an event reaches its snapshot.
OutcomeReachesSnapshot ==
    \A e \in Events :
        /\ event[e] = "delivered" /\ capture[e] = "captured" ~> e \in attached
        /\ event[e] = "suppressed_by_quota" /\ capture[e] # "none"
                ~> upload[e] = "suppressed_by_quota"
=============================================================================
