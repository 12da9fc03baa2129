----------------------------- MODULE AlertSync -----------------------------
(***************************************************************************)
(* AlertSyncService.SyncEventsAsync: concurrent sync requests of one       *)
(* branch, each one database transaction with a savepoint per event, that  *)
(* look events up, take from the branch's daily quota and insert Alerts or *)
(* suppressed records.                                                     *)
(*                                                                         *)
(* The database runs at its default READ COMMITTED level.  A query sees    *)
(* committed rows and the transaction's own writes at the moment it runs   *)
(* (row versions; reads that take locks only wait longer).  A write waits  *)
(* for any other transaction that holds the same row or key uncommitted.   *)
(* Operators named Faulty... are variants with a bug; no action uses them. *)
(***************************************************************************)
EXTENDS Naturals, FiniteSets

CONSTANTS
    Requests,       \* slots for requests in progress at the same time
    Events, Days, DayOf, Quota,     \* see AlertLedger
    Cameras,        \* the branch's enabled cameras
    NoCamera,
    QuotaEnabled,   \* AlertQuota:Enabled
    BatchSize       \* largest batch considered

ASSUME SyncAssumption ==
    /\ DayOf \in [Events -> Days]
    /\ Quota \in Nat \ {0}
    /\ BatchSize \in Nat \ {0}
    /\ QuotaEnabled \in BOOLEAN
    /\ NoCamera \notin Cameras
    /\ IsFiniteSet(Events) /\ Events # {}

VARIABLES
    db,         \* committed tables
    resolve,    \* the camera a reported CameraId resolves to now
    pc,         \* per request: the await it has reached
    todo,       \* per request: events of the batch not yet processed
    cur,        \* per request: the event being processed
    camera,     \* per request: the camera resolved for cur
    own,        \* per request: uncommitted writes, as tables
    save,       \* per request: own at the current event's savepoint
    results     \* per request: the outcome of each event

vars == <<db, resolve, pc, todo, cur, camera, own, save, results>>

-----------------------------------------------------------------------------

Empty ==
    [alert    |-> [e \in Events |-> NoCamera],  \* Alerts: camera, or none
     refused  |-> {},                           \* SuppressedDetectionEvents
     rows     |-> {},                           \* BranchDailyAlertQuota keys
     accepted |-> [d \in Days |-> 0],           \* AcceptedAlertCount
     turned   |-> [d \in Days |-> 0]]           \* SuppressedDetectionCount

FaultyMerge(t, w) ==   \* bug: the suppressed record is tracked but never saved
    [t EXCEPT !.alert = [e \in Events |-> IF w.alert[e] = NoCamera THEN @[e] ELSE w.alert[e]],
              !.rows = @ \cup w.rows,
              !.accepted = [d \in Days |-> @[d] + w.accepted[d]],
              !.turned = [d \in Days |-> @[d] + w.turned[d]]]

\* Tables t with the uncommitted writes w applied.
Merge(t, w) ==
    [alert    |-> [e \in Events |-> IF w.alert[e] = NoCamera
                                    THEN t.alert[e] ELSE w.alert[e]],
     refused  |-> t.refused \cup w.refused,
     rows     |-> t.rows \cup w.rows,
     accepted |-> [d \in Days |-> t.accepted[d] + w.accepted[d]],
     turned   |-> [d \in Days |-> t.turned[d] + w.turned[d]]]

View(r) == Merge(db, own[r])

AlertsOf(t) == {e \in Events : t.alert[e] # NoCamera}

\* Some other transaction has written quota row d and not ended yet.
RowHeld(r, d) ==
    \E q \in Requests \ {r} :
        \/ d \in own[q].rows
        \/ own[q].accepted[d] > 0
        \/ own[q].turned[d] > 0

AlertKeyHeld(r, e) == \E q \in Requests \ {r} : e \in AlertsOf(own[q])

RefusedKeyHeld(r, e) == \E q \in Requests \ {r} : e \in own[q].refused

Verdicts == {"accepted", "duplicate", "quota_exceeded", "rejected"}

NoResults == [e \in Events |-> "none"]

AnyEvent == CHOOSE e \in Events : TRUE

Stages == {"idle", "next", "lookup", "lookupRefused", "ensureRow", "insertRow",
           "consume", "insertAlert", "resolve", "insertRefused", "count",
           "answered"}

Tables ==
    [alert    : [Events -> Cameras \cup {NoCamera}],
     refused  : SUBSET Events,
     rows     : SUBSET Days,
     accepted : [Days -> Nat],
     turned   : [Days -> Nat]]

TypeOK ==
    /\ db \in Tables
    /\ resolve \in Cameras \cup {NoCamera}
    /\ pc \in [Requests -> Stages]
    /\ todo \in [Requests -> SUBSET Events]
    /\ cur \in [Requests -> Events]
    /\ camera \in [Requests -> Cameras \cup {NoCamera}]
    /\ own \in [Requests -> Tables]
    /\ save \in [Requests -> Tables]
    /\ results \in [Requests -> [Events -> Verdicts \cup {"none"}]]

Init ==
    /\ db = Empty
    /\ resolve \in Cameras
    /\ pc = [r \in Requests |-> "idle"]
    /\ todo = [r \in Requests |-> {}]
    /\ cur = [r \in Requests |-> AnyEvent]
    /\ camera = [r \in Requests |-> NoCamera]
    /\ own = [r \in Requests |-> Empty]
    /\ save = [r \in Requests |-> Empty]
    /\ results = [r \in Requests |-> NoResults]

-----------------------------------------------------------------------------

Moves(r, from, to) ==
    /\ pc[r] = from
    /\ pc' = [pc EXCEPT ![r] = to]

Outcome(r, e, verdict) == results' = [results EXCEPT ![r][e] = verdict]

\* An authenticated request arrives with a batch and opens its transaction.
Begin(r) ==
    /\ Moves(r, "idle", "next")
    /\ \E batch \in SUBSET Events :
        /\ Cardinality(batch) \in 1..BatchSize
        /\ todo' = [todo EXCEPT ![r] = batch]
    /\ UNCHANGED <<db, resolve, cur, camera, own, save, results>>

\* The next event's camera does not resolve (or its fields are invalid).
RejectEvent(r, e) ==
    /\ Moves(r, "next", "next")
    /\ e \in todo[r]
    /\ resolve = NoCamera
    /\ Outcome(r, e, "rejected")
    /\ todo' = [todo EXCEPT ![r] = @ \ {e}]
    /\ UNCHANGED <<db, resolve, cur, camera, own, save>>

\* The camera resolves: remember it and set the event's savepoint.
StartEvent(r, e) ==
    /\ Moves(r, "next", "lookup")
    /\ e \in todo[r]
    /\ resolve # NoCamera
    /\ cur' = [cur EXCEPT ![r] = e]
    /\ camera' = [camera EXCEPT ![r] = resolve]
    /\ save' = [save EXCEPT ![r] = own[r]]
    /\ todo' = [todo EXCEPT ![r] = @ \ {e}]
    /\ UNCHANGED <<db, resolve, own, results>>

\* ImmutableFieldsMatch: of the compared fields, a faithful retry can differ
\* from the stored Alert only in the camera its CameraId now resolves to.
SameEvent(r) == View(r).alert[cur[r]] = camera[r]

AnswerKnown(r) ==
    Outcome(r, cur[r], IF SameEvent(r) THEN "duplicate" ELSE "rejected")

FoundAlert(r) ==
    /\ Moves(r, "lookup", "next")
    /\ cur[r] \in AlertsOf(View(r))
    /\ AnswerKnown(r)
    /\ UNCHANGED <<db, resolve, todo, cur, camera, own, save>>

FoundNoAlert(r) ==
    /\ Moves(r, "lookup", IF QuotaEnabled THEN "lookupRefused" ELSE "insertAlert")
    /\ cur[r] \notin AlertsOf(View(r))
    /\ UNCHANGED <<db, resolve, todo, cur, camera, own, save, results>>

FoundRefused(r) ==
    /\ Moves(r, "lookupRefused", "next")
    /\ cur[r] \in View(r).refused
    /\ Outcome(r, cur[r], "quota_exceeded")
    /\ UNCHANGED <<db, resolve, todo, cur, camera, own, save>>

FoundNotRefused(r) ==
    /\ Moves(r, "lookupRefused", "ensureRow")
    /\ cur[r] \notin View(r).refused
    /\ UNCHANGED <<db, resolve, todo, cur, camera, own, save, results>>

FaultyUndoKeepsWrites(r) == own[r]

FaultyUndoDecrements(r) == [save[r] EXCEPT !.accepted[DayOf[cur[r]]] = @ - 1]

\* RollbackAndReestablishSavepointAsync.
Undo(r) == save[r]

\* EnsureQuotaRowExistsAsync: look the day's row up ...
EnsureQuotaRow(r) ==
    /\ Moves(r, "ensureRow",
             IF DayOf[cur[r]] \in View(r).rows THEN "consume" ELSE "insertRow")
    /\ UNCHANGED <<db, resolve, todo, cur, camera, own, save, results>>

\* ... and insert it, taking a unique-key violation for "it is there now".
InsertQuotaRow(r) ==
    LET d == DayOf[cur[r]]
    IN  /\ Moves(r, "insertRow", "consume")
        /\ ~RowHeld(r, d)
        /\ own' = [own EXCEPT ![r] = IF d \in db.rows
                                     THEN Undo(r)
                                     ELSE [own[r] EXCEPT !.rows = @ \cup {d}]]
        /\ UNCHANGED <<db, resolve, todo, cur, camera, save, results>>

FaultyHasQuota(r, d) == View(r).accepted[d] <= Quota

\* UPDATE ... SET AcceptedAlertCount + 1 WHERE AcceptedAlertCount < maximum.
HasQuota(r, d) == View(r).accepted[d] < Quota

Consume(r) ==
    LET d == DayOf[cur[r]]
    IN  /\ ~RowHeld(r, d)
        /\ d \in View(r).rows
        /\ HasQuota(r, d)
        /\ Moves(r, "consume", "insertAlert")
        /\ own' = [own EXCEPT ![r].accepted[d] = @ + 1]
        /\ UNCHANGED <<db, resolve, todo, cur, camera, save, results>>

\* The update matched no row: the day's quota is exhausted.
QuotaExhausted(r) ==
    LET d == DayOf[cur[r]]
    IN  /\ ~RowHeld(r, d)
        /\ ~ (d \in View(r).rows /\ HasQuota(r, d))
        /\ Moves(r, "consume", "insertRefused")
        /\ UNCHANGED <<db, resolve, todo, cur, camera, own, save, results>>

FaultyAlertKeyFree(r) == TRUE

\* The unique index on (DeviceId, EventId) has no committed entry.
AlertKeyFree(r) == cur[r] \notin AlertsOf(db)

InsertAlert(r) ==
    /\ Moves(r, "insertAlert", "next")
    /\ ~AlertKeyHeld(r, cur[r])
    /\ AlertKeyFree(r)
    /\ own' = [own EXCEPT ![r].alert[cur[r]] = camera[r]]
    /\ Outcome(r, cur[r], "accepted")
    /\ UNCHANGED <<db, resolve, todo, cur, camera, save>>

\* (DeviceId, EventId) is taken: undo the event's writes, the increment of
\* the quota with them.
AlertKeyTaken(r) ==
    /\ Moves(r, "insertAlert", "resolve")
    /\ ~AlertKeyHeld(r, cur[r])
    /\ ~AlertKeyFree(r)
    /\ own' = [own EXCEPT ![r] = Undo(r)]
    /\ UNCHANGED <<db, resolve, todo, cur, camera, save, results>>

ResolveDuplicate(r) ==
    /\ Moves(r, "resolve", "next")
    /\ cur[r] \in AlertsOf(View(r))
    /\ AnswerKnown(r)
    /\ UNCHANGED <<db, resolve, todo, cur, camera, own, save>>

\* The suppressed record goes in before any counter moves, so that a second
\* request for the same event stops at its key.
InsertRefused(r) ==
    /\ Moves(r, "insertRefused", "count")
    /\ ~RefusedKeyHeld(r, cur[r])
    /\ cur[r] \notin db.refused
    /\ own' = [own EXCEPT ![r].refused = @ \cup {cur[r]}]
    /\ UNCHANGED <<db, resolve, todo, cur, camera, save, results>>

RefusedKeyTaken(r) ==
    /\ Moves(r, "insertRefused", "next")
    /\ ~RefusedKeyHeld(r, cur[r])
    /\ cur[r] \in db.refused
    /\ own' = [own EXCEPT ![r] = Undo(r)]
    /\ Outcome(r, cur[r], "quota_exceeded")
    /\ UNCHANGED <<db, resolve, todo, cur, camera, save>>

CountRefused(r) ==
    LET d == DayOf[cur[r]]
    IN  /\ Moves(r, "count", "next")
        /\ ~RowHeld(r, d)
        /\ own' = [own EXCEPT ![r].turned[d] = @ + 1]
        /\ Outcome(r, cur[r], "quota_exceeded")
        /\ UNCHANGED <<db, resolve, todo, cur, camera, save>>

\* Uncommitted writes, savepoint and locals go with the transaction.
EndTransaction(r) ==
    /\ own' = [own EXCEPT ![r] = Empty]
    /\ save' = [save EXCEPT ![r] = Empty]
    /\ cur' = [cur EXCEPT ![r] = AnyEvent]
    /\ camera' = [camera EXCEPT ![r] = NoCamera]

Commit(r) ==
    /\ Moves(r, "next", "answered")
    /\ todo[r] = {}
    /\ db' = View(r)
    /\ EndTransaction(r)
    /\ UNCHANGED <<resolve, todo, results>>

\* The response leaves; whether the Agent receives it is not known here.
Answer(r) ==
    /\ Moves(r, "answered", "idle")
    /\ results' = [results EXCEPT ![r] = NoResults]
    /\ UNCHANGED <<db, resolve, todo, cur, camera, own, save>>

\* A deadlock victim, a timeout, a dropped client or a restart of the
\* Backend: the transaction is rolled back as a whole.
Abort(r) ==
    /\ pc[r] \notin {"idle", "answered"}
    /\ pc' = [pc EXCEPT ![r] = "idle"]
    /\ todo' = [todo EXCEPT ![r] = {}]
    /\ results' = [results EXCEPT ![r] = NoResults]
    /\ EndTransaction(r)
    /\ UNCHANGED <<db, resolve>>

\* An administrator disables, enables or renames cameras.
EditCameras ==
    /\ resolve' \in (Cameras \cup {NoCamera}) \ {resolve}
    /\ UNCHANGED <<db, pc, todo, cur, camera, own, save, results>>

ProcessEvent(r) ==
    \/ \E e \in Events : RejectEvent(r, e) \/ StartEvent(r, e)
    \/ FoundAlert(r) \/ FoundNoAlert(r)
    \/ FoundRefused(r) \/ FoundNotRefused(r)
    \/ EnsureQuotaRow(r) \/ InsertQuotaRow(r)
    \/ Consume(r) \/ QuotaExhausted(r)
    \/ InsertAlert(r) \/ AlertKeyTaken(r) \/ ResolveDuplicate(r)
    \/ InsertRefused(r) \/ RefusedKeyTaken(r) \/ CountRefused(r)

Next ==
    \/ \E r \in Requests :
        Begin(r) \/ ProcessEvent(r) \/ Commit(r) \/ Answer(r) \/ Abort(r)
    \/ EditCameras

Spec == Init /\ [][Next]_vars

-----------------------------------------------------------------------------
(* Properties *)

\* The quota row is the only thing the conditional update looks at, so it
\* must never drift from the tables it stands for: AcceptedAlertCount is the
\* day's number of Alerts and SuppressedDetectionCount its number of
\* suppressed records, through every rollback to a savepoint, unique-key race
\* and aborted batch (EnforceQuotaAndInsertAsync).
CountersExact ==
    QuotaEnabled =>
        \A d \in Days :
            /\ db.accepted[d] = Cardinality({e \in AlertsOf(db) : DayOf[e] = d})
            /\ db.turned[d] = Cardinality({e \in db.refused : DayOf[e] = d})

\* No interleaving of requests puts more than the maximum on one day
\* (BranchDailyAlertQuota, FS-09 section 7).
WithinQuota ==
    QuotaEnabled =>
        \A d \in Days : Cardinality({e \in AlertsOf(db) : DayOf[e] = d}) <= Quota

\* What a response says is what the tables hold when it leaves: the Agent
\* drops its own copy of the event on the strength of it (SyncEventsAsync's
\* commit before return, section 6.1 of FS-06).
AnswersAreRecorded ==
    \A r \in Requests : pc[r] = "answered" =>
        \A e \in Events :
            /\ results[r][e] \in {"accepted", "duplicate"} => e \in AlertsOf(db)
            /\ results[r][e] = "quota_exceeded" => e \in db.refused

\* An event is accepted once: two responses that are on their way together
\* never both claim to have created its Alert.
AcceptedOnce ==
    \A r, q \in Requests : r # q /\ pc[r] = "answered" /\ pc[q] = "answered" =>
        \A e \in Events :
            ~ (results[r][e] = "accepted" /\ results[q][e] = "accepted")

\* FS-09 section 8: the quota layer only ever runs for events that are
\* neither an existing Alert nor an existing suppressed record, so that an
\* event has one outcome.  The lookups run before the quota update without a
\* lock that lasts, and nothing repeats them (SyncEventsAsync).
OneOutcomePerEvent == AlertsOf(db) \cap db.refused = {}

\* Every commit is one step of the ledger, everything else a stutter.
Ledger == INSTANCE AlertLedger
            WITH alerts <- AlertsOf(db), suppressed <- db.refused

\* The service implements AlertLedger: decisions are final, a day never
\* exceeds the quota, nothing is suppressed on a day that is not full, no
\* Alert is made of an event that was suppressed before.
ImplementsLedger == Ledger!LedgerSpec
=============================================================================
