----------------------- MODULE EvidenceDeliveryProofs -----------------------
(***************************************************************************)
(* Proofs about EvidenceDelivery for every set of events, quota, batch     *)
(* size, spool capacity and bound.                                         *)
(***************************************************************************)
EXTENDS EvidenceDelivery, FiniteSetTheorems, TLAPS

-----------------------------------------------------------------------------
(* The inductive invariant *)

\* Between two awaits the loop belongs to the task whose steps remain.
LoopHeld ==
    /\ syncPc \in {"marking", "linking", "refusing", "cancelling", "unlinking"}
            => loop = "sync"
    /\ upPc \in {"again", "next", "marking", "unlinking"} => loop = "upload"
    /\ loop = "ingest" => writing \in spool \cup removed
    /\ ~running => loop = "free" /\ syncPc = "idle" /\ upPc = "idle"

\* What the sync worker holds of an answer, and how far it has applied it.
AnswerHeld ==
    /\ ok \subseteq alerts \cap batch
    /\ over \subseteq suppressed \cap batch
    /\ ok \cap over = {}
    /\ syncPc \in {"idle", "sent", "looked"} => ok = {} /\ over = {}
    /\ syncPc \in {"sent", "looked", "answered", "marking"} =>
            \A e \in batch : event[e] = "pending"
    /\ syncPc \in {"linking", "refusing"} =>
            \A e \in over : event[e] = "pending"
    /\ syncPc = "linking" =>
            \A e \in todo : event[e] = "delivered"
    /\ syncPc \in {"cancelling", "unlinking"} =>
            \A e \in todo : event[e] = "suppressed_by_quota"
    /\ syncPc = "unlinking" =>
            \A e \in todo : IsFirst(e, todo, DetectedAt) => upload[e] # "pending"

\* A snapshot on its way, or arrived, is that of a delivered event.
UploadsLinked ==
    /\ linked \subseteq {e \in Events : event[e] = "delivered"}
    /\ attached \cup list \cup lateUploads \subseteq linked
    /\ upPc \in {"calling", "stored", "marking", "unlinking"} => record \in linked
    /\ upPc \in {"stored", "marking", "unlinking"} => record \in attached
    /\ upPc = "unlinking" => upload[record] # "pending"

\* SnapshotOutbox against DetectionEvent and the spool.
RowsSound ==
    \A e \in Events :
        /\ upload[e] = "suppressed_by_quota" => event[e] = "suppressed_by_quota"
        /\ upload[e] = "none" <=> capture[e] = "none"
        /\ upload[e] = "uploaded" => e \in attached
        /\ upload[e] = "pending" => e \in spool \cup removed

IInv ==
    /\ TypeOK
    /\ FinalisedIsRecorded
    /\ LoopHeld
    /\ AnswerHeld
    /\ UploadsLinked
    /\ RowsSound

-----------------------------------------------------------------------------
(* Lemmas about the operators *)

\* A drain reads pending or ready rows only, whatever the order and LIMIT.
LEMMA OldestSubset ==
    ASSUME NEW S, NEW n, NEW at
    PROVE  Oldest(S, n, at) \subseteq S
BY DEF Oldest

\* Two first elements of a set of events are the same event.
LEMMA FirstUnique ==
    ASSUME NEW S \in SUBSET Events, NEW e \in S, NEW f \in S,
           IsFirst(e, S, DetectedAt), IsFirst(f, S, DetectedAt)
    PROVE  e = f
<1>1. e \in Nat /\ f \in Nat
  BY EvidenceAssumption
<1>2. DetectedAt[e] = e /\ DetectedAt[f] = f
  BY DEF DetectedAt
<1> QED
  BY <1>1, <1>2 DEF IsFirst

\* Giving up a request adds at most its own events to what may still run.
LEMMA AbandonedSubset ==
    ASSUME NEW L, NEW B
    PROVE  Abandoned(L, B) \subseteq L \cup B
BY DEF Abandoned

\* ... and so stays a set of events.
LEMMA AbandonedType ==
    ASSUME NEW L \in SUBSET Events, NEW B \in SUBSET Events
    PROVE  Abandoned(L, B) \in SUBSET Events
BY AbandonedSubset

\* A set of events is finite, so a spool or a batch can be counted.
LEMMA CardinalityNat ==
    ASSUME NEW S \in SUBSET Events
    PROVE  Cardinality(S) \in Nat
BY LedgerAssumption, FS_Subset, FS_CardinalityType

\* Every action keeps every variable to its type.
LEMMA TypeOKStep == IInv /\ [Next]_vars => TypeOK'
<1> SUFFICES ASSUME IInv, [Next]_vars PROVE TypeOK'
  OBVIOUS
<1> USE EvidenceAssumption, LedgerAssumption DEF IInv, TypeOK, LedgerTypeOK,
        Terminal, backend, disk, syncVars, upVars, lateVars, bounds
<1>1. ASSUME NEW e \in Events, Detect(e) PROVE TypeOK'
  BY <1>1 DEF Detect
<1>2. ASSUME NEW e \in Events, DropFrame(e) PROVE TypeOK'
  BY <1>2 DEF DropFrame
<1>3. ASSUME NEW e \in Events, WriteSnapshot(e) PROVE TypeOK'
  BY <1>3 DEF WriteSnapshot
<1>4. ASSUME NEW e \in Events, CreateCaptured(e) PROVE TypeOK'
  BY <1>4, CardinalityNat DEF CreateCaptured
<1>5. ASSUME CreateCapturedFails PROVE TypeOK'
  BY <1>5 DEF CreateCapturedFails, Fault
<1>6. ASSUME SendBatch PROVE TypeOK'
  BY <1>6, OldestSubset DEF SendBatch, Sendable, PendingEvents
<1>7. ASSUME LookUp PROVE TypeOK'
  BY <1>7 DEF LookUp, Undecided
<1>8. ASSUME Decide PROVE TypeOK'
  BY <1>8 DEF Decide, Record, Undecided
<1>9. ASSUME SyncFails PROVE TypeOK'
  <2>1. Undecided(batch) \in SUBSET Events
    BY DEF Undecided
  <2>2. late' \in SUBSET Events
    BY <1>9, <2>1, AbandonedType DEF SyncFails
  <2> QED
    BY <1>9, <2>2 DEF SyncFails, SyncIdle
<1>10. ASSUME DecideLate PROVE TypeOK'
  BY <1>10 DEF DecideLate, Record
<1>11. ASSUME ReceiveAnswer PROVE TypeOK'
  BY <1>11 DEF ReceiveAnswer
<1>12. ASSUME MarkDelivered PROVE TypeOK'
  BY <1>12 DEF MarkDelivered, Finalise, Acknowledged
<1>13. ASSUME AllAssociated PROVE TypeOK'
  BY <1>13 DEF AllAssociated
<1>14. ASSUME MarkSuppressed PROVE TypeOK'
  BY <1>14 DEF MarkSuppressed, Finalise
<1>15. ASSUME BatchDone PROVE TypeOK'
  BY <1>15 DEF BatchDone, SyncIdle
<1>16. ASSUME NEW e \in Events, AssociateAlertId(e) PROVE TypeOK'
  BY <1>16 DEF AssociateAlertId
<1>17. ASSUME NEW e \in Events, CancelForQuota(e) PROVE TypeOK'
  BY <1>17, ZenonT(40) DEF CancelForQuota
<1>18. ASSUME NEW e \in Events, UnlinkCancelled(e) PROVE TypeOK'
  BY <1>18 DEF UnlinkCancelled
<1>19. ASSUME MarkFails PROVE TypeOK'
  BY <1>19 DEF MarkFails, SyncIdle, Fault
<1>20. ASSUME NEW e \in Events, SinkFails(e) PROVE TypeOK'
  BY <1>20 DEF SinkFails, Fault
<1>21. ASSUME ListUploadReady PROVE TypeOK'
  <2>1. UploadReady \in SUBSET Events
    BY DEF UploadReady
  <2>2. ReadFullBatch \in BOOLEAN
    BY <2>1, CardinalityNat DEF ReadFullBatch
  <2>3. list' \in SUBSET Events
    BY <1>21, <2>1, OldestSubset DEF ListUploadReady
  <2> QED
    BY <1>21, <2>2, <2>3 DEF ListUploadReady
<1>22. ASSUME NEW e \in Events, StartUpload(e) PROVE TypeOK'
  BY <1>22 DEF StartUpload
<1>23. ASSUME NEW e \in Events, SkipMissing(e) PROVE TypeOK'
  BY <1>23 DEF SkipMissing, RestAfterMissing
<1>24. ASSUME ListDone PROVE TypeOK'
  BY <1>24 DEF ListDone
<1>25. ASSUME RestFromUploads PROVE TypeOK'
  BY <1>25 DEF RestFromUploads, UploadIdle
<1>26. ASSUME MarkUploaded PROVE TypeOK'
  BY <1>26, ZenonT(40) DEF MarkUploaded
<1>27. ASSUME UnlinkUploaded PROVE TypeOK'
  BY <1>27 DEF UnlinkUploaded
<1>28. ASSUME Attach PROVE TypeOK'
  BY <1>28 DEF Attach
<1>29. ASSUME UploadFails PROVE TypeOK'
  <2>1. record \in Events
    BY <1>29 DEF UploadFails, UploadsLinked
  <2>2. lateUploads' \in SUBSET Events
    BY <1>29, <2>1, AbandonedType DEF UploadFails
  <2> QED
    BY <1>29, <2>2 DEF UploadFails, UploadIdle
<1>30. ASSUME ReceiveUploaded PROVE TypeOK'
  BY <1>30 DEF ReceiveUploaded, UploadAnswered
<1>31. ASSUME FinishFails PROVE TypeOK'
  <2>1. faults' \in Nat
    BY <1>31 DEF FinishFails, Fault
  <2>2. upPc' = "idle" /\ list' = {} /\ fullBatch' = FALSE /\ record' = NoEvent
    BY <1>31 DEF FinishFails, UploadIdle
  <2> QED
    BY <1>31, <2>1, <2>2 DEF FinishFails
<1>32. ASSUME NEW e \in Events, AttachLate(e) PROVE TypeOK'
  BY <1>32 DEF AttachLate
<1>33. ASSUME Stop PROVE TypeOK'
  <2>1. Undecided(batch) \in SUBSET Events
    BY DEF Undecided
  <2>2. late' \in SUBSET Events
    BY <1>33, <2>1, AbandonedType DEF Stop
  <2>3. lateUploads' \in SUBSET Events
    BY <1>33, AbandonedType DEF Stop, UploadUnderway, UploadsLinked
  <2>4. /\ syncPc' = "idle" /\ upPc' = "idle"
        /\ batch' = {} /\ fresh' = {} /\ ok' = {} /\ over' = {} /\ todo' = {}
        /\ list' = {} /\ fullBatch' = FALSE /\ record' = NoEvent
    BY <1>33 DEF Stop, SyncIdle, UploadIdle
  <2>5. /\ UNCHANGED <<backend, disk, frames, faults>>
        /\ running' = FALSE /\ loop' = "free" /\ writing' = NoEvent
        /\ stops' \in Nat
    BY <1>33 DEF Stop
  <2> QED
    BY <2>2, <2>3, <2>4, <2>5
<1>34. ASSUME Start PROVE TypeOK'
  <2>1. capture' \in [Events -> {"none", "captured", "capture_failed"}]
    BY <1>34 DEF Start
  <2>2. spool' \in SUBSET Events
    BY <1>34 DEF Start
  <2>3. UNCHANGED <<backend, event, upload, linked, capturedAt, removed, loop,
                    frames, writing, syncVars, upVars, lateVars, bounds>>
    BY <1>34 DEF Start
  <2>4. running' \in BOOLEAN
    BY <1>34 DEF Start
  <2> QED
    BY <2>1, <2>2, <2>3, <2>4
<1>35. ASSUME StartUnreconciled PROVE TypeOK'
  BY <1>35 DEF StartUnreconciled, Fault
<1>36. ASSUME NEW S \in SUBSET spool, RemoveFiles(S) PROVE TypeOK'
  BY <1>36 DEF RemoveFiles, Fault
<1>37. ASSUME NEW e \in Events, EditCamera(e) PROVE TypeOK'
  BY <1>37 DEF EditCamera
<1>38. CASE UNCHANGED vars
  BY <1>38 DEF vars
<1> QED
  BY <1>1, <1>2, <1>3, <1>4, <1>5, <1>6, <1>7, <1>8, <1>9, <1>10, <1>11,
     <1>12, <1>13, <1>14, <1>15, <1>16, <1>17, <1>18, <1>19, <1>20, <1>21,
     <1>22, <1>23, <1>24, <1>25, <1>26, <1>27, <1>28, <1>29, <1>30, <1>31,
     <1>32, <1>33, <1>34, <1>35, <1>36, <1>37, <1>38
     DEF Next, Ingest, Sync, ApplyAnswer, Uploads, WorkList, Environment

\* The final statuses of the outbox are written from what the answer said, and
\* the answer says what the Backend had committed.
LEMMA FinalisedIsRecordedStep == IInv /\ [Next]_vars => FinalisedIsRecorded'
<1> SUFFICES ASSUME IInv, [Next]_vars PROVE FinalisedIsRecorded'
  OBVIOUS
<1> USE DEF IInv, FinalisedIsRecorded, AnswerHeld, Terminal, TypeOK,
        LedgerTypeOK, backend, disk, syncVars, upVars, lateVars, bounds
<1>1. ASSUME NEW e \in Events, Detect(e) PROVE FinalisedIsRecorded'
  BY <1>1 DEF Detect
<1>2. ASSUME Decide PROVE FinalisedIsRecorded'
  BY <1>2 DEF Decide, Record
<1>3. ASSUME DecideLate PROVE FinalisedIsRecorded'
  BY <1>3 DEF DecideLate, Record
<1>4. ASSUME MarkDelivered PROVE FinalisedIsRecorded'
  BY <1>4 DEF MarkDelivered, Finalise, Acknowledged
<1>5. ASSUME MarkSuppressed PROVE FinalisedIsRecorded'
  BY <1>5 DEF MarkSuppressed, Finalise
<1>6. ASSUME \/ CreateCapturedFails \/ SendBatch \/ LookUp \/ SyncFails
             \/ ReceiveAnswer \/ AllAssociated \/ BatchDone \/ MarkFails
             \/ ListUploadReady \/ ListDone \/ RestFromUploads
             \/ MarkUploaded \/ UnlinkUploaded \/ Attach \/ UploadFails
             \/ ReceiveUploaded \/ FinishFails \/ Stop \/ Start
             \/ StartUnreconciled \/ \E S \in SUBSET spool : RemoveFiles(S)
             \/ \E e \in Events : DropFrame(e) \/ WriteSnapshot(e)
                   \/ CreateCaptured(e) \/ AssociateAlertId(e)
                   \/ CancelForQuota(e) \/ UnlinkCancelled(e) \/ SinkFails(e)
                   \/ StartUpload(e) \/ SkipMissing(e) \/ AttachLate(e)
                   \/ EditCamera(e)
      PROVE  FinalisedIsRecorded'
  <2>1. UNCHANGED <<event, alerts, suppressed>>
    BY <1>6 DEF AllAssociated, AssociateAlertId, Attach, AttachLate,
           BatchDone, CancelForQuota, CreateCaptured, CreateCapturedFails,
           DropFrame, EditCamera, FinishFails, ListDone, ListUploadReady,
           LookUp, MarkFails, MarkUploaded, ReceiveAnswer, ReceiveUploaded,
           RemoveFiles, RestFromUploads, SendBatch, SinkFails, SkipMissing,
           Start, StartUnreconciled, StartUpload, Stop, SyncFails, SyncIdle,
           UnlinkCancelled, UnlinkUploaded, UploadFails, WriteSnapshot
  <2> QED
    BY <2>1
<1>7. CASE UNCHANGED vars
  BY <1>7 DEF vars
<1> QED
  BY <1>1, <1>2, <1>3, <1>4, <1>5, <1>6, <1>7
     DEF Next, Ingest, Sync, ApplyAnswer, Uploads, WorkList, Environment

\* Each task takes the loop when its await ends and gives it back at the next.
LEMMA LoopHeldStep == IInv /\ [Next]_vars => LoopHeld'
<1> SUFFICES ASSUME IInv, [Next]_vars PROVE LoopHeld'
  OBVIOUS
<1> USE EvidenceAssumption DEF IInv, LoopHeld, TypeOK, LedgerTypeOK, backend,
        disk, syncVars, upVars, lateVars, bounds
<1>1. ASSUME NEW e \in Events, WriteSnapshot(e) PROVE LoopHeld'
  BY <1>1 DEF WriteSnapshot
<1>2. ASSUME NEW e \in Events, CreateCaptured(e) PROVE LoopHeld'
  BY <1>2 DEF CreateCaptured
<1>3. ASSUME CreateCapturedFails PROVE LoopHeld'
  BY <1>3 DEF CreateCapturedFails
<1>4. ASSUME SendBatch PROVE LoopHeld'
  BY <1>4 DEF SendBatch
<1>5. ASSUME LookUp PROVE LoopHeld'
  BY <1>5 DEF LookUp
<1>6. ASSUME Decide PROVE LoopHeld'
  BY <1>6 DEF Decide
<1>7. ASSUME SyncFails PROVE LoopHeld'
  BY <1>7 DEF SyncFails, SyncIdle
<1>8. ASSUME ReceiveAnswer PROVE LoopHeld'
  BY <1>8 DEF ReceiveAnswer
<1>9. ASSUME MarkDelivered PROVE LoopHeld'
  BY <1>9 DEF MarkDelivered
<1>10. ASSUME AllAssociated PROVE LoopHeld'
  BY <1>10 DEF AllAssociated
<1>11. ASSUME MarkSuppressed PROVE LoopHeld'
  BY <1>11 DEF MarkSuppressed
<1>12. ASSUME BatchDone PROVE LoopHeld'
  BY <1>12 DEF BatchDone, SyncIdle
<1>13. ASSUME NEW e \in Events, CancelForQuota(e) PROVE LoopHeld'
  BY <1>13 DEF CancelForQuota
<1>14. ASSUME NEW e \in Events, UnlinkCancelled(e) PROVE LoopHeld'
  BY <1>14 DEF UnlinkCancelled
<1>15. ASSUME MarkFails PROVE LoopHeld'
  BY <1>15 DEF MarkFails, SyncIdle
<1>16. ASSUME NEW e \in Events, SinkFails(e) PROVE LoopHeld'
  BY <1>16 DEF SinkFails
<1>17. ASSUME ListUploadReady PROVE LoopHeld'
  BY <1>17 DEF ListUploadReady
<1>18. ASSUME NEW e \in Events, StartUpload(e) PROVE LoopHeld'
  BY <1>18 DEF StartUpload
<1>19. ASSUME ListDone PROVE LoopHeld'
  BY <1>19 DEF ListDone
<1>20. ASSUME RestFromUploads PROVE LoopHeld'
  BY <1>20 DEF RestFromUploads, UploadIdle
<1>21. ASSUME MarkUploaded PROVE LoopHeld'
  BY <1>21 DEF MarkUploaded
<1>22. ASSUME UnlinkUploaded PROVE LoopHeld'
  BY <1>22 DEF UnlinkUploaded
<1>23. ASSUME Attach PROVE LoopHeld'
  BY <1>23 DEF Attach
<1>24. ASSUME UploadFails PROVE LoopHeld'
  BY <1>24 DEF UploadFails, UploadIdle
<1>25. ASSUME ReceiveUploaded PROVE LoopHeld'
  BY <1>25 DEF ReceiveUploaded, UploadAnswered
<1>26. ASSUME FinishFails PROVE LoopHeld'
  BY <1>26 DEF FinishFails, UploadIdle
<1>27. ASSUME Stop PROVE LoopHeld'
  BY <1>27 DEF Stop, SyncIdle, UploadIdle
<1>28. ASSUME Start PROVE LoopHeld'
  <2>1. loop = "free"
    BY <1>28 DEF Start
  <2> QED
    BY <1>28, <2>1 DEF Start
<1>29. ASSUME StartUnreconciled PROVE LoopHeld'
  BY <1>29 DEF StartUnreconciled
<1>30. ASSUME NEW S \in SUBSET spool, RemoveFiles(S) PROVE LoopHeld'
  BY <1>30 DEF RemoveFiles
<1>31. ASSUME \/ DecideLate
              \/ \E e \in Events : Detect(e) \/ DropFrame(e)
                    \/ AssociateAlertId(e) \/ SkipMissing(e) \/ AttachLate(e)
                    \/ EditCamera(e)
      PROVE  LoopHeld'
  <2>1. UNCHANGED <<syncPc, upPc, loop, writing, spool, removed, running>>
    BY <1>31 DEF AssociateAlertId, AttachLate, DecideLate, Detect, DropFrame,
           EditCamera, SkipMissing
  <2> QED
    BY <2>1
<1>32. CASE UNCHANGED vars
  BY <1>32 DEF vars
<1> QED
  BY <1>1, <1>2, <1>3, <1>4, <1>5, <1>6, <1>7, <1>8, <1>9, <1>10, <1>11,
     <1>12, <1>13, <1>14, <1>15, <1>16, <1>17, <1>18, <1>19, <1>20, <1>21,
     <1>22, <1>23, <1>24, <1>25, <1>26, <1>27, <1>28, <1>29, <1>30, <1>31,
     <1>32
     DEF Next, Ingest, Sync, ApplyAnswer, Uploads, WorkList, Environment

\* The loop is the sync worker's from the answer's arrival to its last sink, and
\* no other task finalises an event, so what it holds stays true while it works.
LEMMA AnswerHeldStep == IInv /\ [Next]_vars => AnswerHeld'
<1> SUFFICES ASSUME IInv, [Next]_vars PROVE AnswerHeld'
  OBVIOUS
<1> USE DEF IInv, LoopHeld, AnswerHeld, Terminal, IsFirst, TypeOK,
        LedgerTypeOK, backend, disk, syncVars, upVars, lateVars, bounds
<1>1. ASSUME NEW e \in Events, Detect(e) PROVE AnswerHeld'
  BY <1>1 DEF Detect
<1>2. ASSUME NEW e \in Events, CreateCaptured(e) PROVE AnswerHeld'
  BY <1>2 DEF CreateCaptured
<1>3. ASSUME SendBatch PROVE AnswerHeld'
  <2>1. Sendable \subseteq PendingEvents
    BY OldestSubset DEF Sendable
  <2>2. \A f \in batch' : event'[f] = "pending"
    BY <1>3, <2>1 DEF SendBatch, PendingEvents
  <2> QED
    BY <1>3, <2>2 DEF SendBatch
<1>4. ASSUME LookUp PROVE AnswerHeld'
  BY <1>4 DEF LookUp
<1>5. ASSUME Decide PROVE AnswerHeld'
  BY <1>5 DEF Decide, Record, Undecided
<1>6. ASSUME SyncFails PROVE AnswerHeld'
  BY <1>6 DEF SyncFails, SyncIdle
<1>7. ASSUME DecideLate PROVE AnswerHeld'
  BY <1>7 DEF DecideLate, Record
<1>8. ASSUME ReceiveAnswer PROVE AnswerHeld'
  BY <1>8 DEF ReceiveAnswer
<1>9. ASSUME MarkDelivered PROVE AnswerHeld'
  BY <1>9 DEF MarkDelivered, Finalise, Acknowledged
<1>10. ASSUME AllAssociated PROVE AnswerHeld'
  BY <1>10 DEF AllAssociated
<1>11. ASSUME MarkSuppressed PROVE AnswerHeld'
  BY <1>11 DEF MarkSuppressed, Finalise
<1>12. ASSUME BatchDone PROVE AnswerHeld'
  BY <1>12 DEF BatchDone, SyncIdle
<1>13. ASSUME NEW e \in Events, AssociateAlertId(e) PROVE AnswerHeld'
  BY <1>13 DEF AssociateAlertId
<1>14. ASSUME NEW e \in Events, CancelForQuota(e) PROVE AnswerHeld'
  <2>1. CASE upload[e] = "pending"
    <3>1. \A f \in todo' : IsFirst(f, todo', DetectedAt) => f = e
      BY <1>14, <2>1, FirstUnique DEF CancelForQuota
    <3>2. upload'[e] # "pending"
      BY <1>14, <2>1 DEF CancelForQuota
    <3> QED
      BY <1>14, <2>1, <3>1, <3>2 DEF CancelForQuota
  <2>2. CASE upload[e] # "pending"
    BY <1>14, <2>2 DEF CancelForQuota
  <2> QED
    BY <2>1, <2>2
<1>15. ASSUME NEW e \in Events, UnlinkCancelled(e) PROVE AnswerHeld'
  BY <1>15 DEF UnlinkCancelled
<1>16. ASSUME MarkFails PROVE AnswerHeld'
  BY <1>16 DEF MarkFails, SyncIdle
<1>17. ASSUME NEW e \in Events, SinkFails(e) PROVE AnswerHeld'
  BY <1>17 DEF SinkFails
<1>18. ASSUME MarkUploaded PROVE AnswerHeld'
  BY <1>18 DEF MarkUploaded
<1>19. ASSUME Stop PROVE AnswerHeld'
  BY <1>19 DEF Stop, SyncIdle
<1>20. ASSUME \/ CreateCapturedFails \/ ListUploadReady \/ ListDone
              \/ RestFromUploads \/ UnlinkUploaded \/ Attach \/ UploadFails
              \/ ReceiveUploaded \/ FinishFails \/ Start \/ StartUnreconciled
              \/ \E S \in SUBSET spool : RemoveFiles(S)
              \/ \E e \in Events : DropFrame(e) \/ WriteSnapshot(e)
                    \/ StartUpload(e) \/ SkipMissing(e) \/ AttachLate(e)
                    \/ EditCamera(e)
      PROVE  AnswerHeld'
  <2>1. UNCHANGED <<ok, over, batch, alerts, suppressed, syncPc, event, todo,
                    upload>>
    BY <1>20 DEF Attach, AttachLate, CreateCapturedFails, DropFrame,
           EditCamera, FinishFails, ListDone, ListUploadReady,
           ReceiveUploaded, RemoveFiles, RestFromUploads, SkipMissing, Start,
           StartUnreconciled, StartUpload, UnlinkUploaded, UploadFails,
           WriteSnapshot
  <2> QED
    BY <2>1
<1>21. CASE UNCHANGED vars
  BY <1>21 DEF vars
<1> QED
  BY <1>1, <1>2, <1>3, <1>4, <1>5, <1>6, <1>7, <1>8, <1>9, <1>10, <1>11,
     <1>12, <1>13, <1>14, <1>15, <1>16, <1>17, <1>18, <1>19, <1>20, <1>21
     DEF Next, Ingest, Sync, ApplyAnswer, Uploads, WorkList, Environment

\* Only AssociateAlertId links rows, and only of events just marked delivered.
LEMMA UploadsLinkedStep == IInv /\ [Next]_vars => UploadsLinked'
<1> SUFFICES ASSUME IInv, [Next]_vars PROVE UploadsLinked'
  OBVIOUS
<1> USE DEF IInv, FinalisedIsRecorded, LoopHeld, AnswerHeld, UploadsLinked,
        RowsSound, Terminal, IsFirst, TypeOK, LedgerTypeOK, backend, disk,
        syncVars, upVars, lateVars, bounds
<1>1. ASSUME NEW e \in Events, Detect(e) PROVE UploadsLinked'
  BY <1>1 DEF Detect
<1>2. ASSUME NEW e \in Events, CreateCaptured(e) PROVE UploadsLinked'
  BY <1>2, CardinalityNat DEF CreateCaptured
<1>3. ASSUME MarkDelivered PROVE UploadsLinked'
  BY <1>3 DEF MarkDelivered, Finalise, Acknowledged
<1>4. ASSUME MarkSuppressed PROVE UploadsLinked'
  BY <1>4 DEF MarkSuppressed, Finalise
<1>5. ASSUME NEW e \in Events, AssociateAlertId(e) PROVE UploadsLinked'
  BY <1>5 DEF AssociateAlertId
<1>6. ASSUME NEW e \in Events, CancelForQuota(e) PROVE UploadsLinked'
  BY <1>6 DEF CancelForQuota
<1>7. ASSUME ListUploadReady PROVE UploadsLinked'
  BY <1>7, OldestSubset DEF ListUploadReady, UploadReady
<1>8. ASSUME NEW e \in Events, StartUpload(e) PROVE UploadsLinked'
  BY <1>8 DEF StartUpload
<1>9. ASSUME NEW e \in Events, SkipMissing(e) PROVE UploadsLinked'
  BY <1>9 DEF SkipMissing, RestAfterMissing
<1>10. ASSUME ListDone PROVE UploadsLinked'
  BY <1>10 DEF ListDone
<1>11. ASSUME RestFromUploads PROVE UploadsLinked'
  BY <1>11 DEF RestFromUploads, UploadIdle
<1>12. ASSUME MarkUploaded PROVE UploadsLinked'
  BY <1>12 DEF MarkUploaded
<1>13. ASSUME UnlinkUploaded PROVE UploadsLinked'
  BY <1>13 DEF UnlinkUploaded
<1>14. ASSUME Attach PROVE UploadsLinked'
  BY <1>14 DEF Attach
<1>15. ASSUME UploadFails PROVE UploadsLinked'
  BY <1>15, AbandonedSubset DEF UploadFails, UploadIdle
<1>16. ASSUME ReceiveUploaded PROVE UploadsLinked'
  BY <1>16 DEF ReceiveUploaded, UploadAnswered
<1>17. ASSUME FinishFails PROVE UploadsLinked'
  BY <1>17 DEF FinishFails, UploadIdle
<1>18. ASSUME NEW e \in Events, AttachLate(e) PROVE UploadsLinked'
  BY <1>18 DEF AttachLate
<1>19. ASSUME Stop PROVE UploadsLinked'
  BY <1>19, AbandonedSubset DEF Stop, SyncIdle, UploadIdle, UploadUnderway
<1>20. ASSUME \/ CreateCapturedFails \/ SendBatch \/ LookUp \/ Decide
              \/ SyncFails \/ DecideLate \/ ReceiveAnswer \/ AllAssociated
              \/ BatchDone \/ MarkFails \/ Start \/ StartUnreconciled
              \/ \E S \in SUBSET spool : RemoveFiles(S)
              \/ \E e \in Events : DropFrame(e) \/ WriteSnapshot(e)
                    \/ UnlinkCancelled(e) \/ SinkFails(e)
                    \/ EditCamera(e)
      PROVE  UploadsLinked'
  <2>1. UNCHANGED <<linked, event, attached, list, lateUploads, upPc, record,
                    upload>>
    BY <1>20 DEF AllAssociated, BatchDone, CreateCapturedFails, Decide,
           DecideLate, DropFrame, EditCamera, LookUp, MarkFails,
           ReceiveAnswer, Record, RemoveFiles, SendBatch, SinkFails, Start,
           StartUnreconciled, SyncFails, SyncIdle, UnlinkCancelled,
           WriteSnapshot
  <2> QED
    BY <2>1
<1>21. CASE UNCHANGED vars
  BY <1>21 DEF vars
<1> QED
  BY <1>1, <1>2, <1>3, <1>4, <1>5, <1>6, <1>7, <1>8, <1>9, <1>10, <1>11,
     <1>12, <1>13, <1>14, <1>15, <1>16, <1>17, <1>18, <1>19, <1>20, <1>21
     DEF Next, Ingest, Sync, ApplyAnswer, Uploads, WorkList, Environment

\* Both workers commit a terminal status before they delete the file.
LEMMA RowsSoundStep == IInv /\ [Next]_vars => RowsSound'
<1> SUFFICES ASSUME IInv, [Next]_vars PROVE RowsSound'
  OBVIOUS
<1> USE DEF IInv, LoopHeld, AnswerHeld, UploadsLinked, RowsSound, Terminal,
        IsFirst, TypeOK, LedgerTypeOK, backend, disk, syncVars, upVars,
        lateVars, bounds
<1>1. ASSUME NEW e \in Events, Detect(e) PROVE RowsSound'
  BY <1>1 DEF Detect
<1>2. ASSUME NEW e \in Events, WriteSnapshot(e) PROVE RowsSound'
  BY <1>2 DEF WriteSnapshot
<1>3. ASSUME NEW e \in Events, CreateCaptured(e) PROVE RowsSound'
  BY <1>3 DEF CreateCaptured
<1>4. ASSUME MarkDelivered PROVE RowsSound'
  BY <1>4 DEF MarkDelivered, Finalise, Acknowledged
<1>5. ASSUME MarkSuppressed PROVE RowsSound'
  BY <1>5 DEF MarkSuppressed, Finalise
<1>6. ASSUME NEW e \in Events, CancelForQuota(e) PROVE RowsSound'
  BY <1>6 DEF CancelForQuota
<1>7. ASSUME NEW e \in Events, UnlinkCancelled(e) PROVE RowsSound'
  BY <1>7 DEF UnlinkCancelled
<1>8. ASSUME MarkUploaded PROVE RowsSound'
  BY <1>8 DEF MarkUploaded
<1>9. ASSUME UnlinkUploaded PROVE RowsSound'
  BY <1>9 DEF UnlinkUploaded
<1>10. ASSUME Attach PROVE RowsSound'
  BY <1>10 DEF Attach
<1>11. ASSUME NEW e \in Events, AttachLate(e) PROVE RowsSound'
  BY <1>11 DEF AttachLate
<1>12. ASSUME Start PROVE RowsSound'
  BY <1>12 DEF Start, HasRow
<1>13. ASSUME NEW S \in SUBSET spool, RemoveFiles(S) PROVE RowsSound'
  BY <1>13 DEF RemoveFiles
<1>14. ASSUME \/ CreateCapturedFails \/ SendBatch \/ LookUp \/ Decide
              \/ SyncFails \/ DecideLate \/ ReceiveAnswer \/ AllAssociated
              \/ BatchDone \/ MarkFails \/ ListUploadReady \/ ListDone
              \/ RestFromUploads \/ UploadFails \/ ReceiveUploaded
              \/ FinishFails \/ Stop \/ StartUnreconciled
              \/ \E e \in Events : DropFrame(e) \/ AssociateAlertId(e)
                    \/ SinkFails(e) \/ StartUpload(e) \/ SkipMissing(e)
                    \/ EditCamera(e)
      PROVE  RowsSound'
  <2>1. UNCHANGED <<upload, event, capture, attached, spool, removed>>
    BY <1>14 DEF AllAssociated, AssociateAlertId, BatchDone,
           CreateCapturedFails, Decide, DecideLate, DropFrame, EditCamera,
           FinishFails, ListDone, ListUploadReady, LookUp, MarkFails,
           ReceiveAnswer, ReceiveUploaded, RestFromUploads, SendBatch,
           SinkFails, SkipMissing, StartUnreconciled, StartUpload, Stop,
           SyncFails, UploadFails
  <2> QED
    BY <2>1
<1>15. CASE UNCHANGED vars
  BY <1>15 DEF vars
<1> QED
  BY <1>1, <1>2, <1>3, <1>4, <1>5, <1>6, <1>7, <1>8, <1>9, <1>10, <1>11,
     <1>12, <1>13, <1>14, <1>15
     DEF Next, Ingest, Sync, ApplyAnswer, Uploads, WorkList, Environment

\* Only pending rows are finalised, cancelled or marked uploaded.
LEMMA KeepsFinalStep == IInv /\ [Next]_vars => KeepsFinal
<1> SUFFICES ASSUME IInv, [Next]_vars PROVE KeepsFinal
  OBVIOUS
<1> USE DEF IInv, RowsSound, KeepsFinal, Terminal, TypeOK, LedgerTypeOK,
        backend, disk, syncVars, upVars, lateVars, bounds
<1>1. ASSUME NEW e \in Events, Detect(e) PROVE KeepsFinal
  BY <1>1 DEF Detect
<1>2. ASSUME NEW e \in Events, CreateCaptured(e) PROVE KeepsFinal
  BY <1>2 DEF CreateCaptured
<1>3. ASSUME MarkDelivered PROVE KeepsFinal
  BY <1>3 DEF MarkDelivered, Finalise, Acknowledged
<1>4. ASSUME MarkSuppressed PROVE KeepsFinal
  BY <1>4 DEF MarkSuppressed, Finalise
<1>5. ASSUME NEW e \in Events, AssociateAlertId(e) PROVE KeepsFinal
  BY <1>5 DEF AssociateAlertId
<1>6. ASSUME NEW e \in Events, CancelForQuota(e) PROVE KeepsFinal
  BY <1>6 DEF CancelForQuota
<1>7. ASSUME MarkUploaded PROVE KeepsFinal
  BY <1>7 DEF MarkUploaded
<1>8. ASSUME \/ CreateCapturedFails \/ SendBatch \/ LookUp \/ Decide
             \/ SyncFails \/ DecideLate \/ ReceiveAnswer \/ AllAssociated
             \/ BatchDone \/ MarkFails \/ ListUploadReady \/ ListDone
             \/ RestFromUploads \/ UnlinkUploaded \/ Attach \/ UploadFails
             \/ ReceiveUploaded \/ FinishFails \/ Stop \/ Start
             \/ StartUnreconciled \/ \E S \in SUBSET spool : RemoveFiles(S)
             \/ \E e \in Events : DropFrame(e) \/ WriteSnapshot(e)
                   \/ UnlinkCancelled(e) \/ SinkFails(e) \/ StartUpload(e)
                   \/ SkipMissing(e) \/ AttachLate(e)
                   \/ EditCamera(e)
      PROVE  KeepsFinal
  <2>1. UNCHANGED <<event, upload, linked>>
    BY <1>8 DEF AllAssociated, Attach, AttachLate, BatchDone,
           CreateCapturedFails, Decide, DecideLate, DropFrame, EditCamera,
           FinishFails, ListDone, ListUploadReady, LookUp, MarkFails,
           ReceiveAnswer, ReceiveUploaded, RemoveFiles, RestFromUploads,
           SendBatch, SinkFails, SkipMissing, Start, StartUnreconciled,
           StartUpload, Stop, SyncFails, UnlinkCancelled, UnlinkUploaded,
           UploadFails, WriteSnapshot
  <2> QED
    BY <2>1
<1>9. CASE UNCHANGED vars
  BY <1>9 DEF vars
<1> QED
  BY <1>1, <1>2, <1>3, <1>4, <1>5, <1>6, <1>7, <1>8, <1>9
     DEF Next, Ingest, Sync, ApplyAnswer, Uploads, WorkList, Environment

\* The empty outbox of a fresh device, or one full of foreign rows.
LEMMA InitIInv == Init => IInv
<1> SUFFICES ASSUME Init PROVE IInv
  OBVIOUS
<1> USE EvidenceAssumption DEF Init, LedgerInit
<1>1. TypeOK
  BY DEF TypeOK, LedgerTypeOK
<1>2. FinalisedIsRecorded
  BY DEF FinalisedIsRecorded
<1>3. LoopHeld
  BY DEF LoopHeld
<1>4. AnswerHeld
  BY DEF AnswerHeld
<1>5. UploadsLinked
  BY DEF UploadsLinked
<1>6. RowsSound
  BY DEF RowsSound
<1> QED
  BY <1>1, <1>2, <1>3, <1>4, <1>5, <1>6 DEF IInv

-----------------------------------------------------------------------------
(* Theorems *)

\* The inductive invariant holds in every reachable state: of the sync and
\* upload workers, the ingest handler, the Backend and every failure modelled.
THEOREM Inductive == Spec => []IInv
<1>1. IInv /\ [Next]_vars => IInv'
  BY TypeOKStep, FinalisedIsRecordedStep, LoopHeldStep, AnswerHeldStep,
     UploadsLinkedStep, RowsSoundStep DEF IInv
<1> QED
  BY InitIInv, <1>1, PTL DEF Spec

\* Every variable of the Agent's disk and memory and of the Backend keeps to
\* the values its column or attribute is documented to have.
THEOREM TypeCorrect == Spec => []TypeOK
<1>1. IInv => TypeOK
  BY DEF IInv
<1> QED
  BY Inductive, <1>1, PTL

\* The Agent finalises an event only with an outcome the Backend committed
\* (mark_delivered_many, mark_suppressed_by_quota_many).
THEOREM NothingIsLost == Spec => []FinalisedIsRecorded
<1>1. IInv => FinalisedIsRecorded
  BY DEF IInv
<1> QED
  BY Inductive, <1>1, PTL

\* The batch the upload worker holds across its awaits, and every upload on
\* its way or arrived, is of events finalised as delivered
\* (list_upload_ready, associate_alert_id, cancel_for_quota).
THEOREM SuppressedStaysLocal == Spec => []OnlyDeliveredIsUploaded
<1>1. IInv => OnlyDeliveredIsUploaded
  <2> SUFFICES ASSUME IInv,
                      NEW e \in linked \cup attached \cup list \cup lateUploads
               PROVE  event[e] = "delivered" /\ upload[e] # "suppressed_by_quota"
    BY DEF OnlyDeliveredIsUploaded
  <2>1. e \in linked
    BY DEF IInv, UploadsLinked
  <2>2. e \in Events /\ event[e] = "delivered"
    BY <2>1 DEF IInv, UploadsLinked
  <2>3. upload[e] # "suppressed_by_quota"
    BY <2>2 DEF IInv, RowsSound
  <2> QED
    BY <2>2, <2>3
<1> QED
  BY Inductive, <1>1, PTL

\* mark_uploaded follows the Backend's attachment of the snapshot.
THEOREM UploadedIsStored == Spec => []UploadedIsAttached
<1>1. IInv => UploadedIsAttached
  BY DEF IInv, RowsSound, UploadedIsAttached
<1> QED
  BY Inductive, <1>1, PTL

\* No kill, restart or sink failure separates a pending row from its JPEG
\* (_upload_one, the quota sink, reconcile_snapshot_spool).
THEOREM FileKept == Spec => []PendingKeepsFile
<1>1. IInv => PendingKeepsFile
  BY DEF IInv, RowsSound, PendingKeepsFile
<1> QED
  BY Inductive, <1>1, PTL

\* No step of any task takes a final status or a BackendAlertId back
\* (the WHERE clauses of the two repositories).
THEOREM FinalIsFinal == Spec => FinalStaysFinal
<1>1. IInv /\ [Next]_vars => [KeepsFinal]_vars
  BY KeepsFinalStep
<1> QED
  BY Inductive, <1>1, PTL DEF Spec, FinalStaysFinal
=============================================================================
