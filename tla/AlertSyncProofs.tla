-------------------------- MODULE AlertSyncProofs --------------------------
(***************************************************************************)
(* Proofs about AlertSync for any number of concurrent requests, events,   *)
(* days, batch size and quota.  FiniteSetTheorems counts the events that   *)
(* are charged to a day.                                                   *)
(***************************************************************************)
EXTENDS AlertSync, FiniteSetTheorems, TLAPS

-----------------------------------------------------------------------------
(* The inductive invariant, first part: who holds which key *)

Outside == {"idle", "answered"}

\* Stages at which the transaction knows that it made no Alert of cur.
Undecided == {"lookupRefused", "ensureRow", "insertRow", "consume",
              "insertAlert", "insertRefused", "count"}

\* Outside a transaction nothing is written, inside it the camera is known.
Locals ==
    \A r \in Requests :
        /\ pc[r] \in Outside => own[r] = Empty /\ save[r] = Empty
        /\ pc[r] = "idle" => results[r] = NoResults
        /\ pc[r] \notin Outside \cup {"next"} => camera[r] # NoCamera
        /\ pc[r] \in Undecided => cur[r] \notin AlertsOf(own[r])
        /\ pc[r] = "count" => cur[r] \in own[r].refused

\* Tables s hold nothing that tables t do not hold.
Below(s, t) ==
    /\ AlertsOf(s) \subseteq AlertsOf(t)
    /\ s.refused \subseteq t.refused
    /\ s.rows \subseteq t.rows
    /\ \A d \in Days : s.accepted[d] <= t.accepted[d] /\ s.turned[d] <= t.turned[d]

\* What Undo goes back to is part of what was written.
SaveBelow == \A r \in Requests : Below(save[r], own[r])

Apart(s, t) ==
    /\ AlertsOf(s) \cap AlertsOf(t) = {}
    /\ s.refused \cap t.refused = {}

\* The unique indexes: a key is committed, or held by one transaction.
KeysExclusive ==
    /\ \A r \in Requests : Apart(own[r], db)
    /\ \A r, q \in Requests : r # q => Apart(own[r], own[q])

\* The writes the results given so far rest on: those of the current event
\* can still be undone.
Base(r) == IF pc[r] = "next" THEN own[r] ELSE save[r]

ResultsKept ==
    \A r \in Requests : pc[r] # "answered" =>
        \A e \in Events :
            /\ results[r][e] = "accepted" => e \in AlertsOf(Base(r))
            /\ results[r][e] = "duplicate" => e \in AlertsOf(db) \cup AlertsOf(Base(r))
            /\ results[r][e] = "quota_exceeded" => e \in db.refused \cup Base(r).refused

KeyInv ==
    /\ Locals
    /\ SaveBelow
    /\ KeysExclusive
    /\ ResultsKept
    /\ AnswersAreRecorded
    /\ AcceptedOnce

-----------------------------------------------------------------------------
(* Second part: what the counters say *)

OnDay(A, d) == {e \in A : DayOf[e] = d}

Holds(t, d) == d \in t.rows \/ t.accepted[d] > 0 \/ t.turned[d] > 0

\* The row lock of a day's quota.
RowsExclusive ==
    \A r, q \in Requests, d \in Days :
        r # q => ~ (Holds(own[r], d) /\ Holds(own[q], d))

Exact(t, d) ==
    /\ t.accepted[d] = Cardinality(OnDay(AlertsOf(t), d))
    /\ t.turned[d] = Cardinality(OnDay(t.refused, d))

\* Request r is between the two writes that belong together on day d.
Charged(r, d) == IF pc[r] = "insertAlert" /\ DayOf[cur[r]] = d THEN 1 ELSE 0
Owed(r, d) == IF pc[r] = "count" /\ DayOf[cur[r]] = d THEN 1 ELSE 0

OwnExact(r) ==
    \A d \in Days :
        /\ Exact(save[r], d)
        /\ own[r].accepted[d] = Cardinality(OnDay(AlertsOf(own[r]), d)) + Charged(r, d)
        /\ own[r].turned[d] + Owed(r, d) = Cardinality(OnDay(own[r].refused, d))

\* What a transaction sees of a day never exceeds its quota ...
OwnLimited(r) == \A d \in Days : db.accepted[d] + own[r].accepted[d] <= Quota

FullWith(t, d) == db.accepted[d] + t.accepted[d] >= Quota

\* ... and a day on which it refuses something is full and stays so.
OwnRefusedWhenFull(r) ==
    /\ \A e \in own[r].refused : FullWith(own[r], DayOf[e])
    /\ \A e \in save[r].refused : FullWith(save[r], DayOf[e])
    /\ pc[r] \in {"insertRefused", "count"} => FullWith(own[r], DayOf[cur[r]])

\* A batch decides each of its events once.
DecidedOnce(r) ==
    /\ AlertsOf(own[r]) \cap own[r].refused = {}
    /\ pc[r] \in {"ensureRow", "insertRow", "consume", "insertAlert", "insertRefused"} =>
            cur[r] \notin own[r].refused
    /\ pc[r] = "consume" => DayOf[cur[r]] \in db.rows \cup own[r].rows

RequestInv(r) ==
    /\ OwnExact(r)
    /\ OwnLimited(r)
    /\ OwnRefusedWhenFull(r)
    /\ DecidedOnce(r)

DbFull ==
    /\ \A d \in Days : db.accepted[d] <= Quota
    /\ \A e \in db.refused : db.accepted[DayOf[e]] >= Quota

CountInv ==
    QuotaEnabled =>
        /\ RowsExclusive
        /\ CountersExact
        /\ DbFull
        /\ \A r \in Requests : RequestInv(r)

-----------------------------------------------------------------------------
(* Tables *)

LEMMA EmptyTables ==
    /\ Empty \in Tables
    /\ AlertsOf(Empty) = {} /\ Empty.refused = {} /\ Empty.rows = {}
    /\ \A d \in Days : Empty.accepted[d] = 0 /\ Empty.turned[d] = 0
BY SyncAssumption DEF Empty, Tables, AlertsOf

\* What a transaction sees is the committed tables and its own writes.
LEMMA MergedTables ==
    ASSUME NEW t \in Tables, NEW w \in Tables
    PROVE  /\ Merge(t, w) \in Tables
           /\ AlertsOf(Merge(t, w)) = AlertsOf(t) \cup AlertsOf(w)
           /\ Merge(t, w).refused = t.refused \cup w.refused
           /\ Merge(t, w).rows = t.rows \cup w.rows
           /\ \A d \in Days :
                /\ Merge(t, w).accepted[d] = t.accepted[d] + w.accepted[d]
                /\ Merge(t, w).turned[d] = t.turned[d] + w.turned[d]
BY SyncAssumption DEF Merge, Tables, AlertsOf

\* One row, one key or one increment more leaves the other tables alone.
LEMMA RowAdded ==
    ASSUME NEW t \in Tables, NEW d \in Days
    PROVE  LET u == [t EXCEPT !.rows = @ \cup {d}]
           IN  /\ u \in Tables /\ AlertsOf(u) = AlertsOf(t) /\ u.refused = t.refused
               /\ u.rows = t.rows \cup {d}
               /\ u.accepted = t.accepted /\ u.turned = t.turned
BY DEF Tables, AlertsOf

LEMMA AlertAdded ==
    ASSUME NEW t \in Tables, NEW e \in Events, NEW c \in Cameras
    PROVE  LET u == [t EXCEPT !.alert[e] = c]
           IN  /\ u \in Tables /\ AlertsOf(u) = AlertsOf(t) \cup {e}
               /\ u.refused = t.refused /\ u.rows = t.rows
               /\ u.accepted = t.accepted /\ u.turned = t.turned
<1> DEFINE col == [t.alert EXCEPT ![e] = c]
           u == [t EXCEPT !.alert = col]
<1>1. /\ col \in [Events -> Cameras \cup {NoCamera}]
      /\ \A f \in Events : col[f] = IF f = e THEN c ELSE t.alert[f]
  BY DEF Tables
<1>2. [t EXCEPT !.alert[e] = c] = u
  BY DEF Tables
<1> HIDE DEF col
<1>3. QED BY <1>1, <1>2, SyncAssumption DEF Tables, AlertsOf

LEMMA RefusalAdded ==
    ASSUME NEW t \in Tables, NEW e \in Events
    PROVE  LET u == [t EXCEPT !.refused = @ \cup {e}]
           IN  /\ u \in Tables /\ AlertsOf(u) = AlertsOf(t)
               /\ u.refused = t.refused \cup {e} /\ u.rows = t.rows
               /\ u.accepted = t.accepted /\ u.turned = t.turned
BY DEF Tables, AlertsOf

LEMMA AcceptedIncremented ==
    ASSUME NEW t \in Tables, NEW d \in Days
    PROVE  LET u == [t EXCEPT !.accepted[d] = @ + 1]
           IN  /\ u \in Tables /\ AlertsOf(u) = AlertsOf(t) /\ u.refused = t.refused
               /\ u.rows = t.rows /\ u.turned = t.turned
               /\ \A x \in Days : u.accepted[x] =
                    IF x = d THEN t.accepted[x] + 1 ELSE t.accepted[x]
<1> DEFINE col == [t.accepted EXCEPT ![d] = @ + 1]
           u == [t EXCEPT !.accepted = col]
<1>1. /\ col \in [Days -> Nat]
      /\ \A x \in Days : col[x] = IF x = d THEN t.accepted[x] + 1 ELSE t.accepted[x]
  BY DEF Tables
<1>2. [t EXCEPT !.accepted[d] = @ + 1] = u
  BY DEF Tables
<1> HIDE DEF col
<1>3. QED BY <1>1, <1>2 DEF Tables, AlertsOf

LEMMA TurnedIncremented ==
    ASSUME NEW t \in Tables, NEW d \in Days
    PROVE  LET u == [t EXCEPT !.turned[d] = @ + 1]
           IN  /\ u \in Tables /\ AlertsOf(u) = AlertsOf(t) /\ u.refused = t.refused
               /\ u.rows = t.rows /\ u.accepted = t.accepted
               /\ \A x \in Days : u.turned[x] =
                    IF x = d THEN t.turned[x] + 1 ELSE t.turned[x]
<1> DEFINE col == [t.turned EXCEPT ![d] = @ + 1]
           u == [t EXCEPT !.turned = col]
<1>1. /\ col \in [Days -> Nat]
      /\ \A x \in Days : col[x] = IF x = d THEN t.turned[x] + 1 ELSE t.turned[x]
  BY DEF Tables
<1>2. [t EXCEPT !.turned[d] = @ + 1] = u
  BY DEF Tables
<1> HIDE DEF col
<1>3. QED BY <1>1, <1>2 DEF Tables, AlertsOf

LEMMA CountersAreNat ==
    ASSUME NEW t \in Tables, NEW d \in Days
    PROVE  t.accepted[d] \in Nat /\ t.turned[d] \in Nat
BY DEF Tables

LEMMA BelowItself ==
    ASSUME NEW t \in Tables PROVE Below(t, t)
BY CountersAreNat DEF Below

LEMMA BelowGrows ==
    ASSUME NEW s \in Tables, NEW t \in Tables, NEW u \in Tables, Below(s, t),
           AlertsOf(t) \subseteq AlertsOf(u), t.refused \subseteq u.refused,
           t.rows \subseteq u.rows,
           \A d \in Days : t.accepted[d] <= u.accepted[d] /\ t.turned[d] <= u.turned[d]
    PROVE  Below(s, u)
<1>1. \A d \in Days : s.accepted[d] <= u.accepted[d] /\ s.turned[d] <= u.turned[d]
  BY CountersAreNat DEF Below
<1> QED BY <1>1 DEF Below

-----------------------------------------------------------------------------
(* Types *)

\* Only the answer for one event of one request changes.
LEMMA OutcomeStep ==
    ASSUME TypeOK, NEW r \in Requests, NEW e \in Events, NEW v \in Verdicts,
           Outcome(r, e, v)
    PROVE  /\ results' \in [Requests -> [Events -> Verdicts \cup {"none"}]]
           /\ results'[r][e] = v
           /\ \A f \in Events \ {e} : results'[r][f] = results[r][f]
           /\ \A q \in Requests \ {r} : results'[q] = results[q]
<1> DEFINE row == [results[r] EXCEPT ![e] = v]
<1>1. results' = [results EXCEPT ![r] = row]
  BY DEF Outcome
<1>2. results \in [Requests -> [Events -> Verdicts \cup {"none"}]]
  BY DEF TypeOK
<1>3. /\ row \in [Events -> Verdicts \cup {"none"}]
      /\ row[e] = v
      /\ \A f \in Events \ {e} : row[f] = results[r][f]
  BY <1>2
<1> HIDE DEF row
<1> QED BY <1>1, <1>2, <1>3

\* What each write does to the transaction's own tables; no other
\* transaction's are touched.
OnlyOwn(r, t) ==
    /\ own' \in [Requests -> Tables]
    /\ own'[r] = t
    /\ \A q \in Requests \ {r} : own'[q] = own[q]

LEMMA OwnReplaced ==
    ASSUME TypeOK, NEW r \in Requests, NEW t \in Tables, own' = [own EXCEPT ![r] = t]
    PROVE  OnlyOwn(r, t)
BY DEF TypeOK, OnlyOwn

SameAlertsAndKeys(t, u) == AlertsOf(u) = AlertsOf(t) /\ u.refused = t.refused
SameCounters(t, u) == u.rows = t.rows /\ u.accepted = t.accepted /\ u.turned = t.turned

LEMMA InsertQuotaRowWrites ==
    ASSUME TypeOK, NEW r \in Requests, InsertQuotaRow(r)
    PROVE  /\ OnlyOwn(r, own'[r])
           /\ \/ DayOf[cur[r]] \in db.rows /\ own'[r] = save[r]
              \/ /\ SameAlertsAndKeys(own[r], own'[r])
                 /\ own'[r].rows = own[r].rows \cup {DayOf[cur[r]]}
                 /\ own'[r].accepted = own[r].accepted /\ own'[r].turned = own[r].turned
<1> DEFINE d == DayOf[cur[r]]
           u == [own[r] EXCEPT !.rows = @ \cup {d}]
<1>1. own[r] \in Tables /\ save[r] \in Tables /\ d \in Days
  BY SyncAssumption DEF TypeOK
<1>2. /\ u \in Tables /\ SameAlertsAndKeys(own[r], u) /\ u.rows = own[r].rows \cup {d}
      /\ u.accepted = own[r].accepted /\ u.turned = own[r].turned
  BY <1>1, RowAdded DEF SameAlertsAndKeys
<1>3. CASE d \in db.rows
  <2>1. own' = [own EXCEPT ![r] = save[r]] BY <1>3 DEF InsertQuotaRow, Undo
  <2> QED BY <2>1, <1>1, <1>3, OwnReplaced DEF OnlyOwn
<1>4. CASE d \notin db.rows
  <2>1. own' = [own EXCEPT ![r] = u] BY <1>4 DEF InsertQuotaRow
  <2> HIDE DEF u
  <2> QED BY <2>1, <1>2, OwnReplaced DEF OnlyOwn
<1> QED BY <1>3, <1>4

LEMMA ConsumeWrites ==
    ASSUME TypeOK, NEW r \in Requests, Consume(r)
    PROVE  /\ OnlyOwn(r, own'[r])
           /\ SameAlertsAndKeys(own[r], own'[r])
           /\ own'[r].rows = own[r].rows /\ own'[r].turned = own[r].turned
           /\ \A d \in Days : own'[r].accepted[d] =
                IF d = DayOf[cur[r]] THEN own[r].accepted[d] + 1 ELSE own[r].accepted[d]
<1> DEFINE u == [own[r] EXCEPT !.accepted[DayOf[cur[r]]] = @ + 1]
<1>1. own[r] \in Tables /\ DayOf[cur[r]] \in Days
  BY SyncAssumption DEF TypeOK
<1>2. /\ u \in Tables /\ SameAlertsAndKeys(own[r], u)
      /\ u.rows = own[r].rows /\ u.turned = own[r].turned
      /\ \A d \in Days : u.accepted[d] =
            IF d = DayOf[cur[r]] THEN own[r].accepted[d] + 1 ELSE own[r].accepted[d]
  BY <1>1, AcceptedIncremented DEF SameAlertsAndKeys
<1>3. own' = [own EXCEPT ![r] = u]
  BY DEF Consume
<1> HIDE DEF u
<1> QED BY <1>2, <1>3, OwnReplaced DEF OnlyOwn

LEMMA InsertAlertWrites ==
    ASSUME TypeOK, NEW r \in Requests, InsertAlert(r), camera[r] # NoCamera
    PROVE  /\ OnlyOwn(r, own'[r])
           /\ AlertsOf(own'[r]) = AlertsOf(own[r]) \cup {cur[r]}
           /\ own'[r].refused = own[r].refused
           /\ SameCounters(own[r], own'[r])
<1> DEFINE u == [own[r] EXCEPT !.alert[cur[r]] = camera[r]]
<1>1. own[r] \in Tables /\ cur[r] \in Events /\ camera[r] \in Cameras
  BY DEF TypeOK
<1>2. /\ u \in Tables /\ AlertsOf(u) = AlertsOf(own[r]) \cup {cur[r]}
      /\ u.refused = own[r].refused /\ SameCounters(own[r], u)
  BY <1>1, AlertAdded DEF SameCounters
<1>3. own' = [own EXCEPT ![r] = u]
  BY DEF InsertAlert
<1> HIDE DEF u
<1> QED BY <1>2, <1>3, OwnReplaced DEF OnlyOwn

LEMMA InsertRefusedWrites ==
    ASSUME TypeOK, NEW r \in Requests, InsertRefused(r)
    PROVE  /\ OnlyOwn(r, own'[r])
           /\ AlertsOf(own'[r]) = AlertsOf(own[r])
           /\ own'[r].refused = own[r].refused \cup {cur[r]}
           /\ SameCounters(own[r], own'[r])
<1> DEFINE u == [own[r] EXCEPT !.refused = @ \cup {cur[r]}]
<1>1. own[r] \in Tables /\ cur[r] \in Events
  BY DEF TypeOK
<1>2. /\ u \in Tables /\ AlertsOf(u) = AlertsOf(own[r])
      /\ u.refused = own[r].refused \cup {cur[r]} /\ SameCounters(own[r], u)
  BY <1>1, RefusalAdded DEF SameCounters
<1>3. own' = [own EXCEPT ![r] = u]
  BY DEF InsertRefused
<1> HIDE DEF u
<1> QED BY <1>2, <1>3, OwnReplaced DEF OnlyOwn

LEMMA CountRefusedWrites ==
    ASSUME TypeOK, NEW r \in Requests, CountRefused(r)
    PROVE  /\ OnlyOwn(r, own'[r])
           /\ SameAlertsAndKeys(own[r], own'[r])
           /\ own'[r].rows = own[r].rows /\ own'[r].accepted = own[r].accepted
           /\ \A d \in Days : own'[r].turned[d] =
                IF d = DayOf[cur[r]] THEN own[r].turned[d] + 1 ELSE own[r].turned[d]
<1> DEFINE u == [own[r] EXCEPT !.turned[DayOf[cur[r]]] = @ + 1]
<1>1. own[r] \in Tables /\ DayOf[cur[r]] \in Days
  BY SyncAssumption DEF TypeOK
<1>2. /\ u \in Tables /\ SameAlertsAndKeys(own[r], u)
      /\ u.rows = own[r].rows /\ u.accepted = own[r].accepted
      /\ \A d \in Days : u.turned[d] =
            IF d = DayOf[cur[r]] THEN own[r].turned[d] + 1 ELSE own[r].turned[d]
  BY <1>1, TurnedIncremented DEF SameAlertsAndKeys
<1>3. own' = [own EXCEPT ![r] = u]
  BY DEF CountRefused
<1> HIDE DEF u
<1> QED BY <1>2, <1>3, OwnReplaced DEF OnlyOwn

\* Undoing the current event.
LEMMA KeyTakenWrites ==
    ASSUME TypeOK, NEW r \in Requests, AlertKeyTaken(r) \/ RefusedKeyTaken(r)
    PROVE  OnlyOwn(r, save[r])
BY OwnReplaced DEF AlertKeyTaken, RefusedKeyTaken, Undo, TypeOK

\* The end of the transaction.
LEMMA EndWrites ==
    ASSUME TypeOK, NEW r \in Requests, EndTransaction(r)
    PROVE  /\ OnlyOwn(r, Empty)
           /\ save'[r] = Empty
           /\ \A q \in Requests \ {r} :
                /\ save'[q] = save[q] /\ cur'[q] = cur[q] /\ camera'[q] = camera[q]
BY OwnReplaced, EmptyTables DEF EndTransaction, TypeOK

LEMMA TypeInit == Init => TypeOK
BY EmptyTables, SyncAssumption
   DEF Init, TypeOK, Stages, AnyEvent, NoResults, Verdicts

LEMMA TypeStep == TypeOK /\ [Next]_vars => TypeOK'
<1> SUFFICES ASSUME TypeOK, [Next]_vars PROVE TypeOK'
  OBVIOUS
<1> USE SyncAssumption DEF TypeOK, Moves, Outcome
<1>1. ASSUME NEW r \in Requests, Begin(r) PROVE TypeOK'
  BY <1>1 DEF Begin, Stages
<1>2. ASSUME NEW r \in Requests, NEW e \in Events, RejectEvent(r, e) PROVE TypeOK'
  BY <1>2 DEF RejectEvent, Stages, Verdicts
<1>3. ASSUME NEW r \in Requests, NEW e \in Events, StartEvent(r, e) PROVE TypeOK'
  BY <1>3 DEF StartEvent, Stages
<1>4. ASSUME NEW r \in Requests, FoundAlert(r) \/ ResolveDuplicate(r) PROVE TypeOK'
  <2> DEFINE v == IF SameEvent(r) THEN "duplicate" ELSE "rejected"
  <2>1. Outcome(r, cur[r], v) /\ v \in Verdicts /\ cur[r] \in Events
    BY <1>4 DEF FoundAlert, ResolveDuplicate, AnswerKnown, Verdicts
  <2> HIDE DEF v, Outcome
  <2> QED BY <1>4, <2>1, OutcomeStep DEF FoundAlert, ResolveDuplicate, Stages
<1>5. ASSUME NEW r \in Requests, FoundNoAlert(r) PROVE TypeOK'
  BY <1>5 DEF FoundNoAlert, Stages
<1>6. ASSUME NEW r \in Requests, FoundRefused(r) PROVE TypeOK'
  BY <1>6 DEF FoundRefused, Stages, Verdicts
<1>7. ASSUME NEW r \in Requests, FoundNotRefused(r) PROVE TypeOK'
  BY <1>7 DEF FoundNotRefused, Stages
<1>8. ASSUME NEW r \in Requests, EnsureQuotaRow(r) PROVE TypeOK'
  BY <1>8 DEF EnsureQuotaRow, Stages
<1>9. ASSUME NEW r \in Requests, InsertQuotaRow(r) PROVE TypeOK'
  BY <1>9, InsertQuotaRowWrites DEF InsertQuotaRow, OnlyOwn, Stages
<1>10. ASSUME NEW r \in Requests, Consume(r) PROVE TypeOK'
  BY <1>10, ConsumeWrites DEF Consume, OnlyOwn, Stages
<1>11. ASSUME NEW r \in Requests, QuotaExhausted(r) PROVE TypeOK'
  BY <1>11 DEF QuotaExhausted, Stages
<1>12. ASSUME NEW r \in Requests, InsertAlert(r) PROVE TypeOK'
  BY <1>12 DEF InsertAlert, Stages, Tables, Verdicts
<1>13. ASSUME NEW r \in Requests, AlertKeyTaken(r) PROVE TypeOK'
  BY <1>13 DEF AlertKeyTaken, Stages, Undo
<1>14. ASSUME NEW r \in Requests, InsertRefused(r) PROVE TypeOK'
  BY <1>14, InsertRefusedWrites DEF InsertRefused, OnlyOwn, Stages
<1>15. ASSUME NEW r \in Requests, RefusedKeyTaken(r) PROVE TypeOK'
  BY <1>15 DEF RefusedKeyTaken, Stages, Undo, Verdicts
<1>16. ASSUME NEW r \in Requests, CountRefused(r) PROVE TypeOK'
  BY <1>16, CountRefusedWrites DEF CountRefused, OnlyOwn, Stages, Verdicts
<1>17. ASSUME NEW r \in Requests, Commit(r) PROVE TypeOK'
  BY <1>17, EmptyTables, MergedTables DEF Commit, EndTransaction, View, Stages, AnyEvent
<1>18. ASSUME NEW r \in Requests, Answer(r) PROVE TypeOK'
  BY <1>18 DEF Answer, NoResults, Stages
<1>19. ASSUME NEW r \in Requests, Abort(r) PROVE TypeOK'
  BY <1>19, EmptyTables DEF Abort, EndTransaction, NoResults, Stages, AnyEvent
<1>20. CASE EditCameras
  BY <1>20 DEF EditCameras
<1>21. CASE UNCHANGED vars
  BY <1>21 DEF vars
<1> QED
  BY <1>1, <1>2, <1>3, <1>4, <1>5, <1>6, <1>7, <1>8, <1>9, <1>10, <1>11, <1>12, <1>13,
     <1>14, <1>15, <1>16, <1>17, <1>18, <1>19, <1>20, <1>21 DEF Next, ProcessEvent

\* Every variable keeps its type, for any number of requests and events.
THEOREM TypeCorrect == Spec => []TypeOK
<1> QED BY TypeInit, TypeStep, PTL DEF Spec
-----------------------------------------------------------------------------
(* Keys, results and answers *)

LEMMA KeyInit == Init => KeyInv
BY EmptyTables, SyncAssumption
   DEF Init, KeyInv, Locals, Outside, Undecided, SaveBelow, Below, KeysExclusive, Apart,
       ResultsKept, Base, NoResults, AnswersAreRecorded, AcceptedOnce

\* A transaction that only writes what no other one holds, and what is not
\* committed, keeps the keys exclusive.
LEMMA KeysWritten ==
    ASSUME KeysExclusive, NEW r \in Requests, OnlyOwn(r, own'[r]), db' = db,
           NEW e \in Events,
           AlertsOf(own'[r]) \subseteq AlertsOf(own[r]) \cup {e},
           e \in AlertsOf(own'[r]) \ AlertsOf(own[r]) =>
                e \notin AlertsOf(db) /\ ~AlertKeyHeld(r, e),
           own'[r].refused \subseteq own[r].refused \cup {e},
           e \in own'[r].refused \ own[r].refused =>
                e \notin db.refused /\ ~RefusedKeyHeld(r, e)
    PROVE  KeysExclusive'
BY DEF KeysExclusive, Apart, OnlyOwn, AlertKeyHeld, RefusedKeyHeld

\* A verdict that the transaction's view justifies when it is given.
LEMMA VerdictGiven ==
    ASSUME TypeOK, ResultsKept, AnswersAreRecorded, AcceptedOnce,
           NEW r \in Requests, NEW e \in Events, NEW v \in Verdicts, Outcome(r, e, v),
           pc[r] \notin Outside, pc' = [pc EXCEPT ![r] = "next"],
           UNCHANGED <<db, save>>, OnlyOwn(r, own'[r]),
           AlertsOf(Base(r)) \subseteq AlertsOf(own'[r]),
           Base(r).refused \subseteq own'[r].refused,
           v = "accepted" => e \in AlertsOf(own'[r]),
           v = "duplicate" => e \in AlertsOf(db) \cup AlertsOf(own'[r]),
           v = "quota_exceeded" => e \in db.refused \cup own'[r].refused
    PROVE  ResultsKept' /\ AnswersAreRecorded' /\ AcceptedOnce'
<1>1. /\ pc'[r] = "next"
      /\ \A q \in Requests \ {r} : pc'[q] = pc[q] /\ own'[q] = own[q] /\ results'[q] = results[q]
      /\ results'[r][e] = v
      /\ \A f \in Events \ {e} : results'[r][f] = results[r][f]
  BY OutcomeStep DEF TypeOK, OnlyOwn
<1>2. ResultsKept'
  <2> SUFFICES ASSUME NEW q \in Requests, pc'[q] # "answered", NEW f \in Events
               PROVE  /\ results'[q][f] = "accepted" => f \in AlertsOf(Base(q)')
                      /\ results'[q][f] = "duplicate" =>
                            f \in AlertsOf(db') \cup AlertsOf(Base(q)')
                      /\ results'[q][f] = "quota_exceeded" =>
                            f \in db'.refused \cup Base(q)'.refused
    BY DEF ResultsKept
  <2>1. CASE q # r
    BY <1>1, <2>1 DEF ResultsKept, Base
  <2>2. CASE q = r
    BY <1>1, <2>2 DEF ResultsKept, Base, Outside
  <2> QED BY <2>1, <2>2
<1>3. AnswersAreRecorded' /\ AcceptedOnce'
  BY <1>1 DEF AnswersAreRecorded, AcceptedOnce
<1> QED BY <1>2, <1>3

\* A step that gives no verdict and leaves the writes of earlier events alone.
LEMMA NoVerdict ==
    ASSUME TypeOK, ResultsKept, AnswersAreRecorded, AcceptedOnce,
           NEW r \in Requests, UNCHANGED <<db, save, results>>,
           pc[r] \notin Outside \cup {"next"}, pc'[r] \notin Outside \cup {"next"},
           \A q \in Requests \ {r} : pc'[q] = pc[q] /\ own'[q] = own[q]
    PROVE  ResultsKept' /\ AnswersAreRecorded' /\ AcceptedOnce'
<1>1. \A q \in Requests :
        /\ Base(q)' = Base(q)
        /\ pc[q] = "answered" <=> pc'[q] = "answered"
  BY DEF Base, Outside
<1>2. ResultsKept'
  BY <1>1 DEF ResultsKept
<1>3. AnswersAreRecorded' /\ AcceptedOnce'
  BY <1>1 DEF AnswersAreRecorded, AcceptedOnce
<1> QED BY <1>2, <1>3

LEMMA KeyStep == TypeOK /\ KeyInv /\ [Next]_vars => KeyInv'
<1> SUFFICES ASSUME TypeOK, KeyInv, [Next]_vars PROVE KeyInv'
  OBVIOUS
<1> TypeOK'
  BY TypeStep
<1> USE DEF KeyInv
<1>1. ASSUME NEW r \in Requests, Begin(r) PROVE KeyInv'
  BY <1>1 DEF Begin, Moves, TypeOK, Locals, Outside, Undecided, SaveBelow,
     KeysExclusive, ResultsKept, Base, NoResults, AnswersAreRecorded, AcceptedOnce
<1>2. ASSUME NEW r \in Requests, NEW e \in Events, RejectEvent(r, e) PROVE KeyInv'
  <2>1. ResultsKept' /\ AnswersAreRecorded' /\ AcceptedOnce'
    BY <1>2, VerdictGiven DEF RejectEvent, Moves, TypeOK, OnlyOwn, Outside, Base, Verdicts
  <2> QED BY <1>2, <2>1 DEF RejectEvent, Moves, Outcome, TypeOK, Locals, Outside, Undecided, SaveBelow,
       KeysExclusive
<1>3. ASSUME NEW r \in Requests, NEW e \in Events, StartEvent(r, e) PROVE KeyInv'
  BY <1>3 DEF StartEvent, Moves, TypeOK, Locals, Outside, Undecided, SaveBelow, Below,
     KeysExclusive, ResultsKept, Base, AnswersAreRecorded, AcceptedOnce, Tables
<1>4. ASSUME NEW r \in Requests, FoundAlert(r) \/ ResolveDuplicate(r) PROVE KeyInv'
  <2> DEFINE v == IF SameEvent(r) THEN "duplicate" ELSE "rejected"
  <2>1. /\ Outcome(r, cur[r], v) /\ v \in Verdicts /\ v \notin {"accepted", "quota_exceeded"}
        /\ cur[r] \in Events /\ cur[r] \in AlertsOf(db) \cup AlertsOf(own[r])
    BY <1>4, MergedTables DEF FoundAlert, ResolveDuplicate, AnswerKnown, Verdicts, View, TypeOK
  <2>2. /\ pc[r] \in {"lookup", "resolve"} /\ pc' = [pc EXCEPT ![r] = "next"]
        /\ UNCHANGED <<db, own, save, camera, cur>>
    BY <1>4 DEF FoundAlert, ResolveDuplicate, Moves
  <2> HIDE DEF v
  <2>3. ResultsKept' /\ AnswersAreRecorded' /\ AcceptedOnce'
    BY <2>1, <2>2, VerdictGiven DEF TypeOK, OnlyOwn, Outside, Base, SaveBelow, Below
  <2> QED BY <2>1, <2>2, <2>3, OutcomeStep DEF TypeOK, Locals, Outside, Undecided, SaveBelow,
       KeysExclusive
<1>5. ASSUME NEW r \in Requests, FoundNoAlert(r) PROVE KeyInv'
  BY <1>5, MergedTables DEF FoundNoAlert, View, Moves, TypeOK, Locals, Outside, Undecided, SaveBelow,
     KeysExclusive, ResultsKept, Base, AnswersAreRecorded, AcceptedOnce
<1>6. ASSUME NEW r \in Requests, FoundRefused(r) PROVE KeyInv'
  <2>1. cur[r] \in Events /\ cur[r] \in db.refused \cup own[r].refused
    BY <1>6, MergedTables DEF FoundRefused, View, TypeOK
  <2>2. ResultsKept' /\ AnswersAreRecorded' /\ AcceptedOnce'
    BY <1>6, <2>1, VerdictGiven DEF FoundRefused, Moves, Verdicts, TypeOK, OnlyOwn, Outside, Base,
       SaveBelow, Below
  <2> QED BY <1>6, <2>1, <2>2 DEF FoundRefused, Moves, Outcome, TypeOK, Locals, Outside, Undecided,
       SaveBelow, KeysExclusive
<1>7. ASSUME NEW r \in Requests,
             FoundNotRefused(r) \/ EnsureQuotaRow(r) \/ QuotaExhausted(r)
      PROVE  KeyInv'
  <2>1. /\ pc[r] \in {"lookupRefused", "ensureRow", "consume"}
        /\ pc'[r] \in {"ensureRow", "insertRow", "consume", "insertRefused"}
        /\ \A q \in Requests \ {r} : pc'[q] = pc[q]
        /\ UNCHANGED <<db, cur, camera, own, save, results>>
    BY <1>7 DEF FoundNotRefused, EnsureQuotaRow, QuotaExhausted, Moves, TypeOK
  <2>2. Locals' /\ SaveBelow' /\ KeysExclusive'
    BY <2>1 DEF Locals, Outside, Undecided, SaveBelow, KeysExclusive
  <2>3. ResultsKept' /\ AnswersAreRecorded' /\ AcceptedOnce'
    BY <2>1, NoVerdict DEF Outside
  <2> QED BY <2>2, <2>3
<1>8. ASSUME NEW r \in Requests, InsertQuotaRow(r) \/ Consume(r) PROVE KeyInv'
  <2>1. /\ pc[r] \in {"insertRow", "consume"} /\ pc'[r] \in {"consume", "insertAlert"}
        /\ \A q \in Requests \ {r} : pc'[q] = pc[q]
        /\ UNCHANGED <<db, cur, camera, save, results>>
    BY <1>8 DEF InsertQuotaRow, Consume, Moves, TypeOK
  <2>2. /\ OnlyOwn(r, own'[r])
        /\ AlertsOf(own'[r]) \subseteq AlertsOf(own[r])
        /\ own'[r].refused \subseteq own[r].refused
        /\ Below(save[r], own'[r])
    <3>1. own[r] \in Tables /\ own'[r] \in Tables /\ save[r] \in Tables
      BY DEF TypeOK
    <3>2. Below(save[r], own[r])
      BY DEF SaveBelow
    <3>3. CASE own'[r] = save[r]
      BY <1>8, <3>1, <3>2, <3>3, InsertQuotaRowWrites, ConsumeWrites, BelowItself DEF Below
    <3>4. CASE InsertQuotaRow(r) /\ own'[r] # save[r]
      <4>1. /\ OnlyOwn(r, own'[r]) /\ SameAlertsAndKeys(own[r], own'[r])
            /\ own'[r].rows = own[r].rows \cup {DayOf[cur[r]]}
            /\ own'[r].accepted = own[r].accepted /\ own'[r].turned = own[r].turned
        BY <3>4, InsertQuotaRowWrites
      <4>2. \A d \in Days : /\ own[r].accepted[d] <= own'[r].accepted[d]
                            /\ own[r].turned[d] <= own'[r].turned[d]
        BY <3>1, <4>1, CountersAreNat
      <4> QED BY <3>1, <3>2, <4>1, <4>2, BelowGrows DEF SameAlertsAndKeys
    <3>5. CASE Consume(r)
      <4>1. \A d \in Days : /\ own[r].accepted[d] <= own'[r].accepted[d]
                            /\ own[r].turned[d] <= own'[r].turned[d]
        BY <3>1, <3>5, ConsumeWrites, CountersAreNat
      <4> QED BY <3>1, <3>2, <3>5, <4>1, ConsumeWrites, BelowGrows DEF SameAlertsAndKeys
    <3> QED BY <1>8, <3>3, <3>4, <3>5
  <2>3. Locals'
    BY <2>1, <2>2 DEF Locals, Outside, Undecided, OnlyOwn
  <2>4. SaveBelow'
    BY <2>1, <2>2 DEF SaveBelow, OnlyOwn
  <2>5. KeysExclusive'
    BY <2>1, <2>2 DEF KeysExclusive, Apart, OnlyOwn
  <2>6. ResultsKept' /\ AnswersAreRecorded' /\ AcceptedOnce'
    BY <2>1, <2>2, NoVerdict DEF OnlyOwn, Outside
  <2> QED BY <2>3, <2>4, <2>5, <2>6
<1>9. ASSUME NEW r \in Requests, InsertAlert(r) PROVE KeyInv'
  <2>1. /\ pc[r] = "insertAlert" /\ pc' = [pc EXCEPT ![r] = "next"]
        /\ ~AlertKeyHeld(r, cur[r]) /\ cur[r] \notin AlertsOf(db)
        /\ Outcome(r, cur[r], "accepted")
        /\ UNCHANGED <<db, cur, camera, save>>
    BY <1>9 DEF InsertAlert, AlertKeyFree, Moves
  <2>2. cur[r] \in Events /\ camera[r] # NoCamera
    BY <2>1 DEF TypeOK, Locals, Outside
  <2>3. /\ OnlyOwn(r, own'[r])
        /\ AlertsOf(own'[r]) = AlertsOf(own[r]) \cup {cur[r]}
        /\ own'[r].refused = own[r].refused
        /\ SameCounters(own[r], own'[r])
    BY <1>9, <2>2, InsertAlertWrites
  <2>4. Locals'
    BY <2>1, <2>3, OutcomeStep DEF Locals, Outside, Undecided, OnlyOwn, TypeOK, Verdicts
  <2>5. SaveBelow'
    BY <2>1, <2>3 DEF SaveBelow, Below, OnlyOwn, SameCounters
  <2>6. KeysExclusive'
    BY <2>1, <2>2, <2>3, KeysWritten
  <2>7. ResultsKept' /\ AnswersAreRecorded' /\ AcceptedOnce'
    BY <2>1, <2>2, <2>3, VerdictGiven DEF Outside, Base, SaveBelow, Below, Verdicts
  <2> QED BY <2>4, <2>5, <2>6, <2>7
<1>10. ASSUME NEW r \in Requests, AlertKeyTaken(r) PROVE KeyInv'
  <2>1. /\ pc[r] = "insertAlert" /\ pc'[r] = "resolve"
        /\ \A q \in Requests \ {r} : pc'[q] = pc[q]
        /\ UNCHANGED <<db, cur, camera, save, results>>
        /\ OnlyOwn(r, save[r])
    BY <1>10, KeyTakenWrites DEF AlertKeyTaken, Moves, TypeOK
  <2>2. Locals'
    BY <2>1 DEF Locals, Outside, Undecided, OnlyOwn
  <2>3. SaveBelow'
    BY <2>1, BelowItself DEF SaveBelow, OnlyOwn, TypeOK
  <2>4. KeysExclusive'
    <3> AlertsOf(own'[r]) \subseteq AlertsOf(own[r]) /\ own'[r].refused \subseteq own[r].refused
      BY <2>1 DEF OnlyOwn, SaveBelow, Below
    <3> QED BY <2>1 DEF KeysExclusive, Apart, OnlyOwn
  <2>5. ResultsKept' /\ AnswersAreRecorded' /\ AcceptedOnce'
    BY <2>1, NoVerdict DEF OnlyOwn, Outside
  <2> QED BY <2>2, <2>3, <2>4, <2>5
<1>11. ASSUME NEW r \in Requests, InsertRefused(r) PROVE KeyInv'
  <2>1. /\ pc[r] = "insertRefused" /\ pc'[r] = "count"
        /\ \A q \in Requests \ {r} : pc'[q] = pc[q]
        /\ ~RefusedKeyHeld(r, cur[r]) /\ cur[r] \notin db.refused
        /\ UNCHANGED <<db, cur, camera, save, results>>
        /\ cur[r] \in Events
    BY <1>11 DEF InsertRefused, Moves, TypeOK
  <2>2. /\ OnlyOwn(r, own'[r])
        /\ AlertsOf(own'[r]) = AlertsOf(own[r])
        /\ own'[r].refused = own[r].refused \cup {cur[r]}
        /\ SameCounters(own[r], own'[r])
    BY <1>11, InsertRefusedWrites
  <2>3. Locals'
    BY <2>1, <2>2 DEF Locals, Outside, Undecided, OnlyOwn
  <2>4. SaveBelow'
    BY <2>1, <2>2 DEF SaveBelow, Below, OnlyOwn, SameCounters
  <2>5. KeysExclusive'
    BY <2>1, <2>2, KeysWritten
  <2>6. ResultsKept' /\ AnswersAreRecorded' /\ AcceptedOnce'
    BY <2>1, <2>2, NoVerdict DEF OnlyOwn, Outside
  <2> QED BY <2>3, <2>4, <2>5, <2>6
<1>12. ASSUME NEW r \in Requests, RefusedKeyTaken(r) PROVE KeyInv'
  <2>1. /\ pc[r] = "insertRefused" /\ pc' = [pc EXCEPT ![r] = "next"]
        /\ cur[r] \in db.refused /\ cur[r] \in Events
        /\ Outcome(r, cur[r], "quota_exceeded")
        /\ UNCHANGED <<db, cur, camera, save>>
        /\ OnlyOwn(r, save[r])
    BY <1>12, KeyTakenWrites DEF RefusedKeyTaken, Moves, TypeOK
  <2>2. Locals'
    BY <2>1, OutcomeStep DEF Locals, Outside, Undecided, OnlyOwn, TypeOK, Verdicts
  <2>3. SaveBelow'
    BY <2>1, BelowItself DEF SaveBelow, OnlyOwn, TypeOK
  <2>4. KeysExclusive'
    <3> AlertsOf(own'[r]) \subseteq AlertsOf(own[r]) /\ own'[r].refused \subseteq own[r].refused
      BY <2>1 DEF OnlyOwn, SaveBelow, Below
    <3> QED BY <2>1 DEF KeysExclusive, Apart, OnlyOwn
  <2>5. own'[r] = save[r] /\ Base(r) = save[r] /\ OnlyOwn(r, own'[r])
    BY <2>1 DEF OnlyOwn, Base
  <2>6. ResultsKept' /\ AnswersAreRecorded' /\ AcceptedOnce'
    BY <2>1, <2>5, VerdictGiven DEF Outside, Verdicts
  <2> QED BY <2>2, <2>3, <2>4, <2>6
<1>13. ASSUME NEW r \in Requests, CountRefused(r) PROVE KeyInv'
  <2>1. /\ pc[r] = "count" /\ pc' = [pc EXCEPT ![r] = "next"]
        /\ Outcome(r, cur[r], "quota_exceeded")
        /\ UNCHANGED <<db, cur, camera, save>>
        /\ cur[r] \in Events /\ cur[r] \in own[r].refused
    BY <1>13 DEF CountRefused, Moves, TypeOK, Locals
  <2>2. /\ OnlyOwn(r, own'[r])
        /\ AlertsOf(own'[r]) = AlertsOf(own[r])
        /\ own'[r].refused = own[r].refused
        /\ Below(save[r], own'[r])
    <3>1. own[r] \in Tables /\ own'[r] \in Tables /\ save[r] \in Tables
      BY DEF TypeOK
    <3>2. \A d \in Days : /\ own[r].accepted[d] <= own'[r].accepted[d]
                          /\ own[r].turned[d] <= own'[r].turned[d]
      BY <3>1, <1>13, CountRefusedWrites, CountersAreNat
    <3> QED
      BY <3>1, <3>2, <1>13, CountRefusedWrites, BelowGrows DEF SaveBelow, SameAlertsAndKeys
  <2>3. Locals'
    BY <2>1, <2>2, OutcomeStep DEF Locals, Outside, Undecided, OnlyOwn, TypeOK, Verdicts
  <2>4. SaveBelow'
    BY <2>1, <2>2 DEF SaveBelow, OnlyOwn
  <2>5. KeysExclusive'
    BY <2>1, <2>2 DEF KeysExclusive, Apart, OnlyOwn
  <2>6. ResultsKept' /\ AnswersAreRecorded' /\ AcceptedOnce'
    BY <2>1, <2>2, VerdictGiven DEF Outside, Base, SaveBelow, Below, Verdicts
  <2> QED BY <2>3, <2>4, <2>5, <2>6
<1>14. ASSUME NEW r \in Requests, Commit(r) PROVE KeyInv'
  <2>1. /\ pc[r] = "next" /\ pc'[r] = "answered"
        /\ \A q \in Requests \ {r} : pc'[q] = pc[q]
        /\ UNCHANGED results
        /\ OnlyOwn(r, Empty) /\ save'[r] = Empty
        /\ \A q \in Requests \ {r} :
             save'[q] = save[q] /\ cur'[q] = cur[q] /\ camera'[q] = camera[q]
    BY <1>14, EndWrites DEF Commit, Moves, TypeOK
  <2>2. AlertsOf(db') = AlertsOf(db) \cup AlertsOf(own[r]) /\ db'.refused = db.refused \cup own[r].refused
    BY <1>14, MergedTables DEF Commit, View, TypeOK
  <2>3. Locals'
    BY <2>1 DEF Locals, Outside, Undecided, OnlyOwn
  <2>4. SaveBelow'
    BY <2>1, EmptyTables, BelowItself DEF SaveBelow, OnlyOwn
  <2>5. KeysExclusive'
    <3>1. AlertsOf(own'[r]) = {} /\ own'[r].refused = {}
      BY <2>1, EmptyTables DEF OnlyOwn
    <3>2. \A q \in Requests \ {r} : own'[q] = own[q]
      BY <2>1 DEF OnlyOwn
    <3> QED BY <2>2, <3>1, <3>2 DEF KeysExclusive, Apart
  <2>6. ResultsKept'
    BY <2>1, <2>2 DEF ResultsKept, Base, OnlyOwn
  <2>7. AnswersAreRecorded'
    BY <2>1, <2>2 DEF AnswersAreRecorded, ResultsKept, Base
  <2>8. AcceptedOnce'
    <3>1. \A q \in Requests \ {r}, e \in Events :
            pc[q] = "answered" /\ results[q][e] = "accepted" => e \in AlertsOf(db)
      BY DEF AnswersAreRecorded
    <3>2. \A e \in Events : results[r][e] = "accepted" => e \notin AlertsOf(db)
      BY <2>1 DEF ResultsKept, Base, KeysExclusive, Apart
    <3> QED BY <2>1, <3>1, <3>2 DEF AcceptedOnce
  <2> QED BY <2>3, <2>4, <2>5, <2>6, <2>7, <2>8
<1>15. ASSUME NEW r \in Requests, Answer(r) PROVE KeyInv'
  BY <1>15 DEF Answer, Moves, TypeOK, Locals, Outside, Undecided, SaveBelow,
     KeysExclusive, ResultsKept, Base, NoResults, AnswersAreRecorded, AcceptedOnce
<1>16. ASSUME NEW r \in Requests, Abort(r) PROVE KeyInv'
  <2>1. /\ pc'[r] = "idle" /\ results'[r] = NoResults
        /\ \A q \in Requests \ {r} : pc'[q] = pc[q] /\ results'[q] = results[q]
        /\ db' = db
        /\ OnlyOwn(r, Empty) /\ save'[r] = Empty
        /\ \A q \in Requests \ {r} :
             save'[q] = save[q] /\ cur'[q] = cur[q] /\ camera'[q] = camera[q]
    BY <1>16, EndWrites DEF Abort, TypeOK
  <2>2. Locals'
    BY <2>1 DEF Locals, Outside, Undecided, OnlyOwn
  <2>3. SaveBelow'
    BY <2>1, EmptyTables, BelowItself DEF SaveBelow, OnlyOwn
  <2>4. KeysExclusive'
    BY <2>1, EmptyTables DEF KeysExclusive, Apart, OnlyOwn
  <2>5. ResultsKept' /\ AnswersAreRecorded' /\ AcceptedOnce'
    BY <2>1 DEF ResultsKept, Base, OnlyOwn, NoResults, AnswersAreRecorded, AcceptedOnce
  <2> QED BY <2>2, <2>3, <2>4, <2>5
<1>17. CASE EditCameras \/ UNCHANGED vars
  <2> UNCHANGED <<db, pc, todo, cur, camera, own, save, results>>
    BY <1>17 DEF EditCameras, vars
  <2> QED BY DEF Locals, SaveBelow, KeysExclusive, ResultsKept, Base, AnswersAreRecorded, AcceptedOnce
<1> QED
  BY <1>1, <1>2, <1>3, <1>4, <1>5, <1>6, <1>7, <1>8, <1>9, <1>10, <1>11, <1>12, <1>13,
     <1>14, <1>15, <1>16, <1>17 DEF Next, ProcessEvent

\* What a response says is in the tables when it leaves, for any number of
\* concurrent requests and whether or not a quota is enforced.
THEOREM AnswersRecorded == Spec => []AnswersAreRecorded
<1>1. TypeOK /\ KeyInv /\ [Next]_vars => (TypeOK /\ KeyInv)'
  BY TypeStep, KeyStep
<1>2. Init => TypeOK /\ KeyInv
  BY TypeInit, KeyInit
<1>3. KeyInv => AnswersAreRecorded
  BY DEF KeyInv
<1> QED BY <1>1, <1>2, <1>3, PTL DEF Spec

\* Two responses on their way never both claim to have created one Alert.
THEOREM OneCreator == Spec => []AcceptedOnce
<1>1. TypeOK /\ KeyInv /\ [Next]_vars => (TypeOK /\ KeyInv)'
  BY TypeStep, KeyStep
<1>2. Init => TypeOK /\ KeyInv
  BY TypeInit, KeyInit
<1>3. KeyInv => AcceptedOnce
  BY DEF KeyInv
<1> QED BY <1>1, <1>2, <1>3, PTL DEF Spec

-----------------------------------------------------------------------------
(* Counting the events of a day *)

LEMMA OnDayFinite ==
    ASSUME NEW A \in SUBSET Events, NEW d \in Days
    PROVE  IsFiniteSet(OnDay(A, d)) /\ Cardinality(OnDay(A, d)) \in Nat
<1>1. OnDay(A, d) \in SUBSET Events
  BY DEF OnDay
<1> QED BY <1>1, SyncAssumption, FS_Subset, FS_CardinalityType

LEMMA OnDayEmpty == \A d \in Days : Cardinality(OnDay({}, d)) = 0
<1>1. \A d \in Days : OnDay({}, d) = {}
  BY DEF OnDay
<1> QED BY <1>1, FS_EmptySet

LEMMA OnDayAdd ==
    ASSUME NEW A \in SUBSET Events, NEW d \in Days, NEW e \in Events, e \notin A
    PROVE  Cardinality(OnDay(A \cup {e}, d)) =
                Cardinality(OnDay(A, d)) + (IF DayOf[e] = d THEN 1 ELSE 0)
<1>1. CASE DayOf[e] = d
  <2>1. OnDay(A \cup {e}, d) = OnDay(A, d) \cup {e} /\ e \notin OnDay(A, d)
    BY <1>1 DEF OnDay
  <2> QED BY <1>1, <2>1, OnDayFinite, FS_AddElement
<1>2. CASE DayOf[e] # d
  <2>1. OnDay(A \cup {e}, d) = OnDay(A, d)
    BY <1>2 DEF OnDay
  <2> QED BY <1>2, <2>1, OnDayFinite
<1> QED BY <1>1, <1>2

LEMMA OnDayUnion ==
    ASSUME NEW A \in SUBSET Events, NEW B \in SUBSET Events, A \cap B = {}, NEW d \in Days
    PROVE  Cardinality(OnDay(A \cup B, d)) =
                Cardinality(OnDay(A, d)) + Cardinality(OnDay(B, d))
<1>1. OnDay(A \cup B, d) = OnDay(A, d) \cup OnDay(B, d) /\ OnDay(A, d) \cap OnDay(B, d) = {}
  BY DEF OnDay
<1>2. Cardinality(OnDay(A, d) \cap OnDay(B, d)) = 0
  BY <1>1, FS_EmptySet
<1>3. IsFiniteSet(OnDay(A, d)) /\ IsFiniteSet(OnDay(B, d))
  BY OnDayFinite
<1>4. Cardinality(OnDay(A, d) \cup OnDay(B, d)) =
        Cardinality(OnDay(A, d)) + Cardinality(OnDay(B, d)) - Cardinality(OnDay(A, d) \cap OnDay(B, d))
  BY <1>3, FS_Union
<1>5. Cardinality(OnDay(A, d)) \in Nat /\ Cardinality(OnDay(B, d)) \in Nat
  BY OnDayFinite
<1>6. Cardinality(OnDay(A \cup B, d)) = Cardinality(OnDay(A, d) \cup OnDay(B, d))
  BY <1>1
<1> QED BY <1>2, <1>4, <1>5, <1>6

LEMMA OnDayWitness ==
    ASSUME NEW A \in SUBSET Events, NEW e \in A
    PROVE  Cardinality(OnDay(A, DayOf[e])) >= 1
<1>1. e \in OnDay(A, DayOf[e]) /\ DayOf[e] \in Days
  BY SyncAssumption DEF OnDay
<1> QED BY <1>1, OnDayFinite, FS_EmptySet

LEMMA TableSets ==
    ASSUME NEW t \in Tables
    PROVE  AlertsOf(t) \in SUBSET Events /\ t.refused \in SUBSET Events
BY DEF Tables, AlertsOf

-----------------------------------------------------------------------------
(* Counters *)

LEMMA CountInit == Init => CountInv
<1> SUFFICES ASSUME Init, QuotaEnabled
             PROVE  RowsExclusive /\ CountersExact /\ DbFull /\ \A r \in Requests : RequestInv(r)
  BY DEF CountInv
<1>1. /\ db = Empty
      /\ \A r \in Requests : own[r] = Empty /\ save[r] = Empty /\ pc[r] = "idle"
  BY DEF Init
<1>2. \A d \in Days : Exact(Empty, d)
  BY EmptyTables, OnDayEmpty DEF Exact
<1>3. RowsExclusive
  BY <1>1, EmptyTables DEF RowsExclusive, Holds
<1>4. CountersExact
  BY <1>1, <1>2 DEF CountersExact, Exact, OnDay
<1>5. DbFull
  BY <1>1, EmptyTables, SyncAssumption DEF DbFull
<1>6. ASSUME NEW r \in Requests PROVE RequestInv(r)
  <2>1. OwnExact(r)
    BY <1>1, <1>2, EmptyTables, OnDayEmpty, SMTT(30) DEF OwnExact, Exact, Charged, Owed
  <2>2. OwnLimited(r) /\ OwnRefusedWhenFull(r) /\ DecidedOnce(r)
    BY <1>1, EmptyTables, SyncAssumption DEF OwnLimited, OwnRefusedWhenFull, DecidedOnce
  <2> QED BY <2>1, <2>2 DEF RequestInv
<1> QED BY <1>3, <1>4, <1>5, <1>6

\* A step of r that commits nothing only has to keep its own part.
LEMMA OneRequest ==
    ASSUME CountInv, NEW r \in Requests, db' = db, OnlyOwn(r, own'[r]),
           \A q \in Requests \ {r} : pc'[q] = pc[q] /\ cur'[q] = cur[q] /\ save'[q] = save[q],
           \A d \in Days : Holds(own'[r], d) => Holds(own[r], d) \/ ~RowHeld(r, d),
           QuotaEnabled => RequestInv(r)'
    PROVE  CountInv'
<1> SUFFICES ASSUME QuotaEnabled
             PROVE  /\ RowsExclusive' /\ CountersExact' /\ DbFull'
                    /\ \A q \in Requests : RequestInv(q)'
  BY DEF CountInv
<1>1. RowsExclusive'
  BY DEF CountInv, RowsExclusive, OnlyOwn, RowHeld, Holds
<1>2. CountersExact' /\ DbFull'
  BY DEF CountInv, CountersExact, DbFull
<1>3. ASSUME NEW q \in Requests, q # r PROVE RequestInv(q)'
  BY <1>3 DEF CountInv, RequestInv, OwnExact, OwnLimited, OwnRefusedWhenFull, DecidedOnce,
     Charged, Owed, FullWith, OnlyOwn
<1> QED BY <1>1, <1>2, <1>3

\* Going back to the savepoint keeps a request's part.
LEMMA Undone ==
    ASSUME TypeOK, SaveBelow, NEW r \in Requests, RequestInv(r), db' = db,
           OnlyOwn(r, save[r]), save'[r] = save[r],
           pc'[r] \notin {"insertAlert", "insertRefused", "count"},
           DecidedOnce(r)'
    PROVE  RequestInv(r)'
<1>1. own'[r] = save[r]
  BY DEF OnlyOwn
<1>2. own[r] \in Tables /\ save[r] \in Tables /\ db \in Tables
  BY DEF TypeOK
<1>3. OwnExact(r)'
  <2> SUFFICES ASSUME NEW d \in Days
               PROVE  /\ Exact(save[r], d)
                      /\ save[r].accepted[d] = Cardinality(OnDay(AlertsOf(save[r]), d)) + 0
                      /\ save[r].turned[d] + 0 = Cardinality(OnDay(save[r].refused, d))
    BY <1>1 DEF OwnExact, Charged, Owed
  <2> QED BY <1>2, CountersAreNat DEF RequestInv, OwnExact, Exact
<1>4. OwnLimited(r)'
  <2> SUFFICES ASSUME NEW d \in Days PROVE db.accepted[d] + save[r].accepted[d] <= Quota
    BY <1>1 DEF OwnLimited
  <2>1. save[r].accepted[d] <= own[r].accepted[d] /\ db.accepted[d] + own[r].accepted[d] <= Quota
    BY DEF SaveBelow, Below, RequestInv, OwnLimited
  <2> QED BY <1>2, <2>1, CountersAreNat, SyncAssumption
<1>5. OwnRefusedWhenFull(r)'
  BY <1>1 DEF RequestInv, OwnRefusedWhenFull, FullWith
<1> QED BY <1>3, <1>4, <1>5 DEF RequestInv

\* A step that writes nothing and stays clear of the stages with half a write.
LEMMA Unwritten ==
    ASSUME NEW r \in Requests, RequestInv(r), UNCHANGED <<db, own, save>>,
           {pc[r], pc'[r]} \cap {"insertAlert", "count"} = {},
           pc'[r] = "insertRefused" => FullWith(own[r], DayOf[cur'[r]]),
           DecidedOnce(r)'
    PROVE  RequestInv(r)'
BY DEF RequestInv, OwnExact, OwnLimited, OwnRefusedWhenFull, Charged, Owed, FullWith

\* Between two events the counters a transaction has written are exact, and
\* added to the committed ones they stay so.
LEMMA CommittedCounts ==
    ASSUME TypeOK, KeyInv, CountInv, QuotaEnabled, NEW r \in Requests, pc[r] = "next",
           NEW d \in Days
    PROVE  /\ own[r].accepted[d] = Cardinality(OnDay(AlertsOf(own[r]), d))
           /\ db.accepted[d] + own[r].accepted[d] =
                Cardinality(OnDay(AlertsOf(db) \cup AlertsOf(own[r]), d))
           /\ db.turned[d] + own[r].turned[d] =
                Cardinality(OnDay(db.refused \cup own[r].refused, d))
<1>1. /\ AlertsOf(db) \in SUBSET Events /\ db.refused \in SUBSET Events
      /\ AlertsOf(own[r]) \in SUBSET Events /\ own[r].refused \in SUBSET Events
  BY TableSets DEF TypeOK
<1>2. /\ Cardinality(OnDay(AlertsOf(own[r]), d)) \in Nat
      /\ own[r].accepted[d] \in Nat /\ own[r].turned[d] \in Nat
  BY <1>1, OnDayFinite, CountersAreNat DEF TypeOK
<1>3. /\ own[r].accepted[d] = Cardinality(OnDay(AlertsOf(own[r]), d))
      /\ own[r].turned[d] = Cardinality(OnDay(own[r].refused, d))
  BY <1>2 DEF CountInv, RequestInv, OwnExact, Charged, Owed
<1>4. /\ db.accepted[d] = Cardinality(OnDay(AlertsOf(db), d))
      /\ db.turned[d] = Cardinality(OnDay(db.refused, d))
  BY DEF CountInv, CountersExact, OnDay
<1>5. AlertsOf(db) \cap AlertsOf(own[r]) = {} /\ db.refused \cap own[r].refused = {}
  BY DEF KeyInv, KeysExclusive, Apart
<1> QED BY <1>1, <1>3, <1>4, <1>5, OnDayUnion

LEMMA CountStep == TypeOK /\ KeyInv /\ CountInv /\ [Next]_vars => CountInv'
<1> SUFFICES ASSUME TypeOK, KeyInv, CountInv, [Next]_vars PROVE CountInv'
  OBVIOUS
<1> TypeOK' /\ KeyInv'
  BY TypeStep, KeyStep
<1> Locals /\ SaveBelow /\ KeysExclusive
  BY DEF KeyInv
<1> CASE ~QuotaEnabled
  BY DEF CountInv
<1> SUFFICES ASSUME QuotaEnabled PROVE CountInv'
  OBVIOUS
<1>a. /\ RowsExclusive /\ CountersExact /\ DbFull
      /\ \A r \in Requests : RequestInv(r)
  BY DEF CountInv
\* Steps that write nothing.
<1>1. ASSUME NEW r \in Requests, UNCHANGED <<db, own>>,
             \A q \in Requests \ {r} : pc'[q] = pc[q] /\ cur'[q] = cur[q] /\ save'[q] = save[q],
             RequestInv(r)'
      PROVE  CountInv'
  <2>1. OnlyOwn(r, own'[r])
    BY <1>1 DEF OnlyOwn, TypeOK
  <2> QED BY <1>1, <2>1, OneRequest
<1>2. ASSUME NEW r \in Requests, Begin(r) PROVE CountInv'
  <2>1. DecidedOnce(r)'
    BY <1>a, <1>2 DEF RequestInv, DecidedOnce, Begin, Moves, TypeOK
  <2>2. RequestInv(r)'
    BY <1>a, <1>2, <2>1, Unwritten DEF Begin, Moves, TypeOK
  <2> QED BY <1>1, <1>2, <2>2 DEF Begin, Moves, TypeOK
<1>3. ASSUME NEW r \in Requests, NEW e \in Events, RejectEvent(r, e) PROVE CountInv'
  <2>1. DecidedOnce(r)'
    BY <1>a, <1>3 DEF RequestInv, DecidedOnce, RejectEvent, Moves, TypeOK
  <2>2. RequestInv(r)'
    BY <1>a, <1>3, <2>1, Unwritten DEF RejectEvent, Moves, TypeOK
  <2> QED BY <1>1, <1>3, <2>2 DEF RejectEvent, Moves, TypeOK
<1>4. ASSUME NEW r \in Requests, NEW e \in Events, StartEvent(r, e) PROVE CountInv'
  <2>1. /\ pc[r] = "next" /\ pc'[r] = "lookup" /\ save'[r] = own[r]
        /\ UNCHANGED <<db, own>>
        /\ \A q \in Requests \ {r} : pc'[q] = pc[q] /\ cur'[q] = cur[q] /\ save'[q] = save[q]
    BY <1>4 DEF StartEvent, Moves, TypeOK
  <2>2. OwnExact(r)'
    <3>1. \A d \in Days : own[r].accepted[d] \in Nat /\ own[r].turned[d] \in Nat
      BY CountersAreNat DEF TypeOK
    <3>2. \A d \in Days : /\ Cardinality(OnDay(AlertsOf(own[r]), d)) \in Nat
                          /\ Cardinality(OnDay(own[r].refused, d)) \in Nat
      BY OnDayFinite, TableSets DEF TypeOK
    <3> QED BY <1>a, <2>1, <3>1, <3>2 DEF RequestInv, OwnExact, Exact, Charged, Owed
  <2>3. OwnLimited(r)' /\ OwnRefusedWhenFull(r)' /\ DecidedOnce(r)'
    BY <1>a, <2>1 DEF RequestInv, OwnLimited, OwnRefusedWhenFull, DecidedOnce, FullWith
  <2> QED BY <1>1, <2>1, <2>2, <2>3 DEF RequestInv
<1>5. ASSUME NEW r \in Requests,
             FoundAlert(r) \/ ResolveDuplicate(r) \/ FoundNoAlert(r) \/ FoundRefused(r)
      PROVE  CountInv'
  <2>1. /\ pc[r] \in {"lookup", "lookupRefused", "resolve"}
        /\ pc'[r] \in {"next", "lookupRefused"}
        /\ UNCHANGED <<db, own, save, cur>>
        /\ \A q \in Requests \ {r} : pc'[q] = pc[q]
    BY <1>5 DEF FoundAlert, ResolveDuplicate, FoundNoAlert, FoundRefused, Moves, TypeOK
  <2>2. RequestInv(r)'
    BY <1>a, <2>1, Unwritten DEF RequestInv, DecidedOnce
  <2> QED BY <1>1, <2>1, <2>2
<1>6. ASSUME NEW r \in Requests, FoundNotRefused(r) PROVE CountInv'
  <2>1. /\ pc[r] = "lookupRefused" /\ pc'[r] = "ensureRow"
        /\ UNCHANGED <<db, own, save, cur>>
        /\ \A q \in Requests \ {r} : pc'[q] = pc[q]
        /\ cur[r] \notin own[r].refused
    BY <1>6, MergedTables DEF FoundNotRefused, View, Moves, TypeOK
  <2>2. RequestInv(r)'
    BY <1>a, <2>1, Unwritten DEF RequestInv, DecidedOnce
  <2> QED BY <1>1, <2>1, <2>2
<1>7. ASSUME NEW r \in Requests, EnsureQuotaRow(r) PROVE CountInv'
  <2>1. /\ pc[r] = "ensureRow"
        /\ pc'[r] \in {"consume", "insertRow"}
        /\ pc'[r] = "consume" => DayOf[cur[r]] \in db.rows \cup own[r].rows
        /\ UNCHANGED <<db, own, save, cur>>
        /\ \A q \in Requests \ {r} : pc'[q] = pc[q]
    BY <1>7, MergedTables DEF EnsureQuotaRow, View, Moves, TypeOK
  <2>2. RequestInv(r)'
    BY <1>a, <2>1, Unwritten DEF RequestInv, DecidedOnce
  <2> QED BY <1>1, <2>1, <2>2
<1>8. ASSUME NEW r \in Requests, QuotaExhausted(r) PROVE CountInv'
  <2>1. /\ pc[r] = "consume" /\ pc'[r] = "insertRefused"
        /\ UNCHANGED <<db, own, save, cur>>
        /\ \A q \in Requests \ {r} : pc'[q] = pc[q]
    BY <1>8 DEF QuotaExhausted, Moves, TypeOK
  <2>2. FullWith(own[r], DayOf[cur[r]])
    <3>1. DayOf[cur[r]] \in Days /\ db \in Tables /\ own[r] \in Tables
      BY SyncAssumption DEF TypeOK
    <3>2. DayOf[cur[r]] \in View(r).rows
      BY <1>a, <2>1, <3>1, MergedTables DEF RequestInv, DecidedOnce, View
    <3>3. ~ (db.accepted[DayOf[cur[r]]] + own[r].accepted[DayOf[cur[r]]] < Quota)
      BY <1>8, <3>1, <3>2, MergedTables DEF QuotaExhausted, HasQuota, View
    <3> QED BY <3>1, <3>3, CountersAreNat, SyncAssumption DEF FullWith
  <2>3. RequestInv(r)'
    BY <1>a, <2>1, <2>2, Unwritten DEF RequestInv, DecidedOnce
  <2> QED BY <1>1, <2>1, <2>3
<1>9. ASSUME NEW r \in Requests, Answer(r) PROVE CountInv'
  <2>1. /\ pc[r] = "answered" /\ pc'[r] = "idle"
        /\ UNCHANGED <<db, own, save, cur>>
        /\ \A q \in Requests \ {r} : pc'[q] = pc[q]
    BY <1>9 DEF Answer, Moves, TypeOK
  <2>2. RequestInv(r)'
    BY <1>a, <2>1, Unwritten DEF RequestInv, DecidedOnce
  <2> QED BY <1>1, <2>1, <2>2
\* Steps that write the transaction's own tables.
<1>10. ASSUME NEW r \in Requests, InsertQuotaRow(r) PROVE CountInv'
  <2> DEFINE d == DayOf[cur[r]]
  <2>1. /\ pc[r] = "insertRow" /\ pc'[r] = "consume" /\ ~RowHeld(r, d)
        /\ UNCHANGED <<db, save, cur>>
        /\ \A q \in Requests \ {r} : pc'[q] = pc[q]
    BY <1>10 DEF InsertQuotaRow, Moves, TypeOK
  <2>2. /\ d \in Days /\ own[r] \in Tables /\ save[r] \in Tables
        /\ OnlyOwn(r, own'[r])
    BY <1>10, InsertQuotaRowWrites, SyncAssumption DEF TypeOK
  <2>3. CASE own'[r] = save[r] /\ d \in db.rows
    <3>1. DecidedOnce(r)'
      BY <1>a, <2>1, <2>3 DEF RequestInv, DecidedOnce, SaveBelow, Below
    <3>2. RequestInv(r)'
      BY <1>a, <2>1, <2>2, <2>3, <3>1, Undone
    <3>3. \A x \in Days : Holds(own'[r], x) => Holds(own[r], x)
      BY <2>2, <2>3, CountersAreNat DEF Holds, SaveBelow, Below
    <3> QED BY <2>1, <2>2, <3>2, <3>3, OneRequest
  <2>4. CASE /\ SameAlertsAndKeys(own[r], own'[r])
             /\ own'[r].rows = own[r].rows \cup {d}
             /\ own'[r].accepted = own[r].accepted /\ own'[r].turned = own[r].turned
    <3>1. OwnExact(r)'
      BY <1>a, <2>1, <2>4 DEF RequestInv, OwnExact, Charged, Owed, SameAlertsAndKeys
    <3>2. OwnLimited(r)' /\ OwnRefusedWhenFull(r)' /\ DecidedOnce(r)'
      BY <1>a, <2>1, <2>4 DEF RequestInv, OwnLimited, OwnRefusedWhenFull, DecidedOnce,
         FullWith, SameAlertsAndKeys
    <3>3. \A x \in Days : Holds(own'[r], x) => Holds(own[r], x) \/ ~RowHeld(r, x)
      BY <2>1, <2>4 DEF Holds
    <3> QED BY <2>1, <2>2, <3>1, <3>2, <3>3, OneRequest DEF RequestInv
  <2> HIDE DEF d
  <2> QED BY <1>10, <2>3, <2>4, InsertQuotaRowWrites DEF d
<1>11. ASSUME NEW r \in Requests, Consume(r) PROVE CountInv'
  <2> DEFINE d == DayOf[cur[r]]
  <2>1. /\ pc[r] = "consume" /\ pc'[r] = "insertAlert" /\ ~RowHeld(r, d)
        /\ UNCHANGED <<db, save, cur>>
        /\ \A q \in Requests \ {r} : pc'[q] = pc[q]
        /\ HasQuota(r, d)
    BY <1>11 DEF Consume, Moves, TypeOK
  <2>2. /\ d \in Days /\ own[r] \in Tables /\ db \in Tables
    BY SyncAssumption DEF TypeOK
  <2>3. /\ OnlyOwn(r, own'[r])
        /\ SameAlertsAndKeys(own[r], own'[r])
        /\ own'[r].rows = own[r].rows /\ own'[r].turned = own[r].turned
        /\ \A x \in Days : own'[r].accepted[x] =
              IF x = d THEN own[r].accepted[x] + 1 ELSE own[r].accepted[x]
    BY <1>11, ConsumeWrites
  <2>4. db.accepted[d] + own[r].accepted[d] < Quota
    BY <2>1, <2>2, MergedTables DEF HasQuota, View
  <2>5. \A x \in Days : db.accepted[x] \in Nat /\ own[r].accepted[x] \in Nat
    BY <2>2, CountersAreNat
  <2>6. OwnExact(r)'
    <3> SUFFICES ASSUME NEW x \in Days
                 PROVE  /\ Exact(save[r], x)
                        /\ own'[r].accepted[x] = Cardinality(OnDay(AlertsOf(own[r]), x))
                                                 + (IF d = x THEN 1 ELSE 0)
                        /\ own[r].turned[x] + 0 = Cardinality(OnDay(own[r].refused, x))
      BY <2>1, <2>3 DEF OwnExact, Charged, Owed, SameAlertsAndKeys
    <3>1. Cardinality(OnDay(AlertsOf(own[r]), x)) \in Nat
      BY <2>2, OnDayFinite, TableSets
    <3> QED BY <1>a, <2>1, <2>3, <2>5, <3>1 DEF RequestInv, OwnExact, Charged, Owed
  <2>7. OwnLimited(r)'
    BY <1>a, <2>1, <2>2, <2>3, <2>4, <2>5, SyncAssumption DEF RequestInv, OwnLimited
  <2>8. OwnRefusedWhenFull(r)'
    <3>1. \A x \in Days : FullWith(own[r], x) => FullWith(own[r], x)'
      BY <2>1, <2>3, <2>5, SyncAssumption DEF FullWith
    <3>2. \A e \in Events : DayOf[e] \in Days
      BY SyncAssumption
    <3>3. own[r].refused \subseteq Events
      BY <2>2, TableSets
    <3> QED BY <1>a, <2>1, <2>3, <3>1, <3>2, <3>3
       DEF RequestInv, OwnRefusedWhenFull, SameAlertsAndKeys, FullWith
  <2>9. DecidedOnce(r)'
    BY <1>a, <2>1, <2>3 DEF RequestInv, DecidedOnce, SameAlertsAndKeys
  <2>10. \A x \in Days : Holds(own'[r], x) => Holds(own[r], x) \/ ~RowHeld(r, x)
    BY <2>1, <2>3 DEF Holds
  <2> QED BY <2>1, <2>3, <2>6, <2>7, <2>8, <2>9, <2>10, OneRequest DEF RequestInv
<1>12. ASSUME NEW r \in Requests, InsertAlert(r) PROVE CountInv'
  <2>1. /\ pc[r] = "insertAlert" /\ pc'[r] = "next"
        /\ UNCHANGED <<db, save, cur>>
        /\ \A q \in Requests \ {r} : pc'[q] = pc[q]
    BY <1>12 DEF InsertAlert, Moves, TypeOK
  <2>2. /\ cur[r] \in Events /\ camera[r] # NoCamera /\ cur[r] \notin AlertsOf(own[r])
        /\ own[r] \in Tables
    BY <2>1 DEF TypeOK, Locals, Outside, Undecided
  <2>3. /\ OnlyOwn(r, own'[r])
        /\ AlertsOf(own'[r]) = AlertsOf(own[r]) \cup {cur[r]}
        /\ own'[r].refused = own[r].refused
        /\ SameCounters(own[r], own'[r])
    BY <1>12, <2>2, InsertAlertWrites
  <2>4. OwnExact(r)'
    <3> SUFFICES ASSUME NEW x \in Days
                 PROVE  /\ Exact(save[r], x)
                        /\ own[r].accepted[x] =
                                Cardinality(OnDay(AlertsOf(own[r]) \cup {cur[r]}, x)) + 0
                        /\ own[r].turned[x] + 0 = Cardinality(OnDay(own[r].refused, x))
      BY <2>1, <2>3 DEF OwnExact, Charged, Owed, SameCounters
    <3>1. AlertsOf(own[r]) \in SUBSET Events
      BY <2>2, TableSets
    <3>2. Cardinality(OnDay(AlertsOf(own[r]), x)) \in Nat
      BY <3>1, OnDayFinite
    <3>3. Cardinality(OnDay(AlertsOf(own[r]) \cup {cur[r]}, x)) =
            Cardinality(OnDay(AlertsOf(own[r]), x)) + (IF DayOf[cur[r]] = x THEN 1 ELSE 0)
      BY <2>2, <3>1, OnDayAdd
    <3> QED BY <1>a, <2>1, <3>2, <3>3 DEF RequestInv, OwnExact, Charged, Owed
  <2>5. OwnLimited(r)' /\ OwnRefusedWhenFull(r)' /\ DecidedOnce(r)'
    BY <1>a, <2>1, <2>3 DEF RequestInv, OwnLimited, OwnRefusedWhenFull, DecidedOnce, FullWith,
       SameCounters
  <2>6. \A x \in Days : Holds(own'[r], x) => Holds(own[r], x)
    BY <2>3 DEF Holds, SameCounters
  <2> QED BY <2>1, <2>3, <2>4, <2>5, <2>6, OneRequest DEF RequestInv
<1>13. ASSUME NEW r \in Requests, AlertKeyTaken(r) \/ RefusedKeyTaken(r) PROVE CountInv'
  <2>1. /\ pc'[r] \in {"resolve", "next"}
        /\ UNCHANGED <<db, save, cur>>
        /\ \A q \in Requests \ {r} : pc'[q] = pc[q]
        /\ OnlyOwn(r, save[r]) /\ own'[r] = save[r]
    BY <1>13, KeyTakenWrites DEF AlertKeyTaken, RefusedKeyTaken, Moves, TypeOK, OnlyOwn
  <2>2. own[r] \in Tables /\ save[r] \in Tables
    BY DEF TypeOK
  <2>3. DecidedOnce(r)'
    BY <1>a, <2>1 DEF RequestInv, DecidedOnce, SaveBelow, Below
  <2>4. RequestInv(r)'
    BY <1>a, <2>1, <2>3, Undone
  <2>5. \A x \in Days : Holds(own'[r], x) => Holds(own[r], x)
    BY <2>1, <2>2, CountersAreNat DEF Holds, SaveBelow, Below
  <2> QED BY <2>1, <2>4, <2>5, OneRequest
<1>14. ASSUME NEW r \in Requests, InsertRefused(r) PROVE CountInv'
  <2>1. /\ pc[r] = "insertRefused" /\ pc'[r] = "count"
        /\ UNCHANGED <<db, save, cur>>
        /\ \A q \in Requests \ {r} : pc'[q] = pc[q]
    BY <1>14 DEF InsertRefused, Moves, TypeOK
  <2>2. /\ cur[r] \in Events /\ cur[r] \notin AlertsOf(own[r]) /\ cur[r] \notin own[r].refused
        /\ own[r] \in Tables
    BY <1>a, <2>1 DEF TypeOK, Locals, Undecided, RequestInv, DecidedOnce
  <2>3. /\ OnlyOwn(r, own'[r])
        /\ AlertsOf(own'[r]) = AlertsOf(own[r])
        /\ own'[r].refused = own[r].refused \cup {cur[r]}
        /\ SameCounters(own[r], own'[r])
    BY <1>14, InsertRefusedWrites
  <2>4. OwnExact(r)'
    <3> SUFFICES ASSUME NEW x \in Days
                 PROVE  /\ Exact(save[r], x)
                        /\ own[r].accepted[x] = Cardinality(OnDay(AlertsOf(own[r]), x)) + 0
                        /\ own[r].turned[x] + (IF DayOf[cur[r]] = x THEN 1 ELSE 0) =
                                Cardinality(OnDay(own[r].refused \cup {cur[r]}, x))
      BY <2>1, <2>3 DEF OwnExact, Charged, Owed, SameCounters
    <3>1. own[r].refused \in SUBSET Events /\ own[r].turned[x] \in Nat
      BY <2>2, TableSets, CountersAreNat
    <3>2. Cardinality(OnDay(own[r].refused, x)) \in Nat
      BY <3>1, OnDayFinite
    <3>3. Cardinality(OnDay(own[r].refused \cup {cur[r]}, x)) =
            Cardinality(OnDay(own[r].refused, x)) + (IF DayOf[cur[r]] = x THEN 1 ELSE 0)
      BY <2>2, <3>1, OnDayAdd
    <3> QED BY <1>a, <2>1, <3>1, <3>2, <3>3 DEF RequestInv, OwnExact, Charged, Owed
  <2>5. OwnLimited(r)' /\ OwnRefusedWhenFull(r)' /\ DecidedOnce(r)'
    BY <1>a, <2>1, <2>2, <2>3 DEF RequestInv, OwnLimited, OwnRefusedWhenFull, DecidedOnce,
       FullWith, SameCounters
  <2>6. \A x \in Days : Holds(own'[r], x) => Holds(own[r], x)
    BY <2>3 DEF Holds, SameCounters
  <2> QED BY <2>1, <2>3, <2>4, <2>5, <2>6, OneRequest DEF RequestInv
<1>15. ASSUME NEW r \in Requests, CountRefused(r) PROVE CountInv'
  <2> DEFINE d == DayOf[cur[r]]
  <2>1. /\ pc[r] = "count" /\ pc'[r] = "next" /\ ~RowHeld(r, d)
        /\ UNCHANGED <<db, save, cur>>
        /\ \A q \in Requests \ {r} : pc'[q] = pc[q]
    BY <1>15 DEF CountRefused, Moves, TypeOK
  <2>2. /\ OnlyOwn(r, own'[r])
        /\ SameAlertsAndKeys(own[r], own'[r])
        /\ own'[r].rows = own[r].rows /\ own'[r].accepted = own[r].accepted
        /\ \A x \in Days : own'[r].turned[x] =
              IF x = d THEN own[r].turned[x] + 1 ELSE own[r].turned[x]
    BY <1>15, CountRefusedWrites
  <2>3. \A x \in Days : own[r].turned[x] \in Nat
    BY CountersAreNat DEF TypeOK
  <2>4. OwnExact(r)'
    <3> SUFFICES ASSUME NEW x \in Days
                 PROVE  /\ Exact(save[r], x)
                        /\ own[r].accepted[x] = Cardinality(OnDay(AlertsOf(own[r]), x)) + 0
                        /\ own'[r].turned[x] + 0 = Cardinality(OnDay(own[r].refused, x))
      BY <2>1, <2>2 DEF OwnExact, Charged, Owed, SameAlertsAndKeys
    <3> QED BY <1>a, <2>1, <2>2, <2>3 DEF RequestInv, OwnExact, Charged, Owed
  <2>5. OwnLimited(r)' /\ OwnRefusedWhenFull(r)' /\ DecidedOnce(r)'
    BY <1>a, <2>1, <2>2 DEF RequestInv, OwnLimited, OwnRefusedWhenFull, DecidedOnce,
       FullWith, SameAlertsAndKeys
  <2>6. \A x \in Days : Holds(own'[r], x) => Holds(own[r], x) \/ ~RowHeld(r, x)
    BY <2>1, <2>2 DEF Holds
  <2> QED BY <2>1, <2>2, <2>4, <2>5, <2>6, OneRequest DEF RequestInv
\* The end of the transaction.
<1>16. ASSUME NEW r \in Requests, OnlyOwn(r, Empty), save'[r] = Empty,
              pc'[r] \in {"idle", "answered"},
              \A d \in Days : db'.accepted[d] <= Quota
       PROVE  RequestInv(r)'
  <2>1. own'[r] = Empty /\ db' \in Tables
    BY <1>16 DEF OnlyOwn, TypeOK
  <2>2. OwnExact(r)'
    BY <1>16, <2>1, EmptyTables, OnDayEmpty DEF OwnExact, Exact, Charged, Owed
  <2>3. OwnLimited(r)'
    BY <1>16, <2>1, EmptyTables, CountersAreNat DEF OwnLimited
  <2>4. OwnRefusedWhenFull(r)' /\ DecidedOnce(r)'
    BY <1>16, <2>1, EmptyTables DEF OwnRefusedWhenFull, DecidedOnce
  <2> QED BY <2>2, <2>3, <2>4 DEF RequestInv
<1>17. ASSUME NEW r \in Requests, Abort(r) PROVE CountInv'
  <2>1. /\ pc'[r] = "idle" /\ db' = db
        /\ OnlyOwn(r, Empty) /\ own'[r] = Empty /\ save'[r] = Empty
        /\ \A q \in Requests \ {r} : pc'[q] = pc[q] /\ cur'[q] = cur[q] /\ save'[q] = save[q]
    BY <1>17, EndWrites DEF Abort, TypeOK, OnlyOwn
  <2>2. RequestInv(r)'
    BY <1>a, <1>16, <2>1 DEF DbFull
  <2>3. \A x \in Days : ~Holds(own'[r], x)
    BY <2>1, EmptyTables DEF Holds
  <2> QED BY <2>1, <2>2, <2>3, OneRequest
<1>18. ASSUME NEW r \in Requests, Commit(r) PROVE CountInv'
  <2>1. /\ pc'[r] = "answered" /\ OnlyOwn(r, Empty) /\ own'[r] = Empty /\ save'[r] = Empty
        /\ \A q \in Requests \ {r} :
             /\ pc'[q] = pc[q] /\ cur'[q] = cur[q] /\ save'[q] = save[q] /\ own'[q] = own[q]
    BY <1>18, EndWrites DEF Commit, Moves, TypeOK, OnlyOwn
  <2>2. /\ AlertsOf(db') = AlertsOf(db) \cup AlertsOf(own[r])
        /\ db'.refused = db.refused \cup own[r].refused
        /\ db'.rows = db.rows \cup own[r].rows
        /\ \A d \in Days : /\ db'.accepted[d] = db.accepted[d] + own[r].accepted[d]
                           /\ db'.turned[d] = db.turned[d] + own[r].turned[d]
    BY <1>18, MergedTables DEF Commit, View, TypeOK
  <2>3. \A q \in Requests, d \in Days :
          /\ db.accepted[d] \in Nat /\ db.turned[d] \in Nat
          /\ own[q].accepted[d] \in Nat /\ own[q].turned[d] \in Nat
          /\ save[q].accepted[d] \in Nat
    BY CountersAreNat DEF TypeOK
  <2>4. CountersExact'
    <3> SUFFICES ASSUME NEW d \in Days
                 PROVE  /\ db'.accepted[d] = Cardinality(OnDay(AlertsOf(db'), d))
                        /\ db'.turned[d] = Cardinality(OnDay(db'.refused, d))
      BY DEF CountersExact, OnDay
    <3>1. pc[r] = "next"
      BY <1>18 DEF Commit, Moves
    <3> QED BY <2>2, <3>1, CommittedCounts
  <2>5. DbFull'
    <3>1. \A d \in Days : db'.accepted[d] <= Quota
      BY <1>a, <2>2 DEF RequestInv, OwnLimited
    <3>2. ASSUME NEW e \in db'.refused PROVE db'.accepted[DayOf[e]] >= Quota
      <4>1. e \in Events /\ DayOf[e] \in Days
        BY <3>2, TableSets, SyncAssumption DEF TypeOK
      <4>2. CASE e \in db.refused
        <5>1. db.accepted[DayOf[e]] >= Quota
          BY <1>a, <4>2 DEF DbFull
        <5> QED BY <2>2, <2>3, <4>1, <5>1, SyncAssumption
      <4>3. CASE e \in own[r].refused
        BY <1>a, <2>2, <4>1, <4>3 DEF RequestInv, OwnRefusedWhenFull, FullWith
      <4> QED BY <2>2, <3>2, <4>2, <4>3
    <3> QED BY <3>1, <3>2 DEF DbFull
  <2>6. RowsExclusive'
    <3>1. \A x \in Days : ~Holds(own'[r], x)
      BY <2>1, EmptyTables DEF Holds
    <3> QED BY <1>a, <2>1, <3>1 DEF RowsExclusive
  <2>7. ASSUME NEW q \in Requests, q # r PROVE RequestInv(q)'
    <3>1. RequestInv(q)
      BY <1>a
    <3>2. OwnExact(q)'
      BY <2>1, <2>7, <3>1 DEF RequestInv, OwnExact, Charged, Owed
    <3>3. OwnLimited(q)'
      <4> SUFFICES ASSUME NEW d \in Days PROVE db'.accepted[d] + own[q].accepted[d] <= Quota
        BY <2>1, <2>7 DEF OwnLimited
      <4>1. own[r].accepted[d] = 0 \/ own[q].accepted[d] = 0
        BY <1>a, <2>3, <2>7 DEF RowsExclusive, Holds
      <4>2. /\ db.accepted[d] + own[r].accepted[d] <= Quota
            /\ db.accepted[d] + own[q].accepted[d] <= Quota
        BY <1>a DEF RequestInv, OwnLimited
      <4> QED BY <2>2, <2>3, <4>1, <4>2
    <3>4. OwnRefusedWhenFull(q)'
      <4>1. \A d \in Days : /\ FullWith(own[q], d) => FullWith(own[q], d)'
                            /\ FullWith(save[q], d) => FullWith(save[q], d)'
        BY <2>1, <2>2, <2>3, <2>7, SyncAssumption DEF FullWith
      <4>2. \A e \in Events : DayOf[e] \in Days
        BY SyncAssumption
      <4>3. own[q].refused \subseteq Events /\ save[q].refused \subseteq Events /\ cur[q] \in Events
        BY TableSets DEF TypeOK
      <4> QED BY <2>1, <2>7, <3>1, <4>1, <4>2, <4>3 DEF RequestInv, OwnRefusedWhenFull
    <3>5. DecidedOnce(q)'
      BY <2>1, <2>2, <2>7, <3>1 DEF RequestInv, DecidedOnce
    <3> QED BY <3>2, <3>3, <3>4, <3>5 DEF RequestInv
  <2>8. RequestInv(r)'
    BY <1>16, <2>1, <2>5 DEF DbFull
  <2> QED BY <2>4, <2>5, <2>6, <2>7, <2>8 DEF CountInv
<1>19. CASE EditCameras \/ UNCHANGED vars
  <2> UNCHANGED <<db, pc, cur, own, save>>
    BY <1>19 DEF EditCameras, vars
  <2> QED BY ZenonT(40) DEF CountInv, RowsExclusive, CountersExact, DbFull, RequestInv, OwnExact, OwnLimited,
             OwnRefusedWhenFull, DecidedOnce, Charged, Owed, FullWith
<1> QED
  BY <1>2, <1>3, <1>4, <1>5, <1>6, <1>7, <1>8, <1>9, <1>10, <1>11, <1>12, <1>13, <1>14,
     <1>15, <1>17, <1>18, <1>19 DEF Next, ProcessEvent

IInv == TypeOK /\ KeyInv /\ CountInv

LEMMA Inductive == Spec => []IInv
<1>1. Init => IInv
  BY TypeInit, KeyInit, CountInit DEF IInv
<1>2. IInv /\ [Next]_vars => IInv'
  BY TypeStep, KeyStep, CountStep DEF IInv
<1> QED BY <1>1, <1>2, PTL DEF Spec

\* The quota row never drifts from the Alerts and the suppressed records it
\* stands for.
THEOREM CountersAreExact == Spec => []CountersExact
<1>1. IInv => CountersExact
  BY DEF IInv, CountInv, CountersExact
<1> QED BY <1>1, Inductive, PTL

\* No interleaving of any number of requests exceeds a day's quota.
THEOREM QuotaIsKept == Spec => []WithinQuota
<1>1. IInv => WithinQuota
  BY DEF IInv, CountInv, CountersExact, DbFull, WithinQuota
<1> QED BY <1>1, Inductive, PTL

\* Nothing but a commit changes the committed tables.
LEMMA OnlyCommitWrites ==
    [Next]_vars => db' = db \/ \E r \in Requests : Commit(r)
<1>1. ASSUME NEW r \in Requests, ProcessEvent(r) PROVE db' = db
  BY <1>1 DEF ProcessEvent, RejectEvent, StartEvent, FoundAlert, FoundNoAlert, FoundRefused,
     FoundNotRefused, EnsureQuotaRow, InsertQuotaRow, Consume, QuotaExhausted, InsertAlert,
     AlertKeyTaken, ResolveDuplicate, InsertRefused, RefusedKeyTaken, CountRefused
<1>2. ASSUME NEW r \in Requests, Begin(r) \/ Answer(r) \/ Abort(r) PROVE db' = db
  BY <1>2 DEF Begin, Answer, Abort
<1> QED BY <1>1, <1>2 DEF Next, EditCameras, vars

\* The ledger counts as this module does.
LEMMA SameCardinality == \A S : Ledger!Cardinality(S) = Cardinality(S)
BY DEF Ledger!Cardinality, Cardinality

\* A commit is a step of the ledger: what it accepts was not decided before
\* and fits in the quota, what it refuses was not refused before and its day
\* is full.
LEMMA CommitRecords ==
    ASSUME IInv, QuotaEnabled, NEW r \in Requests, Commit(r)
    PROVE  Ledger!Record(AlertsOf(own[r]), own[r].refused)
<1> DEFINE A == AlertsOf(own[r])
           S == own[r].refused
<1>1. TypeOK /\ KeyInv /\ CountInv /\ RequestInv(r) /\ DbFull /\ pc[r] = "next"
  BY DEF IInv, CountInv, Commit, Moves
<1>2. /\ AlertsOf(db)' = AlertsOf(db) \cup A
      /\ db'.refused = db.refused \cup S
  BY <1>1, MergedTables DEF Commit, View, TypeOK
<1>3. /\ A \in SUBSET Events /\ S \in SUBSET Events /\ db.refused \in SUBSET Events
      /\ \A e \in Events : DayOf[e] \in Days
      /\ \A d \in Days : db.accepted[d] \in Nat /\ own[r].accepted[d] \in Nat
  BY <1>1, TableSets, CountersAreNat, SyncAssumption DEF TypeOK
<1>4. A \cap AlertsOf(db) = {} /\ S \cap db.refused = {} /\ A \cap S = {}
  BY <1>1 DEF KeyInv, KeysExclusive, Apart, RequestInv, DecidedOnce
<1>5. A \cap db.refused = {}
  <2> SUFFICES ASSUME NEW e \in A, e \in db.refused PROVE FALSE
    OBVIOUS
  <2>1. DayOf[e] \in Days
    BY <1>3
  <2>2. own[r].accepted[DayOf[e]] >= 1
    BY <1>1, <1>3, <2>1, OnDayWitness, CommittedCounts
  <2>3. db.accepted[DayOf[e]] + own[r].accepted[DayOf[e]] <= Quota
    BY <1>1, <2>1 DEF RequestInv, OwnLimited
  <2>4. db.accepted[DayOf[e]] >= Quota
    BY <1>1 DEF DbFull
  <2> QED BY <1>3, <2>1, <2>2, <2>3, <2>4, SyncAssumption
<1>6. \A d \in Days : Cardinality(OnDay(AlertsOf(db) \cup A, d)) <= Quota
  BY <1>1, CommittedCounts DEF RequestInv, OwnLimited
<1>7. \A e \in S : Cardinality(OnDay(AlertsOf(db) \cup A, DayOf[e])) = Quota
  <2> SUFFICES ASSUME NEW e \in S
               PROVE  Cardinality(OnDay(AlertsOf(db) \cup A, DayOf[e])) = Quota
    OBVIOUS
  <2>1. DayOf[e] \in Days
    BY <1>3
  <2>2. Cardinality(OnDay(AlertsOf(db) \cup A, DayOf[e])) =
            db.accepted[DayOf[e]] + own[r].accepted[DayOf[e]]
    BY <1>1, <2>1, CommittedCounts
  <2>3. /\ db.accepted[DayOf[e]] + own[r].accepted[DayOf[e]] <= Quota
        /\ db.accepted[DayOf[e]] + own[r].accepted[DayOf[e]] >= Quota
    BY <1>1, <2>1 DEF RequestInv, OwnLimited, OwnRefusedWhenFull, FullWith
  <2> QED BY <1>3, <2>1, <2>2, <2>3, SyncAssumption
<1> QED
  BY <1>2, <1>4, <1>5, <1>6, <1>7, SameCardinality DEF Ledger!Record, Ledger!Full, Ledger!AlertsOn, OnDay

\* With the quota on, the service implements the ledger.
THEOREM LedgerImplemented ==
    ASSUME QuotaEnabled
    PROVE  Spec => ImplementsLedger
<1>1. Init => Ledger!LedgerInit
  BY EmptyTables DEF Init, Ledger!LedgerInit
<1>2. IInv /\ [Next]_vars => [Ledger!LedgerNext]_(Ledger!ledger)
  <2> SUFFICES ASSUME IInv, [Next]_vars,
                      ~ UNCHANGED <<AlertsOf(db), db.refused>>
               PROVE  Ledger!LedgerNext
    BY DEF Ledger!ledger
  <2>1. PICK r \in Requests : Commit(r)
    BY OnlyCommitWrites
  <2> DEFINE A == AlertsOf(own[r])
             S == own[r].refused
  <2>2. Ledger!Record(A, S)
    BY <2>1, CommitRecords
  <2>3. A \in SUBSET Events /\ S \in SUBSET Events
    BY TableSets DEF IInv, TypeOK
  <2> QED BY <2>2, <2>3 DEF Ledger!LedgerNext
<1> QED BY <1>1, <1>2, Inductive, PTL DEF Spec, ImplementsLedger, Ledger!LedgerSpec
=============================================================================
