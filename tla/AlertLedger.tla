---------------------------- MODULE AlertLedger ----------------------------
(***************************************************************************)
(* What the Backend promises about a branch's detection events, whatever   *)
(* the interleaving of POST /api/v1/sync/events requests: every event that *)
(* is decided becomes an Alert (accepted) or a SuppressedDetectionEvent    *)
(* (quota exceeded), decisions are never taken back, and a branch-local    *)
(* day never holds more than Quota Alerts.                                 *)
(*                                                                         *)
(* An element of Events stands for one (DeviceId, EventId) pair and DayOf  *)
(* for its branch-local date, which the Backend derives from the event's   *)
(* own DetectedAtUtc and not from the time of arrival.                     *)
(***************************************************************************)
EXTENDS Naturals, FiniteSets

CONSTANTS
    Events,     \* (DeviceId, EventId) pairs of one branch
    Days,       \* branch-local dates
    DayOf,      \* the date an event is charged to
    Quota       \* AlertQuota:MaximumPerBranchPerDay

ASSUME LedgerAssumption ==
    /\ DayOf \in [Events -> Days]
    /\ Quota \in Nat \ {0}
    /\ IsFiniteSet(Events)

VARIABLES
    alerts,     \* events with a committed Alert
    suppressed  \* events with a committed SuppressedDetectionEvent

ledger == <<alerts, suppressed>>

-----------------------------------------------------------------------------

AlertsOn(A, d) == {e \in A : DayOf[e] = d}

Full(A, d) == Cardinality(AlertsOn(A, d)) = Quota

LedgerTypeOK ==
    /\ alerts \in SUBSET Events
    /\ suppressed \in SUBSET Events

LedgerInit ==
    /\ alerts = {}
    /\ suppressed = {}

(***************************************************************************)
(* One batch commits: the events of A become Alerts, those of S suppressed *)
(* records.  A suppression needs its day to be full once the batch has     *)
(* committed.  S may contain an event that already is an Alert: a          *)
(* transaction that looked the event up before a concurrent one inserted   *)
(* it still finds the day full and suppresses it.                          *)
(***************************************************************************)
Record(A, S) ==
    /\ A \cap (alerts \cup suppressed) = {}
    /\ S \cap suppressed = {}
    /\ A \cap S = {}
    /\ \A d \in Days : Cardinality(AlertsOn(alerts \cup A, d)) <= Quota
    /\ \A e \in S : Full(alerts \cup A, DayOf[e])
    /\ alerts' = alerts \cup A
    /\ suppressed' = suppressed \cup S

LedgerNext == \E A, S \in SUBSET Events : Record(A, S)

LedgerSpec == LedgerInit /\ [][LedgerNext]_ledger
=============================================================================
