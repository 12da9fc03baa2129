-------------------------- MODULE DeviceCredential --------------------------
(***************************************************************************)
(* The credential of a device: one-time Activation Keys, the shared secret *)
(* an activation issues, its revocation when an administrator regenerates  *)
(* the key, and the Agent that stores the secret, validates it and locks   *)
(* itself when the Backend refuses it.                                     *)
(*                                                                         *)
(* On the Backend, DeviceService.ActivateAsync and                         *)
(* RegenerateActivationKeyAsync run as concurrent transactions: reads are  *)
(* read-committed, ActivateAsync reads the key's row under an update lock, *)
(* and a save writes the columns that differ from what was read.  On the   *)
(* Agent, the supervisor's start-up, the activation service and the        *)
(* validation monitor run in one task, which may be killed anywhere.       *)
(*                                                                         *)
(* Secrets and device ids are numbered: the n-th activation the Backend    *)
(* commits issues secret n, and id n to a device that has none.            *)
(*                                                                         *)
(* Operators named Faulty... are variants with a bug; no action uses them. *)
(***************************************************************************)
EXTENDS Naturals, Sequences, FiniteSets

CONSTANTS
    Devices,        \* Devices rows, one per branch
    Keys,           \* ActivationKeys rows, existing and still to be generated
    OwnerOf,        \* the device a key is for
    FirstKey,       \* the key generated with the branch
    Activations,    \* handlers of POST /activate
    Regenerations,  \* handlers of the administrator's key regeneration
    NoKey, NoOne,
    MaxStops,       \* how often the Agent's process is killed or stopped
    MaxFaults       \* how often a local operation of the Agent fails

ASSUME CredentialAssumption ==
    /\ OwnerOf \in [Keys -> Devices]
    /\ FirstKey \in [Devices -> Keys]
    /\ \A d \in Devices : OwnerOf[FirstKey[d]] = d
    /\ NoKey \notin Keys
    /\ NoOne \notin Activations
    /\ MaxStops \in Nat /\ MaxFaults \in Nat

VARIABLES
    keys,       \* ActivationKeys.Status
    device,     \* Devices: DeviceId, ActivationStatus, ProtectedSharedSecret
    issued,     \* the keys that bought secret 1, 2, ...
    disclosed,  \* keys whose plaintext reached the administrator
    actPc, actKey, actSaw,                          \* ActivateAsync
    regenPc, regenOf, regenSaw, regenKeys, regenNew, \* RegenerateActivationKeyAsync
    keyFile,    \* the activation-key file
    identity,   \* the DeviceIdentity row
    pc,         \* where the Agent's supervisor stands
    waiting,    \* the activation request it waits for
    gift,       \* the identity that request brought
    answer,     \* the validation request's answer
    stops, faults

backend == <<keys, device, issued, disclosed>>
activation == <<actPc, actKey, actSaw>>
regeneration == <<regenPc, regenOf, regenSaw, regenKeys, regenNew>>
disk == <<keyFile, identity>>
memory == <<pc, waiting, gift, answer>>
bounds == <<stops, faults>>
vars == <<backend, activation, regeneration, disk, memory, bounds>>

-----------------------------------------------------------------------------

Status == {"unactivated", "activated", "reactivation_required"}
Device == [id : Nat, status : Status, secret : Nat]

NewDevice == [id |-> 0, status |-> "unactivated", secret |-> 0]
NoIdentity == [id |-> 0, secret |-> 0, locked |-> FALSE]
NoGift == [id |-> 0, secret |-> 0]

KeysOf(d) == {k \in Keys : OwnerOf[k] = d}
Unconsumed(d) == {k \in KeysOf(d) : keys[k] = "unconsumed"}

\* An activation holds the update lock on the key's row.
Held(k) == \E a \in Activations : actKey[a] = k /\ actPc[a] \in {"locked", "ready"}

\* The change tracker writes the columns that differ from what was read.
SaveChanges(now, saw, new) ==
    [id     |-> IF new.id = saw.id THEN now.id ELSE new.id,
     status |-> IF new.status = saw.status THEN now.status ELSE new.status,
     secret |-> IF new.secret = saw.secret THEN now.secret ELSE new.secret]

FaultyActivate(dev, n) == [id |-> n, status |-> "activated", secret |-> n]

\* Device.Activate: the id is assigned once, the secret every time.
Activate(dev, n) ==
    [id |-> IF dev.id = 0 THEN n ELSE dev.id, status |-> "activated", secret |-> n]

\* RequireReactivation, for a device that has been activated before.
RequireReactivation(dev) ==
    IF dev.status = "unactivated" THEN dev
    ELSE [dev EXCEPT !.status = "reactivation_required", !.secret = 0]

TypeOK ==
    /\ keys \in [Keys -> {"none", "unconsumed", "consumed", "invalidated"}]
    /\ device \in [Devices -> Device]
    /\ issued \in Seq(Keys)
    /\ disclosed \subseteq Keys
    /\ actPc \in [Activations -> {"idle", "sent", "locked", "ready", "accepted", "refused"}]
    /\ actKey \in [Activations -> Keys \cup {NoKey}]
    /\ actSaw \in [Activations -> Device]
    /\ regenPc \in [Regenerations -> {"idle", "read", "staged", "committed"}]
    /\ regenOf \in [Regenerations -> Devices]
    /\ regenSaw \in [Regenerations -> Device]
    /\ regenKeys \in [Regenerations -> SUBSET Keys]
    /\ regenNew \in [Regenerations -> Keys \cup {NoKey}]
    /\ keyFile \in Keys \cup {NoKey}
    /\ identity \in [id : Nat, secret : Nat, locked : BOOLEAN]
    /\ identity.secret = 0 <=> identity.id = 0 \/ identity.locked
    /\ identity.locked => identity.id # 0
    /\ pc \in {"down", "activating", "storing", "deleting", "validating", "starting",
               "operational", "checking", "rejectedAtStart", "rejected", "locked"}
    /\ waiting \in Activations \cup {NoOne}
    /\ gift \in [id : Nat, secret : Nat]
    /\ answer \in {"none", "sent", "valid", "rejected"}
    /\ stops \in 0 .. MaxStops
    /\ faults \in 0 .. MaxFaults

Init ==
    /\ keys = [k \in Keys |-> IF \E d \in Devices : FirstKey[d] = k
                              THEN "unconsumed" ELSE "none"]
    /\ device = [d \in Devices |-> NewDevice]
    /\ issued = <<>>
    /\ disclosed = {FirstKey[d] : d \in Devices}
    /\ actPc = [a \in Activations |-> "idle"]
    /\ actKey = [a \in Activations |-> NoKey]
    /\ actSaw = [a \in Activations |-> NewDevice]
    /\ regenPc = [r \in Regenerations |-> "idle"]
    /\ regenOf \in [Regenerations -> Devices]
    /\ regenSaw = [r \in Regenerations |-> NewDevice]
    /\ regenKeys = [r \in Regenerations |-> {}]
    /\ regenNew = [r \in Regenerations |-> NoKey]
    /\ keyFile = NoKey
    /\ identity = NoIdentity
    /\ pc = "down"
    /\ waiting = NoOne
    /\ gift = NoGift
    /\ answer = "none"
    /\ stops = 0
    /\ faults = 0

-----------------------------------------------------------------------------
(* DeviceService.RegenerateActivationKeyAsync *)

ReadDevice(r, d) ==
    /\ regenPc[r] = "idle"
    /\ regenPc' = [regenPc EXCEPT ![r] = "read"]
    /\ regenOf' = [regenOf EXCEPT ![r] = d]
    /\ regenSaw' = [regenSaw EXCEPT ![r] = device[d]]
    /\ UNCHANGED <<backend, activation, regenKeys, regenNew, disk, memory, bounds>>

ReadKeys(r) ==
    /\ regenPc[r] = "read"
    /\ regenPc' = [regenPc EXCEPT ![r] = "staged"]
    /\ regenKeys' = [regenKeys EXCEPT ![r] = Unconsumed(regenOf[r])]
    /\ UNCHANGED <<backend, activation, regenOf, regenSaw, regenNew, disk, memory,
                   bounds>>

\* Saving waits for the locks on the keys that were read.
MaySave(r) == regenPc[r] = "staged" /\ \A k \in regenKeys[r] : ~Held(k)

FaultyNoConflict(r) == TRUE

\* The filtered unique index: no other unconsumed key of the device.
NoConflict(r) == Unconsumed(regenOf[r]) \subseteq regenKeys[r]

\* What was read is invalidated, the device's secret revoked, a new key added.
CommitRegeneration(r, new) ==
    LET d == regenOf[r]
    IN  /\ MaySave(r) /\ NoConflict(r)
        /\ new \in KeysOf(d) /\ keys[new] = "none"
        /\ keys' = [k \in Keys |-> IF k = new THEN "unconsumed"
                                   ELSE IF k \in regenKeys[r] THEN "invalidated"
                                   ELSE keys[k]]
        /\ device' = [device EXCEPT ![d] =
                        SaveChanges(@, regenSaw[r], RequireReactivation(regenSaw[r]))]
        /\ regenPc' = [regenPc EXCEPT ![r] = "committed"]
        /\ regenNew' = [regenNew EXCEPT ![r] = new]
        /\ regenSaw' = [regenSaw EXCEPT ![r] = NewDevice]
        /\ regenKeys' = [regenKeys EXCEPT ![r] = {}]
        /\ UNCHANGED <<issued, disclosed, activation, regenOf, disk, memory, bounds>>

EndRegeneration(r) ==
    /\ regenPc' = [regenPc EXCEPT ![r] = "idle"]
    /\ regenSaw' = [regenSaw EXCEPT ![r] = NewDevice]
    /\ regenKeys' = [regenKeys EXCEPT ![r] = {}]
    /\ regenNew' = [regenNew EXCEPT ![r] = NoKey]
    /\ regenOf' = regenOf

\* ActivationKeyRegenerationConflict (409), any other failure of the save, or
\* the request cancelled: all of it is rolled back.
RollBack(r) ==
    /\ regenPc[r] \in {"read", "staged"}
    /\ EndRegeneration(r)
    /\ UNCHANGED <<backend, activation, disk, memory, bounds>>

\* The plaintext is disclosed once, in this response; or never, when it is lost.
Disclose(r) ==
    /\ regenPc[r] = "committed"
    /\ disclosed' \in {disclosed, disclosed \cup {regenNew[r]}}
    /\ EndRegeneration(r)
    /\ UNCHANGED <<keys, device, issued, activation, disk, memory, bounds>>

Regenerate ==
    \E r \in Regenerations :
        \/ \E d \in Devices : ReadDevice(r, d)
        \/ ReadKeys(r) \/ RollBack(r) \/ Disclose(r)
        \/ \E new \in Keys : CommitRegeneration(r, new)

-----------------------------------------------------------------------------
(* DeviceService.ActivateAsync *)

FaultyMayLock(k) == TRUE

\* UPDLOCK: a second reader waits for the first one's transaction.
MayLock(k) == ~Held(k)

\* A consumed or invalidated key is rejected.
LockKey(a) ==
    /\ actPc[a] = "sent"
    /\ MayLock(actKey[a])
    /\ actPc' = [actPc EXCEPT ![a] =
                    IF keys[actKey[a]] = "unconsumed" THEN "locked" ELSE "refused"]
    /\ UNCHANGED <<backend, actKey, actSaw, regeneration, disk, memory, bounds>>

LoadDevice(a) ==
    /\ actPc[a] = "locked"
    /\ actPc' = [actPc EXCEPT ![a] = "ready"]
    /\ actSaw' = [actSaw EXCEPT ![a] = device[OwnerOf[actKey[a]]]]
    /\ UNCHANGED <<backend, actKey, regeneration, disk, memory, bounds>>

CommitActivation(a) ==
    LET d == OwnerOf[actKey[a]]
        new == Activate(actSaw[a], Len(issued) + 1)
    IN  /\ actPc[a] = "ready"
        /\ keys' = [keys EXCEPT ![actKey[a]] = "consumed"]
        /\ issued' = Append(issued, actKey[a])
        /\ device' = [device EXCEPT ![d] = SaveChanges(@, actSaw[a], new)]
        /\ actSaw' = [actSaw EXCEPT ![a] = new]
        /\ actPc' = [actPc EXCEPT ![a] = "accepted"]
        /\ UNCHANGED <<disclosed, actKey, regeneration, disk, memory, bounds>>

\* The transaction fails, or the request never arrived.
FailActivation(a) ==
    /\ actPc[a] \in {"sent", "locked", "ready"}
    /\ actPc' = [actPc EXCEPT ![a] = "refused"]
    /\ actSaw' = [actSaw EXCEPT ![a] = NewDevice]
    /\ UNCHANGED <<backend, actKey, regeneration, disk, memory, bounds>>

EndActivation(a) ==
    /\ actPc' = [actPc EXCEPT ![a] = "idle"]
    /\ actKey' = [actKey EXCEPT ![a] = NoKey]
    /\ actSaw' = [actSaw EXCEPT ![a] = NewDevice]

\* Nobody waits for the response any more.
DropResponse(a) ==
    /\ actPc[a] \in {"accepted", "refused"}
    /\ waiting # a
    /\ EndActivation(a)
    /\ UNCHANGED <<backend, regeneration, disk, memory, bounds>>

HandleActivation ==
    \E a \in Activations :
        LockKey(a) \/ LoadDevice(a) \/ CommitActivation(a) \/ FailActivation(a)
        \/ DropResponse(a)

-----------------------------------------------------------------------------
(* The Agent: AgentRuntimeSupervisor.startup, ActivationService.activate *)

Idle == waiting = NoOne /\ gift = NoGift /\ answer = "none"

\* The process ends; requests it sent go on.
Exit ==
    /\ pc' = "down"
    /\ waiting' = NoOne
    /\ gift' = NoGift
    /\ answer' = "none"

Fault == faults < MaxFaults /\ faults' = faults + 1

\* set-activation-key.sh, which only warns while the service is active.
ProvisionKey(k) ==
    /\ k \in disclosed
    /\ keyFile' = k
    /\ UNCHANGED <<backend, activation, regeneration, identity, memory, bounds>>

\* A key that is there is presented, whatever the stored identity.
StartWithKey(a) ==
    /\ pc = "down" /\ keyFile # NoKey
    /\ actPc[a] = "idle"
    /\ actPc' = [actPc EXCEPT ![a] = "sent"]
    /\ actKey' = [actKey EXCEPT ![a] = keyFile]
    /\ waiting' = a
    /\ pc' = "activating"
    /\ UNCHANGED <<backend, actSaw, regeneration, disk, gift, answer, bounds>>

StartLocked ==
    /\ pc = "down" /\ keyFile = NoKey
    /\ identity.locked
    /\ pc' = "locked"
    /\ UNCHANGED <<backend, activation, regeneration, disk, waiting, gift, answer,
                   bounds>>

StartOperational ==
    /\ pc = "down" /\ keyFile = NoKey
    /\ identity.secret # 0
    /\ pc' = "validating"
    /\ answer' = "sent"
    /\ UNCHANGED <<backend, activation, regeneration, disk, waiting, gift, bounds>>

FaultySameDevice(id) == TRUE

\* A first activation, or the device id that is stored already.
SameDevice(id) == identity.id \in {0, id}

ReceiveIdentity ==
    /\ pc = "activating"
    /\ actPc[waiting] = "accepted"
    /\ SameDevice(actSaw[waiting].id)
    /\ gift' = [id |-> actSaw[waiting].id, secret |-> actSaw[waiting].secret]
    /\ pc' = "storing"
    /\ waiting' = NoOne
    /\ EndActivation(waiting)
    /\ UNCHANGED <<backend, regeneration, disk, answer, bounds>>

\* DeviceIdentityMismatchError, a rejection, a server error, a time-out or a
\* lost response: the start fails, identity and key file stay as they are.
ActivationFails ==
    /\ pc = "activating"
    /\ Exit
    /\ UNCHANGED <<backend, activation, regeneration, disk, bounds>>

StoredId(g) == IF identity.id = 0 THEN g.id ELSE identity.id

FaultyStored(g) ==
    [id |-> StoredId(g), secret |-> g.secret, locked |-> identity.locked]

\* store, or replace_shared_secret: the device id stays, the lock is cleared.
Stored(g) == [id |-> StoredId(g), secret |-> g.secret, locked |-> FALSE]

StoreIdentity ==
    /\ pc = "storing"
    /\ identity' = Stored(gift)
    /\ pc' = "deleting"
    /\ gift' = NoGift
    /\ UNCHANGED <<backend, activation, regeneration, keyFile, waiting, answer, bounds>>

DeleteKey ==
    /\ pc = "deleting"
    /\ keyFile' = NoKey
    /\ pc' = "starting"
    /\ UNCHANGED <<backend, activation, regeneration, identity, waiting, gift, answer,
                   bounds>>

StartComponents ==
    /\ pc = "starting"
    /\ pc' = "operational"
    /\ UNCHANGED <<backend, activation, regeneration, disk, waiting, gift, answer,
                   bounds>>

\* Storing, deleting the key or starting a component fails: the start fails.
StartFails ==
    /\ pc \in {"storing", "deleting", "starting"}
    /\ Fault
    /\ Exit
    /\ UNCHANGED <<backend, activation, regeneration, disk, stops>>

-----------------------------------------------------------------------------
(* Validation: DeviceCredentialValidator and CredentialValidationMonitor *)

\* Activated, and the secret is the current one.
Authenticates(id, secret) ==
    \E d \in Devices :
        /\ id # 0 /\ device[d].id = id
        /\ device[d].status = "activated"
        /\ device[d].secret = secret

Validate ==
    /\ answer = "sent"
    /\ answer' = IF Authenticates(identity.id, identity.secret)
                 THEN "valid" ELSE "rejected"
    /\ UNCHANGED <<backend, activation, regeneration, disk, pc, waiting, gift, bounds>>

SendValidation ==
    /\ pc = "operational"
    /\ pc' = "checking"
    /\ answer' = "sent"
    /\ UNCHANGED <<backend, activation, regeneration, disk, waiting, gift, bounds>>

FaultyConfirmedRejection == answer \in {"sent", "rejected"}

FaultyOnlyAtStart == answer = "rejected" /\ pc = "validating"

\* Only the Backend's own 401; anything else is indeterminate.
ConfirmedRejection == answer = "rejected"

\* Valid, or a time-out, a 5xx, a lost or malformed response: carry on.
CarryOn ==
    /\ pc \in {"validating", "checking"}
    /\ pc' = IF pc = "validating" THEN "starting" ELSE "operational"
    /\ answer' = "none"
    /\ UNCHANGED <<backend, activation, regeneration, disk, waiting, gift, bounds>>

ReceiveRejection ==
    /\ pc \in {"validating", "checking"}
    /\ ConfirmedRejection
    /\ pc' = IF pc = "validating" THEN "rejectedAtStart" ELSE "rejected"
    /\ answer' = "none"
    /\ UNCHANGED <<backend, activation, regeneration, disk, waiting, gift, bounds>>

\* mark_reactivation_required, then the coordinator stops the components.
Lock ==
    /\ pc \in {"rejectedAtStart", "rejected"}
    /\ identity' = [identity EXCEPT !.secret = 0, !.locked = TRUE]
    /\ pc' = "locked"
    /\ UNCHANGED <<backend, activation, regeneration, keyFile, waiting, gift, answer,
                   bounds>>

\* The lock cannot be persisted: the start fails (D4), or the running Agent
\* is locked in memory only.
LockFails ==
    /\ pc \in {"rejectedAtStart", "rejected"}
    /\ Fault
    /\ pc' = IF pc = "rejected" THEN "locked" ELSE "down"
    /\ UNCHANGED <<backend, activation, regeneration, disk, waiting, gift, answer, stops>>

\* A kill, a crash or systemctl stop.
Stop ==
    /\ pc # "down"
    /\ stops < MaxStops
    /\ stops' = stops + 1
    /\ Exit
    /\ UNCHANGED <<backend, activation, regeneration, disk, faults>>

StartUp ==
    \/ \E k \in Keys : ProvisionKey(k)
    \/ \E a \in Activations : StartWithKey(a)
    \/ StartLocked \/ StartOperational
    \/ ReceiveIdentity \/ ActivationFails \/ StoreIdentity \/ DeleteKey
    \/ StartComponents \/ StartFails

Monitor ==
    Validate \/ SendValidation \/ CarryOn \/ ReceiveRejection \/ Lock \/ LockFails

Next == Regenerate \/ HandleActivation \/ StartUp \/ Monitor \/ Stop

Spec == Init /\ [][Next]_vars

(***************************************************************************)
(* The monitor runs for ever, a request is not lost for ever, and the      *)
(* event loop gets round to what is ready.                                 *)
(***************************************************************************)
Fairness ==
    /\ WF_vars(SendValidation)
    /\ SF_vars(Validate)
    /\ SF_vars(ReceiveRejection)
    /\ WF_vars(Lock \/ LockFails)

FairSpec == Spec /\ Fairness

-----------------------------------------------------------------------------
(* Properties *)

\* However activations and regenerations overlap, a device never has two
\* unconsumed keys (RegenerateActivationKeyAsync; FS-02 AC-18).
OneUnconsumedKey == \A d \in Devices : Cardinality(Unconsumed(d)) <= 1

\* No key buys two secrets: of concurrent requests with one key, at most one
\* goes through (ActivateAsync; FS-02 AC-16).
KeysBuyOnce ==
    \A m, n \in DOMAIN issued : issued[m] = issued[n] => m = n

\* The identity the Agent stores is a device's own: the secret was bought
\* with a key of the device whose id is stored, also when the operator has
\* provisioned the key of another branch (ActivationService._reactivation).
SecretIsTheDevices ==
    identity.secret # 0 =>
        /\ identity.secret \in DOMAIN issued
        /\ device[OwnerOf[issued[identity.secret]]].id = identity.id

KeepsDeviceId ==
    /\ \A d \in Devices : device[d].id # 0 => device'[d].id = device[d].id
    /\ identity.id # 0 => identity'.id = identity.id

\* A DeviceId is assigned once, on both sides, through every reactivation,
\* overlap of transactions and crash (Device.Activate; FS-02 AC-7).
DeviceIdIsPermanent == [][KeepsDeviceId]_vars

LocksOnlyRevoked ==
    identity'.locked /\ ~identity.locked =>
        ~Authenticates(identity.id, identity.secret)

\* The Agent throws its secret away only when the Backend really refuses it,
\* at that moment: not because of a lost answer, a time-out, or a rejection
\* meant for an earlier secret (CredentialValidationMonitor; FS-02 section 8.1).
LockIsJustified == [][LocksOnlyRevoked]_vars

\* A running Agent whose secret has been revoked stops operating
\* (CredentialValidationMonitor.run; FS-02 section 8.1).
RevokedAgentStops ==
    (pc = "operational" /\ ~Authenticates(identity.id, identity.secret))
        ~> pc \in {"locked", "down"}
=============================================================================
