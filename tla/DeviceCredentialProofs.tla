---------------------- MODULE DeviceCredentialProofs ----------------------
(***************************************************************************)
(* Proofs about DeviceCredential for any branches, keys and overlapping    *)
(* requests.  FiniteSetTheorems counts the unconsumed keys of a device.    *)
(***************************************************************************)
EXTENDS DeviceCredential, FiniteSetTheorems, TLAPS

-----------------------------------------------------------------------------
(* The inductive invariant *)

\* A secret was bought with a key of the device that has this id.
Belongs(id, secret) ==
    /\ id \in Nat \ {0}
    /\ secret \in DOMAIN issued
    /\ device[OwnerOf[issued[secret]]].id = id

\* What an activation read while it holds the key's lock is still so.
Handlers ==
    \A a \in Activations :
        /\ actPc[a] # "idle" => actKey[a] \in Keys
        /\ actPc[a] \in {"locked", "ready"} => keys[actKey[a]] = "unconsumed"
        /\ actPc[a] = "ready" =>
                /\ actSaw[a].id = device[OwnerOf[actKey[a]]].id
                /\ actSaw[a].secret <= Len(issued)
        /\ actPc[a] = "accepted" => Belongs(actSaw[a].id, actSaw[a].secret)

\* A committed regeneration has a key to disclose.
NewKey ==
    \A r \in Regenerations : regenPc[r] = "committed" => regenNew[r] \in Keys

\* One activation at a time holds a key.
LocksExclude ==
    \A a, b \in Activations :
        /\ actPc[a] \in {"locked", "ready"}
        /\ actPc[b] \in {"locked", "ready"}
        /\ actKey[a] = actKey[b]
        => a = b

\* The filtered unique index.
OneKey ==
    \A j, k \in Keys :
        /\ OwnerOf[j] = OwnerOf[k]
        /\ keys[j] = "unconsumed" /\ keys[k] = "unconsumed"
        => j = k

\* A key that bought a secret can buy no other; a device has an issued secret.
Spent ==
    /\ \A n \in DOMAIN issued : keys[issued[n]] \in {"consumed", "invalidated"}
    /\ \A d \in Devices : device[d].secret <= Len(issued)

\* What the Agent received, and what it stored, is a device's own.
OwnSecret ==
    /\ pc = "storing" => Belongs(gift.id, gift.secret) /\ SameDevice(gift.id)
    /\ identity.secret # 0 => Belongs(identity.id, identity.secret)

\* Where the supervisor stands and what it holds.
Standing ==
    /\ pc = "activating" <=> waiting # NoOne
    /\ answer # "none" => pc \in {"validating", "checking"}
    /\ pc \in {"deleting", "validating", "starting", "operational", "checking",
               "rejectedAtStart", "rejected"} => identity.secret # 0

\* A rejection is still right when it is received, and when it is acted upon.
Justified ==
    answer = "rejected" \/ pc \in {"rejectedAtStart", "rejected"} =>
        ~Authenticates(identity.id, identity.secret)

IInv ==
    /\ TypeOK
    /\ Handlers
    /\ NewKey
    /\ LocksExclude
    /\ OneKey
    /\ Spent
    /\ KeysBuyOnce
    /\ OwnSecret
    /\ Standing
    /\ Justified

-----------------------------------------------------------------------------
(* What the two transactions do *)

\* Append adds one element at the end.
LEMMA AppendSpec ==
    ASSUME NEW S, NEW s \in Seq(S), NEW e \in S
    PROVE  /\ Append(s, e) \in Seq(S)
           /\ Len(s) \in Nat
           /\ Len(Append(s, e)) = Len(s) + 1
           /\ DOMAIN s = 1 .. Len(s)
           /\ DOMAIN Append(s, e) = 1 .. Len(s) + 1
           /\ \A i \in DOMAIN s : Append(s, e)[i] = s[i]
           /\ Append(s, e)[Len(s) + 1] = e
OBVIOUS

\* Nothing but the two commits writes the tables.
LEMMA OnlyCommitsWrite ==
    [Next]_vars =>
        \/ UNCHANGED <<keys, device, issued>>
        \/ \E r \in Regenerations, new \in Keys : CommitRegeneration(r, new)
        \/ \E a \in Activations : CommitActivation(a)
<1> USE DEF backend
<1>1. Regenerate =>
        \/ UNCHANGED <<keys, device, issued>>
        \/ \E r \in Regenerations, new \in Keys : CommitRegeneration(r, new)
  BY DEF Regenerate, ReadDevice, ReadKeys, RollBack, Disclose
<1>2. HandleActivation =>
        \/ UNCHANGED <<keys, device, issued>>
        \/ \E a \in Activations : CommitActivation(a)
  BY DEF HandleActivation, LockKey, LoadDevice, FailActivation, DropResponse
<1>3. StartUp => UNCHANGED <<keys, device, issued>>
  BY DEF StartUp, ProvisionKey, StartWithKey, StartLocked, StartOperational,
         ReceiveIdentity, ActivationFails, StoreIdentity, DeleteKey,
         StartComponents, StartFails
<1>4. Monitor => UNCHANGED <<keys, device, issued>>
  BY DEF Monitor, Validate, SendValidation, CarryOn, ReceiveRejection, Lock, LockFails
<1>5. Stop => UNCHANGED <<keys, device, issued>>
  BY DEF Stop
<1>6. UNCHANGED vars => UNCHANGED <<keys, device, issued>>
  BY DEF vars
<1> QED
  BY <1>1, <1>2, <1>3, <1>4, <1>5, <1>6 DEF Next

\* A committed activation consumes an unconsumed key, issues the next secret,
\* and gives its device an id only if it has none.
LEMMA ActivationEffect ==
    ASSUME IInv, NEW a \in Activations, CommitActivation(a),
           NEW n, n = Len(issued) + 1, NEW d, d = OwnerOf[actKey[a]]
    PROVE  /\ actKey[a] \in Keys /\ keys[actKey[a]] = "unconsumed"
           /\ keys' = [keys EXCEPT ![actKey[a]] = "consumed"]
           /\ keys' \in [Keys -> {"none", "unconsumed", "consumed", "invalidated"}]
           /\ n \in Nat \ {0}
           /\ DOMAIN issued = 1 .. n - 1 /\ DOMAIN issued' = 1 .. n
           /\ issued' \in Seq(Keys) /\ Len(issued') = n
           /\ issued'[n] = actKey[a]
           /\ \A i \in DOMAIN issued : issued'[i] = issued[i]
           /\ d \in Devices
           /\ device' \in [Devices -> Device]
           /\ \A e \in Devices \ {d} : device'[e] = device[e]
           /\ device'[d].id = IF device[d].id = 0 THEN n ELSE device[d].id
           /\ device'[d].secret = n
           /\ actSaw' = [actSaw EXCEPT ![a] = actSaw'[a]]
           /\ actSaw'[a] \in Device
           /\ actSaw'[a].id = device'[d].id /\ actSaw'[a].secret = n
<1>1. actKey[a] \in Keys /\ keys[actKey[a]] = "unconsumed"
  BY DEF IInv, Handlers, CommitActivation
<1>2. d \in Devices
  BY <1>1, CredentialAssumption
<1>3. issued \in Seq(Keys) /\ issued' = Append(issued, actKey[a])
  BY DEF IInv, TypeOK, CommitActivation
<1>4. /\ n \in Nat \ {0} /\ Len(issued) \in Nat
      /\ DOMAIN issued = 1 .. n - 1 /\ DOMAIN issued' = 1 .. n
      /\ issued' \in Seq(Keys) /\ Len(issued') = n
      /\ issued'[n] = actKey[a]
      /\ \A i \in DOMAIN issued : issued'[i] = issued[i]
  BY <1>1, <1>3, AppendSpec
<1> DEFINE saw == actSaw[a]
           new == Activate(saw, n)
<1>5. /\ saw \in Device /\ saw.id = device[d].id /\ saw.secret <= Len(issued)
      /\ saw.id \in Nat /\ saw.secret \in Nat
      /\ device \in [Devices -> Device] /\ actSaw \in [Activations -> Device]
  BY DEF IInv, TypeOK, Handlers, CommitActivation, Device
<1>6. /\ new \in Device /\ new.secret = n
      /\ new.id = IF saw.id = 0 THEN n ELSE saw.id
  BY <1>4, <1>5 DEF Activate, Device, Status
<1>7. /\ device' = [device EXCEPT ![d] = SaveChanges(device[d], saw, new)]
      /\ actSaw' = [actSaw EXCEPT ![a] = new]
      /\ keys' = [keys EXCEPT ![actKey[a]] = "consumed"]
  BY DEF CommitActivation
<1>8. device[d] \in Device
  BY <1>2, <1>5
<1>9. keys' \in [Keys -> {"none", "unconsumed", "consumed", "invalidated"}]
  BY <1>1, <1>7 DEF IInv, TypeOK
<1> HIDE DEF saw, new
<1>10. new.secret # saw.secret
  BY <1>4, <1>5, <1>6
<1>11. /\ SaveChanges(device[d], saw, new) \in Device
       /\ SaveChanges(device[d], saw, new).secret = n
       /\ SaveChanges(device[d], saw, new).id
            = IF device[d].id = 0 THEN n ELSE device[d].id
  BY <1>5, <1>6, <1>8, <1>10 DEF SaveChanges, Device
<1> QED
  BY <1>1, <1>2, <1>4, <1>5, <1>6, <1>7, <1>9, <1>11

\* A committed regeneration leaves ids alone and may only take the secret away.
LEMMA RegenerationEffect ==
    ASSUME IInv, NEW r \in Regenerations, NEW new \in Keys, CommitRegeneration(r, new)
    PROVE  /\ device' \in [Devices -> Device]
           /\ keys' \in [Keys -> {"none", "unconsumed", "consumed", "invalidated"}]
           /\ \A d \in Devices :
                /\ device'[d].id = device[d].id
                /\ device'[d].secret \in {device[d].secret, 0}
                /\ device'[d].status \in {device[d].status, "reactivation_required"}
           /\ issued' = issued
           /\ keys' = [k \in Keys |-> IF k = new THEN "unconsumed"
                                      ELSE IF k \in regenKeys[r] THEN "invalidated"
                                      ELSE keys[k]]
           /\ keys[new] = "none" /\ OwnerOf[new] = regenOf[r]
<1> DEFINE d == regenOf[r]
           saw == regenSaw[r]
           save == SaveChanges(device[d], saw, RequireReactivation(saw))
<1>1. device \in [Devices -> Device] /\ d \in Devices /\ saw \in Device
  BY DEF IInv, TypeOK
<1>2. /\ RequireReactivation(saw) \in Device
      /\ RequireReactivation(saw).id = saw.id
      /\ RequireReactivation(saw).secret \in {saw.secret, 0}
      /\ RequireReactivation(saw).status \in {saw.status, "reactivation_required"}
  BY <1>1 DEF RequireReactivation, Device, Status
<1>3. device' = [device EXCEPT ![d] = save]
  BY DEF CommitRegeneration
<1>4. /\ save \in Device /\ save.id = device[d].id
      /\ save.secret \in {device[d].secret, 0}
      /\ save.status \in {device[d].status, "reactivation_required"}
  <2> HIDE DEF d, saw
  <2> QED
    BY <1>1, <1>2 DEF SaveChanges, Device
<1> HIDE DEF save
<1>5. /\ issued' = issued /\ keys[new] = "none" /\ OwnerOf[new] = d
      /\ keys' = [k \in Keys |-> IF k = new THEN "unconsumed"
                                 ELSE IF k \in regenKeys[r] THEN "invalidated"
                                 ELSE keys[k]]
  BY DEF CommitRegeneration, KeysOf
<1>6. keys' \in [Keys -> {"none", "unconsumed", "consumed", "invalidated"}]
  BY <1>5 DEF IInv, TypeOK
<1> QED
  BY <1>1, <1>3, <1>4, <1>5, <1>6

-----------------------------------------------------------------------------
(* Preservation of the parts *)

\* Every action keeps every variable to its type.
LEMMA TypeOKStep == IInv /\ [Next]_vars => TypeOK'
<1> SUFFICES ASSUME IInv, [Next]_vars PROVE TypeOK'
  OBVIOUS
<1>a. ASSUME NEW r \in Regenerations, NEW new \in Keys, CommitRegeneration(r, new)
      PROVE  /\ device' \in [Devices -> Device] /\ issued' = issued
             /\ keys' \in [Keys -> {"none", "unconsumed", "consumed", "invalidated"}]
  BY <1>a, RegenerationEffect
<1>b. ASSUME NEW a \in Activations, CommitActivation(a)
      PROVE  /\ device' \in [Devices -> Device] /\ issued' \in Seq(Keys)
             /\ actSaw' \in [Activations -> Device]
             /\ keys' \in [Keys -> {"none", "unconsumed", "consumed", "invalidated"}]
  <2>1. /\ device' \in [Devices -> Device] /\ issued' \in Seq(Keys)
        /\ keys' \in [Keys -> {"none", "unconsumed", "consumed", "invalidated"}]
        /\ actSaw' = [actSaw EXCEPT ![a] = actSaw'[a]] /\ actSaw'[a] \in Device
    BY <1>b, ActivationEffect
  <2>2. actSaw \in [Activations -> Device]
    BY DEF IInv, TypeOK
  <2> QED
    BY <2>1, <2>2
<1>c. TypeOK /\ Handlers /\ NewKey /\ OwnSecret /\ Standing
  BY DEF IInv
<1> USE <1>c
<1> USE CredentialAssumption DEF TypeOK, Device, Status, NewDevice, NoGift,
        backend, activation, regeneration, disk, memory, bounds
<1>1. ASSUME NEW r \in Regenerations, NEW d \in Devices, ReadDevice(r, d) PROVE TypeOK'
  BY <1>1, ZenonT(40) DEF ReadDevice
<1>2. ASSUME NEW r \in Regenerations, ReadKeys(r) PROVE TypeOK'
  BY <1>2 DEF ReadKeys, Unconsumed, KeysOf
<1>3. ASSUME NEW r \in Regenerations, NEW new \in Keys, CommitRegeneration(r, new)
      PROVE  TypeOK'
  <2>1. /\ UNCHANGED <<disclosed, activation, regenOf, disk, memory, bounds>>
        /\ regenPc' = [regenPc EXCEPT ![r] = "committed"]
        /\ regenNew' = [regenNew EXCEPT ![r] = new]
        /\ regenSaw' = [regenSaw EXCEPT ![r] = NewDevice]
        /\ regenKeys' = [regenKeys EXCEPT ![r] = {}]
    BY <1>3 DEF CommitRegeneration
  <2> QED
    BY <1>3, <1>a, <2>1, ZenonT(40)
<1>4. ASSUME NEW r \in Regenerations, RollBack(r) PROVE TypeOK'
  BY <1>4, SMTT(30) DEF RollBack, EndRegeneration
<1>5. ASSUME NEW r \in Regenerations, Disclose(r) PROVE TypeOK'
  <2>1. disclosed' \subseteq Keys
    BY <1>5 DEF Disclose, NewKey
  <2> QED
    BY <1>5, <2>1 DEF Disclose, EndRegeneration
<1>6. ASSUME NEW a \in Activations, LockKey(a) PROVE TypeOK'
  BY <1>6 DEF LockKey
<1>7. ASSUME NEW a \in Activations, LoadDevice(a) PROVE TypeOK'
  <2>1. actKey[a] \in Keys /\ OwnerOf[actKey[a]] \in Devices
    BY <1>7, CredentialAssumption DEF LoadDevice, Handlers
  <2> QED
    BY <1>7, <2>1 DEF LoadDevice
<1>8. ASSUME NEW a \in Activations, CommitActivation(a) PROVE TypeOK'
  BY <1>8, <1>b, ZenonT(40) DEF CommitActivation
<1>9. ASSUME NEW a \in Activations, FailActivation(a) PROVE TypeOK'
  BY <1>9, SMTT(30) DEF FailActivation
<1>10. ASSUME NEW a \in Activations, DropResponse(a) PROVE TypeOK'
  BY <1>10 DEF DropResponse, EndActivation
<1>11. ASSUME NEW k \in Keys, ProvisionKey(k) PROVE TypeOK'
  BY <1>11 DEF ProvisionKey
<1>12. ASSUME NEW a \in Activations, StartWithKey(a) PROVE TypeOK'
  <2>1. keyFile \in Keys
    BY <1>12 DEF StartWithKey
  <2> QED
    BY <1>12, <2>1 DEF StartWithKey
<1>13. ASSUME StartLocked PROVE TypeOK'
  BY <1>13 DEF StartLocked
<1>14. ASSUME StartOperational PROVE TypeOK'
  BY <1>14 DEF StartOperational
<1>15. ASSUME ReceiveIdentity PROVE TypeOK'
  <2>1. waiting \in Activations
    BY <1>15 DEF ReceiveIdentity, Standing
  <2>2. gift' \in [id : Nat, secret : Nat]
    BY <1>15, <2>1 DEF ReceiveIdentity, Device
  <2> QED
    BY <1>15, <2>1, <2>2 DEF ReceiveIdentity, EndActivation
<1>16. ASSUME ActivationFails PROVE TypeOK'
  BY <1>16 DEF ActivationFails, Exit
<1>17. ASSUME StoreIdentity PROVE TypeOK'
  <2>1. gift.id \in Nat \ {0} /\ gift.secret \in DOMAIN issued
    BY <1>17 DEF StoreIdentity, OwnSecret, Belongs
  <2>2. gift.secret \in Nat \ {0}
    BY <2>1
  <2>3. identity' = Stored(gift) /\ gift' = NoGift
    BY <1>17 DEF StoreIdentity
  <2>4. /\ Stored(gift) \in [id : Nat, secret : Nat, locked : BOOLEAN]
        /\ Stored(gift).id # 0 /\ Stored(gift).secret # 0 /\ ~Stored(gift).locked
    BY <2>1, <2>2 DEF Stored, StoredId
  <2> QED
    BY <1>17, <2>3, <2>4, SMTT(30) DEF StoreIdentity
<1>18. ASSUME DeleteKey PROVE TypeOK'
  BY <1>18 DEF DeleteKey
<1>19. ASSUME StartComponents PROVE TypeOK'
  BY <1>19 DEF StartComponents
<1>20. ASSUME StartFails PROVE TypeOK'
  BY <1>20, SMTT(30) DEF StartFails, Exit, Fault
<1>21. ASSUME Validate PROVE TypeOK'
  BY <1>21 DEF Validate
<1>22. ASSUME SendValidation PROVE TypeOK'
  BY <1>22 DEF SendValidation
<1>23. ASSUME CarryOn PROVE TypeOK'
  BY <1>23 DEF CarryOn
<1>24. ASSUME ReceiveRejection PROVE TypeOK'
  BY <1>24 DEF ReceiveRejection
<1>25. ASSUME Lock PROVE TypeOK'
  <2>1. identity.secret # 0
    BY <1>25 DEF Lock, Standing
  <2>2. identity' = [id |-> identity.id, secret |-> 0, locked |-> TRUE]
    BY <1>25 DEF Lock
  <2>3. /\ identity' \in [id : Nat, secret : Nat, locked : BOOLEAN]
        /\ identity'.id # 0 /\ identity'.secret = 0 /\ identity'.locked
    BY <2>1, <2>2
  <2> QED
    BY <1>25, <2>3 DEF Lock
<1>26. ASSUME LockFails PROVE TypeOK'
  BY <1>26 DEF LockFails, Fault
<1>27. ASSUME Stop PROVE TypeOK'
  BY <1>27, SMTT(30) DEF Stop, Exit
<1>28. CASE UNCHANGED vars
  BY <1>28, SMTT(30) DEF vars
<1> QED
  BY <1>1, <1>2, <1>3, <1>4, <1>5, <1>6, <1>7, <1>8, <1>9, <1>10, <1>11,
     <1>12, <1>13, <1>14, <1>15, <1>16, <1>17, <1>18, <1>19, <1>20, <1>21,
     <1>22, <1>23, <1>24, <1>25, <1>26, <1>27, <1>28 DEF Next, Regenerate,
     HandleActivation, StartUp, Monitor

\* The ids and the secrets that are there stay.
LEMMA TablesGrow ==
    ASSUME IInv, [Next]_vars
    PROVE  /\ \A d \in Devices : device[d].id # 0 => device'[d].id = device[d].id
           /\ \A n \in DOMAIN issued : n \in DOMAIN issued' /\ issued'[n] = issued[n]
<1>1. ASSUME NEW r \in Regenerations, NEW new \in Keys, CommitRegeneration(r, new)
      PROVE  /\ \A d \in Devices : device'[d].id = device[d].id
             /\ issued' = issued
  BY <1>1, RegenerationEffect
<1>2. ASSUME NEW a \in Activations, CommitActivation(a)
      PROVE  /\ \A d \in Devices : device[d].id # 0 => device'[d].id = device[d].id
             /\ \A n \in DOMAIN issued : n \in DOMAIN issued' /\ issued'[n] = issued[n]
  BY <1>2, ActivationEffect
<1> QED
  BY <1>1, <1>2, OnlyCommitsWrite

\* A secret keeps belonging to the device it was issued to.
LEMMA BelongsKept ==
    ASSUME IInv, [Next]_vars, NEW i, NEW s, Belongs(i, s)
    PROVE  Belongs(i, s)'
<1>1. s \in DOMAIN issued /\ issued[s] \in Keys
  BY DEF Belongs, IInv, TypeOK
<1>2. OwnerOf[issued[s]] \in Devices
  BY <1>1, CredentialAssumption
<1> QED
  BY <1>1, <1>2, TablesGrow DEF Belongs

\* Of two keys of a device one at most is unconsumed.
LEMMA OneKeyStep == IInv /\ [Next]_vars => OneKey'
<1> SUFFICES ASSUME IInv, [Next]_vars PROVE OneKey'
  OBVIOUS
<1>1. ASSUME NEW r \in Regenerations, NEW new \in Keys, CommitRegeneration(r, new)
      PROVE  OneKey'
  <2>1. \A k \in Keys : OwnerOf[k] = regenOf[r] /\ keys[k] = "unconsumed"
                            => k \in regenKeys[r]
    BY <1>1 DEF CommitRegeneration, NoConflict, Unconsumed, KeysOf
  <2>2. OwnerOf[new] = regenOf[r]
    BY <1>1, RegenerationEffect
  <2>3. \A k \in Keys : keys'[k] = "unconsumed" => k = new \/ keys[k] = "unconsumed"
    BY <1>1, RegenerationEffect
  <2>4. \A k \in Keys : keys'[k] = "unconsumed" /\ OwnerOf[k] = OwnerOf[new] => k = new
    BY <1>1, <2>1, <2>2, <2>3, RegenerationEffect
  <2> QED
    BY <2>3, <2>4 DEF IInv, OneKey
<1>2. ASSUME NEW a \in Activations, CommitActivation(a) PROVE OneKey'
  <2>1. \A k \in Keys : keys'[k] = "unconsumed" => keys[k] = "unconsumed"
    BY <1>2 DEF CommitActivation, IInv, TypeOK
  <2> QED
    BY <2>1 DEF IInv, OneKey
<1>3. CASE UNCHANGED <<keys, device, issued>>
  BY <1>3 DEF IInv, OneKey
<1> QED
  BY <1>1, <1>2, <1>3, OnlyCommitsWrite

\* The keys that bought secrets are spent.
LEMMA SpentStep == IInv /\ [Next]_vars => Spent'
<1> SUFFICES ASSUME IInv, [Next]_vars PROVE Spent'
  OBVIOUS
<1>0. /\ issued \in Seq(Keys) /\ Len(issued) \in Nat /\ DOMAIN issued = 1 .. Len(issued)
      /\ \A n \in DOMAIN issued : issued[n] \in Keys
      /\ keys \in [Keys -> {"none", "unconsumed", "consumed", "invalidated"}]
      /\ \A d \in Devices : device[d].secret \in Nat
  BY DEF IInv, TypeOK, Device
<1>1. ASSUME NEW r \in Regenerations, NEW new \in Keys, CommitRegeneration(r, new)
      PROVE  Spent'
  <2>1. /\ issued' = issued /\ keys[new] = "none"
        /\ \A k \in Keys \ {new} : keys'[k] \in {keys[k], "invalidated"}
        /\ \A d \in Devices : device'[d].secret \in {device[d].secret, 0}
    BY <1>1, RegenerationEffect
  <2> QED
    BY <1>0, <2>1 DEF IInv, Spent
<1>2. ASSUME NEW a \in Activations, CommitActivation(a) PROVE Spent'
  <2> DEFINE n == Len(issued) + 1
  <2>1. /\ DOMAIN issued' = 1 .. n /\ Len(issued') = n
        /\ issued'[n] = actKey[a] /\ actKey[a] \in Keys
        /\ \A i \in DOMAIN issued : issued'[i] = issued[i]
        /\ keys' = [keys EXCEPT ![actKey[a]] = "consumed"]
        /\ \A e \in Devices : device'[e].secret \in {device[e].secret, n}
    BY <1>2, ActivationEffect
  <2>2. \A i \in DOMAIN issued' : keys'[issued'[i]] \in {"consumed", "invalidated"}
    BY <1>0, <2>1 DEF IInv, Spent
  <2>3. \A d \in Devices : device'[d].secret <= Len(issued')
    BY <1>0, <2>1 DEF IInv, Spent
  <2> QED
    BY <2>2, <2>3 DEF Spent
<1>3. CASE UNCHANGED <<keys, device, issued>>
  BY <1>3 DEF IInv, Spent
<1> QED
  BY <1>1, <1>2, <1>3, OnlyCommitsWrite

\* A spent key cannot buy a second secret.
LEMMA KeysBuyOnceStep == IInv /\ [Next]_vars => KeysBuyOnce'
<1> SUFFICES ASSUME IInv, [Next]_vars PROVE KeysBuyOnce'
  OBVIOUS
<1>1. ASSUME NEW a \in Activations, CommitActivation(a) PROVE KeysBuyOnce'
  <2> DEFINE n == Len(issued) + 1
  <2>1. /\ n \in Nat /\ DOMAIN issued = 1 .. n - 1 /\ DOMAIN issued' = 1 .. n
        /\ issued'[n] = actKey[a] /\ keys[actKey[a]] = "unconsumed"
        /\ \A i \in DOMAIN issued : issued'[i] = issued[i]
    BY <1>1, ActivationEffect
  <2>2. \A i \in DOMAIN issued : issued[i] # actKey[a]
    BY <2>1 DEF IInv, Spent
  <2> QED
    BY <2>1, <2>2 DEF IInv, KeysBuyOnce
<1>2. ASSUME NEW r \in Regenerations, NEW new \in Keys, CommitRegeneration(r, new)
      PROVE  KeysBuyOnce'
  BY <1>2, RegenerationEffect DEF IInv, KeysBuyOnce
<1>3. CASE UNCHANGED <<keys, device, issued>>
  BY <1>3 DEF IInv, KeysBuyOnce
<1> QED
  BY <1>1, <1>2, <1>3, OnlyCommitsWrite

\* Only the administrator's handlers write their own state.
LEMMA RegenerationFrame == [Next]_vars => UNCHANGED regeneration \/ Regenerate
<1> USE DEF regeneration
<1>1. HandleActivation => UNCHANGED regeneration
  BY DEF HandleActivation, LockKey, LoadDevice, CommitActivation, FailActivation,
         DropResponse
<1>2. StartUp => UNCHANGED regeneration
  BY DEF StartUp, ProvisionKey, StartWithKey, StartLocked, StartOperational,
         ReceiveIdentity, ActivationFails, StoreIdentity, DeleteKey,
         StartComponents, StartFails
<1>3. Monitor \/ Stop => UNCHANGED regeneration
  BY DEF Monitor, Validate, SendValidation, CarryOn, ReceiveRejection, Lock,
         LockFails, Stop
<1>4. UNCHANGED vars => UNCHANGED regeneration
  BY DEF vars
<1> QED
  BY <1>1, <1>2, <1>3, <1>4 DEF Next

\* Only the activation handlers, and the Agent that sends and receives, write
\* the state of an activation.
LEMMA ActivationFrame ==
    [Next]_vars =>
        \/ UNCHANGED activation
        \/ HandleActivation
        \/ \E a \in Activations : StartWithKey(a)
        \/ ReceiveIdentity
<1> USE DEF activation
<1>1. Regenerate => UNCHANGED activation
  BY DEF Regenerate, ReadDevice, ReadKeys, RollBack, Disclose, CommitRegeneration
<1>2. StartUp =>
        \/ UNCHANGED activation
        \/ \E a \in Activations : StartWithKey(a)
        \/ ReceiveIdentity
  BY DEF StartUp, ProvisionKey, StartLocked, StartOperational, ActivationFails,
         StoreIdentity, DeleteKey, StartComponents, StartFails
<1>3. Monitor \/ Stop => UNCHANGED activation
  BY DEF Monitor, Validate, SendValidation, CarryOn, ReceiveRejection, Lock,
         LockFails, Stop
<1>4. UNCHANGED vars => UNCHANGED activation
  BY DEF vars
<1> QED
  BY <1>1, <1>2, <1>3, <1>4 DEF Next

\* The Backend's handlers touch neither the Agent's disk nor its memory.
LEMMA AgentFrame ==
    [Next]_vars => UNCHANGED <<disk, memory>> \/ StartUp \/ Monitor \/ Stop
<1> USE DEF disk, memory
<1>1. Regenerate => UNCHANGED <<disk, memory>>
  BY DEF Regenerate, ReadDevice, ReadKeys, RollBack, Disclose, CommitRegeneration
<1>2. HandleActivation => UNCHANGED <<disk, memory>>
  BY DEF HandleActivation, LockKey, LoadDevice, CommitActivation, FailActivation,
         DropResponse
<1>3. UNCHANGED vars => UNCHANGED <<disk, memory>>
  BY DEF vars
<1> QED
  BY <1>1, <1>2, <1>3 DEF Next

\* A regeneration commits with the key it has generated.
LEMMA NewKeyStep == IInv /\ [Next]_vars => NewKey'
<1> SUFFICES ASSUME IInv, [Next]_vars PROVE NewKey'
  OBVIOUS
<1>0. NewKey /\ regenNew \in [Regenerations -> Keys \cup {NoKey}]
      /\ regenPc \in [Regenerations -> {"idle", "read", "staged", "committed"}]
  BY DEF IInv, TypeOK
<1>1. CASE UNCHANGED regeneration
  BY <1>0, <1>1 DEF regeneration, NewKey
<1>2. ASSUME NEW r \in Regenerations, NEW new \in Keys, CommitRegeneration(r, new)
      PROVE  NewKey'
  BY <1>0, <1>2 DEF CommitRegeneration, NewKey
<1>3. ASSUME NEW r \in Regenerations,
             (\E d \in Devices : ReadDevice(r, d)) \/ ReadKeys(r)
      PROVE  NewKey'
  BY <1>0, <1>3 DEF ReadDevice, ReadKeys, NewKey
<1>4. ASSUME NEW r \in Regenerations, RollBack(r) \/ Disclose(r) PROVE NewKey'
  BY <1>0, <1>4 DEF RollBack, Disclose, EndRegeneration, NewKey
<1> QED
  BY <1>1, <1>2, <1>3, <1>4, RegenerationFrame DEF Regenerate

\* The update lock admits one activation of a key at a time.
LEMMA LocksExcludeStep == IInv /\ [Next]_vars => LocksExclude'
<1> SUFFICES ASSUME IInv, [Next]_vars PROVE LocksExclude'
  OBVIOUS
<1>0. /\ LocksExclude
      /\ actPc \in [Activations -> {"idle", "sent", "locked", "ready", "accepted",
                                    "refused"}]
      /\ actKey \in [Activations -> Keys \cup {NoKey}]
      /\ waiting \in Activations \cup {NoOne} /\ (pc = "activating" => waiting # NoOne)
  BY DEF IInv, TypeOK, Standing
<1>1. CASE UNCHANGED activation
  BY <1>0, <1>1 DEF activation, LocksExclude
<1>2. ASSUME NEW a \in Activations, LockKey(a) PROVE LocksExclude'
  <2>1. \A b \in Activations :
            actPc[b] \in {"locked", "ready"} => actKey[b] # actKey[a]
    BY <1>2 DEF LockKey, MayLock, Held
  <2>2. /\ actKey' = actKey
        /\ \A b \in Activations \ {a} : actPc'[b] = actPc[b]
    BY <1>0, <1>2 DEF LockKey
  <2> QED
    BY <1>0, <2>1, <2>2 DEF LocksExclude
<1>3. ASSUME NEW a \in Activations, LoadDevice(a) \/ CommitActivation(a)
      PROVE  LocksExclude'
  BY <1>0, <1>3 DEF LoadDevice, CommitActivation, LocksExclude
<1>4. ASSUME NEW a \in Activations, FailActivation(a) \/ DropResponse(a)
      PROVE  LocksExclude'
  BY <1>0, <1>4 DEF FailActivation, DropResponse, EndActivation, LocksExclude
<1>5. ASSUME NEW a \in Activations, StartWithKey(a) PROVE LocksExclude'
  BY <1>0, <1>5 DEF StartWithKey, LocksExclude
<1>6. CASE ReceiveIdentity
  BY <1>0, <1>6 DEF ReceiveIdentity, EndActivation, LocksExclude
<1> QED
  BY <1>1, <1>2, <1>3, <1>4, <1>5, <1>6, ActivationFrame DEF HandleActivation

\* Neither a regeneration nor another activation changes what an activation
\* that holds its key's lock has read.
LEMMA HandlersStep == IInv /\ [Next]_vars => Handlers'
<1> SUFFICES ASSUME IInv, [Next]_vars PROVE Handlers'
  OBVIOUS
<1>0. /\ actPc \in [Activations -> {"idle", "sent", "locked", "ready", "accepted",
                                    "refused"}]
      /\ actKey \in [Activations -> Keys \cup {NoKey}]
      /\ actSaw \in [Activations -> Device]
      /\ keyFile \in Keys \cup {NoKey}
      /\ waiting \in Activations \cup {NoOne} /\ (pc = "activating" => waiting # NoOne)
      /\ Handlers
  BY DEF IInv, TypeOK, Standing
<1> DEFINE Good(a) ==
        /\ actPc[a] # "idle" => actKey[a] \in Keys
        /\ actPc[a] \in {"locked", "ready"} => keys[actKey[a]] = "unconsumed"
        /\ actPc[a] = "ready" =>
                /\ actSaw[a].id = device[OwnerOf[actKey[a]]].id
                /\ actSaw[a].secret <= Len(issued)
        /\ actPc[a] = "accepted" => Belongs(actSaw[a].id, actSaw[a].secret)
<1>1. ASSUME NEW r \in Regenerations, NEW new \in Keys, CommitRegeneration(r, new)
      PROVE  Handlers'
  <2> SUFFICES ASSUME NEW a \in Activations PROVE Good(a)'
    BY DEF Handlers
  <2>1. UNCHANGED activation /\ issued' = issued
    BY <1>1 DEF CommitRegeneration
  <2>2. ASSUME actPc[a] \in {"locked", "ready"}
        PROVE  /\ keys'[actKey[a]] = "unconsumed"
               /\ device'[OwnerOf[actKey[a]]].id = device[OwnerOf[actKey[a]]].id
    <3>1. actKey[a] \in Keys /\ keys[actKey[a]] = "unconsumed"
      BY <1>0, <2>2 DEF Handlers
    <3>2. actKey[a] \notin regenKeys[r]
      BY <1>1, <2>2 DEF CommitRegeneration, MaySave, Held
    <3>3. OwnerOf[actKey[a]] \in Devices
      BY <3>1, CredentialAssumption
    <3> QED
      BY <1>1, <3>1, <3>2, <3>3, RegenerationEffect
  <2>3. actPc[a] = "accepted" => Belongs(actSaw[a].id, actSaw[a].secret)'
    BY <1>0, <2>1, BelongsKept DEF Handlers, activation, Belongs
  <2> QED
    BY <1>0, <2>1, <2>2, <2>3 DEF Handlers, activation
<1>2. ASSUME NEW b \in Activations, CommitActivation(b) PROVE Handlers'
  <2> SUFFICES ASSUME NEW a \in Activations PROVE Good(a)'
    BY DEF Handlers
  <2> DEFINE n == Len(issued) + 1
             d == OwnerOf[actKey[b]]
  <2>1. /\ actPc' = [actPc EXCEPT ![b] = "accepted"] /\ actKey' = actKey
        /\ \A c \in Activations \ {b} : actSaw'[c] = actSaw[c]
        /\ actPc[b] = "ready"
    BY <1>0, <1>2 DEF CommitActivation
  <2>2. /\ actKey[b] \in Keys /\ keys[actKey[b]] = "unconsumed"
        /\ keys' = [keys EXCEPT ![actKey[b]] = "consumed"]
        /\ n \in Nat \ {0} /\ n - 1 = Len(issued)
        /\ DOMAIN issued' = 1 .. n /\ Len(issued') = n /\ issued'[n] = actKey[b]
        /\ d \in Devices /\ \A e \in Devices \ {d} : device'[e] = device[e]
        /\ device'[d].id = IF device[d].id = 0 THEN n ELSE device[d].id
        /\ actSaw'[b].id = device'[d].id /\ actSaw'[b].secret = n
    BY <1>2, ActivationEffect
  <2>3. CASE a = b
    <3>1. actSaw'[b].id \in Nat \ {0}
      BY <2>2 DEF IInv, TypeOK, Device
    <3>2. Belongs(actSaw[a].id, actSaw[a].secret)'
      BY <2>2, <2>3, <3>1 DEF Belongs
    <3> QED
      BY <1>0, <2>1, <2>2, <2>3, <3>2
  <2>4. CASE a # b
    <3>1. actPc'[a] = actPc[a] /\ actKey'[a] = actKey[a] /\ actSaw'[a] = actSaw[a]
      BY <1>0, <2>1, <2>4
    <3>2. ASSUME actPc[a] \in {"locked", "ready"}
          PROVE  /\ keys'[actKey[a]] = "unconsumed"
                 /\ device'[OwnerOf[actKey[a]]] = device[OwnerOf[actKey[a]]]
      <4>1. actKey[a] \in Keys /\ keys[actKey[a]] = "unconsumed"
        BY <1>0, <3>2 DEF Handlers
      <4>2. actKey[a] # actKey[b]
        BY <2>1, <2>4, <3>2 DEF IInv, LocksExclude
      <4>3. OwnerOf[actKey[a]] # d
        BY <2>2, <4>1, <4>2 DEF IInv, OneKey
      <4>4. OwnerOf[actKey[a]] \in Devices
        BY <4>1, CredentialAssumption
      <4>5. keys \in [Keys -> {"none", "unconsumed", "consumed", "invalidated"}]
        BY DEF IInv, TypeOK
      <4> QED
        BY <2>2, <4>1, <4>2, <4>3, <4>4, <4>5
    <3>3. actPc[a] = "ready" => actSaw[a].secret <= Len(issued')
      <4>1. actSaw[a].secret \in Nat
        BY <1>0 DEF Device
      <4> QED
        BY <1>0, <2>2, <4>1 DEF Handlers
    <3>4. actPc[a] = "accepted" => Belongs(actSaw[a].id, actSaw[a].secret)'
      BY <1>0, <3>1, BelongsKept DEF Handlers, Belongs
    <3> QED
      BY <1>0, <3>1, <3>2, <3>3, <3>4 DEF Handlers
  <2> QED
    BY <2>3, <2>4
<1>3. CASE UNCHANGED <<keys, device, issued>>
  <2> USE DEF Handlers, Belongs
  <2>1. CASE UNCHANGED activation
    BY <1>0, <1>3, <2>1 DEF activation
  <2>2. ASSUME NEW a \in Activations, LockKey(a) PROVE Handlers'
    BY <1>0, <1>3, <2>2 DEF LockKey
  <2>3. ASSUME NEW a \in Activations, LoadDevice(a) PROVE Handlers'
    <3>1. actKey[a] \in Keys /\ OwnerOf[actKey[a]] \in Devices
      BY <1>0, <2>3, CredentialAssumption DEF LoadDevice
    <3>2. device[OwnerOf[actKey[a]]].secret <= Len(issued)
      BY <3>1 DEF IInv, Spent
    <3> QED
      BY <1>0, <1>3, <2>3, <3>1, <3>2 DEF LoadDevice
  <2>4. ASSUME NEW a \in Activations, FailActivation(a) PROVE Handlers'
    BY <1>0, <1>3, <2>4 DEF FailActivation
  <2>5. ASSUME NEW a \in Activations, DropResponse(a) PROVE Handlers'
    BY <1>0, <1>3, <2>5 DEF DropResponse, EndActivation
  <2>6. ASSUME NEW a \in Activations, StartWithKey(a) PROVE Handlers'
    BY <1>0, <1>3, <2>6 DEF StartWithKey
  <2>7. CASE ReceiveIdentity
    BY <1>0, <1>3, <2>7 DEF ReceiveIdentity, EndActivation
  <2> QED
    BY <1>2, <2>1, <2>2, <2>3, <2>4, <2>5, <2>6, <2>7, ActivationFrame
       DEF HandleActivation
<1> QED
  BY <1>1, <1>2, <1>3, OnlyCommitsWrite

\* The Agent's steps move it through its start-up and its validations; each
\* point keeps what it needs.
LEMMA StandingStep == IInv /\ [Next]_vars => Standing'
<1> SUFFICES ASSUME IInv, [Next]_vars PROVE Standing'
  OBVIOUS
<1>0. /\ Standing /\ waiting \in Activations \cup {NoOne}
      /\ NoOne \notin Activations
      /\ pc = "storing" => gift.secret # 0
  <2>1. \A n \in DOMAIN issued : n # 0
    BY DEF IInv, TypeOK
  <2> QED
    BY <2>1, CredentialAssumption DEF IInv, TypeOK, OwnSecret, Belongs
<1> USE <1>0 DEF Standing, disk, memory
<1>1. CASE UNCHANGED <<disk, memory>>
  BY <1>1
<1>2. ASSUME NEW k \in Keys, ProvisionKey(k) PROVE Standing'
  BY <1>2 DEF ProvisionKey
<1>3. ASSUME NEW a \in Activations, StartWithKey(a) PROVE Standing'
  BY <1>3 DEF StartWithKey
<1>4. CASE StartLocked
  BY <1>4 DEF StartLocked
<1>5. CASE StartOperational
  BY <1>5 DEF StartOperational
<1>6. CASE ReceiveIdentity
  BY <1>6 DEF ReceiveIdentity
<1>7. CASE ActivationFails
  BY <1>7 DEF ActivationFails, Exit
<1>8. CASE StoreIdentity
  BY <1>8 DEF StoreIdentity, Stored
<1>9. CASE DeleteKey
  BY <1>9 DEF DeleteKey
<1>10. CASE StartComponents
  BY <1>10 DEF StartComponents
<1>11. CASE StartFails
  BY <1>11 DEF StartFails, Exit
<1>12. CASE Validate
  BY <1>12 DEF Validate
<1>13. CASE SendValidation
  BY <1>13 DEF SendValidation
<1>14. CASE CarryOn
  BY <1>14 DEF CarryOn
<1>15. CASE ReceiveRejection
  BY <1>15 DEF ReceiveRejection
<1>16. CASE Lock
  BY <1>16 DEF Lock
<1>17. CASE LockFails
  BY <1>17 DEF LockFails
<1>18. CASE Stop
  BY <1>18 DEF Stop, Exit
<1> QED
  BY <1>1, <1>2, <1>3, <1>4, <1>5, <1>6, <1>7, <1>8, <1>9, <1>10, <1>11, <1>12,
     <1>13, <1>14, <1>15, <1>16, <1>17, <1>18, AgentFrame DEF StartUp, Monitor

\* The Agent takes over an accepted identity only if its own device id, or none,
\* is stored; then and later both belong to one device.
LEMMA OwnSecretStep == IInv /\ [Next]_vars => OwnSecret'
<1> SUFFICES ASSUME IInv, [Next]_vars PROVE OwnSecret'
  OBVIOUS
<1>0. OwnSecret
  BY DEF IInv
<1>1. \A i, s : Belongs(i, s) => Belongs(i, s)'
  BY BelongsKept
<1>2. CASE /\ identity' = identity
           /\ pc' = "storing" => pc = "storing" /\ gift' = gift
  BY <1>0, <1>1, <1>2 DEF OwnSecret, Belongs, SameDevice
<1>3. CASE ReceiveIdentity
  <2>1. /\ waiting \in Activations /\ actSaw[waiting] \in Device
        /\ Belongs(actSaw[waiting].id, actSaw[waiting].secret)
    BY <1>3 DEF ReceiveIdentity, IInv, Standing, Handlers, TypeOK
  <2>2. /\ gift' = [id |-> actSaw[waiting].id, secret |-> actSaw[waiting].secret]
        /\ SameDevice(actSaw[waiting].id) /\ identity' = identity
        /\ pc' = "storing"
    BY <1>3 DEF ReceiveIdentity, disk
  <2>3. Belongs(gift.id, gift.secret)'
    BY <1>1, <2>1, <2>2 DEF Belongs
  <2>4. identity'.secret # 0 => Belongs(identity.id, identity.secret)'
    BY <1>0, <1>1, <2>2 DEF OwnSecret, Belongs
  <2> QED
    BY <2>2, <2>3, <2>4 DEF OwnSecret, SameDevice
<1>4. CASE StoreIdentity
  <2>1. Belongs(gift.id, gift.secret) /\ SameDevice(gift.id)
    BY <1>0, <1>4 DEF StoreIdentity, OwnSecret
  <2>2. identity' = Stored(gift) /\ pc' = "deleting"
    BY <1>4 DEF StoreIdentity
  <2>3. identity'.id = gift.id /\ identity'.secret = gift.secret
    BY <2>1, <2>2 DEF Stored, StoredId, SameDevice
  <2>4. Belongs(identity.id, identity.secret)'
    BY <1>1, <2>1, <2>3 DEF Belongs
  <2> QED
    BY <2>2, <2>4 DEF OwnSecret
<1>5. CASE Lock
  <2>1. identity'.secret = 0 /\ pc' = "locked"
    BY <1>5 DEF Lock, IInv, TypeOK
  <2> QED
    BY <2>1 DEF OwnSecret
<1>6. \/ /\ identity' = identity
         /\ pc' = "storing" => pc = "storing" /\ gift' = gift
      \/ ReceiveIdentity \/ StoreIdentity \/ Lock
  <2> USE DEF disk, memory
  <2>1. StartUp =>
            \/ identity' = identity /\ (pc' = "storing" => pc = "storing" /\ gift' = gift)
            \/ ReceiveIdentity \/ StoreIdentity
    BY DEF StartUp, ProvisionKey, StartWithKey, StartLocked, StartOperational,
           ActivationFails, DeleteKey, StartComponents, StartFails, Exit
  <2>2. Monitor =>
            \/ identity' = identity /\ (pc' = "storing" => pc = "storing" /\ gift' = gift)
            \/ Lock
    BY DEF Monitor, Validate, SendValidation, CarryOn, ReceiveRejection, LockFails
  <2>3. Stop => identity' = identity /\ pc' = "down"
    BY DEF Stop, Exit
  <2> QED
    BY <2>1, <2>2, <2>3, AgentFrame
<1> QED
  BY <1>2, <1>3, <1>4, <1>5, <1>6

\* A secret that is refused is never accepted again.
LEMMA RefusedForGood ==
    ASSUME IInv, [Next]_vars, NEW i, NEW s \in DOMAIN issued, ~Authenticates(i, s)
    PROVE  ~Authenticates(i, s)'
<1>0. /\ s \in Nat \ {0} /\ s < Len(issued) + 1
      /\ device \in [Devices -> Device]
  BY DEF IInv, TypeOK
<1>1. ASSUME NEW r \in Regenerations, NEW new \in Keys, CommitRegeneration(r, new)
      PROVE  ~Authenticates(i, s)'
  <2>1. \A d \in Devices :
            /\ device'[d].id = device[d].id
            /\ device'[d].secret \in {device[d].secret, 0}
            /\ device'[d].status \in {device[d].status, "reactivation_required"}
    BY <1>1, RegenerationEffect
  <2> QED
    BY <1>0, <2>1 DEF Authenticates
<1>2. ASSUME NEW a \in Activations, CommitActivation(a)
      PROVE  ~Authenticates(i, s)'
  <2> DEFINE n == Len(issued) + 1
             d == OwnerOf[actKey[a]]
  <2>1. /\ \A e \in Devices \ {d} : device'[e] = device[e]
        /\ device'[d].secret = n
    BY <1>2, ActivationEffect
  <2>2. s # n
    BY <1>0
  <2> QED
    BY <2>1, <2>2 DEF Authenticates
<1>3. CASE UNCHANGED <<keys, device, issued>>
  BY <1>3 DEF Authenticates
<1> QED
  BY <1>1, <1>2, <1>3, OnlyCommitsWrite

\* Between the Backend's refusal and the lock the secret stays refused.
LEMMA JustifiedStep == IInv /\ [Next]_vars => Justified'
<1> SUFFICES ASSUME IInv, [Next]_vars,
                    answer' = "rejected" \/ pc' \in {"rejectedAtStart", "rejected"}
             PROVE  ~Authenticates(identity.id, identity.secret)'
  BY DEF Justified
<1> DEFINE held == answer = "rejected" \/ pc \in {"rejectedAtStart", "rejected"}
           refused == ~Authenticates(identity.id, identity.secret)
<1>1. held => refused
  BY DEF IInv, Justified
<1>2. /\ identity' = identity
      /\ held \/ Validate
  <2> USE DEF disk, memory
  <2>0. Standing
    BY DEF IInv
  <2>1. CASE UNCHANGED <<disk, memory>>
    BY <2>1
  <2>2. CASE StartUp
    BY <2>0, <2>2
       DEF StartUp, ProvisionKey, StartWithKey, StartLocked, StartOperational,
           ReceiveIdentity, ActivationFails, StoreIdentity, DeleteKey,
           StartComponents, StartFails, Exit, Standing
  <2>3. CASE Monitor
    BY <2>0, <2>3
       DEF Monitor, Validate, SendValidation, CarryOn, ReceiveRejection, Lock,
           LockFails, ConfirmedRejection, Standing
  <2>4. CASE Stop
    BY <2>4 DEF Stop, Exit
  <2> QED
    BY <2>1, <2>2, <2>3, <2>4, AgentFrame
<1>3. held => identity.secret \in DOMAIN issued
  BY DEF IInv, Standing, OwnSecret, Belongs
<1>4. CASE held
  <2>1. \A i, s : s \in DOMAIN issued /\ ~Authenticates(i, s) => ~Authenticates(i, s)'
    BY RefusedForGood
  <2> QED
    BY <1>1, <1>2, <1>3, <1>4, <2>1 DEF Authenticates
<1>5. CASE Validate /\ ~held
  <2>1. answer' = "rejected" /\ UNCHANGED <<backend, identity>> /\ pc' = pc
    BY <1>5 DEF Validate, disk
  <2>2. refused
    BY <1>5, <2>1 DEF Validate
  <2> QED
    BY <2>1, <2>2 DEF Authenticates, backend
<1> QED
  BY <1>2, <1>4, <1>5

\* A device id, once there, stays, in the table and on the Agent's disk.
LEMMA KeepsDeviceIdStep == IInv /\ [Next]_vars => [KeepsDeviceId]_vars
<1> SUFFICES ASSUME IInv, [Next]_vars PROVE KeepsDeviceId
  OBVIOUS
<1>1. \A d \in Devices : device[d].id # 0 => device'[d].id = device[d].id
  BY TablesGrow
<1>2. identity' = identity \/ StoreIdentity \/ Lock
  <2> USE DEF disk
  <2>1. StartUp => identity' = identity \/ StoreIdentity
    BY DEF StartUp, ProvisionKey, StartWithKey, StartLocked, StartOperational,
           ReceiveIdentity, ActivationFails, DeleteKey, StartComponents, StartFails
  <2>2. Monitor => identity' = identity \/ Lock
    BY DEF Monitor, Validate, SendValidation, CarryOn, ReceiveRejection, LockFails
  <2>3. Stop => identity' = identity
    BY DEF Stop
  <2> QED
    BY <2>1, <2>2, <2>3, AgentFrame
<1>3. StoreIdentity => (identity.id # 0 => identity'.id = identity.id)
  BY DEF StoreIdentity, Stored, StoredId
<1>4. Lock => identity'.id = identity.id
  <2>1. identity \in [id : Nat, secret : Nat, locked : BOOLEAN]
    BY DEF IInv, TypeOK
  <2> QED
    BY <2>1 DEF Lock
<1> QED
  BY <1>1, <1>2, <1>3, <1>4 DEF KeepsDeviceId

\* Locking acts on a refusal that still stands.
LEMMA LocksOnlyRevokedStep == IInv /\ [Next]_vars => [LocksOnlyRevoked]_vars
<1> SUFFICES ASSUME IInv, [Next]_vars, identity'.locked, ~identity.locked
             PROVE  ~Authenticates(identity.id, identity.secret)
  BY DEF LocksOnlyRevoked
<1>1. Lock
  <2> USE DEF disk
  <2>1. StartUp => identity' = identity \/ identity'.locked = FALSE
    BY DEF StartUp, ProvisionKey, StartWithKey, StartLocked, StartOperational,
           ReceiveIdentity, ActivationFails, StoreIdentity, Stored, DeleteKey,
           StartComponents, StartFails
  <2>2. Monitor => identity' = identity \/ Lock
    BY DEF Monitor, Validate, SendValidation, CarryOn, ReceiveRejection, LockFails
  <2>3. Stop => identity' = identity
    BY DEF Stop
  <2> QED
    BY <2>1, <2>2, <2>3, AgentFrame
<1> QED
  BY <1>1 DEF Lock, IInv, Justified

-----------------------------------------------------------------------------
(* The theorems *)

\* A new installation: a branch with one unconsumed key and an Agent without
\* identity.
LEMMA InitIInv == Init => IInv
<1> SUFFICES ASSUME Init PROVE IInv
  OBVIOUS
<1> USE CredentialAssumption DEF Init
<1>1. TypeOK
  BY DEF TypeOK, Device, Status, NewDevice, NoGift, NoIdentity
<1>2. Handlers /\ NewKey /\ LocksExclude
  BY DEF Handlers, NewKey, LocksExclude
<1>3. OneKey
  BY DEF OneKey
<1>4. issued = <<>> /\ Len(issued) = 0 /\ DOMAIN issued = {}
  OBVIOUS
<1>5. Spent /\ KeysBuyOnce
  BY <1>4 DEF Spent, KeysBuyOnce, NewDevice
<1>6. OwnSecret /\ Standing /\ Justified
  BY DEF OwnSecret, Standing, Justified, NoIdentity
<1> QED
  BY <1>1, <1>2, <1>3, <1>5, <1>6 DEF IInv

\* Every reachable state of Backend and Agent satisfies the inductive
\* invariant, however their requests overlap and whatever fails.
THEOREM Inductive == Spec => []IInv
<1>1. IInv /\ [Next]_vars => IInv'
  BY TypeOKStep, HandlersStep, NewKeyStep, LocksExcludeStep, OneKeyStep, SpentStep,
     KeysBuyOnceStep, OwnSecretStep, StandingStep, JustifiedStep DEF IInv
<1> QED
  BY InitIInv, <1>1, PTL DEF Spec

\* Type correctness of the tables, the requests and the Agent's state.
THEOREM TypeCorrect == Spec => []TypeOK
<1>1. IInv => TypeOK
  BY DEF IInv
<1> QED
  BY Inductive, <1>1, PTL

\* A device never has two unconsumed keys (RegenerateActivationKeyAsync).
THEOREM OneKeyAtMost == Spec => []OneUnconsumedKey
<1>1. IInv => OneUnconsumedKey
  <2> SUFFICES ASSUME IInv, NEW d \in Devices PROVE Cardinality(Unconsumed(d)) <= 1
    BY DEF OneUnconsumedKey
  <2>1. \A j, k \in Unconsumed(d) : j = k
    BY DEF IInv, OneKey, Unconsumed, KeysOf
  <2>2. CASE Unconsumed(d) = {}
    BY <2>2, FS_EmptySet
  <2>3. ASSUME NEW k \in Unconsumed(d) PROVE Cardinality(Unconsumed(d)) <= 1
    <3>1. Unconsumed(d) = {k}
      BY <2>1
    <3>2. Cardinality({k}) = 1
      BY FS_Singleton
    <3> QED
      BY <3>1, <3>2
  <2> QED
    BY <2>2, <2>3
<1> QED
  BY Inductive, <1>1, PTL

\* An Activation Key buys one secret (ActivateAsync).
THEOREM OneSecretPerKey == Spec => []KeysBuyOnce
<1>1. IInv => KeysBuyOnce
  BY DEF IInv
<1> QED
  BY Inductive, <1>1, PTL

\* The stored secret is the stored device's own (ActivationService).
THEOREM NoForeignSecret == Spec => []SecretIsTheDevices
<1>1. IInv => SecretIsTheDevices
  BY DEF IInv, OwnSecret, Belongs, SecretIsTheDevices
<1> QED
  BY Inductive, <1>1, PTL

\* A DeviceId is assigned once (Device.Activate, replace_shared_secret).
THEOREM IdIsPermanent == Spec => DeviceIdIsPermanent
<1> QED
  BY Inductive, KeepsDeviceIdStep, PTL DEF Spec, DeviceIdIsPermanent

\* The Agent locks itself only while its secret is refused
\* (CredentialValidationMonitor, mark_reactivation_required).
THEOREM LocksJustified == Spec => LockIsJustified
<1> QED
  BY Inductive, LocksOnlyRevokedStep, PTL DEF Spec, LockIsJustified
=============================================================================
