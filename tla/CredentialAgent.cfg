SPECIFICATION FairSpec
CONSTANTS
    d1 = d1
    d2 = d2
    Devices = {d1, d2}
    Keys = {1, 2, 3}
    OwnerOf <- MCOwners
    FirstKey <- MCFirst
    Activations = {a1}
    Regenerations = {r1}
    NoKey = NoKey
    NoOne = NoOne
    MaxStops = 1
    MaxFaults = 1
INVARIANTS TypeOK SecretIsTheDevices
PROPERTIES DeviceIdIsPermanent LockIsJustified RevokedAgentStops
CHECK_DEADLOCK FALSE
