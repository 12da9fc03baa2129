SPECIFICATION Spec
CONSTANTS
    d1 = d1
    d2 = d2
    Devices = {d1}
    Keys = {1, 2, 3}
    OwnerOf <- MCOneOwner
    FirstKey <- MCOneFirst
    Activations = {a1, a2}
    Regenerations = {r1, r2}
    NoKey = NoKey
    NoOne = NoOne
    MaxStops = 0
    MaxFaults = 0
SYMMETRY Symmetry
INVARIANTS OneUnconsumedKey KeysBuyOnce
