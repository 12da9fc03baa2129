------------------------ MODULE MCDeviceCredential ------------------------
(***************************************************************************)
(* Instances of DeviceCredential for TLC: keys are numbers, the keys of    *)
(* one device, or of two in turn.                                          *)
(***************************************************************************)
EXTENDS DeviceCredential, TLC

CONSTANTS d1, d2

MCOneOwner == [k \in Keys |-> d1]
MCOneFirst == [d \in Devices |-> 1]
MCOwners == [k \in Keys |-> IF k % 2 = 1 THEN d1 ELSE d2]
MCFirst == [d \in Devices |-> IF d = d1 THEN 1 ELSE 2]

Symmetry == Permutations(Activations) \cup Permutations(Regenerations)
=============================================================================
