------------------------- MODULE MCEvidenceDelivery -------------------------
(* Instances of EvidenceDelivery for TLC: all events fall on one day.       *)
EXTENDS EvidenceDelivery

MCDayOf == [e \in Events |-> 1]
=============================================================================
