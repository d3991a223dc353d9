------------------------------- MODULE MCAhci -------------------------------
(* Three ports, the second and the third with a disk. *)
EXTENDS Ahci

MCGeometry == [p \in {2, 3} |-> IF p = 2 THEN 0 ELSE 2]
============================================================================
