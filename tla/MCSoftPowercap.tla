--------------------------- MODULE MCSoftPowercap ---------------------------
(* Two nodes that exceed the cap together unless both keep to their limit. *)
EXTENDS SoftPowercap

CONSTANTS n1, n2

MCNodes == {n1, n2}
=============================================================================
