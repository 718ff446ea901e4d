------------------------------ MODULE MCEardbd ------------------------------
(* Two metrics.  Each energy report fills its buffer; two aggregations, or *)
(* two metrics of the other type, fill theirs.                            *)
EXTENDS Eardbd

MCTypes == {"energy", "apps"}
MCTypesOf == {<<"energy", "energy">>, <<"apps", "energy">>}
MCAlloc == [t \in {"energy", "apps", "aggrs"} |-> IF t = "energy" THEN 1 ELSE 2]
=============================================================================
