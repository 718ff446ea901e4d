---------------------------- MODULE MCMetaEargm ----------------------------
(* The nodes of the first EARGM need 1 W, those of the others nearly all.  *)
EXTENDS MetaEargm

MCMinPower == [e \in 1 .. Subs |-> IF e = 1 THEN 1 ELSE Def - 1]
=============================================================================
