--------------------------- MODULE MCEargmPeriod ---------------------------
(* Up to three greedy nodes; the cap is above, at and below what they hold. *)
EXTENDS EargmPeriod

MCGreedy == {[req |-> r, extra |-> x] : r \in 0 .. 3, x \in {0, 1, 3}}
                \ {[req |-> 0, extra |-> 0]}
MCGreedyLists == UNION {[1 .. k -> MCGreedy] : k \in 0 .. 3}
=============================================================================
