------------------------- MODULE MCClusterPowercap -------------------------
(* Two nodes of 3 W.                                                        *)
EXTENDS ClusterPowercap, TLC

CONSTANTS n1, n2

MCNodes == {n1, n2}
MCSymmetry == Permutations(MCNodes)

Ask(status, requested, tbr) == [status |-> status, requested |-> requested, tbr |-> tbr]
MCAnswers == {Ask("OK", 0, 0), Ask("GREEDY", 2, 0), Ask("RELEASE", 0, 1)}
MCFewAnswers == MCAnswers \ {Ask("OK", 0, 0)}
=============================================================================
