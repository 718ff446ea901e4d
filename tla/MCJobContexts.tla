--------------------------- MODULE MCJobContexts ----------------------------
(* A script with a step, next to a program that the scheduler knows nothing *)
(* of; and, with lost or late messages, a script with a step, two jobs, and *)
(* a job next to such a program.                                            *)
EXTENDS JobContexts

Scenario(come, alone, bound) == [come |-> come, unscheduled |-> alone, faults |-> bound]

MCApps == {<<1, "batch">>, <<1, "step">>, <<2, "step">>, <<3, "step">>}
MCScenarios ==
    {Scenario({<<1, "batch">>, <<1, "step">>, <<2, "step">>}, {<<2, "step">>}, 0),
     Scenario({<<1, "batch">>, <<1, "step">>}, {}, 2),
     Scenario({<<2, "step">>, <<3, "step">>}, {}, 1),
     Scenario({<<2, "step">>, <<3, "step">>}, {<<2, "step">>}, 1)}
=============================================================================
