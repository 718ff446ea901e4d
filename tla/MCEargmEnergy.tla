--------------------------- MODULE MCEargmEnergy ---------------------------
(* A budget of 10: samples of 0 and 4 reach every level.                     *)
EXTENDS EargmEnergy

Conf(t1, t2, energy, mode, grace, power) ==
    [t1 |-> t1, t2 |-> t2, energy |-> energy, mode |-> mode, grace |-> grace,
     limits |-> <<40, 70, 90>>, power |-> power]

MCConfs ==
    {Conf(1, 2, 10, 1, 1, 0),   \* automatic, no power cap
     Conf(2, 5, 10, 1, 2, 1),   \* automatic, three samples, power cap
     Conf(1, 2, 10, 0, 0, 0),   \* manual, no grace periods
     Conf(1, 2, 0, 1, 1, 1)}    \* no budget
=============================================================================
