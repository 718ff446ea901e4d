---------------------------- MODULE EardbdTimers ----------------------------
(***************************************************************************)
(* The alarms of an EARDBD process (database_cache/eardbd_sync.c).  Two    *)
(* timeouts run, insr (insert the buffered metrics) and aggr (close an     *)
(* aggregation), and one select waits for the shorter of them: slct is     *)
(* what it waits for, left what remains of it.  Both timeouts are brought  *)
(* up to date only when the select expires, and each is compared with 0.   *)
(***************************************************************************)
EXTENDS Integers

CONSTANTS time_insr, time_aggr,  \* periods of ear.conf, in seconds
          SyncOffset             \* the seconds a full synchronisation adds

ASSUME TimersAssumption ==
    time_insr \in Nat \ {0} /\ time_aggr \in Nat \ {0} /\ SyncOffset \in Nat

\* The select waits for the shorter of the two.
time_reset_timeout_slct(t) ==
    LET time_slct == IF t.insr < t.aggr THEN t.insr ELSE t.aggr
    IN  [t EXCEPT !.slct = time_slct, !.left = time_slct]

init_time_configuration ==
    time_reset_timeout_slct([insr |-> time_insr, aggr |-> time_aggr, slct |-> 0, left |-> 0])

time_substract_timeouts(t) == [t EXCEPT !.insr = @ - t.slct, !.aggr = @ - t.slct]

\* A full synchronisation postpones the insertion of the server.  The time that
\* has passed of the current wait is added, for it will be subtracted with it.
\* tv_sec drops the fraction of what is left: seconds is left or one less.
postpone_insr(t, seconds) ==
    [t EXCEPT !.insr = time_insr + (t.slct - seconds) + SyncOffset]

\* A second of the select passes.
Second(t) == [t EXCEPT !.left = @ - 1]
=============================================================================
