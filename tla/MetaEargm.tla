----------------------------- MODULE MetaEargm -----------------------------
(***************************************************************************)
(* The meta-EARGM (global_manager/meta_eargm.c) moves power between the    *)
(* caps of its EARGMs.  Every two periods it asks each for the state it    *)
(* published (write_shared_data), decides, and sends each an increase or a *)
(* reduction of its cap.  The EARGMs are reduced to what the meta-EARGM    *)
(* sees of them: their cap and what they publish.                          *)
(***************************************************************************)
EXTENDS EargmReallocation

CONSTANTS Subs,          \* number of EARGMs under the meta-EARGM
          Def,           \* default power cap of an EARGM
          MinPower,      \* min_cluster_powercap of each, in order
          Wishes,        \* power an EARGM may want to request
          Spare,         \* power it may find free
          DefaultPower,  \* default_powercap of the meta-EARGM
          MaxFaults      \* bound on failures and on periods out of step

ASSUME MetaAssumption ==
    /\ Subs \in Nat \ {0}
    /\ Def \in Uint /\ MinPower \in [1 .. Subs -> 0 .. Def]
    /\ Wishes \subseteq Nat /\ Spare \subseteq Nat
    /\ DefaultPower \in Nat /\ MaxFaults \in Nat

VARIABLES caps,     \* current_cluster_powercap of each EARGM
          published, \* ext_powercap_data of each
          fresh,    \* the EARGMs that published since the last commands
          pos,      \* the EARGM the meta-EARGM turns to next; 0: it sleeps
          m,        \* what the meta-EARGM knows and decides
          sending,  \* it is past the decision
          faults    \* failures and periods out of step so far

meta == <<caps, published, fresh, pos, m, sending, faults>>

Field(ss, f) == [i \in DOMAIN ss |-> ss[i][f]]
-----------------------------------------------------------------------------
(* meta_reallocate_power.  m: the statuses received (ss, with the EARGM as  *)
(* id), for each the action and its value, the power no EARGM has (free),   *)
(* what they could free together, and what ASK_DEF still lacks (pending).   *)

\* The loops over the statuses: each entry takes what it can of what is left.
TakeInOrder(wants, power) ==
    [i \in DOMAIN wants |->
        ear_min(wants[i], ear_max(power - Total(SubSeq(wants, 1, i - 1)), 0))]

Act(x, action, values) ==
    [x EXCEPT !.action = [i \in DOMAIN @ |-> IF values[i] > 0 THEN action ELSE @[i]],
              !.value = [i \in DOMAIN @ |-> @[i] + values[i]],
              !.both = @ \/ \E i \in DOMAIN values :
                                values[i] > 0 /\ x.action[i] \notin {"NO", action}]

meta_aggregate_data(ss) ==
    [ss |-> ss, action |-> [i \in DOMAIN ss |-> "NO"], value |-> NoOptions(ss),
     free |-> ear_max(DefaultPower - Total(Field(ss, "powercap")), 0),
     freeable |-> Total(Field(ss, "available")), pending |-> 0, both |-> FALSE]

AskDef(ss) == [i \in DOMAIN ss |-> IF ss[i].status = "ASK_DEF" THEN ss[i].requested ELSE 0]

assign_ask_def(x) == Act(x, "INC", AskDef(x.ss))

\* A slip: no extra power is taken.
SlipKeepsExtra(x) == x

reduce_freeable_power(x, pending) ==
    LET red == TakeInOrder(Field(x.ss, "available"), pending)
        left == [i \in DOMAIN x.ss |-> [x.ss[i] EXCEPT !.available = @ - red[i]]]
    IN  [Act(x, "RED", red) EXCEPT
           !.ss = left, !.freeable = @ - Total(red), !.pending = pending - Total(red)]

reduce_extra_power(x) ==
    LET red == TakeInOrder(Field(x.ss, "extra"), x.pending)
    IN  [Act(x, "RED", red) EXCEPT !.pending = @ - Total(red)]

Greedy(ss, has_extra) ==
    [i \in DOMAIN ss |-> IF ss[i].status = "GREEDY" /\ (ss[i].extra > 0) = has_extra
                         THEN ss[i].requested ELSE 0]

\* A slip: every greedy EARGM is served, whether it holds extra power or not.
SlipServesAll(x, power, has_extra) ==
    LET give == TakeInOrder([i \in DOMAIN x.ss |-> IF x.ss[i].status = "GREEDY"
                                                  THEN x.ss[i].requested ELSE 0], power)
        left == [i \in DOMAIN x.ss |-> [x.ss[i] EXCEPT !.requested = @ - give[i]]]
    IN  [Act(x, "INC", give) EXCEPT !.ss = left]

assign_extra_power(x, power, has_extra) ==
    LET give == TakeInOrder(Greedy(x.ss, has_extra), power)
        left == [i \in DOMAIN x.ss |-> [x.ss[i] EXCEPT !.requested = @ - give[i]]]
    IN  [Act(x, "INC", give) EXCEPT !.ss = left]

\* First the free power, then what others could free.  (The return once nothing
\* is left to free changes nothing: neither is left.)
ServeGreedy(x, has_extra) ==
    LET wanted == Total(Greedy(x.ss, has_extra))
        y == [assign_extra_power(x, x.free, has_extra) EXCEPT
                 !.free = ear_max(@ - wanted, 0)]
        lent == ear_min(y.freeable, Total(Greedy(y.ss, has_extra)))
    IN  IF wanted = 0 THEN x
        ELSE IF lent = 0 THEN y
        ELSE assign_extra_power(reduce_freeable_power(y, lent), lent, has_extra)

\* A slip: the greedy EARGMs are served although extra power was taken back.
SlipNoReturn(ss) ==
    LET x == assign_ask_def(meta_aggregate_data(ss))
        lacking == ear_max(Total(AskDef(ss)) - x.free, 0)
        y == reduce_extra_power(reduce_freeable_power(x, lacking))
    IN  ServeGreedy(ServeGreedy(y, FALSE), TRUE)

meta_reallocate_power(ss) ==
    LET x == assign_ask_def(meta_aggregate_data(ss))
        wanted == Total(AskDef(ss))
        y == IF x.free >= wanted THEN [x EXCEPT !.free = @ - wanted]
             ELSE reduce_freeable_power(x, wanted - x.free)
    IN  IF y.pending > 0 THEN reduce_extra_power(y)
        ELSE ServeGreedy(ServeGreedy(y, FALSE), TRUE)
-----------------------------------------------------------------------------
MetaInit ==
    /\ caps = [e \in 1 .. Subs |-> Def]
    /\ published = [e \in 1 .. Subs |-> Unpublished]
    /\ fresh = {} /\ pos = 0 /\ sending = FALSE
    /\ m = meta_aggregate_data(<<>>)
    /\ faults = [poll |-> 0, send |-> 0, restart |-> 0, late |-> 0]

Fault(kind) ==
    /\ faults.poll + faults.send + faults.restart + faults.late < MaxFaults
    /\ faults' = [faults EXCEPT ![kind] = @ + 1]

\* The EARGMs have two periods for one of the meta-EARGM.  In step, each publishes
\* while the meta-EARGM sleeps, once and in order: what it published before is
\* overwritten unseen.  Out of step it does so at any time, or not at all.
InStep(condition) == \/ condition /\ UNCHANGED faults
                     \/ ~condition /\ Fault("late")

\* A period of an EARGM, as ClusterPowercap details it.
write_shared(e) ==
    /\ InStep(pos = 0 /\ e \notin fresh /\ 1 .. e - 1 \subseteq fresh)
    /\ \E wish \in Wishes, free \in Spare :
           published' = [published EXCEPT ![e] =
                        write_shared_data(caps[e], Def,
                            ear_min((caps[e] - MinPower[e]) % UintSize, free), wish)]
    /\ fresh' = fresh \cup {e}
    /\ UNCHANGED <<caps, pos, m, sending>>

\* An EARGM is restarted: its cap is the configured one, nothing is published.
Restart(e) ==
    /\ Fault("restart")
    /\ caps' = [caps EXCEPT ![e] = Def]
    /\ published' = [published EXCEPT ![e] = Unpublished]
    /\ fresh' = fresh \ {e}
    /\ UNCHANGED <<pos, m, sending>>

WakeUp ==
    /\ pos = 0
    /\ InStep(fresh = 1 .. Subs)
    /\ pos' = 1
    /\ UNCHANGED <<caps, published, fresh, m, sending>>

Received(e) ==
    LET s == published[e]
    IN  [id |-> e, status |-> s.status, requested |-> s.requested, available |-> s.available,
         powercap |-> s.powercap, extra |-> s.extra]

\* eargm_get_all_status: one EARGM after the other, without those that fail.
eargm_status ==
    /\ pos \in 1 .. Subs /\ ~sending
    /\ pos' = pos + 1
    /\ \/ m' = [m EXCEPT !.ss = Append(@, Received(pos))] /\ UNCHANGED faults
       \/ Fault("poll") /\ UNCHANGED m
    /\ UNCHANGED <<caps, published, fresh, sending>>

\* Statuses of all the EARGMs were asked for: decide, unless there is none.
MetaDecide ==
    /\ pos = Subs + 1 /\ ~sending
    /\ IF m.ss = <<>> THEN pos' = 0 /\ UNCHANGED <<m, sending>>
       ELSE m' = meta_reallocate_power(m.ss) /\ sending' = TRUE /\ pos' = 1
    /\ UNCHANGED <<caps, published, fresh, faults>>

cluster_powercap_inc_pc(e, inc) == caps' = [caps EXCEPT ![e] = (@ + inc) % UintSize]
cluster_powercap_red_pc(e, red) == caps' = [caps EXCEPT ![e] = IF red > @ THEN @ ELSE @ - red]

\* eargm_send_table_commands: one EARGM after the other.
eargm_send_table_commands ==
    /\ pos \in DOMAIN m.ss /\ sending
    /\ pos' = pos + 1
    /\ \/ /\ \/ m.action[pos] = "INC" /\ cluster_powercap_inc_pc(m.ss[pos].id, m.value[pos])
             \/ m.action[pos] = "RED" /\ cluster_powercap_red_pc(m.ss[pos].id, m.value[pos])
             \/ m.action[pos] = "NO" /\ UNCHANGED caps
          /\ UNCHANGED faults
       \/ m.action[pos] # "NO" /\ Fault("send") /\ UNCHANGED caps
    /\ UNCHANGED <<published, fresh, m, sending>>

Sleep ==
    /\ sending /\ pos = Len(m.ss) + 1
    /\ pos' = 0 /\ sending' = FALSE /\ fresh' = {}
    /\ m' = meta_aggregate_data(<<>>)
    /\ UNCHANGED <<caps, published, faults>>

MetaNext ==
    \/ \E e \in 1 .. Subs : write_shared(e) \/ Restart(e)
    \/ WakeUp \/ eargm_status \/ MetaDecide \/ eargm_send_table_commands \/ Sleep

MetaSpec == MetaInit /\ [][MetaNext]_meta
-----------------------------------------------------------------------------
Decided == sending /\ pos = 1
Reported(i, f) == (Field(m.ss, f))[i]

(* Caps and decisions keep their types: no unsigned subtraction of          *)
(* meta_reallocate_power wraps.                                             *)
MetaTypeOK ==
    /\ caps \in [1 .. Subs -> Uint]
    /\ pos \in 0 .. Subs + 1
    /\ {m.free, m.freeable, m.pending} \subseteq Nat
    /\ \A i \in DOMAIN m.value : m.value[i] \in Nat /\ Reported(i, "available") \in Nat

(* meta_reallocate_power has one action and one value per EARGM, and adds   *)
(* reductions and increases to the same value: no EARGM is both reduced and *)
(* increased in a period, whatever it published and however stale it is.    *)
OneDirection == ~m.both

(* "last PC_STATUS_GREEDY that have extra power": one of these is increased *)
(* only when those without extra power got all they asked for.              *)
NoExtraFirst ==
    Decided => \A i, j \in DOMAIN m.ss :
        /\ m.ss[i].status = "GREEDY" /\ m.ss[i].extra > 0 /\ m.action[i] = "INC"
        /\ m.ss[j].status = "GREEDY" /\ m.ss[j].extra = 0
        => m.ss[j].requested = 0

(* "this should never happen": when each EARGM published since the last     *)
(* commands and all answer, the power that ASK_DEF needs is there, although *)
(* commands get lost.                                                       *)
AskDefCovered ==
    faults.late + faults.poll + faults.restart = 0 /\ Decided => m.pending = 0

=============================================================================
