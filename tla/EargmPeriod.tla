---------------------------- MODULE EargmPeriod ----------------------------
(***************************************************************************)
(* One hard power cap period of EARGM on any answer of the nodes: the two  *)
(* calls of powercap_reallocation with the release of idle power between   *)
(* them (cluster_hard_powercap).                                           *)
(***************************************************************************)
EXTENDS EargmReallocation, SequencesExt

CONSTANTS Caps,        \* cluster power caps
          Totals,      \* total_powercap of the answers
          Requested,   \* power asked for by the nodes in ASK_DEF
          Released,    \* idle power the nodes could release
          GreedyLists, \* greedy lists of the answers
          Allocated    \* greedy_allocated left by the previous period

ASSUME PeriodAssumption ==
    /\ Caps \subseteq Uint \ {0}
    /\ Totals \subseteq Uint /\ Requested \subseteq Uint
    /\ Released \subseteq Uint /\ Allocated \subseteq Uint
    /\ GreedyLists \subseteq Seq([req : Byte, extra : Uint])

VARIABLES cluster_cap, st, d, step

period == <<cluster_cap, st, d, step>>

Fresh(gs, allocated) ==
    [ret |-> TRUE, opts |-> NoOptions(gs), total_free |-> 0, must_send |-> FALSE,
     perc |-> 0, greedy_allocated |-> allocated]

PeriodInit ==
    /\ cluster_cap \in Caps
    /\ \E t \in Totals, q \in Requested, r \in Released, gs \in GreedyLists :
           st = [total |-> t, requested |-> q, released |-> r, greedy |-> gs]
    /\ st.total >= Total(ExtraPower(st.greedy))
    /\ \E a \in Allocated : d = Fresh(st.greedy, a)
    /\ step = "poll"

FirstCall ==
    /\ step = "poll"
    /\ d' = powercap_reallocation(st, cluster_cap, d)
    /\ step' = IF d'.ret THEN "done" ELSE "release"
    /\ UNCHANGED <<cluster_cap, st>>

\* The nodes answer what they released, which is not what the poll announced
\* when one started or ended a job in between, or its answer was lost.
SecondCall ==
    /\ step = "release"
    /\ \E rel \in Released :
           /\ rel <= st.total
           /\ LET after == [st EXCEPT !.released = 0, !.total = @ - rel]
              IN  /\ st' = after
                  /\ d' = powercap_reallocation(after, cluster_cap, d)
    /\ step' = "done"
    /\ UNCHANGED cluster_cap

PeriodNext == FirstCall \/ SecondCall

PeriodSpec == PeriodInit /\ [][PeriodNext]_period
-----------------------------------------------------------------------------
Need == st.total + st.requested
Given == Total(d.opts)

(* cluster_hard_powercap hands out no more than is free: what the nodes     *)
(* hold, what those in ASK_DEF take and the shares of the greedy ones fit   *)
(* the cap, no node gets more than it asks for, and total_free, which EARGM *)
(* later offers to its meta-EARGM, is what the shares leave.                *)
GrantsFitCap ==
    step = "done" /\ Need <= cluster_cap
        => /\ Need + Given <= cluster_cap
           /\ d.total_free = cluster_cap - Need - Given
           /\ \A i \in DOMAIN d.opts : d.opts[i] \in 0 .. st.greedy[i].req

(* reduce_allocation takes back exactly what is missing, or all the extra   *)
(* power there is when that is less, and from no node more than the extra   *)
(* power it holds, so that none drops below its default.                    *)
ReductionIsExact ==
    step = "done" /\ Need > cluster_cap
        => /\ 0 - Given = ear_min(Need - cluster_cap, Total(ExtraPower(st.greedy)))
           /\ \A i \in DOMAIN d.opts : 0 - d.opts[i] \in 0 .. st.greedy[i].extra

(* Stage 1 comes first: a node that already holds extra power is given more *)
(* only when each of the others got something or asked for nothing.         *)
NewGreedyFirst ==
    \A i, j \in DOMAIN d.opts :
        d.opts[i] > 0 /\ st.greedy[i].extra > 0
        /\ st.greedy[j].req > 0 /\ st.greedy[j].extra = 0 => d.opts[j] > 0

(* The loops of the code, entry by entry, with what is still to share in    *)
(* hand: StageLoop is one pass of allocate_free_power_to_greedy_nodes over  *)
(* the entries that qualify, and RoundLoop one of reduce_allocation.        *)
StageLoop(gs, s, Qualifies(_), share(_)) ==
    FoldLeftDomain(LAMBDA a, i : IF ~Qualifies(i) THEN a
                                 ELSE [opts |-> [a.opts EXCEPT ![i] = share(i)],
                                       pending |-> a.pending - share(i)], s, gs)

RoundLoop(gs, s, least(_)) ==
    FoldLeftDomain(LAMBDA a, i :
                     LET red == ear_min(ear_min(least(i), gs[i].extra + a.opts[i]), a.pending)
                     IN  [opts |-> [a.opts EXCEPT ![i] = @ - red], pending |-> a.pending - red],
                   s, gs)

(* The shares of cluster_hard_powercap are those its loops reach.           *)
LoopsAgree ==
    LET gs == st.greedy
        a == aggregate_data(gs)
        new(i) == gs[i].req > 0 /\ gs[i].extra = 0
        start(p) == [opts |-> NoOptions(gs), pending |-> p]
        one == StageLoop(gs, start(cluster_cap), new,
                   LAMBDA i : IF a.req_no_extra < cluster_cap THEN gs[i].req
                              ELSE ear_min(cluster_cap \div a.num_no_extra, gs[i].req))
        two == StageLoop(gs, one, LAMBDA i : gs[i].req > 0 /\ one.opts[i] = 0 /\ one.pending > 0,
                   LAMBDA i : ear_min(gs[i].req, one.pending \div a.num_greedy))
        first == RoundLoop(gs, start(cluster_cap), LAMBDA i : cluster_cap \div a.num_extra)
        second == RoundLoop(gs, first, LAMBDA i : cluster_cap)
        got == allocate_free_power_to_greedy_nodes(gs, [d EXCEPT !.total_free = cluster_cap])
    IN  step = "poll" =>
          /\ a.num_greedy > 0 => got.opts = two.opts /\ got.total_free = two.pending
          /\ a.num_extra > 0 => reduce_allocation(gs, NoOptions(gs), cluster_cap) = second.opts
=============================================================================
