------------------------- MODULE EargmReallocation -------------------------
(***************************************************************************)
(* How EARGM shares the cluster power cap (global_manager/                 *)
(* cluster_powercap.c): the arithmetic of one hard power cap period.  The  *)
(* greedy list is a sequence of [req, extra], what a node requests and the *)
(* power it holds beyond its default; the options answer a share to each   *)
(* of its entries, negative when power is taken back.                      *)
(***************************************************************************)
EXTENDS PowercapOps, Sequences, FiniteSets, Functions

\* The sum of a sequence of numbers.
Total(s) == SumFunction(s)

Requests(gs) == [i \in DOMAIN gs |-> gs[i].req]
ExtraPower(gs) == [i \in DOMAIN gs |-> gs[i].extra]
NoOptions(gs) == [i \in DOMAIN gs |-> 0]

aggregate_data(gs) ==
    LET new == {i \in DOMAIN gs : gs[i].req > 0 /\ gs[i].extra = 0}
    IN  [total_req_greedy |-> Total(Requests(gs)),
         extra_power_alloc |-> Total(ExtraPower(gs)),
         req_no_extra |-> Total([i \in DOMAIN gs |-> IF i \in new THEN gs[i].req ELSE 0]),
         num_no_extra |-> Cardinality(new),
         num_greedy |-> Cardinality({i \in DOMAIN gs : gs[i].req > 0}),
         num_extra |-> Cardinality({i \in DOMAIN gs : gs[i].extra > 0})]
-----------------------------------------------------------------------------
\* A slip of stage 1: the nodes that hold extra power already are served instead
\* of the others.
SlipOldFirst(gs, free) ==
    [i \in DOMAIN gs |-> IF gs[i].extra > 0
                         THEN ear_min(free \div aggregate_data(gs).num_greedy, gs[i].req) ELSE 0]

\* Stage 1 serves the nodes that hold no extra power, stage 2 the others (and
\* those that stage 1 left with nothing).
Stage1(gs, free) ==
    LET a == aggregate_data(gs)
        share(g) == IF a.req_no_extra < free THEN g.req
                    ELSE ear_min(free \div a.num_no_extra, g.req)
    IN  [i \in DOMAIN gs |-> IF gs[i].req > 0 /\ gs[i].extra = 0
                             THEN share(gs[i]) ELSE 0]

\* A slip of stage 2: the pending power is given to each node, not shared.
SlipNotShared(gs, first, pending) ==
    [i \in DOMAIN gs |-> IF first[i] = 0 THEN ear_min(gs[i].req, pending) ELSE first[i]]

Stage2(gs, first, pending) ==
    LET more_power == pending \div aggregate_data(gs).num_greedy
    IN  [i \in DOMAIN gs |-> IF pending > 0 /\ gs[i].req > 0 /\ first[i] = 0
                             THEN ear_min(gs[i].req, more_power) ELSE first[i]]

\* d: the decision so far, see powercap_reallocation.
allocate_free_power_to_greedy_nodes(gs, d) ==
    LET first == Stage1(gs, d.total_free)
        opts == Stage2(gs, first, (d.total_free - Total(first)) % UintSize)
    IN  IF aggregate_data(gs).num_greedy = 0 \/ d.total_free = 0 THEN d
        ELSE [d EXCEPT !.must_send = TRUE, !.opts = opts,
                       !.total_free = (d.total_free - Total(opts)) % UintSize,
                       !.greedy_allocated = Total(opts)]

\* Slips: round 1 takes the average whatever the node holds; there is no round 2.
SlipTakesAverage(gs, min_reduction) ==
    LET red_node == min_reduction \div aggregate_data(gs).num_extra
    IN  [i \in DOMAIN gs |-> IF gs[i].extra > 0 THEN 0 - red_node ELSE 0]
SlipOneRound(gs, first, missing) == first

\* Round 1 takes the average from each node with extra power, round 2 what is
\* still missing from the nodes in the order of the list.
Round1(gs, min_reduction) ==
    LET red_node == min_reduction \div aggregate_data(gs).num_extra
    IN  [i \in DOMAIN gs |-> 0 - ear_min(red_node, gs[i].extra)]

Round2(gs, first, missing) ==
    LET left == [i \in DOMAIN gs |-> gs[i].extra + first[i]]
        before(i) == Total(SubSeq(left, 1, i - 1))
    IN  [i \in DOMAIN gs |-> IF before(i) >= missing THEN first[i]
                             ELSE first[i] - ear_min(left[i], missing - before(i))]

reduce_allocation(gs, opts, min_reduction) ==
    LET first == Round1(gs, min_reduction)
    IN  IF aggregate_data(gs).num_extra = 0 THEN opts
        ELSE Round2(gs, first, min_reduction + Total(first))

\* The uint8_t percentage, which the nodes only compare with MAX_PERC_POWER.
cluster_perc_power(total, cap) ==
    IF ((total * 100) \div cap) % 256 > MAX_PERC_POWER THEN MAX_PERC_POWER + 1 ELSE 0

\* st: the aggregated status [total, requested, released, greedy]; cap the
\* cluster power cap; d what the period has decided so far: ret (FALSE asks to
\* release idle power and call again), opts, total_free, must_send, perc and
\* greedy_allocated (a global that only an allocation resets).
powercap_reallocation(st, cap, d) ==
    LET gs == st.greedy
        wanted == aggregate_data(gs).total_req_greedy
        need == (st.total + st.requested) % UintSize
        e == [d EXCEPT !.ret = TRUE, !.perc = cluster_perc_power(st.total, cap),
                       !.must_send = @ \/ st.requested > 0,
                       !.total_free = IF st.requested > 0 /\ need <= cap THEN cap - need
                                      ELSE (cap - st.total) % UintSize]
    IN  CASE need <= cap /\ wanted = 0 -> e
          [] need <= cap /\ wanted > 0 /\ wanted <= e.total_free ->
                 [e EXCEPT !.total_free = @ - wanted, !.opts = Requests(gs), !.must_send = TRUE]
          [] need <= cap /\ wanted > e.total_free /\ st.released = 0 ->
                 allocate_free_power_to_greedy_nodes(gs, e)
          [] need > cap /\ st.released = 0 ->
                 [e EXCEPT !.opts = reduce_allocation(gs, e.opts, need - cap),
                           !.total_free = 0, !.must_send = TRUE]
          [] OTHER -> [e EXCEPT !.ret = FALSE]

\* What is handed to the thread that answers the meta-EARGM; default: the cap
\* EARGM was configured with.
write_shared_data(cap, default, freeable, requested) ==
    LET below == requested > 0 /\ default > cap
    IN  [status |-> IF below THEN "ASK_DEF" ELSE IF requested > 0 THEN "GREEDY" ELSE "OK",
         requested |-> IF below THEN ear_min(requested, default - cap) ELSE requested,
         available |-> IF requested > 0 THEN 0 ELSE freeable,
         powercap |-> cap, extra |-> ear_max(cap - default, 0)]

\* Before the first period has been published.
Unpublished == [status |-> "OK", requested |-> 0, available |-> 0, powercap |-> 0, extra |-> 0]
=============================================================================
