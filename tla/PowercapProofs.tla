--------------------------- MODULE PowercapProofs ---------------------------
(***************************************************************************)
(* The power cap for every size of the C types, every cluster,             *)
(* configuration and interleaving.  One node: what it reports as allocated *)
(* is what it enforces.  The soft power cap: as long as no message is      *)
(* lost, EARGM knows from risk alone that no node is limited.  The shares  *)
(* of the hard power cap: what powercap_reallocation gives stays within    *)
(* the cap, in the order and by the amounts it is meant to.                *)
(***************************************************************************)
EXTENDS NodePowercap, SoftPowercap, EargmPeriod, EarLemmas

-----------------------------------------------------------------------------
(* One node. *)

\* The inductive invariant: AllocatedIsEnforced, with the mode that goes with it.
IInv == /\ TypeOK
        /\ ready => node.cur = node.last
        /\ ready /\ ~manual => Held(node)
-----------------------------------------------------------------------------
\* An ear message leaves the cap and the allocation alone.
LEMMA EarMessage ==
    ASSUME NEW n \in Node, NEW msg \in Messages
    PROVE  LET m == powercap_process_message(n, msg)
           IN  m \in Node /\ m.cur = n.cur /\ m.last = n.last
  <1>1. msg.total \in Uint
    BY NodeAssumption
  <1> QED  BY <1>1, Zenon DEF powercap_process_message, Node

\* powercap_init establishes the invariant.
LEMMA InitHolds == Init => IInv
  <1> SUFFICES ASSUME NEW conf \in Confs, NEW pmgt_ok \in BOOLEAN,
                      node = powercap_init(conf, MaxPowercap, pmgt_ok),
                      ready = (conf # 0 /\ pmgt_ok), jobs = 0, manual = FALSE
               PROVE  IInv
    BY Zenon DEF Init
  <1>1. conf \in Uint /\ MaxPowercap \in Uint /\ 0 \in 0 .. MaxJobs
    BY NodeAssumption
  <1>2. node \in Node /\ (ready => node.cur = node.last /\ Held(node))
    BY <1>1, NodeInit, Zenon
  <1> QED  BY <1>1, <1>2, Zenon DEF IInv, TypeOK

\* A step that is a call on the node, whatever it does to the number of jobs.
LEMMA CallHolds ==
    ASSUME IInv, Keeps(node, node'), jobs' \in 0 .. MaxJobs,
           UNCHANGED <<ready, manual>>
    PROVE  IInv'
  BY DEF IInv, TypeOK, Keeps, Held

\* Every call, command and message keeps it.
LEMMA NextHolds == IInv /\ [Next]_vars => IInv'
  <1> SUFFICES ASSUME IInv, [Next]_vars
               PROVE  IInv'
    OBVIOUS
  <1> USE NodeAssumption
  <1>0. node \in Node /\ jobs \in 0 .. MaxJobs
    BY DEF IInv, TypeOK
  <1>1. CASE powermon_new_job
    <2> DEFINE m == IF jobs = 0 THEN powercap_idle_to_run(node) ELSE node
    <2>1. Keeps(node, m) /\ m \in Node
      BY <1>0, IdleToRun, KeepsReflexive DEF Keeps
    <2>2. Keeps(node, node')
      BY <1>1, <2>1, Reallocate, KeepsTransitive DEF powermon_new_job
    <2>3. jobs' \in 0 .. MaxJobs /\ UNCHANGED <<ready, manual>>
      BY <1>0, <1>1 DEF powermon_new_job
    <2> QED  BY <2>2, <2>3, CallHolds
  <1>2. CASE powermon_end_job
    <2> DEFINE m == reallocate_power_between_domains(node)
    <2>1. Keeps(node, m) /\ m \in Node
      BY <1>0, Reallocate DEF Keeps
    <2>2. Keeps(node, powercap_run_to_idle(m))
      BY <2>1, RunToIdle, KeepsTransitive
    <2>3. Keeps(node, node')
      BY <1>2, <2>1, <2>2 DEF powermon_end_job
    <2>4. jobs' \in 0 .. MaxJobs /\ UNCHANGED <<ready, manual>>
      BY <1>0, <1>2 DEF powermon_end_job
    <2> QED  BY <2>3, <2>4, CallHolds
  <1>3. ASSUME NEW release_power \in BOOLEAN, dyncon_get_powerstatus(release_power)
        PROVE  IInv'
    <2>1. PICK cpu \in Domains, gpu \in Domains :
              node' = powercap_get_status(node, pmgt_get_status(node, cpu, gpu),
                                          release_power)
      BY <1>3 DEF dyncon_get_powerstatus
    <2>2. cpu \in DomainStatus /\ gpu \in DomainStatus
      OBVIOUS
    <2> DEFINE p == pmgt_get_status(node, cpu, gpu)
    <2>3. p.status \in {"OK", "GREEDY", "RELEASE"} /\ p.tbr \in Uint
      BY <1>0, <2>2, DomainAnswer
    <2> HIDE DEF p
    <2>4. Keeps(node, powercap_get_status(node, p, release_power))
      BY <1>0, <2>3, GetStatus
    <2>5. Keeps(node, node')
      BY <2>1, <2>4 DEF p
    <2>6. jobs' \in 0 .. MaxJobs /\ UNCHANGED <<ready, manual>>
      BY <1>0, <1>3 DEF dyncon_get_powerstatus
    <2> QED  BY <2>5, <2>6, CallHolds
  <1>4. CASE set_powercap_opt
    <2>1. Keeps(node, node')
      <3>1. PICK listed \in BOOLEAN, extra \in Extras, perc \in Percs :
                node' = powercap_set_opt(node, listed, extra, perc)
        BY <1>4 DEF set_powercap_opt
      <3>2. extra \in Int /\ perc \in Nat
        OBVIOUS
      <3> QED  BY <1>0, <3>1, <3>2, SetOpt
    <2>2. jobs' \in 0 .. MaxJobs /\ UNCHANGED <<ready, manual>>
      BY <1>0, <1>4 DEF set_powercap_opt
    <2> QED  BY <2>1, <2>2, CallHolds
  <1>5. CASE dyncon_release_idle_power
    <2>1. Keeps(node, node') /\ jobs' \in 0 .. MaxJobs /\ UNCHANGED <<ready, manual>>
      BY <1>0, <1>5, ReleaseIdle DEF dyncon_release_idle_power
    <2> QED  BY <2>1, CallHolds
  <1>6. CASE EAR_RC_RED_POWER \/ EAR_RC_INC_POWER
    <2>1. Keeps(node, node') /\ UNCHANGED <<jobs, ready, manual>>
      BY <1>0, <1>6, ChangeDefault DEF EAR_RC_RED_POWER, EAR_RC_INC_POWER, Command
    <2> QED  BY <1>0, <2>1, CallHolds
  <1>7. CASE EAR_RC_SET_POWER
    <2>1. PICK l \in SetLimits : Command(set_powercap_value(node, l))
      BY <1>7 DEF EAR_RC_SET_POWER
    <2>2. Keeps(node, node') /\ UNCHANGED <<jobs, ready, manual>>
      BY <1>0, <2>1, SetValue DEF Command, Keeps
    <2> QED  BY <1>0, <2>2, CallHolds
  <1>8. CASE EAR_RC_DEF_POWERCAP
    <2>1. Keeps(node, node') /\ UNCHANGED <<jobs, ready, manual>>
      BY <1>0, <1>8, ResetDefault DEF EAR_RC_DEF_POWERCAP, Command
    <2> QED  BY <1>0, <2>1, CallHolds
  <1>9. CASE ear_message
    <2>1. PICK msg \in Messages : node' = powercap_process_message(node, msg)
      BY <1>9 DEF ear_message
    <2>2. node' \in Node /\ node'.cur = node.cur /\ node'.last = node.last
      BY <1>0, <2>1, EarMessage
    <2>3. manual' = TRUE /\ UNCHANGED <<jobs, ready>>
      BY <1>9 DEF ear_message
    <2> QED  BY <2>2, <2>3 DEF IInv, TypeOK
  <1>10. CASE periodic_metric
    <2>1. Keeps(node, node') /\ UNCHANGED <<jobs, ready, manual>>
      BY <1>0, <1>10, PeriodicMetric DEF periodic_metric
    <2> QED  BY <1>0, <2>1, CallHolds
  <1>11. CASE UNCHANGED vars
    BY <1>11 DEF IInv, TypeOK, Held, vars
  <1> QED  BY <1>1, <1>2, <1>3, <1>4, <1>5, <1>6, <1>7, <1>8, <1>9, <1>10, <1>11, Zenon DEF Next
-----------------------------------------------------------------------------
(* The inductive invariant holds of one node under every order of calls.    *)
THEOREM Invariance == Spec => []IInv
  BY InitHolds, NextHolds, PTL DEF Spec

(* The fields of my_pc_opt keep their C types under every order of calls.   *)
THEOREM Typing == Spec => []TypeOK
  <1>1. IInv => TypeOK
    BY DEF IInv
  <1> QED  BY <1>1, Invariance, PTL

(* What a node reports to hold is the cap it has in force, and the limit of *)
(* its domains unless an ear message took them over: for every              *)
(* configuration, every size of the C types and every order of calls.       *)
THEOREM AllocationIsEnforced == Spec => []AllocatedIsEnforced
  <1>1. IInv => AllocatedIsEnforced
    BY DEF IInv, AllocatedIsEnforced, Held
  <1> QED  BY <1>1, Invariance, PTL

(* A status request never raises what a node holds, and leaves it alone     *)
(* unless EARGM asks (the release_power branch of powercap_get_status).     *)
THEOREM PollsRelease == Spec => PollsOnlyRelease
  <1>1. ASSUME IInv, ready, NEW release_power \in BOOLEAN,
               dyncon_get_powerstatus(release_power)
        PROVE  /\ ~manual => node'.last <= node.last
               /\ ~release_power => node'.last = node.last
    <2>1. PICK cpu \in Domains, gpu \in Domains :
              /\ cpu.exceed + gpu.exceed <= node.domains
              /\ node' = powercap_get_status(node, pmgt_get_status(node, cpu, gpu),
                                             release_power)
      BY <1>1 DEF dyncon_get_powerstatus
    <2>2. cpu \in DomainStatus /\ gpu \in DomainStatus
      BY NodeAssumption
    <2>3. node \in Node /\ node.cur = node.last /\ (~manual => Held(node))
      BY <1>1 DEF IInv, TypeOK
    <2> QED  BY <2>1, <2>2, <2>3, PollAllocation
  <1>2. IInv => [ready => /\ dyncon_get_powerstatus(TRUE) /\ ~manual
                                 => node'.last <= node.last
                          /\ dyncon_get_powerstatus(FALSE) => node'.last = node.last]_vars
    BY <1>1, Zenon
  <1> QED  BY <1>2, Invariance, PTL DEF PollsOnlyRelease
-----------------------------------------------------------------------------
(* The soft power cap. *)

\* Every node enforces the cap it was last given.
NodesHold == /\ DOMAIN pc_opt = Nodes
             /\ \A n \in Nodes : pc_opt[n] \in Node /\ Held(pc_opt[n])

\* What EARGM is about to send.
LimitTyped == /\ limit \in Uint
              /\ lost \in [losses : Nat, restarts : Nat, commands : Nat]
              /\ phase \in {"start", "sleep", "poll", "send"}
              /\ phase = "start" => limit = POWER_CAP_UNLIMITED
              /\ phase = "send" /\ limit = 0 => todo = {}

\* What the nodes were told: UnlimitedWithoutRisk over the whole period.
Told == lost.losses = 0 =>
            /\ phase \in {"start", "send"} /\ limit = POWER_CAP_UNLIMITED
                   => \A n \in Nodes \ todo : Unlimited(n)
            /\ ~risk /\ (phase \in {"sleep", "poll"} \/ (phase = "send" /\ limit = 0))
                   => AllUnlimited

SoftInv == NodesHold /\ LimitTyped /\ Told
-----------------------------------------------------------------------------
\* A node that starts is unlimited and enforces it.
LEMMA EardStarts == eard_init \in Node /\ Held(eard_init)
                        /\ eard_init.domains = POWER_CAP_UNLIMITED
  <1>1. 1 \in Uint /\ max_powercap \in Uint
    BY UintFacts, SoftAssumption
  <1> DEFINE n == powercap_init(1, max_powercap, TRUE)
  <1>2. n \in Node /\ (1 # 0 /\ TRUE => n.cur = n.last /\ Held(n))
    BY <1>1, NodeInit, Zenon
  <1>3. n.domains = POWER_CAP_UNLIMITED
    BY <1>1, UnlimitedInit, Zenon
  <1>4. eard_init = n
    BY DEF eard_init, POWER_CAP_UNLIMITED
  <1> HIDE DEF n
  <1> QED  BY <1>2, <1>3, <1>4

\* At the start all nodes are unlimited.
LEMMA SoftStarts == SoftInit => SoftInv
  <1> SUFFICES ASSUME SoftInit PROVE SoftInv
    OBVIOUS
  <1>1. NodesHold /\ AllUnlimited
    BY EardStarts DEF SoftInit, NodesHold, AllUnlimited, Unlimited
  <1>2. LimitTyped
    BY UintFacts DEF SoftInit, LimitTyped, POWER_CAP_UNLIMITED
  <1>3. Told
    BY <1>1 DEF Told, SoftInit, AllUnlimited
  <1> QED  BY <1>1, <1>2, <1>3 DEF SoftInv

\* A step that leaves the nodes alone keeps what they enforce.
LEMMA NodesStay ==
    ASSUME NodesHold, UNCHANGED pc_opt
    PROVE  NodesHold' /\ (\A n \in Nodes : Unlimited(n)' <=> Unlimited(n))
  BY DEF NodesHold, Held, Unlimited

\* Every step keeps the invariant.
LEMMA SoftSteps == SoftInv /\ [SoftNext]_soft => SoftInv'
  <1> SUFFICES ASSUME SoftInv, [SoftNext]_soft
               PROVE  SoftInv'
    OBVIOUS
  <1> USE DEF POWER_CAP_UNLIMITED
  <1>0. NodesHold /\ LimitTyped /\ Told /\ 0 \in Uint /\ 1 \in Uint
    BY UintFacts DEF SoftInv
  <1>1. ASSUME NEW n \in Nodes, ear_set_powerlimit(n)
        PROVE  SoftInv'
    <2> DEFINE told == set_powercap_value(pc_opt[n], limit)
    <2>1. pc_opt[n] \in Node /\ Held(pc_opt[n]) /\ limit \in Uint
      BY <1>0 DEF NodesHold, LimitTyped
    <2>2. told \in Node /\ Held(told)
      BY <2>1, SetValue
    <2>3. limit = 1 => told.domains = 1
      BY <2>1, SetUnlimited
    <2> HIDE DEF told
    <2>4. pc_opt' = [pc_opt EXCEPT ![n] = told]
      BY <1>1 DEF ear_set_powerlimit, told
    <2>5. NodesHold'
      BY <1>0, <2>2, <2>4 DEF NodesHold, Held
    <2>6. phase \in {"start", "send"} /\ n \in todo /\ todo' = todo \ {n}
              /\ UNCHANGED <<phase, limit, risk, lost>>
      BY <1>1 DEF ear_set_powerlimit, Reach
    <2>7. LimitTyped'
      BY <1>0, <2>6 DEF LimitTyped
    <2>8. limit # 0
      BY <1>0, <2>6 DEF LimitTyped
    <2>9. limit = 1 => \A k \in Nodes \ todo' :
                          pc_opt[k].domains = 1 => pc_opt'[k].domains = 1
      BY <1>0, <2>3, <2>4 DEF NodesHold
    <2>10. limit = 1 => pc_opt'[n].domains = 1
      BY <1>0, <2>3, <2>4 DEF NodesHold
    <2>11. Told'
      BY <1>0, <2>6, <2>8, <2>9, <2>10 DEF Told, AllUnlimited, Unlimited
    <2> QED  BY <2>5, <2>7, <2>11 DEF SoftInv
  <1>2. ASSUME NEW n \in Nodes, eard_restart(n)
        PROVE  SoftInv'
    <2>1. pc_opt' = [pc_opt EXCEPT ![n] = eard_init] /\ UNCHANGED <<phase, todo, limit, risk>>
      BY <1>2 DEF eard_restart, eargm
    <2>2. lost' \in [losses : Nat, restarts : Nat, commands : Nat]
              /\ lost'.losses = lost.losses
      BY <1>0, <1>2 DEF eard_restart, LimitTyped
    <2>3. NodesHold'
      BY <1>0, <2>1, EardStarts, Zenon DEF NodesHold, Held
    <2>4. LimitTyped'
      BY <1>0, <2>1, <2>2 DEF LimitTyped
    <2>5. \A k \in Nodes : Unlimited(k) => Unlimited(k)'
      BY <1>0, <2>1, EardStarts DEF NodesHold, Unlimited
    <2>6. Told'
      BY <1>0, <2>1, <2>2, <2>5 DEF Told, AllUnlimited
    <2> QED  BY <2>3, <2>4, <2>6 DEF SoftInv
  <1>3. CASE eargm_restart
    <2>1. UNCHANGED pc_opt /\ phase' = "start" /\ todo' = Nodes /\ limit' = 1
      BY <1>3 DEF eargm_restart
    <2>2. lost' \in [losses : Nat, restarts : Nat, commands : Nat]
      BY <1>0, <1>3 DEF eargm_restart, LimitTyped
    <2>3. LimitTyped' /\ Told'
      BY <1>0, <2>1, <2>2 DEF LimitTyped, Told
    <2> QED  BY <1>0, <2>1, <2>3, NodesStay DEF SoftInv
  <1>4. ASSUME NEW n \in Nodes, Lose(n)
        PROVE  SoftInv'
    <2>1. UNCHANGED <<pc_opt, phase, limit, risk>> /\ todo' = todo \ {n}
      BY <1>4 DEF Lose, Reach
    <2>2. lost' \in [losses : Nat, restarts : Nat, commands : Nat] /\ lost'.losses # 0
      BY <1>0, <1>4 DEF Lose, LimitTyped
    <2>3. LimitTyped' /\ Told'
      BY <1>0, <2>1, <2>2 DEF LimitTyped, Told
    <2> QED  BY <1>0, <2>1, <2>3, NodesStay DEF SoftInv
  <1>5. CASE cluster_soft_powercap
    <2>1. /\ UNCHANGED <<pc_opt, risk, lost>> /\ phase = "poll" /\ phase' = "send"
          /\ todo' = IF limit' = 0 THEN {} ELSE Nodes
          /\ limit' \in {0, 1, UintSize - 1}
          /\ UintSize - 1 \in Uint
      BY <1>5, UintSizeAssumption DEF cluster_soft_powercap, new_limit, Uint
    <2>2. LimitTyped'
      BY <1>0, <2>1 DEF LimitTyped
    <2>3. Told'
      BY <1>0, <2>1, NodesStay DEF Told, AllUnlimited
    <2> QED  BY <1>0, <2>1, <2>2, <2>3, NodesStay DEF SoftInv
  <1>6. CASE EndPeriod
    <2>1. /\ UNCHANGED <<pc_opt, lost, todo>> /\ phase = "send" /\ todo = {}
          /\ phase' = "sleep" /\ limit' = 0
          /\ ~risk' => limit = 1 \/ (~risk /\ limit = 0)
      BY <1>6, Zenon DEF EndPeriod, risk_after
    <2>2. LimitTyped'
      BY <1>0, <2>1 DEF LimitTyped
    <2>3. Told'
      BY <1>0, <2>1, NodesStay DEF Told, AllUnlimited
    <2> QED  BY <1>0, <2>1, <2>2, <2>3, NodesStay DEF SoftInv
  <1>7. CASE Started
    <2>1. /\ UNCHANGED <<pc_opt, lost, todo>> /\ phase = "start" /\ todo = {}
          /\ phase' = "sleep" /\ limit' = 0
      BY <1>7 DEF Started
    <2>2. LimitTyped'
      BY <1>0, <2>1 DEF LimitTyped
    <2>3. Told'
      BY <1>0, <2>1, NodesStay DEF Told, LimitTyped, AllUnlimited
    <2> QED  BY <1>0, <2>1, <2>2, <2>3, NodesStay DEF SoftInv
  <1>8. ASSUME \/ StartPeriod \/ CapIsUnlimited \/ UNCHANGED soft
               \/ \E n \in Nodes : dyncon_get_power(n) \/ ChangeLoad(n)
               \/ \E l \in PcSteps : cluster_powercap_set_pc(l)
        PROVE  SoftInv'
    <2>1. /\ UNCHANGED <<pc_opt, limit, risk>>
          /\ \/ UNCHANGED <<phase, todo>>
             \/ phase \in {"sleep", "poll"} /\ phase' \in {"sleep", "poll"}
      BY <1>8 DEF StartPeriod, CapIsUnlimited, dyncon_get_power, Reach, ChangeLoad,
                  cluster_powercap_set_pc, soft, eargm
    <2>2. lost' \in [losses : Nat, restarts : Nat, commands : Nat]
              /\ lost'.losses = lost.losses
      BY <1>0, <1>8 DEF StartPeriod, CapIsUnlimited, dyncon_get_power, ChangeLoad,
                        cluster_powercap_set_pc, soft, LimitTyped
    <2>3. LimitTyped'
      BY <1>0, <2>1, <2>2 DEF LimitTyped
    <2>4. Told'
      BY <1>0, <2>1, <2>2, NodesStay DEF Told, AllUnlimited
    <2> QED  BY <1>0, <2>1, <2>3, <2>4, NodesStay DEF SoftInv
  <1> QED  BY <1>1, <1>2, <1>3, <1>4, <1>5, <1>6, <1>7, <1>8 DEF SoftNext, EargmStep

(* For any number of nodes and any thresholds: while no message is lost, no *)
(* node is limited between two periods of cluster_soft_powercap without     *)
(* risk, also after EARGM or an EARD restarted in the middle of a broadcast.*)
THEOREM RiskKnowsLimits == SoftSpec => []UnlimitedWithoutRisk
  <1>1. SoftInv => UnlimitedWithoutRisk
    BY DEF SoftInv, Told, UnlimitedWithoutRisk, AllUnlimited
  <1> QED  BY <1>1, SoftStarts, SoftSteps, PTL DEF SoftSpec
-----------------------------------------------------------------------------
(* The shares of the hard power cap. *)

\* The aggregated answers of the nodes.
Answers == [total : Uint, requested : Uint, released : Uint, greedy : Seq([req : Byte, extra : Uint])]

\* What the period works with, and what its last call has decided.
PeriodInv ==
    /\ cluster_cap \in Uint /\ st \in Answers /\ d \in Decision(st.greedy)
    /\ step \in {"poll", "release", "done"}
    /\ step # "done" => d.opts = NoOptions(st.greedy)
    /\ step = "done" => Sound(st.greedy, cluster_cap, (st.total + st.requested) % UintSize, d)
    /\ NewFirst(st.greedy, d.opts)

\* The entries of a list.
LEMMA SeqFacts ==
  ASSUME NEW R, NEW s \in Seq(R)
  PROVE  DOMAIN s = 1 .. Len(s) /\ Len(s) \in Nat /\ \A i \in DOMAIN s : s[i] \in R
  OBVIOUS

\* They are what powercap_reallocation expects.
LEMMA AnswersFit == ASSUME NEW s \in Answers PROVE Status(s)
  <1> DEFINE gs == s.greedy
  <1>1. gs \in Seq([req : Byte, extra : Uint]) /\ {s.total, s.requested, s.released} \subseteq Uint
    BY DEF Answers
  <1> DEFINE R == [req : Byte, extra : Uint]
  <1>2. DOMAIN gs = 1 .. Len(gs) /\ Len(gs) \in Nat /\ \A i \in DOMAIN gs : gs[i] \in R
    <2> HIDE DEF gs, R
    <2> QED BY <1>1, SeqFacts, Zenon DEF R
  <1>4. Byte \subseteq Nat /\ Uint \subseteq Nat
    BY ByteSizeAssumption, UintFacts DEF Byte
  <1>5. GreedyList(gs)
    BY <1>2, <1>4, Zenon DEF GreedyList
  <1> QED BY <1>1, <1>5 DEF Status

\* The answers of the nodes, with nothing decided.
LEMMA PeriodStarts == PeriodInit => PeriodInv
  <1> SUFFICES ASSUME PeriodInit PROVE PeriodInv
    OBVIOUS
  <1>1. cluster_cap \in Uint
    BY PeriodAssumption DEF PeriodInit
  <1>2. st \in Answers /\ GreedyList(st.greedy)
    <2>1. PICK t \in Totals, q \in Requested, r \in Released, gs \in GreedyLists :
             st = [total |-> t, requested |-> q, released |-> r, greedy |-> gs]
      BY DEF PeriodInit
    <2> DEFINE L == Seq([req : Byte, extra : Uint])
    <2>2. t \in Uint /\ q \in Uint /\ r \in Uint /\ gs \in L
      BY PeriodAssumption, Zenon
    <2> HIDE DEF L
    <2>3. st \in [total : Uint, requested : Uint, released : Uint, greedy : L]
      BY <2>1, <2>2
    <2>4. st \in Answers
      BY <2>3 DEF L, Answers
    <2> QED BY <2>4, AnswersFit DEF Status
  <1>3. PICK a \in Allocated : d = Fresh(st.greedy, a)
    BY DEF PeriodInit
  <1>4. d.opts = NoOptions(st.greedy) /\ NoOptions(st.greedy) \in [DOMAIN st.greedy -> Int]
    BY <1>2, <1>3, NoOptionsFacts DEF Fresh
  <1>5. d \in Decision(st.greedy)
    BY <1>3, <1>4, UintFacts, PeriodAssumption DEF Fresh, Decision
  <1>6. NewFirst(st.greedy, d.opts)
    BY <1>2, <1>4, NoOptionsFacts
  <1> QED BY <1>1, <1>2, <1>4, <1>5, <1>6 DEF PeriodInv, PeriodInit

\* A call decides on answers of the right form; with nothing to release it
\* does not ask for a second one.
LEMMA PeriodSteps == PeriodInv /\ [PeriodNext]_period => PeriodInv'
  <1> SUFFICES ASSUME PeriodInv, [PeriodNext]_period PROVE PeriodInv'
    OBVIOUS
  <1>1. CASE FirstCall
    <2> DEFINE e == powercap_reallocation(st, cluster_cap, d)
               need == (st.total + st.requested) % UintSize
    <2>1. /\ Status(st) /\ cluster_cap \in Uint /\ d \in Decision(st.greedy)
          /\ d.opts = NoOptions(st.greedy)
      BY <1>1, AnswersFit DEF PeriodInv, FirstCall
    <2>2. /\ e \in Decision(st.greedy) /\ NewFirst(st.greedy, e.opts)
          /\ e.ret => Sound(st.greedy, cluster_cap, need, e)
          /\ ~e.ret => e.opts = d.opts
      BY <2>1, ReallocationResult
    <2>3. /\ d' = e /\ step' = IF e.ret THEN "done" ELSE "release"
          /\ cluster_cap' = cluster_cap /\ st' = st
      BY <1>1 DEF FirstCall
    <2> HIDE DEF e
    <2>4. CASE e.ret
      BY <2>2, <2>3, <2>4 DEF PeriodInv
    <2>5. CASE ~e.ret
      BY <2>1, <2>2, <2>3, <2>5 DEF PeriodInv
    <2> QED BY <2>4, <2>5
  <1>2. CASE SecondCall
    <2>1. PICK rel \in Released :
             /\ rel <= st.total
             /\ st' = [st EXCEPT !.released = 0, !.total = @ - rel]
             /\ d' = powercap_reallocation([st EXCEPT !.released = 0, !.total = @ - rel], cluster_cap, d)
      BY <1>2, Zenon DEF SecondCall
    <2> DEFINE after == [st EXCEPT !.released = 0, !.total = @ - rel]
               e == powercap_reallocation(after, cluster_cap, d)
               need == (after.total + after.requested) % UintSize
    <2>2. /\ after.greedy = st.greedy /\ after.requested = st.requested /\ after.released = 0
          /\ after \in Answers
      <3>1. st.total \in Uint /\ rel \in Uint /\ 0 \in Uint
        BY UintFacts, PeriodAssumption DEF PeriodInv, Answers
      <3>2. st.total - rel \in Uint
        BY <2>1, <3>1, UintDiff
      <3> QED BY <3>1, <3>2, Zenon DEF PeriodInv, Answers
    <2> HIDE DEF after
    <2>3. /\ Status(after) /\ cluster_cap \in Uint /\ d \in Decision(after.greedy)
          /\ d.opts = NoOptions(after.greedy)
      BY <1>2, <2>2, AnswersFit DEF PeriodInv, SecondCall
    <2>4. /\ e \in Decision(after.greedy) /\ NewFirst(after.greedy, e.opts)
          /\ e.ret => Sound(after.greedy, cluster_cap, need, e)
          /\ ~e.ret => after.released # 0
      BY <2>3, ReallocationResult
    <2>5. d' = e /\ st' = after /\ step' = "done" /\ cluster_cap' = cluster_cap
      BY <1>2, <2>1 DEF SecondCall, after
    <2> HIDE DEF e
    <2> QED BY <2>2, <2>3, <2>4, <2>5 DEF PeriodInv
  <1>3. CASE UNCHANGED period
    BY <1>3 DEF period, PeriodInv
  <1> QED BY <1>1, <1>2, <1>3 DEF PeriodNext

\* The sum the code compares with the cap, when it does not wrap.
LEMMA PeriodNeed ==
  ASSUME PeriodInv, Need < UintSize \/ Need <= cluster_cap
  PROVE  /\ (st.total + st.requested) % UintSize = Need
         /\ DOMAIN d.opts = DOMAIN st.greedy
  <1>1. st.total \in Uint /\ st.requested \in Uint /\ cluster_cap \in Uint
    BY DEF PeriodInv, Answers
  <1>2. Need < UintSize
    BY <1>1, UintSizeAssumption DEF Uint, Need
  <1>3. DOMAIN d.opts = DOMAIN st.greedy
    BY DEF PeriodInv, Decision
  <1> QED BY <1>1, <1>2, <1>3, UintSum DEF Need

\* The invariant of the period.
LEMMA PeriodAlways == PeriodSpec => []PeriodInv
  BY PeriodStarts, PeriodSteps, PTL DEF PeriodSpec

(* For every cap and all answers of any number of nodes: what is handed out *)
(* fits what is free, no node gets more than it asked for, and total_free   *)
(* is what is left (allocate_free_power_to_greedy_nodes and the two calls   *)
(* of powercap_reallocation).                                               *)
THEOREM SharesFitCap == PeriodSpec => []GrantsFitCap
  <1>1. PeriodInv => GrantsFitCap
    BY PeriodNeed, Zenon DEF PeriodInv, GrantsFitCap, Given, Sound
  <1> QED BY <1>1, PeriodAlways, PTL

(* Whatever the answers and the previous period left: nodes without extra   *)
(* power are served before the others (stage 1 and stage 2).                *)
THEOREM NewGreedyServedFirst == PeriodSpec => []NewGreedyFirst
  <1>1. PeriodInv => NewGreedyFirst
    BY DEF PeriodInv, Decision, NewGreedyFirst, NewFirst
  <1> QED BY <1>1, PeriodAlways, PTL

\* The power of the cluster fits an unsigned int.
SumsFit == \A t \in Totals, q \in Requested : t + q < UintSize

NeedFits == Need < UintSize

\* A release only lowers it.
LEMMA NeedStays ==
  ASSUME SumsFit
  PROVE  PeriodSpec => []NeedFits
  <1>1. PeriodInit => NeedFits
    BY DEF PeriodInit, SumsFit, NeedFits, Need
  <1>2. PeriodInv /\ NeedFits /\ [PeriodNext]_period => NeedFits'
    <2> SUFFICES ASSUME PeriodInv, NeedFits, [PeriodNext]_period PROVE NeedFits'
      OBVIOUS
    <2>1. CASE FirstCall \/ UNCHANGED period
      BY <2>1 DEF FirstCall, period, NeedFits, Need
    <2>2. CASE SecondCall
      <3>1. PICK rel \in Released : st' = [st EXCEPT !.released = 0, !.total = @ - rel]
        BY <2>2, Zenon DEF SecondCall
      <3>2. st \in Answers
        BY DEF PeriodInv
      <3>3. st'.total = st.total - rel /\ st'.requested = st.requested
        BY <3>1, <3>2 DEF Answers
      <3>4. st.total \in Nat /\ st.requested \in Nat /\ rel \in Nat /\ UintSize \in Nat
        BY <3>2, UintFacts, PeriodAssumption, UintSizeAssumption, Zenon DEF Answers
      <3> QED BY <3>3, <3>4 DEF NeedFits, Need
    <2> QED BY <2>1, <2>2 DEF PeriodNext
  <1> QED BY <1>1, <1>2, PeriodAlways, PTL DEF PeriodSpec

(* While the power of the cluster fits an unsigned int: reduce_allocation   *)
(* takes back exactly what is missing, or all the extra power there is, and *)
(* from no node more than the extra power it holds.                         *)
THEOREM ReductionsAreExact ==
  ASSUME SumsFit
  PROVE  PeriodSpec => []ReductionIsExact
  <1>1. PeriodInv /\ NeedFits => ReductionIsExact
    BY PeriodNeed, Zenon DEF NeedFits, PeriodInv, ReductionIsExact, Given, Sound
  <1> QED BY <1>1, PeriodAlways, NeedStays, PTL
=============================================================================
