----------------------- MODULE ClusterPowercapProofs -----------------------
(***************************************************************************)
(* For any set of nodes and every interleaving of EARGM's broadcasts with  *)
(* jobs, commands and lost messages: the state of EARGM and of the nodes   *)
(* keeps its types, every node enforces what it tells EARGM it holds, what *)
(* EARGM offers to its meta-EARGM leaves the defaults of the nodes, and    *)
(* EARGM alone lowers none of these.  What a decision gives and takes is   *)
(* ReallocationResult of EarLemmas.                                        *)
(***************************************************************************)
EXTENDS ClusterPowercap, EarLemmas

\* The inductive invariant: HeldIsEnforced, with the types of the nodes and
\* the limit their domains were given.
NodesHold == /\ node \in [Nodes -> Node]
             /\ \A n \in Nodes : node[n].cur = node[n].last /\ Held(node[n])

\* Every node starts idle with its cap in force.
LEMMA InitHolds == Init => NodesHold
  <1> SUFFICES ASSUME Init PROVE NodesHold
    OBVIOUS
  <1>1. Conf \in Uint /\ MaxPowercap \in Uint /\ Conf # 0
    BY ClusterAssumption DEF POWER_CAP_UNLIMITED, Uint
  <1> DEFINE m == powercap_init(Conf, MaxPowercap, TRUE)
  <1>2. m \in Node /\ m.cur = m.last /\ Held(m)
    BY <1>1, NodeInit, Zenon
  <1> HIDE DEF m
  <1>3. node = [n \in Nodes |-> m]
    BY DEF Init, m
  <1> QED  BY <1>2, <1>3 DEF NodesHold

\* A step that is a call on one node.
LEMMA CallHolds ==
    ASSUME NodesHold, NEW n \in Nodes, NEW m, Keeps(node[n], m),
           node' = [node EXCEPT ![n] = m]
    PROVE  NodesHold'
  BY DEF NodesHold, Keeps, Held

\* A step that leaves the nodes alone.
LEMMA NoCallHolds ==
    ASSUME NodesHold, UNCHANGED node
    PROVE  NodesHold'
  BY DEF NodesHold, Held

\* The answers of the domains are typed.
LEMMA AnswersTyped ==
    ASSUME NEW n \in Nodes, NEW p \in Answer(n)
    PROVE  p.status \in {"OK", "GREEDY", "RELEASE"} /\ p.tbr \in Uint
  BY ClusterAssumption DEF Answer

\* Every step of EARGM, of econtrol and of a node keeps it.
LEMMA NextHolds == NodesHold /\ DecisionTyped /\ [Next]_vars => NodesHold'
  <1> SUFFICES ASSUME NodesHold, DecisionTyped, [Next]_vars
               PROVE  NodesHold'
    OBVIOUS
  <1>0. \A n \in Nodes : node[n] \in Node
    BY DEF NodesHold
  <1>1. ASSUME NEW n \in Nodes, powermon_new_job(n)
        PROVE  NodesHold'
    <2> DEFINE m == powercap_idle_to_run(node[n])
    <2>1. Keeps(node[n], m) /\ m \in Node
      BY <1>0, IdleToRun DEF Keeps
    <2> HIDE DEF m
    <2>2. Keeps(node[n], reallocate_power_between_domains(m))
      BY <2>1, Reallocate, KeepsTransitive
    <2>3. node' = [node EXCEPT ![n] = reallocate_power_between_domains(m)]
      BY <1>1 DEF powermon_new_job, m
    <2> QED  BY <2>2, <2>3, CallHolds, Zenon
  <1>2. ASSUME NEW n \in Nodes, powermon_end_job(n)
        PROVE  NodesHold'
    <2> DEFINE m == reallocate_power_between_domains(node[n])
    <2>1. Keeps(node[n], m) /\ m \in Node
      BY <1>0, Reallocate DEF Keeps
    <2> HIDE DEF m
    <2>2. Keeps(node[n], powercap_run_to_idle(m))
      BY <2>1, RunToIdle, KeepsTransitive
    <2>3. node' = [node EXCEPT ![n] = powercap_run_to_idle(m)]
      BY <1>2 DEF powermon_end_job, m
    <2> QED  BY <2>2, <2>3, CallHolds
  <1>3. ASSUME NEW n \in Nodes, econtrol_status(n) \/ PollNode(n)
        PROVE  NodesHold'
    <2>1. PICK p \in Answer(n), release_power \in BOOLEAN :
              node' = [node EXCEPT ![n] = powercap_get_status(node[n], p, release_power)]
      BY <1>3, Zenon DEF econtrol_status, PollNode
    <2>2. Keeps(node[n], powercap_get_status(node[n], p, release_power))
      BY <1>0, AnswersTyped, GetStatus
    <2> QED  BY <2>1, <2>2, CallHolds, Zenon
  <1>4. ASSUME NEW n \in Nodes, econtrol_command(n)
        PROVE  NodesHold'
    <2>1. DefStep \in Uint
      BY ClusterAssumption
    <2>2. /\ Keeps(node[n], powercap_reduce_def_power(node[n], DefStep))
          /\ Keeps(node[n], powercap_increase_def_power(node[n], DefStep))
      BY <1>0, <2>1, ChangeDefault
    <2>3. \/ node' = [node EXCEPT ![n] = powercap_reduce_def_power(node[n], DefStep)]
          \/ node' = [node EXCEPT ![n] = powercap_increase_def_power(node[n], DefStep)]
      BY <1>4 DEF econtrol_command
    <2> QED  BY <2>2, <2>3, CallHolds
  <1>5. ASSUME NEW n \in Nodes, ReleaseNode(n)
        PROVE  NodesHold'
    <2>1. Keeps(node[n], powercap_release_idle_power(node[n]))
      BY <1>0, ReleaseIdle
    <2>2. node' = [node EXCEPT ![n] = powercap_release_idle_power(node[n])]
      BY <1>5 DEF ReleaseNode
    <2> QED  BY <2>1, <2>2, CallHolds, Zenon
  <1>6. ASSUME NEW n \in Nodes, SendNode(n)
        PROVE  NodesHold'
    <2> DEFINE listed == Listed(n) # {}
               extra == Share(n)
    <2>1. extra \in Int /\ d.perc \in Nat /\ listed \in BOOLEAN
      BY <1>6 DEF SendNode, Reach, DecisionTyped
    <2>2. node' = [node EXCEPT ![n] = powercap_set_opt(node[n], listed, extra, d.perc)]
      BY <1>6 DEF SendNode
    <2> HIDE DEF listed, extra
    <2>3. Keeps(node[n], powercap_set_opt(node[n], listed, extra, d.perc))
      BY <1>0, <2>1, SetOpt
    <2> QED  BY <2>2, <2>3, CallHolds, Zenon
  <1>7. ASSUME \/ StartPeriod \/ Decide \/ NoAnswer \/ DecideAgain \/ Publish \/ EndPeriod
               \/ \E n \in Nodes, p \in {"poll", "release", "send"} : Skip(p, n)
        PROVE  UNCHANGED node
    BY <1>7 DEF StartPeriod, Decide, NoAnswer, DecideAgain, Publish, EndPeriod, Skip
  <1>8. ASSUME \/ cluster_powercap_reset_pc \/ cluster_powercap_set_pc
               \/ cluster_powercap_red_pc \/ cluster_powercap_inc_pc
        PROVE  UNCHANGED node
    BY <1>8 DEF cluster_powercap_reset_pc, cluster_powercap_set_pc,
                cluster_powercap_red_pc, cluster_powercap_inc_pc, ChangeCap
  <1>9. ASSUME EargmStep PROVE NodesHold'
    BY <1>3, <1>5, <1>6, <1>7, <1>9, NoCallHolds DEF EargmStep
  <1>10. ASSUME UNCHANGED vars PROVE UNCHANGED node
    BY <1>10 DEF vars
  <1> QED  BY <1>1, <1>2, <1>3, <1>4, <1>8, <1>9, <1>10, NoCallHolds DEF Next

-----------------------------------------------------------------------------
(* The state of EARGM.                                                      *)

StatusType == [nodes : Nat, total : Uint, requested : Uint, released : Uint,
               greedy : Seq([ip : Nodes, req : Byte, extra : Uint])]

\* The types of EARGM's state.  A decision has one share per node of the greedy
\* list, and none of them is set before the second decision.
EargmTyped ==
    /\ running \subseteq Nodes
    /\ cap \in Uint \ {0}
    /\ phase \in {"sleep", "poll", "release", "publish", "send"}
    /\ todo \subseteq Nodes
    /\ st \in StatusType
    /\ phase \in {"sleep", "poll"} => d \in Decision(<<>>)
    /\ phase \in {"release", "publish", "send"} => d \in Decision(st.greedy)
    /\ phase = "release" => d.opts = NoOptions(st.greedy)
    /\ losses \in 0 .. MaxLosses
    /\ commands \in 0 .. MaxCommands

\* The lists of the model are greedy lists.
LEMMA ListIsGreedy ==
  ASSUME NEW gs \in Seq([ip : Nodes, req : Byte, extra : Uint])
  PROVE  GreedyList(gs)
  <1>1. Len(gs) \in Nat /\ DOMAIN gs = 1 .. Len(gs)
    OBVIOUS
  <1> DEFINE R == [ip : Nodes, req : Byte, extra : Uint]
  <1>2. \A i \in DOMAIN gs : gs[i] \in R
    <2>1. gs \in Seq(R)
      OBVIOUS
    <2> HIDE DEF R
    <2> QED BY <2>1
  <1>3. Byte \subseteq Nat /\ Uint \subseteq Nat
    BY ByteSizeAssumption, UintSizeAssumption DEF Byte, Uint
  <1>4. \A i \in DOMAIN gs : gs[i].req \in Nat /\ gs[i].extra \in Nat
    BY <1>2, <1>3, Zenon
  <1> QED BY <1>1, <1>4 DEF GreedyList

\* The empty list too.
LEMMA EmptyList == GreedyList(<<>>) /\ <<>> \in Seq([ip : Nodes, req : Byte, extra : Uint])
  <1>1. <<>> \in Seq([ip : Nodes, req : Byte, extra : Uint])
    OBVIOUS
  <1> QED BY <1>1, ListIsGreedy, Zenon

\* The status of EARGM is one that powercap_reallocation takes.
LEMMA StatusTyped == ASSUME NEW s \in StatusType PROVE Status(s)
  BY ListIsGreedy, Zenon DEF StatusType, Status

\* A period starts with options of zero.
LEMMA FreshTyped ==
  ASSUME NEW gs, GreedyList(gs), NEW a \in Uint
  PROVE  Fresh(gs, a) \in Decision(gs) /\ Fresh(gs, a).opts = NoOptions(gs)
  <1>1. NoOptions(gs) \in [DOMAIN gs -> Int] /\ 0 \in Uint
    BY NoOptionsFacts, UintFacts
  <1> QED BY <1>1 DEF Fresh, Decision

\* What a node answers to a poll.
LEMMA AnswerTyped ==
  ASSUME NEW n \in Node, NEW p \in Answers
  PROVE  LET a == NodeAnswer(n, p, TRUE)
         IN  /\ {a.total, a.released, a.requested, a.extra} \subseteq Uint
             /\ a.req \in Byte
             /\ n.last <= n.def => a.extra = 0
  <1>1. /\ p.status \in {"OK", "GREEDY", "RELEASE"} /\ p.tbr \in Uint /\ p.requested \in Byte
        /\ 0 \in Byte
    BY ClusterAssumption, ByteSizeAssumption DEF Byte
  <1> DEFINE m == powercap_get_status(n, p, TRUE)
  <1>2. m \in Node
    BY <1>1, GetStatus, Zenon DEF Keeps
  <1>3. m.last \in Uint /\ n.released \in Uint /\ n.last \in Uint /\ n.def \in Uint
    BY <1>2, Zenon DEF Node
  <1>4. (n.def - n.last) % UintSize \in Uint
    BY <1>3, ModIsUint DEF Uint
  <1>5. n.last \in Nat /\ n.def \in Nat
    BY <1>3, UintFacts, Zenon
  <1>6. n.last > n.def => n.last - n.def \in Uint
    <2>1. n.last > n.def => n.def <= n.last
      BY <1>5
    <2> QED BY <1>3, <2>1, UintDiff
  <1>7. n.last <= n.def => ~(n.last > n.def)
    BY <1>5
  <1> HIDE DEF m
  <1> QED BY <1>1, <1>3, <1>4, <1>6, <1>7, UintFacts, Zenon DEF NodeAnswer, get_powercap_allocated, m

\* The status keeps its types when an answer is added to it.
LEMMA AggregateTyped ==
  ASSUME NEW s \in StatusType, NEW n \in Nodes, NEW a,
         {a.total, a.released, a.requested, a.extra} \subseteq Uint, a.req \in Byte
  PROVE  Aggregate(s, n, a) \in StatusType
  <1> DEFINE g == [ip |-> n, req |-> a.req, extra |-> a.extra]
             R == [ip : Nodes, req : Byte, extra : Uint]
  <1>1. s.nodes \in Nat /\ s.total \in Uint /\ s.requested \in Uint /\ s.released \in Uint
        /\ s.greedy \in Seq(R)
    BY DEF StatusType
  <1>2. g \in R
    OBVIOUS
  <1>3. Append(s.greedy, g) \in Seq(R)
    <2> HIDE DEF R, g
    <2> QED BY <1>1, <1>2
  <1>4. /\ (s.total + a.total) % UintSize \in Uint
        /\ (s.requested + a.requested) % UintSize \in Uint
        /\ (s.released + a.released) % UintSize \in Uint
    BY <1>1, UintSum
  <1>5. s.nodes + 1 \in Nat
    BY <1>1
  <1> QED BY <1>1, <1>3, <1>4, <1>5, Zenon DEF Aggregate, StatusType

\* The state EARGM starts in is typed.
LEMMA InitTyped == Init => EargmTyped
  <1> SUFFICES ASSUME Init PROVE EargmTyped
    OBVIOUS
  <1>1. st \in StatusType
    BY EmptyList, UintFacts DEF Init, NoStatus, StatusType
  <1>2. d \in Decision(<<>>)
    BY EmptyList, UintFacts, FreshTyped DEF Init
  <1> QED BY <1>1, <1>2, ClusterAssumption DEF Init, EargmTyped

\* A decision is one share per node of the greedy list.
LEMMA DecisionOf ==
  ASSUME NEW s \in StatusType, NEW c \in Uint, NEW x \in Decision(s.greedy),
         x.opts = NoOptions(s.greedy)
  PROVE  LET e == powercap_reallocation(s, c, x)
         IN  e \in Decision(s.greedy) /\ (~e.ret => e.opts = NoOptions(s.greedy))
  BY StatusTyped, ReallocationResult

\* The types follow from those of the shares.
LEMMA SharesTyped == EargmTyped => DecisionTyped
  <1> SUFFICES ASSUME EargmTyped, phase = "send"
               PROVE  d.perc \in Nat /\ \A n \in Nodes : Share(n) \in Int
    BY DEF DecisionTyped
  <1>1. d \in Decision(st.greedy)
    BY DEF EargmTyped
  <1>2. ASSUME NEW n \in Nodes PROVE Share(n) \in Int
    <2>1. CASE Listed(n) = {}
      BY <2>1 DEF Share
    <2>2. CASE Listed(n) # {}
      <3> DEFINE i == CHOOSE i \in Listed(n) : TRUE
      <3>1. i \in DOMAIN st.greedy
        <4>1. i \in Listed(n)
          BY <2>2
        <4> QED BY <4>1 DEF Listed
      <3>2. Share(n) = d.opts[i]
        BY <2>2 DEF Share
      <3> HIDE DEF i
      <3> QED BY <1>1, <3>1, <3>2 DEF Decision
    <2> QED BY <2>1, <2>2
  <1> QED BY <1>1, <1>2 DEF Decision

\* A counter that its bound stops.
LEMMA CountUp ==
  ASSUME NEW m \in Nat, NEW a \in 0 .. m, NEW b, b = a \/ (a < m /\ b = a + 1)
  PROVE  b \in 0 .. m
  OBVIOUS

\* Every step of EARGM and of the nodes keeps the types.
LEMMA NextTyped == NodesHold /\ EargmTyped /\ [Next]_vars => EargmTyped'
  <1> SUFFICES ASSUME NodesHold, EargmTyped, [Next]_vars
               PROVE  EargmTyped'
    OBVIOUS
  <1>0. \A n \in Nodes : node[n] \in Node
    BY DEF NodesHold
  <1>b. MaxLosses \in Nat /\ MaxCommands \in Nat
    BY ClusterAssumption
  <1>1. ASSUME NEW n \in Nodes, powermon_new_job(n) \/ powermon_end_job(n)
        PROVE  EargmTyped'
    BY <1>1 DEF EargmTyped, powermon_new_job, powermon_end_job, eargm, budget
  <1>2. ASSUME NEW n \in Nodes, econtrol_status(n) \/ econtrol_command(n)
        PROVE  EargmTyped'
    <2>1. commands' \in 0 .. MaxCommands
      <3>1. commands' = commands \/ (commands < MaxCommands /\ commands' = commands + 1)
        BY <1>2, Zenon DEF econtrol_status, econtrol_command, budget
      <3> QED BY <1>b, <3>1, CountUp DEF EargmTyped
    <2>2. UNCHANGED <<running, cap, eargm, losses>>
      BY <1>2, Zenon DEF econtrol_status, econtrol_command, budget
    <2> QED BY <2>1, <2>2 DEF EargmTyped, eargm
  <1>3. ASSUME NEW v, ChangeCap(v)
        PROVE  EargmTyped'
    BY <1>3, ClusterAssumption DEF EargmTyped, ChangeCap, eargm, budget
  <1>4. ASSUME StartPeriod PROVE EargmTyped'
    BY <1>4 DEF EargmTyped, StartPeriod, budget
  <1>5. ASSUME NEW n \in Nodes, PollNode(n) PROVE EargmTyped'
    <2>1. PICK p \in Answer(n) : \/ st' = Aggregate(st, n, NodeAnswer(node[n], p, TRUE))
                                    /\ UNCHANGED losses
                                 \/ Lose /\ UNCHANGED st
      BY <1>5, Zenon DEF PollNode
    <2>2. p \in Answers
      BY DEF Answer
    <2>3. Aggregate(st, n, NodeAnswer(node[n], p, TRUE)) \in StatusType
      BY <1>0, <2>2, AnswerTyped, AggregateTyped, Zenon DEF EargmTyped
    <2>4. st' \in StatusType
      BY <2>1, <2>3, Zenon DEF EargmTyped
    <2>5. losses' \in 0 .. MaxLosses
      <3>1. losses' = losses \/ (losses < MaxLosses /\ losses' = losses + 1)
        BY <2>1, Zenon DEF Lose
      <3> QED BY <1>b, <3>1, CountUp DEF EargmTyped
    <2> QED BY <1>5, <2>4, <2>5 DEF EargmTyped, PollNode, Reach
  <1>6. ASSUME NEW n \in Nodes, NEW p \in {"poll", "release", "send"}, Skip(p, n)
        PROVE  EargmTyped'
    <2>1. losses' \in 0 .. MaxLosses
      BY <1>b, <1>6 DEF EargmTyped, Lose, Skip
    <2> QED BY <1>6, <2>1 DEF EargmTyped, Skip, Reach
  <1>7. ASSUME Decide PROVE EargmTyped'
    <2> DEFINE x == Fresh(st.greedy, d.greedy_allocated)
    <2>1. st \in StatusType /\ cap \in Uint /\ GreedyList(st.greedy)
      BY StatusTyped DEF EargmTyped, Status
    <2>2. d.greedy_allocated \in Uint
      BY <1>7 DEF Decide, EargmTyped, Decision
    <2>3. x \in Decision(st.greedy) /\ x.opts = NoOptions(st.greedy)
      BY <2>1, <2>2, FreshTyped
    <2>4. d' = powercap_reallocation(st, cap, x)
      BY <1>7 DEF Decide
    <2> HIDE DEF x
    <2>5. d' \in Decision(st.greedy) /\ (~d'.ret => d'.opts = NoOptions(st.greedy))
      BY <2>1, <2>3, <2>4, DecisionOf
    <2>6. \/ d'.ret /\ phase' = "publish" /\ todo' = {}
          \/ ~d'.ret /\ phase' = "release" /\ todo' = Nodes
      BY <1>7 DEF Decide
    <2>7. UNCHANGED <<running, cap, st, budget>>
      BY <1>7 DEF Decide
    <2> QED BY <2>5, <2>6, <2>7 DEF EargmTyped, budget
  <1>8. ASSUME NoAnswer PROVE EargmTyped'
    BY <1>8 DEF EargmTyped, NoAnswer, budget
  <1>9. ASSUME NEW n \in Nodes, ReleaseNode(n) PROVE EargmTyped'
    <2>1. ReleasedIdlePower(node[n]) \in Uint
      BY <1>0, UintFacts DEF ReleasedIdlePower, Node
    <2>2. (st.total - ReleasedIdlePower(node[n])) % UintSize \in Uint
      <3>1. st.total \in Uint
        BY DEF EargmTyped, StatusType
      <3> QED BY <2>1, <3>1, ModIsUint DEF Uint
    <2>3. st' \in StatusType /\ st'.greedy = st.greedy
      BY <1>9, <2>2 DEF ReleaseNode, EargmTyped, StatusType
    <2>4. losses' \in 0 .. MaxLosses
      BY <1>b, <1>9 DEF EargmTyped, Lose, ReleaseNode
    <2> QED BY <1>9, <2>3, <2>4 DEF EargmTyped, ReleaseNode, Reach
  <1>10. ASSUME DecideAgain PROVE EargmTyped'
    <2>1. st' \in StatusType /\ st'.greedy = st.greedy
      BY <1>10, UintFacts, Zenon DEF DecideAgain, EargmTyped, StatusType
    <2>2. d \in Decision(st'.greedy) /\ d.opts = NoOptions(st'.greedy) /\ cap \in Uint
      BY <1>10, <2>1 DEF DecideAgain, EargmTyped
    <2>3. d' = powercap_reallocation(st', cap, d)
      BY <1>10 DEF DecideAgain
    <2>4. d' \in Decision(st'.greedy)
      BY <2>1, <2>2, <2>3, DecisionOf
    <2> QED BY <1>10, <2>1, <2>4 DEF EargmTyped, DecideAgain, budget
  <1>11. ASSUME Publish PROVE EargmTyped'
    BY <1>11 DEF EargmTyped, Publish, budget
  <1>12. ASSUME NEW n \in Nodes, SendNode(n) PROVE EargmTyped'
    BY <1>12 DEF EargmTyped, SendNode, Reach, budget
  <1>13. ASSUME EndPeriod PROVE EargmTyped'
    <2>1. st' \in StatusType
      BY <1>13, EmptyList, UintFacts DEF EndPeriod, NoStatus, StatusType
    <2>2. d.greedy_allocated \in Uint
      BY <1>13 DEF EndPeriod, EargmTyped, Decision
    <2>3. d' \in Decision(<<>>)
      BY <1>13, <2>2, EmptyList, FreshTyped DEF EndPeriod
    <2> QED BY <1>13, <2>1, <2>3 DEF EargmTyped, EndPeriod, budget
  <1>14. ASSUME EargmStep PROVE EargmTyped'
    BY <1>4, <1>5, <1>6, <1>7, <1>8, <1>9, <1>10, <1>11, <1>12, <1>13, <1>14 DEF EargmStep
  <1>15. ASSUME \/ cluster_powercap_reset_pc \/ cluster_powercap_set_pc
                \/ cluster_powercap_red_pc \/ cluster_powercap_inc_pc
         PROVE  EargmTyped'
    BY <1>3, <1>15 DEF cluster_powercap_reset_pc, cluster_powercap_set_pc,
                       cluster_powercap_red_pc, cluster_powercap_inc_pc
  <1>16. ASSUME UNCHANGED vars PROVE EargmTyped'
    BY <1>16 DEF vars, eargm, budget, EargmTyped
  <1> QED BY <1>1, <1>2, <1>14, <1>15, <1>16 DEF Next

-----------------------------------------------------------------------------
(* The offer to the meta-EARGM.                                             *)

\* The default power of all the nodes.
LEMMA MinPowerTyped == cluster_get_min_power \in Nat
  <1>1. Conf \in Nat /\ Cardinality(Nodes) \in Nat
    BY ClusterAssumption, UintFacts, FS_CardinalityType, Zenon
  <1> QED BY <1>1 DEF cluster_get_min_power

\* What is published keeps the default of the nodes when what is free does.
LEMMA PublishedKeeps ==
  ASSUME NEW c \in Uint, NEW free \in Int, NEW wanted, NEW min \in Nat,
         c >= min => free <= c - min, min <= c
  PROVE  LET s == write_shared_data(c, DefaultCap, free, wanted)
         IN  s.powercap = c /\ s.powercap - s.available >= min
  BY DEF write_shared_data, Uint

\* The least of two numbers is at most the first.
LEMMA MinFirst ==
  ASSUME NEW a \in Int, NEW b \in Int
  PROVE  ear_min(a, b) \in Int /\ ear_min(a, b) <= a
  BY DEF ear_min

\* Every step keeps the offer within what the defaults leave.
LEMMA NextOffers == EargmTyped /\ OfferKeepsDefaults /\ [Next]_vars => OfferKeepsDefaults'
  <1> SUFFICES ASSUME EargmTyped, OfferKeepsDefaults, [Next]_vars
               PROVE  OfferKeepsDefaults'
    OBVIOUS
  <1> DEFINE min == cluster_get_min_power
  <1>1. min \in Nat /\ cap \in Uint /\ cap \in Nat /\ min' = min
    BY MinPowerTyped, UintFacts DEF EargmTyped, cluster_get_min_power
  <1>2. SUFFICES ASSUME shared' # shared PROVE OfferKeepsDefaults'
    BY <1>1 DEF OfferKeepsDefaults, cluster_get_min_power
  <1>3. Publish \/ NoAnswer
    BY <1>2, Zenon DEF Next, vars, eargm, EargmStep, StartPeriod, PollNode, ReleaseNode, SendNode, Skip,
                Decide, DecideAgain, EndPeriod, powermon_new_job, powermon_end_job,
                econtrol_status, econtrol_command, ChangeCap, cluster_powercap_reset_pc,
                cluster_powercap_set_pc, cluster_powercap_red_pc, cluster_powercap_inc_pc
  <1>4. PICK free, wanted :
            /\ free \in Int
            /\ shared' = write_shared_data(cap, DefaultCap, free, wanted)
            /\ cap >= min => free <= cap - min
    <2>1. CASE Publish
      <3>1. shared' = write_shared_data(cap, DefaultCap, power_to_free, power_to_request)
        BY <2>1 DEF Publish
      <3>2. d.total_free \in Nat /\ st.released \in Nat
        BY <2>1, UintFacts, Zenon DEF Publish, EargmTyped, Decision, StatusType
      <3> DEFINE a == (cap - min) % UintSize
                 b == d.total_free + st.released \div 2
      <3>3. a \in Int /\ (cap >= min => a = cap - min)
        BY <1>1, UintSizeAssumption DEF Uint
      <3>4. b \in Int
        BY <3>2
      <3>5. power_to_free = ear_min(a, b)
        BY DEF power_to_free
      <3> HIDE DEF a, b, min
      <3>6. power_to_free \in Int /\ power_to_free <= a
        BY <3>3, <3>4, <3>5, MinFirst
      <3> QED BY <1>1, <3>1, <3>3, <3>6
    <2>2. CASE NoAnswer
      <3>1. shared' = write_shared_data(cap, DefaultCap, 0, 0)
        BY <2>2 DEF NoAnswer
      <3>2. cap >= min => 0 <= cap - min
        BY <1>1
      <3> QED BY <3>1, <3>2
    <2> QED BY <1>3, <2>1, <2>2
  <1>5. shared'.powercap = cap
    BY <1>4 DEF write_shared_data
  <1> HIDE DEF min
  <1>6. cap >= min => shared'.powercap - shared'.available >= min
    <2> SUFFICES ASSUME cap >= min PROVE shared'.powercap - shared'.available >= min
      OBVIOUS
    <2>1. min <= cap
      BY <1>1
    <2> QED BY <1>1, <1>4, <2>1, PublishedKeeps
  <1> QED BY <1>1, <1>5, <1>6 DEF OfferKeepsDefaults, min

\* Nothing is offered before the first period.
LEMMA InitOffers == Init => OfferKeepsDefaults
  <1>1. cluster_get_min_power \in Nat
    BY MinPowerTyped
  <1> QED BY <1>1 DEF Init, OfferKeepsDefaults
-----------------------------------------------------------------------------
(* The default of a node, as long as econtrol does not move it.             *)

\* ear.conf: a node may have its configured cap (max_powercap 1 is no maximum).
ConfFits == MaxPowercap > 1 => Conf <= MaxPowercap

\* A share on top of what a node holds does not wrap.
NoWrap == \A n \in Nodes : node[n].last + ByteSize <= UintSize

\* A node whose default no command moved: it holds no more than its default,
\* and just that when it is idle or greedy.
Plain(n) ==
    /\ n \in Node /\ n.cur = n.last /\ Held(n)
    /\ n.conf = Conf /\ n.max = MaxPowercap
    /\ n.def >= Conf /\ n.last <= n.def
    /\ n.status \in {"IDLE", "GREEDY"} => n.last = n.def

\* The types of the configuration.
LEMMA ConfTyped == Conf \in Nat /\ Conf \in Uint /\ Conf > 1 /\ MaxPowercap \in Nat /\ MaxPowercap \in Uint
  BY ClusterAssumption, UintFacts, Zenon DEF POWER_CAP_UNLIMITED

\* A plain node is given a cap of at least the configured one.
LEMMA SetPlain ==
  ASSUME ConfFits, NEW n \in Node, n.conf = Conf, n.max = MaxPowercap, Held(n),
         NEW limit \in Uint, limit >= Conf
  PROVE  LET m == set_powercap_value(n, limit)
         IN  Plain(m) /\ m.last = m.def /\ m.status = n.status
  <1> DEFINE m == set_powercap_value(n, limit)
             v == IF n.max > 1 THEN ear_min(limit, n.max) ELSE limit
  <1>1. m \in Node /\ m.cur = m.last /\ Held(m)
    BY SetValue
  <1>2. limit \in Nat
    BY UintFacts
  <1>3. v >= Conf
    BY <1>2, ConfTyped DEF ConfFits, ear_min
  <1>4. m.def = v /\ m.last = v /\ m.conf = n.conf /\ m.max = n.max /\ m.status = n.status
    BY DEF set_powercap_value, pmgt_set_powercap_value, Node
  <1>5. m.last \in Nat
    BY <1>1, UintFacts, Zenon DEF Node
  <1> HIDE DEF m, v
  <1>6. Plain(m)
    BY <1>1, <1>3, <1>4, <1>5 DEF Plain
  <1> QED BY <1>4, <1>6 DEF m

\* Spreading the limit over the domains changes nothing of it.
LEMMA ReallocatePlain ==
  ASSUME NEW n, Plain(n)
  PROVE  reallocate_power_between_domains(n) = n
  <1>1. n.domains = n.limit /\ n \in Node
    BY DEF Plain, Held
  <1> QED BY <1>1 DEF reallocate_power_between_domains, Node

\* A job starts.
LEMMA IdleToRunPlain ==
  ASSUME ConfFits, NEW n, Plain(n)
  PROVE  Plain(powercap_idle_to_run(n))
  <1> DEFINE ok == [n EXCEPT !.status = "OK", !.released = 0]
             m == set_powercap_value(ok, n.last)
  <1>1. n \in Node /\ n.last \in Nat /\ n.def \in Nat /\ n.last \in Uint
    BY UintFacts, Zenon DEF Plain, Node
  <1>2. ok \in Node /\ ok.conf = Conf /\ ok.max = MaxPowercap /\ Held(ok)
    BY <1>1, UintFacts, Zenon DEF Plain, Node, PC_STATUS, Held
  <1> HIDE DEF ok
  <1>3. CASE n.status = "IDLE"
    <2>1. n.last >= Conf /\ n.last >= n.def
      BY <1>1, <1>3 DEF Plain
    <2>2. Plain(m)
      BY <1>1, <1>2, <2>1, SetPlain
    <2> HIDE DEF m
    <2>3. \/ powercap_idle_to_run(n) = n
          \/ powercap_idle_to_run(n) = reallocate_power_between_domains(m)
      BY <1>3, <2>1 DEF powercap_idle_to_run, m, ok
    <2> QED BY <2>2, <2>3, ReallocatePlain
  <1>4. CASE n.status # "IDLE"
    <2>1. \/ powercap_idle_to_run(n) = n
          \/ powercap_idle_to_run(n) = reallocate_power_between_domains(n)
      BY <1>4 DEF powercap_idle_to_run
    <2> QED BY <2>1, ReallocatePlain
  <1> QED BY <1>3, <1>4

\* A job ends.
LEMMA RunToIdlePlain ==
  ASSUME ConfFits, NEW n, Plain(n)
  PROVE  Plain(powercap_run_to_idle(n))
  <1> DEFINE idle == [n EXCEPT !.released = (n.last - powercap_idle(n)) % UintSize,
                               !.status = "IDLE"]
             m == IF n.status = "IDLE" THEN n ELSE set_powercap_value(idle, powercap_idle(n))
  <1>1. n \in Node /\ n.last \in Nat /\ n.conf = Conf
    BY UintFacts, Zenon DEF Plain, Node
  <1>2. powercap_idle(n) = Conf
    BY <1>1, ConfTyped DEF powercap_idle, ear_max, EARD_POWERCAP_IDLE_PERC
  <1>3. (n.last - powercap_idle(n)) % UintSize \in Uint
    BY <1>1, <1>2, ConfTyped, ModIsUint
  <1>4. idle \in Node /\ idle.conf = Conf /\ idle.max = MaxPowercap /\ Held(idle)
        /\ idle.status = "IDLE"
    BY <1>1, <1>3, Zenon DEF Plain, Node, PC_STATUS, Held
  <1> HIDE DEF idle
  <1>5. Plain(set_powercap_value(idle, Conf))
        /\ set_powercap_value(idle, Conf).last = set_powercap_value(idle, Conf).def
    BY <1>4, ConfTyped, Conf >= Conf, SetPlain
  <1>6. Plain(m) /\ m.last = m.def
    BY <1>2, <1>5 DEF Plain
  <1> HIDE DEF m
  <1>7. reallocate_power_between_domains(m) = m /\ powercap_reset_default_power(m) = m
    BY <1>6, ReallocatePlain DEF powercap_reset_default_power
  <1>8. powercap_run_to_idle(n) = n \/ powercap_run_to_idle(n) = m
    BY <1>7 DEF powercap_run_to_idle, m, idle
  <1> QED BY <1>6, <1>8
\* A status request, also one that makes the node release power.
LEMMA GetStatusPlain ==
  ASSUME NEW n, Plain(n), NEW p \in Answers, p.tbr < n.domains, NEW release_power \in BOOLEAN
  PROVE  Plain(powercap_get_status(n, p, release_power))
  <1> DEFINE st0 == RunningStatus(n, p)
             m == [n EXCEPT !.status = st0]
             low == [m EXCEPT !.released = p.tbr, !.cur = (n.cur - p.tbr) % UintSize]
             r == IF release_power THEN low ELSE m
  <1>1. p.status \in {"OK", "GREEDY", "RELEASE"} /\ p.tbr \in Uint /\ p.tbr \in Nat
    BY ClusterAssumption, UintFacts, Zenon
  <1>2. /\ n \in Node /\ n.cur \in Uint /\ n.last \in Nat /\ n.def \in Nat /\ n.cur \in Nat
        /\ n.domains = n.cur /\ n.mode = "AUTO" /\ n.cur = n.last
    BY UintFacts, Zenon DEF Plain, Held, Node
  <1>3. st0 \in PC_STATUS /\ (st0 = "GREEDY" => n.last = n.def) /\ st0 # "IDLE"
    BY <1>1, <1>2 DEF RunningStatus, PC_STATUS, Plain
  <1> HIDE DEF st0
  <1>4. Plain(m) /\ m \in Node
    BY <1>2, <1>3 DEF Plain, Node, Held
  <1>5. (n.cur - p.tbr) % UintSize = n.cur - p.tbr /\ n.cur - p.tbr \in Uint
    <2>1. p.tbr <= n.cur
      BY <1>1, <1>2
    <2> QED BY <1>1, <1>2, <2>1, UintDiff
  <1>6. /\ r \in Node /\ r.mode = "AUTO" /\ r.cur <= n.cur /\ r.cur \in Nat
        /\ r.conf = n.conf /\ r.max = n.max /\ r.def = n.def
    <2> DEFINE u == (n.cur - p.tbr) % UintSize
    <2>1. u \in Uint /\ u \in Nat /\ u <= n.cur
      BY <1>1, <1>2, <1>5, UintFacts
    <2> HIDE DEF u
    <2>2. /\ low \in Node /\ low.mode = "AUTO" /\ low.cur = u
          /\ low.conf = n.conf /\ low.max = n.max /\ low.def = n.def
      BY <1>1, <1>2, <1>3, <2>1, Zenon DEF Node, u
    <2>3. /\ m \in Node /\ m.mode = "AUTO" /\ m.cur = n.cur
          /\ m.conf = n.conf /\ m.max = n.max /\ m.def = n.def
      BY <1>2, <1>3 DEF Node
    <2> HIDE DEF low, m
    <2> QED BY <1>2, <2>1, <2>2, <2>3
  <1> HIDE DEF r
  <1>7. Plain(powercap_release_power(r))
    <2> DEFINE q == powercap_release_power(r)
    <2>1. q \in Node /\ q.cur = r.cur /\ q.last = r.cur /\ Held(q)
      BY <1>6, ReleasePower
    <2>2. q.conf = r.conf /\ q.max = r.max /\ q.def = r.def /\ q.status = "OK"
      BY <1>6 DEF powercap_release_power, pmgt_set_powercap_value, Node
    <2> HIDE DEF q
    <2>3. q.last <= q.def
      BY <1>2, <1>6, <2>1, <2>2 DEF Plain
    <2>4. Plain(q)
      BY <1>6, <2>1, <2>2, <2>3 DEF Plain
    <2> QED BY <2>4 DEF q
  <1>8. \/ powercap_get_status(n, p, release_power) = n
        \/ powercap_get_status(n, p, release_power) = m
        \/ powercap_get_status(n, p, release_power) = powercap_release_power(r)
    <2> DEFINE q == powercap_release_power(r)
    <2>1. powercap_get_status(n, p, release_power) =
            IF n.status = "IDLE" THEN n ELSE IF st0 # "RELEASE" THEN m ELSE q
      BY DEF powercap_get_status, r, st0
    <2> HIDE DEF q, m
    <2>2. powercap_get_status(n, p, release_power) \in {n, m, q}
      BY <2>1
    <2> QED BY <2>2 DEF q
  <1> QED BY <1>4, <1>7, <1>8

\* The options, with a share that gives power.
LEMMA SetOptPlain ==
  ASSUME ConfFits, NEW n, Plain(n), NEW listed \in BOOLEAN, NEW extra \in Byte, NEW perc \in Nat,
         n.last + ByteSize <= UintSize
  PROVE  Plain(powercap_set_opt(n, listed, extra, perc))
  <1> DEFINE m == [n EXCEPT !.perc = perc]
             given == [m EXCEPT !.last = (m.last + extra) % UintSize]
             back == [m EXCEPT !.status = "OK", !.last = m.def]
             g == set_powercap_value(given, given.last)
  <1>1. n \in Node /\ n.last \in Nat /\ n.def \in Nat /\ n.def \in Uint /\ Held(n)
    BY UintFacts, Zenon DEF Plain, Node
  <1>2. m \in Node /\ Plain(m)
    BY <1>1 DEF Plain, Node, Held
  <1>3. (m.last + extra) % UintSize = n.last + extra /\ n.last + extra \in Uint /\ extra \in Nat
    <2>1. n.last + extra < UintSize /\ extra \in Nat
      BY <1>1, UintSizeAssumption, ByteSizeAssumption DEF Byte
    <2>2. m.last = n.last
      BY <1>1 DEF Node
    <2>3. n.last + extra \in Uint
      BY <1>1, <2>1, UintSizeAssumption DEF Uint
    <2>4. (n.last + extra) % UintSize = n.last + extra
      BY <1>1, <2>1, UintSizeAssumption
    <2> QED BY <2>1, <2>2, <2>3, <2>4
  <1>4. /\ given \in Node /\ given.conf = Conf /\ given.max = MaxPowercap /\ Held(given)
        /\ given.last = n.last + extra /\ given.status = n.status
    BY <1>1, <1>3, Zenon DEF Plain, Node, Held
  <1>5. back \in Node /\ back.conf = Conf /\ back.max = MaxPowercap /\ Held(back) /\ m.def = n.def
    BY <1>1, Zenon DEF Plain, Node, PC_STATUS, Held
  <1>6. Plain(set_powercap_value(back, m.def))
    <2>1. m.def >= Conf /\ m.def \in Uint
      BY <1>1, <1>5 DEF Plain
    <2> HIDE DEF back, m
    <2> QED BY <1>5, <2>1, SetPlain
  <1>7. n.status = "GREEDY" => Plain([g EXCEPT !.status = "OK"])
    <2> SUFFICES ASSUME n.status = "GREEDY" PROVE Plain([g EXCEPT !.status = "OK"])
      OBVIOUS
    <2>1. n.last + extra >= Conf
      BY <1>1, <1>3, ConfTyped DEF Plain
    <2> HIDE DEF given
    <2>2. Plain(g) /\ g.last = g.def
      BY <1>3, <1>4, <2>1, SetPlain
    <2> HIDE DEF g
    <2> QED BY <2>2 DEF Plain, Node, PC_STATUS, Held
  <1>8. ~(m.last > m.def)
    BY <1>1, <1>2 DEF Plain, Node
  <1>9. \/ powercap_set_opt(n, listed, extra, perc) = n
        \/ powercap_set_opt(n, listed, extra, perc) = m
        \/ powercap_set_opt(n, listed, extra, perc) = set_powercap_value(back, m.def)
        \/ /\ n.status = "GREEDY"
           /\ powercap_set_opt(n, listed, extra, perc) = [g EXCEPT !.status = "OK"]
    <2>1. m.status = n.status
      BY <1>1 DEF Node
    <2> DEFINE b == set_powercap_value(back, m.def)
               gr == [g EXCEPT !.status = "OK"]
               on == ~is_powercap_on(n) \/ is_powercap_unlimited(n)
               more == m.last > m.def
    <2>2. powercap_set_opt(n, listed, extra, perc) =
            IF on THEN n
            ELSE IF listed /\ m.status \in {"IDLE", "OK"} /\ more THEN g
            ELSE IF listed /\ m.status = "GREEDY" THEN gr
            ELSE IF ~listed /\ m.status = "ASK_DEF" THEN b
            ELSE m
      BY DEF powercap_set_opt
    <2>3. ~more
      BY <1>8
    <2> HIDE DEF b, gr, g, on, m, more
    <2>4. \/ powercap_set_opt(n, listed, extra, perc) = n
          \/ powercap_set_opt(n, listed, extra, perc) = m
          \/ powercap_set_opt(n, listed, extra, perc) = b
          \/ n.status = "GREEDY" /\ powercap_set_opt(n, listed, extra, perc) = gr
      BY <2>1, <2>2, <2>3
    <2> QED BY <2>4 DEF b, gr
  <1> QED BY <1>2, <1>6, <1>7, <1>9

\* When no node holds extra power, the decision takes from none.
LEMMA GrantsOnly ==
  ASSUME NEW s \in StatusType, NEW c \in Uint, NEW x \in Decision(s.greedy),
         x.opts = NoOptions(s.greedy), \A i \in DOMAIN s.greedy : s.greedy[i].extra = 0
  PROVE  LET e == powercap_reallocation(s, c, x)
         IN  /\ e.ret => \A i \in DOMAIN s.greedy : e.opts[i] \in Byte
             /\ s.released = 0 => e.ret
  <1> DEFINE e == powercap_reallocation(s, c, x)
             need == (s.total + s.requested) % UintSize
             gs == s.greedy
  <1>1. /\ e \in Decision(gs) /\ (e.ret => Sound(gs, c, need, e)) /\ (~e.ret => s.released # 0)
    BY StatusTyped, ReallocationResult
  <1>2. need \in Nat /\ c \in Nat
    BY UintSum, UintFacts, Zenon DEF StatusType
  <1>3. \A i \in DOMAIN gs : gs[i].req \in Byte
    <2> DEFINE R == [ip : Nodes, req : Byte, extra : Uint]
    <2>1. gs \in Seq(R)
      BY DEF StatusType
    <2>2. \A i \in DOMAIN gs : gs[i] \in R
      <3> HIDE DEF R, gs
      <3> QED BY <2>1
    <2> QED BY <2>2
  <1> HIDE DEF e, need
  <1>4. e.ret => \A i \in DOMAIN gs : e.opts[i] \in Byte
    <2> SUFFICES ASSUME e.ret, NEW i \in DOMAIN gs PROVE e.opts[i] \in Byte
      OBVIOUS
    <2>1. e.opts[i] \in Int /\ gs[i].extra = 0 /\ gs[i].req \in Byte
      BY <1>1, <1>3 DEF Decision
    <2>2. CASE need <= c
      <3>1. e.opts[i] \in 0 .. gs[i].req
        BY <1>1, <2>2 DEF Sound
      <3> QED BY <2>1, <3>1, ByteSizeAssumption DEF Byte
    <2>3. CASE need > c
      <3>1. 0 - e.opts[i] \in 0 .. gs[i].extra
        BY <1>1, <2>3 DEF Sound
      <3>2. e.opts[i] = 0
        BY <2>1, <3>1
      <3> QED BY <3>2, ByteSizeAssumption DEF Byte
    <2> QED BY <1>2, <2>2, <2>3
  <1> QED BY <1>1, <1>4 DEF e

\* The inductive invariant: as long as no command was given, all nodes are plain,
\* none of the greedy list holds extra power, and no share takes any.
NodesPlain ==
    commands = 0 => /\ \A n \in Nodes : Plain(node[n])
                    /\ \A i \in DOMAIN st.greedy : st.greedy[i].extra = 0
                    /\ phase \in {"publish", "send"} =>
                           \A i \in DOMAIN st.greedy : d.opts[i] \in Byte

\* Every node starts at its configured cap.
LEMMA InitPlain == ASSUME ConfFits PROVE Init => NodesPlain
  <1> SUFFICES ASSUME Init PROVE NodesPlain
    OBVIOUS
  <1> DEFINE n0 == set_default_node_powercap_opt(Conf, MaxPowercap)
             m == [n0 EXCEPT !.status = "IDLE"]
  <1>1. n0 \in Node /\ powercap_init(Conf, MaxPowercap, FALSE) = n0
    <2>1. powercap_init(Conf, MaxPowercap, FALSE) = n0
      BY DEF powercap_init
    <2> QED BY <2>1, ConfTyped, NodeInit, Zenon
  <1>2. /\ n0.conf = Conf /\ n0.max = MaxPowercap
        /\ n0.mode = "AUTO" /\ n0.limit = 0 /\ n0.cur = 0 /\ n0.domains = 0
    BY DEF set_default_node_powercap_opt
  <1>3. powercap_idle(n0) = Conf
    BY <1>2, ConfTyped DEF powercap_idle, ear_max, EARD_POWERCAP_IDLE_PERC
  <1>4. powercap_init(Conf, MaxPowercap, TRUE) = set_powercap_value(m, Conf)
    BY <1>3, ConfTyped DEF powercap_init
  <1> HIDE DEF n0
  <1>5. m \in Node /\ m.conf = Conf /\ m.max = MaxPowercap /\ Held(m)
    BY <1>1, <1>2 DEF Node, PC_STATUS, Held
  <1> HIDE DEF m
  <1>6. Plain(set_powercap_value(m, Conf))
    BY <1>5, ConfTyped, Conf >= Conf, SetPlain
  <1>7. \A n \in Nodes : node[n] = set_powercap_value(m, Conf)
    BY <1>4, Zenon DEF Init
  <1>8. DOMAIN st.greedy = {}
    BY DEF Init, NoStatus
  <1> QED BY <1>6, <1>7, <1>8 DEF NodesPlain

\* A call on one node.
LEMMA CallPlain ==
  ASSUME NodesHold, NodesPlain, commands = 0, NEW n \in Nodes, NEW m, Plain(m),
         node' = [node EXCEPT ![n] = m]
  PROVE  \A k \in Nodes : Plain(node[k]')
  <1>1. \A k \in Nodes : node[k]' = IF k = n THEN m ELSE node[k]
    BY DEF NodesHold
  <1>2. \A k \in Nodes : Plain(node[k])
    BY DEF NodesPlain
  <1> QED BY <1>1, <1>2
\* Every step keeps the nodes plain.
LEMMA NextPlain ==
  ASSUME ConfFits
  PROVE  NodesHold /\ EargmTyped /\ NodesPlain /\ NoWrap /\ [Next]_vars => NodesPlain'
  <1> SUFFICES ASSUME NodesHold, EargmTyped, NodesPlain, NoWrap, [Next]_vars, commands' = 0
               PROVE  /\ \A n \in Nodes : Plain(node[n]')
                      /\ \A i \in DOMAIN st'.greedy : st'.greedy[i].extra = 0
                      /\ phase' \in {"publish", "send"} =>
                             \A i \in DOMAIN st'.greedy : d'.opts[i] \in Byte
    BY DEF NodesPlain
  <1>1. commands = 0 /\ \A n \in Nodes : ~econtrol_command(n)
    <2>1. commands \in Nat
      BY DEF EargmTyped
    <2>2. \A n \in Nodes : ~econtrol_command(n)
      BY <2>1 DEF econtrol_command
    <2>3. \A v : ~ChangeCap(v)
      BY <2>1 DEF ChangeCap
    <2>4. UNCHANGED commands
      BY <2>2, <2>3, Zenon DEF Next, vars, budget, EargmStep, StartPeriod, PollNode, ReleaseNode, SendNode,
             Skip, Decide, NoAnswer, DecideAgain, Publish, EndPeriod, powermon_new_job,
             powermon_end_job, econtrol_status, cluster_powercap_reset_pc,
             cluster_powercap_set_pc, cluster_powercap_red_pc, cluster_powercap_inc_pc
    <2> QED BY <2>2, <2>4
  <1>2. /\ \A n \in Nodes : Plain(node[n])
        /\ \A i \in DOMAIN st.greedy : st.greedy[i].extra = 0
        /\ phase \in {"publish", "send"} => \A i \in DOMAIN st.greedy : d.opts[i] \in Byte
    BY <1>1 DEF NodesPlain
  <1> DEFINE NodesP == \A n \in Nodes : Plain(node[n]')
             ListP == \A i \in DOMAIN st'.greedy : st'.greedy[i].extra = 0
             SharesP == phase' \in {"publish", "send"} =>
                            \A i \in DOMAIN st'.greedy : d'.opts[i] \in Byte
             Goal == NodesP /\ ListP /\ SharesP
  <1>3. ASSUME UNCHANGED node PROVE NodesP
    BY <1>2, <1>3
  <1>4. ASSUME UNCHANGED <<st, d, phase>> PROVE ListP /\ SharesP
    BY <1>2, <1>4
  <1>5. ASSUME NEW n \in Nodes, powermon_new_job(n) \/ powermon_end_job(n) PROVE Goal
    <2>1. UNCHANGED <<st, d, phase>>
      BY <1>5 DEF powermon_new_job, powermon_end_job, eargm
    <2>2. /\ Plain(powercap_idle_to_run(node[n])) /\ Plain(powercap_run_to_idle(node[n]))
          /\ reallocate_power_between_domains(node[n]) = node[n]
      BY <1>2, IdleToRunPlain, RunToIdlePlain, ReallocatePlain
    <2>3. reallocate_power_between_domains(powercap_idle_to_run(node[n])) = powercap_idle_to_run(node[n])
      BY <2>2, ReallocatePlain
    <2>4. \/ node' = [node EXCEPT ![n] = powercap_idle_to_run(node[n])]
          \/ node' = [node EXCEPT ![n] = powercap_run_to_idle(node[n])]
      BY <1>5, <2>2, <2>3 DEF powermon_new_job, powermon_end_job
    <2> QED BY <1>1, <1>4, <2>1, <2>2, <2>4, CallPlain
  <1>6. ASSUME NEW n \in Nodes, NEW p \in Answer(n), NEW release_power \in BOOLEAN,
               node' = [node EXCEPT ![n] = powercap_get_status(node[n], p, release_power)]
        PROVE  NodesP
    <2>1. p \in Answers /\ p.tbr < node[n].domains
      BY DEF Answer
    <2>2. Plain(powercap_get_status(node[n], p, release_power))
      BY <1>2, <2>1, GetStatusPlain
    <2> QED BY <1>1, <1>6, <2>2, CallPlain, Zenon
  <1>7. ASSUME NEW n \in Nodes, econtrol_status(n) PROVE Goal
    <2>1. UNCHANGED <<st, d, phase>>
      BY <1>7 DEF econtrol_status, eargm
    <2>2. PICK p \in Answer(n) : node' = [node EXCEPT ![n] = powercap_get_status(node[n], p, FALSE)]
      BY <1>7, Zenon DEF econtrol_status
    <2> QED BY <1>4, <1>6, <2>1, <2>2, Zenon
  <1>8. ASSUME NEW n \in Nodes, PollNode(n) PROVE Goal
    <2>1. PICK p \in Answer(n) :
              /\ node' = [node EXCEPT ![n] = powercap_get_status(node[n], p, TRUE)]
              /\ \/ st' = Aggregate(st, n, NodeAnswer(node[n], p, TRUE))
                 \/ UNCHANGED st
      BY <1>8, Zenon DEF PollNode
    <2>2. NodesP
      BY <1>6, <2>1, Zenon
    <2>3. ListP
      <3> DEFINE a == NodeAnswer(node[n], p, TRUE)
                 g == [ip |-> n, req |-> a.req, extra |-> a.extra]
                 R == [ip : Nodes, req : Byte, extra : Uint]
      <3>1. /\ {a.total, a.released, a.requested, a.extra} \subseteq Uint /\ a.req \in Byte
            /\ a.extra = 0
        <4>1. p \in Answers
          BY DEF Answer
        <4>2. node[n] \in Node /\ node[n].last <= node[n].def
          BY <1>2 DEF Plain
        <4> QED BY <4>1, <4>2, AnswerTyped, Zenon
      <3>2. st' = Aggregate(st, n, a) \/ st' = st
        BY <2>1, Zenon
      <3>3. Aggregate(st, n, a).greedy = IF a.greedy THEN Append(st.greedy, g) ELSE st.greedy
        BY DEF Aggregate
      <3> HIDE DEF a
      <3>4. st'.greedy = st.greedy \/ st'.greedy = Append(st.greedy, g)
        <4> HIDE DEF g
        <4> QED BY <3>2, <3>3, Zenon
      <3>5. st.greedy \in Seq(R) /\ g \in R /\ g.extra = 0
        BY <3>1, Zenon DEF EargmTyped, StatusType
      <3> HIDE DEF g, R
      <3>6. ASSUME st'.greedy = Append(st.greedy, g), NEW i \in DOMAIN st'.greedy
            PROVE  st'.greedy[i].extra = 0
        <4>1. st'.greedy[i] = g \/ (i \in DOMAIN st.greedy /\ st'.greedy[i] = st.greedy[i])
          BY <3>5, <3>6
        <4> QED BY <1>2, <3>5, <4>1, Zenon
      <3> QED BY <1>2, <3>4, <3>6
    <2>4. phase' = "poll"
      BY <1>8 DEF PollNode, Reach
    <2> QED BY <2>2, <2>3, <2>4
  <1>9. ASSUME NEW n \in Nodes, ReleaseNode(n) PROVE Goal
    <2>1. st'.greedy = st.greedy /\ phase' = "release"
      BY <1>9 DEF ReleaseNode, Reach, EargmTyped, StatusType
    <2>2. Plain(powercap_release_idle_power(node[n]))
      BY <1>2, UintFacts, Zenon DEF powercap_release_idle_power, Plain, Node, Held
    <2>3. NodesP
      BY <1>1, <1>9, <2>2, CallPlain, Zenon DEF ReleaseNode
    <2> QED BY <1>2, <2>1, <2>3, Zenon
  <1>10. ASSUME NEW n \in Nodes, SendNode(n) PROVE Goal
    <2>1. UNCHANGED <<st, d, phase>> /\ phase = "send" /\ d.perc \in Nat
      BY <1>10 DEF SendNode, Reach, EargmTyped, Decision
    <2>2. Share(n) \in Byte
      <3>1. CASE Listed(n) = {}
        BY <3>1, ByteSizeAssumption DEF Share, Byte
      <3>2. CASE Listed(n) # {}
        <4> DEFINE i == CHOOSE i \in Listed(n) : TRUE
        <4>1. i \in Listed(n)
          BY <3>2
        <4>2. i \in DOMAIN st.greedy
          BY <4>1 DEF Listed
        <4>3. Share(n) = d.opts[i]
          BY <3>2 DEF Share
        <4> HIDE DEF i
        <4> QED BY <1>2, <2>1, <4>2, <4>3
      <3> QED BY <3>1, <3>2
    <2> DEFINE listed == Listed(n) # {}
               extra == Share(n)
    <2>3. node' = [node EXCEPT ![n] = powercap_set_opt(node[n], listed, extra, d.perc)]
      BY <1>10 DEF SendNode
    <2>4. listed \in BOOLEAN /\ extra \in Byte /\ node[n].last + ByteSize <= UintSize
      BY <2>2 DEF NoWrap
    <2> HIDE DEF listed, extra
    <2>5. Plain(powercap_set_opt(node[n], listed, extra, d.perc))
      BY <1>2, <2>1, <2>4, SetOptPlain
    <2> QED BY <1>1, <1>4, <2>1, <2>3, <2>5, CallPlain, Zenon
  <1>11. ASSUME Decide PROVE Goal
    <2> DEFINE x == Fresh(st.greedy, d.greedy_allocated)
    <2>1. st \in StatusType /\ cap \in Uint /\ GreedyList(st.greedy)
      BY StatusTyped DEF EargmTyped, Status
    <2>2. d.greedy_allocated \in Uint
      BY <1>11 DEF Decide, EargmTyped, Decision
    <2>3. x \in Decision(st.greedy) /\ x.opts = NoOptions(st.greedy)
      BY <2>1, <2>2, FreshTyped
    <2>4. d' = powercap_reallocation(st, cap, x) /\ UNCHANGED <<node, st>>
          /\ (phase' \in {"publish", "send"} => d'.ret)
      BY <1>11 DEF Decide
    <2> HIDE DEF x
    <2>5. d'.ret => \A i \in DOMAIN st.greedy : d'.opts[i] \in Byte
      BY <1>2, <2>1, <2>3, <2>4, GrantsOnly
    <2> QED BY <1>2, <1>3, <2>4, <2>5
  <1>12. ASSUME DecideAgain PROVE Goal
    <2>1. st' \in StatusType /\ st'.greedy = st.greedy /\ st'.released = 0
      BY <1>12, UintFacts DEF DecideAgain, EargmTyped, StatusType
    <2>2. d \in Decision(st'.greedy) /\ d.opts = NoOptions(st'.greedy) /\ cap \in Uint
      BY <1>12, <2>1 DEF DecideAgain, EargmTyped
    <2>3. d' = powercap_reallocation(st', cap, d) /\ UNCHANGED node
      BY <1>12 DEF DecideAgain
    <2>4. \A i \in DOMAIN st'.greedy : st'.greedy[i].extra = 0
      BY <1>2, <2>1
    <2>5. \A i \in DOMAIN st'.greedy : d'.opts[i] \in Byte
      BY <2>1, <2>2, <2>3, <2>4, GrantsOnly
    <2> QED BY <1>3, <2>3, <2>4, <2>5
  <1>13. ASSUME EndPeriod PROVE Goal
    <2>1. phase' = "sleep" /\ DOMAIN st'.greedy = {} /\ UNCHANGED node
      BY <1>13 DEF EndPeriod, NoStatus
    <2> QED BY <1>3, <2>1
  <1>14. ASSUME StartPeriod \/ NoAnswer PROVE Goal
    <2>1. phase' \in {"poll", "sleep"} /\ UNCHANGED <<node, st>>
      BY <1>14 DEF StartPeriod, NoAnswer
    <2> QED BY <1>2, <1>3, <2>1
  <1>15. ASSUME Publish PROVE Goal
    <2>1. phase = "publish" /\ UNCHANGED <<node, st, d>>
      BY <1>15 DEF Publish
    <2> QED BY <1>2, <1>3, <2>1
  <1>16. ASSUME NEW n \in Nodes, NEW p \in {"poll", "release", "send"}, Skip(p, n) PROVE Goal
    <2>1. UNCHANGED <<node, st, d, phase>>
      BY <1>16 DEF Skip
    <2> QED BY <1>3, <1>4, <2>1
  <1>17. ASSUME \/ cluster_powercap_reset_pc \/ cluster_powercap_set_pc
                \/ cluster_powercap_red_pc \/ cluster_powercap_inc_pc
         PROVE  Goal
    <2>1. UNCHANGED <<node, st, d, phase>>
      BY <1>17 DEF cluster_powercap_reset_pc, cluster_powercap_set_pc, cluster_powercap_red_pc,
                   cluster_powercap_inc_pc, ChangeCap, eargm
    <2> QED BY <1>3, <1>4, <2>1
  <1>18. ASSUME UNCHANGED vars PROVE Goal
    <2>1. UNCHANGED <<node, st, d, phase>>
      BY <1>18 DEF vars, eargm
    <2> QED BY <1>3, <1>4, <2>1
  <1>19. Goal
    <2> HIDE DEF Goal
    <2> QED BY <1>1, <1>5, <1>7, <1>8, <1>9, <1>10, <1>11, <1>12, <1>13, <1>14, <1>15, <1>16, <1>17,
               <1>18 DEF Next, EargmStep
  <1> QED BY <1>19
-----------------------------------------------------------------------------
\* The inductive invariant of the cluster.
ClusterHolds == NodesHold /\ EargmTyped

\* It holds of every behaviour.
LEMMA ClusterInvariant == Spec => []ClusterHolds
  <1>1. Init => ClusterHolds
    BY InitHolds, InitTyped DEF ClusterHolds
  <1>2. ClusterHolds /\ [Next]_vars => ClusterHolds'
    BY NextHolds, NextTyped, SharesTyped DEF ClusterHolds
  <1> QED BY <1>1, <1>2, PTL DEF Spec

(* For any number of nodes and sizes of the C types: EARGM and its nodes    *)
(* keep their types.  No sum of shares wraps, no decision lacks the share   *)
(* of a node on its list, and greedy_allocated stays within what was free.  *)
THEOREM ClusterTypes == Spec => []TypeOK
  <1>1. ClusterHolds => TypeOK
    <2> SUFFICES ASSUME ClusterHolds PROVE TypeOK
      OBVIOUS
    <2>1. NodesHold /\ EargmTyped /\ DecisionTyped
      BY SharesTyped DEF ClusterHolds
    <2>2. node \in [Nodes -> Node]
      BY <2>1 DEF NodesHold
    <2>3. {st.total, st.requested, st.released} \subseteq Uint
      BY <2>1 DEF EargmTyped, StatusType
    <2>4. d.total_free \in Uint /\ d.greedy_allocated \in Uint
      BY <2>1 DEF EargmTyped, Decision
    <2>5. phase \notin {"sleep", "poll"} => DOMAIN d.opts = DOMAIN st.greedy
      BY <2>1 DEF EargmTyped, Decision
    <2> QED BY <2>1, <2>2, <2>3, <2>4, <2>5, Zenon DEF EargmTyped, TypeOK
  <1> QED BY <1>1, ClusterInvariant, PTL

(* For any number of nodes: what a node reports to EARGM as allocated is    *)
(* what it enforces, under every interleaving of polls, releases, options,  *)
(* jobs, commands and lost messages.                                        *)
THEOREM HeldPowerIsEnforced == Spec => []HeldIsEnforced
  <1>1. ClusterHolds => HeldIsEnforced
    BY DEF ClusterHolds, NodesHold, HeldIsEnforced, Held
  <1> QED  BY <1>1, ClusterInvariant, PTL

(* For any number of nodes: what EARGM offers to its meta-EARGM leaves the  *)
(* default power of all of them, whatever they answered and whenever the    *)
(* cluster cap was changed.                                                 *)
THEOREM OffersKeepDefaults == Spec => []OfferKeepsDefaults
  <1>1. ClusterHolds => EargmTyped
    BY DEF ClusterHolds
  <1> QED BY <1>1, InitOffers, NextOffers, ClusterInvariant, PTL DEF Spec

(* For any number of nodes, in an ear.conf that lets a node have its cap:   *)
(* as long as econtrol moves no default, EARGM alone never lowers one below *)
(* that of ear.conf, although every share, release and lost message writes  *)
(* def_powercap.  The power of a node is below the size of its uint.        *)
THEOREM EargmKeepsDefaults == ASSUME ConfFits PROVE Spec /\ []NoWrap => []DefaultKept
  <1>1. NodesPlain => DefaultKept
    BY DEF NodesPlain, Plain, DefaultKept
  <1>2. Init => NodesPlain
    BY InitPlain
  <1>3. NodesHold /\ EargmTyped /\ NodesPlain /\ NoWrap /\ [Next]_vars => NodesPlain'
    BY NextPlain
  <1>4. ClusterHolds => NodesHold /\ EargmTyped
    BY DEF ClusterHolds
  <1> QED BY <1>1, <1>2, <1>3, <1>4, ClusterInvariant, PTL DEF Spec
=============================================================================
