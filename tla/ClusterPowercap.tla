-------------------------- MODULE ClusterPowercap --------------------------
(***************************************************************************)
(* EARGM in hard power cap mode over the power caps of its nodes           *)
(* (global_manager/cluster_powercap.c with daemon/powercap/powercap.c).    *)
(* A period polls the nodes, decides, may ask them to release idle power,  *)
(* decides again, publishes its state for the meta-EARGM and sends the     *)
(* options.  The nodes are reached one by one: jobs start and end, econtrol*)
(* asks and commands, the cluster cap changes and messages are lost        *)
(* between any two of these steps.                                         *)
(***************************************************************************)
EXTENDS EargmReallocation, FiniteSetsExt

CONSTANTS Nodes,
          Conf, MaxPowercap,   \* power cap and max_powercap of a node in ear.conf
          DefaultCap,          \* default_cluster_powercap
          PcSteps,             \* amounts of EARGM_SET_PC, EARGM_INC_PC and EARGM_RED_PC
          DefconLimit, DefconLower, \* thresholds of the actions, in percent
          Answers,             \* answers of pmgt_get_status
          DefStep,             \* step of EAR_RC_RED_POWER and EAR_RC_INC_POWER
          Lossy, MaxLosses,    \* the broadcasts that lose messages, and how many at most
          MaxCommands,         \* bound on the external commands
          Mixed                \* whether a behaviour has both losses and commands

ASSUME ClusterAssumption ==
    /\ IsFiniteSet(Nodes)
    /\ {Conf, MaxPowercap, DefStep} \subseteq Uint
    /\ Conf > POWER_CAP_UNLIMITED
    /\ DefaultCap \in Uint \ {0} /\ PcSteps \subseteq Uint
    /\ DefconLimit \in Nat /\ DefconLower \in Nat
    /\ Answers \subseteq [status : {"OK", "GREEDY", "RELEASE"}, requested : Byte, tbr : Uint]
    /\ Lossy \subseteq {"poll", "release", "send"}
    /\ MaxLosses \in Nat /\ MaxCommands \in Nat /\ Mixed \in BOOLEAN

VARIABLES node,     \* the power cap of each node
          running,  \* the nodes that run a job
          cap,      \* current_cluster_powercap
          phase,    \* where cluster_hard_powercap is
          todo,     \* nodes the current broadcast has yet to reach
          st,       \* my_cluster_power_status (nodes: total_nodes)
          d,        \* the decision, see powercap_reallocation
          shared,   \* ext_powercap_data
          actions_executed,
          losses, commands

eargm == <<phase, todo, st, d, shared, actions_executed>>
budget == <<losses, commands>>
vars == <<node, running, cap, eargm, budget>>

cluster_get_min_power == Conf * Cardinality(Nodes)

NoStatus == [nodes |-> 0, total |-> 0, requested |-> 0, released |-> 0, greedy |-> <<>>]

\* memset of cluster_options: greedy_allocated is all that a period inherits.
Fresh(gs, allocated) ==
    [ret |-> TRUE, opts |-> NoOptions(gs), total_free |-> 0, must_send |-> FALSE,
     perc |-> 0, greedy_allocated |-> allocated]

Init ==
    /\ node = [n \in Nodes |-> powercap_init(Conf, MaxPowercap, TRUE)]
    /\ running = {}
    /\ cap = DefaultCap
    /\ phase = "sleep" /\ todo = {} /\ st = NoStatus /\ d = Fresh(<<>>, 0)
    /\ shared = [status |-> "OK", requested |-> 0, available |-> 0,
                 powercap |-> 0, extra |-> 0]
    /\ actions_executed = FALSE
    /\ losses = 0 /\ commands = 0
-----------------------------------------------------------------------------
(* The nodes.                                                               *)

powermon_new_job(n) ==
    /\ n \notin running
    /\ running' = running \cup {n}
    /\ node' = [node EXCEPT ![n] = reallocate_power_between_domains(powercap_idle_to_run(@))]
    /\ UNCHANGED <<cap, eargm, budget>>

powermon_end_job(n) ==
    /\ n \in running
    /\ running' = running \ {n}
    /\ node' = [node EXCEPT ![n] = powercap_run_to_idle(reallocate_power_between_domains(@))]
    /\ UNCHANGED <<cap, eargm, budget>>

\* Domains never release all they hold.
Answer(n) == {p \in Answers : p.tbr < node[n].domains}

\* econtrol asks for the status (release_power = 0).
econtrol_status(n) ==
    \E p \in Answer(n) :
        /\ node' = [node EXCEPT ![n] = powercap_get_status(@, p, FALSE)]
        /\ UNCHANGED <<running, cap, eargm, budget>>

\* econtrol changes the default of a node.
econtrol_command(n) ==
    /\ commands < MaxCommands /\ (losses = 0 \/ Mixed)
    /\ commands' = commands + 1
    /\ \/ node' = [node EXCEPT ![n] = powercap_reduce_def_power(@, DefStep)]
       \/ node' = [node EXCEPT ![n] = powercap_increase_def_power(@, DefStep)]
    /\ UNCHANGED <<running, cap, eargm, losses>>

\* The commands on the cluster cap, served by EARGM's other thread; a cap of 0,
\* with which the periods stop, is left out.
ChangeCap(v) ==
    /\ commands < MaxCommands /\ (losses = 0 \/ Mixed)
    /\ commands' = commands + 1
    /\ v \in Uint \ {0}
    /\ cap' = v
    /\ UNCHANGED <<node, running, eargm, losses>>

cluster_powercap_reset_pc == ChangeCap(DefaultCap)
cluster_powercap_set_pc == \E limit \in PcSteps : ChangeCap(limit)
cluster_powercap_red_pc == \E red \in PcSteps : red <= cap /\ ChangeCap(cap - red)
cluster_powercap_inc_pc == \E inc \in PcSteps : ChangeCap(cap + inc)
-----------------------------------------------------------------------------
(* cluster_hard_powercap.                                                   *)

StartPeriod ==
    /\ phase = "sleep"
    /\ phase' = "poll" /\ todo' = Nodes
    /\ UNCHANGED <<node, running, cap, st, d, shared, actions_executed, budget>>

\* One node of a broadcast is reached, or it is not and the bound allows it.
Reach(p, n) == phase = p /\ n \in todo /\ todo' = todo \ {n}
Lose == /\ phase \in Lossy /\ losses < MaxLosses /\ (commands = 0 \/ Mixed)
        /\ losses' = losses + 1

Aggregate(s, n, a) ==
    [nodes |-> s.nodes + 1,
     total |-> (s.total + a.total) % UintSize,
     requested |-> (s.requested + a.requested) % UintSize,
     released |-> (s.released + a.released) % UintSize,
     greedy |-> IF a.greedy
                THEN Append(s.greedy, [ip |-> n, req |-> a.req, extra |-> a.extra])
                ELSE s.greedy]

\* The answer of a node may be lost after the node served the request.
PollNode(n) ==
    /\ Reach("poll", n)
    /\ \E p \in Answer(n) :
           /\ node' = [node EXCEPT ![n] = powercap_get_status(@, p, TRUE)]
           /\ \/ st' = Aggregate(st, n, NodeAnswer(node[n], p, TRUE)) /\ UNCHANGED losses
              \/ Lose /\ UNCHANGED st
    /\ UNCHANGED <<running, cap, phase, d, shared, actions_executed, commands>>

Skip(p, n) ==
    /\ Reach(p, n)
    /\ Lose
    /\ UNCHANGED <<node, running, cap, phase, st, d, shared, actions_executed, commands>>

Decide ==
    /\ phase = "poll" /\ todo = {} /\ st.nodes > 0
    /\ d' = powercap_reallocation(st, cap, Fresh(st.greedy, d.greedy_allocated))
    /\ IF d'.ret THEN phase' = "publish" /\ todo' = {}
                 ELSE phase' = "release" /\ todo' = Nodes
    /\ UNCHANGED <<node, running, cap, st, shared, actions_executed, budget>>

\* No node answered: the period is over.
NoAnswer ==
    /\ phase = "poll" /\ todo = {} /\ st.nodes = 0
    /\ phase' = "sleep"
    /\ shared' = write_shared_data(cap, DefaultCap, 0, 0)
    /\ UNCHANGED <<node, running, cap, todo, st, d, actions_executed, budget>>

ReleaseNode(n) ==
    /\ Reach("release", n)
    /\ node' = [node EXCEPT ![n] = powercap_release_idle_power(@)]
    /\ \/ st' = [st EXCEPT !.total = (@ - ReleasedIdlePower(node[n])) % UintSize]
          /\ UNCHANGED losses
       \/ Lose /\ UNCHANGED st
    /\ UNCHANGED <<running, cap, phase, d, shared, actions_executed, commands>>

DecideAgain ==
    /\ phase = "release" /\ todo = {}
    /\ st' = [st EXCEPT !.released = 0]
    /\ d' = powercap_reallocation(st', cap, d)
    /\ phase' = "publish"
    /\ UNCHANGED <<node, running, cap, todo, shared, actions_executed, budget>>

\* A slip: what the nodes are due by default is not kept back.
SlipOffersAll == d.total_free + st.released \div 2

power_to_free ==
    ear_min((cap - cluster_get_min_power) % UintSize, d.total_free + st.released \div 2)
power_to_request ==
    LET wanted == aggregate_data(st.greedy).total_req_greedy
    IN  IF wanted > d.greedy_allocated THEN wanted - d.greedy_allocated ELSE 0

\* A slip: options go out only when a greedy node gains or loses power.
SlipSendsSharesOnly ==
    /\ phase = "publish"
    /\ shared' = write_shared_data(cap, DefaultCap, power_to_free, power_to_request)
    /\ phase' = "send"
    /\ todo' = IF \E i \in DOMAIN d.opts : d.opts[i] # 0 THEN Nodes ELSE {}
    /\ UNCHANGED <<node, running, cap, st, d, actions_executed, budget>>

Publish ==
    /\ phase = "publish"
    /\ shared' = write_shared_data(cap, DefaultCap, power_to_free, power_to_request)
    /\ phase' = "send"
    /\ todo' = IF d.must_send THEN Nodes ELSE {}
    /\ UNCHANGED <<node, running, cap, st, d, actions_executed, budget>>

\* The share of a node in the options, and whether it is on their list.
Listed(n) == {i \in DOMAIN st.greedy : st.greedy[i].ip = n}
Share(n) == IF Listed(n) = {} THEN 0 ELSE d.opts[CHOOSE i \in Listed(n) : TRUE]

SendNode(n) ==
    /\ Reach("send", n)
    /\ node' = [node EXCEPT ![n] = powercap_set_opt(@, Listed(n) # {}, Share(n), d.perc)]
    /\ UNCHANGED <<running, cap, phase, st, d, shared, actions_executed, budget>>

check_powercap_actions(power) ==
    actions_executed' = IF ~actions_executed THEN power * 100 >= cap * DefconLimit
                        ELSE power * 100 > cap * DefconLower

EndPeriod ==
    /\ phase = "send" /\ todo = {}
    /\ check_powercap_actions(st.total)
    /\ phase' = "sleep" /\ st' = NoStatus /\ d' = Fresh(<<>>, d.greedy_allocated)
    /\ UNCHANGED <<node, running, cap, todo, shared, budget>>

EargmStep ==
    \/ StartPeriod
    \/ \E n \in Nodes : PollNode(n) \/ ReleaseNode(n) \/ SendNode(n)
    \/ \E n \in Nodes, p \in {"poll", "release", "send"} : Skip(p, n)
    \/ Decide \/ NoAnswer \/ DecideAgain \/ Publish \/ EndPeriod

Next ==
    \/ EargmStep
    \/ \E n \in Nodes : \/ powermon_new_job(n) \/ powermon_end_job(n)
                        \/ econtrol_status(n) \/ econtrol_command(n)
    \/ cluster_powercap_reset_pc \/ cluster_powercap_set_pc
    \/ cluster_powercap_red_pc \/ cluster_powercap_inc_pc

Spec == Init /\ [][Next]_vars

\* The thread of the power cap period runs for ever and waits for nothing else.
FairSpec == Spec /\ WF_vars(EargmStep)
-----------------------------------------------------------------------------
HeldPower == MapThenSumSet(LAMBDA n : node[n].last, Nodes)

\* The options EARGM sends hold an integer for every node.
DecisionTyped == phase = "send" => d.perc \in Nat /\ \A n \in Nodes : Share(n) \in Int

(* The state of EARGM and of its nodes keeps its types, and a decision has  *)
(* one share per node of the greedy list.                                   *)
TypeOK ==
    /\ node \in [Nodes -> Node]
    /\ running \subseteq Nodes
    /\ cap \in Uint \ {0}
    /\ phase \in {"sleep", "poll", "release", "publish", "send"}
    /\ todo \subseteq Nodes
    /\ {st.total, st.requested, st.released, d.total_free, d.greedy_allocated} \subseteq Uint
    /\ phase \notin {"sleep", "poll"} => DOMAIN d.opts = DOMAIN st.greedy
    /\ DecisionTyped
    /\ losses \in 0 .. MaxLosses
    /\ commands \in 0 .. MaxCommands

(* What a node tells EARGM it holds is the cap it enforces, whatever the    *)
(* order of polls, releases, options, jobs and commands of the cluster.     *)
HeldIsEnforced == \A n \in Nodes : node[n].last = node[n].cur /\ node[n].cur = node[n].domains

(* EARGM alone never lowers the default of a node below that of ear.conf,   *)
(* although set_powercap_value overwrites def_powercap with each new cap:   *)
(* no share, release or lost message does, only econtrol's commands.        *)
DefaultKept == commands = 0 => \A n \in Nodes : node[n].def >= Conf

(* What EARGM offers to its meta-EARGM leaves it the default power of all   *)
(* its nodes (power_to_free and min_cluster_powercap), for a cap above it.  *)
OfferKeepsDefaults ==
    shared.powercap >= cluster_get_min_power
        => shared.powercap - shared.available >= cluster_get_min_power

(* global_manager/README.md: "It guarantees that any node has its default   *)
(* powercap allocation [...] if it is running an application": a running    *)
(* node below its default gets it back.                                     *)
AskDefServed ==
    \A n \in Nodes : n \in running /\ node[n].last < node[n].def
                        ~> n \notin running \/ node[n].last >= node[n].def

(* global_manager/README.md: EARGM "redistributes a certain budget between  *)
(* the nodes": with no message lost and no command, they never hold more    *)
(* than the cluster cap together once the options were sent.                *)
BudgetRespected == phase = "sleep" => HeldPower <= cap

=============================================================================
