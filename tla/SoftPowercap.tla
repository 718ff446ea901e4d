---------------------------- MODULE SoftPowercap ----------------------------
(***************************************************************************)
(* EARGM in soft power cap mode (cluster_soft_powercap of global_manager/  *)
(* cluster_powercap.c) over nodes configured without a limit: when the     *)
(* measured power exceeds a part of the cluster cap all nodes are told to  *)
(* keep to their max_powercap, and once it is low again to run unlimited.  *)
(* The broadcasts reach the nodes one by one; loads change, messages are   *)
(* lost and EARGM and the EARDs restart between any two of these steps.    *)
(* (A job changes nothing on a node without a limit in ear.conf: see       *)
(* powercap_idle_to_run and powercap_run_to_idle.)                         *)
(***************************************************************************)
EXTENDS EargmReallocation

CONSTANTS Nodes,
          Loads,               \* power a node may draw when nothing limits it
          max_powercap,        \* max_powercap of a node in ear.conf
          DefaultCap,          \* default_cluster_powercap
          PcSteps,             \* limits of EARGM_SET_PC
          DefconLimit, DefconLower, \* thresholds, in percent of the cap
          MaxLosses, MaxRestarts, MaxCommands  \* bounds on the failures and commands

ASSUME SoftAssumption ==
    /\ IsFiniteSet(Nodes) /\ Nodes # {}
    /\ Loads \subseteq Nat
    /\ max_powercap \in Uint
    /\ DefaultCap \in Uint \ {0} /\ PcSteps \subseteq Uint \ {0}
    /\ DefconLimit \in Nat /\ DefconLower \in 0 .. DefconLimit
    /\ {MaxLosses, MaxRestarts, MaxCommands} \subseteq Nat

VARIABLES pc_opt,   \* my_pc_opt of each node
          load,     \* what each would draw
          cap,      \* current_cluster_powercap
          phase, todo,  \* where the period is, and the nodes a broadcast has yet to reach
          used,     \* the power measured so far
          limit, offer,  \* the limit being sent, and what will be published
          risk, actions_executed,
          shared,   \* ext_powercap_data
          lost      \* failures and commands so far

eargm == <<phase, todo, used, limit, offer, risk, actions_executed, shared>>
soft == <<pc_opt, load, cap, eargm, lost>>

\* A node keeps to its limit if it has one (1: unlimited).
Unlimited(n) == pc_opt[n].domains = POWER_CAP_UNLIMITED
Draw(n) == IF Unlimited(n) THEN load[n] ELSE ear_min(load[n], pc_opt[n].domains)

\* EARGM begins with the broadcast of "unlimited", for a previous one may have
\* left the nodes limited.  A slip: it does not.
SlipNoReset ==
    /\ lost.restarts < MaxRestarts
    /\ phase' = "sleep" /\ todo' = {} /\ limit' = 0
    /\ used' = 0 /\ offer' = [free |-> 0, req |-> 0] /\ risk' = FALSE /\ actions_executed' = FALSE
    /\ cap' = DefaultCap /\ shared' = Unpublished
    /\ lost' = [lost EXCEPT !.restarts = @ + 1]
    /\ UNCHANGED <<pc_opt, load>>

eard_init == powercap_init(POWER_CAP_UNLIMITED, max_powercap, TRUE)

SoftInit ==
    /\ pc_opt = [n \in Nodes |-> eard_init]
    /\ load \in [Nodes -> Loads]
    /\ cap = DefaultCap
    /\ phase = "start" /\ todo = Nodes /\ limit = POWER_CAP_UNLIMITED
    /\ used = 0 /\ offer = [free |-> 0, req |-> 0] /\ risk = FALSE /\ actions_executed = FALSE
    /\ shared = Unpublished
    /\ lost = [losses |-> 0, restarts |-> 0, commands |-> 0]
-----------------------------------------------------------------------------
(* What happens around EARGM.                                               *)

ChangeLoad(n) ==
    /\ \E l \in Loads \ {load[n]} : load' = [load EXCEPT ![n] = l]
    /\ UNCHANGED <<pc_opt, cap, eargm, lost>>

eard_restart(n) ==
    /\ lost.restarts < MaxRestarts
    /\ lost' = [lost EXCEPT !.restarts = @ + 1]
    /\ pc_opt' = [pc_opt EXCEPT ![n] = eard_init]
    /\ UNCHANGED <<load, cap, eargm>>

eargm_restart ==
    /\ lost.restarts < MaxRestarts
    /\ phase' = "start" /\ todo' = Nodes /\ limit' = POWER_CAP_UNLIMITED
    /\ used' = 0 /\ offer' = [free |-> 0, req |-> 0] /\ risk' = FALSE /\ actions_executed' = FALSE
    /\ cap' = DefaultCap /\ shared' = Unpublished
    /\ lost' = [lost EXCEPT !.restarts = @ + 1]
    /\ UNCHANGED <<pc_opt, load>>

cluster_powercap_set_pc(limit_pc) ==
    /\ lost.commands < MaxCommands
    /\ lost' = [lost EXCEPT !.commands = @ + 1]
    /\ cap' = limit_pc
    /\ UNCHANGED <<pc_opt, load, eargm>>
-----------------------------------------------------------------------------
(* The period.                                                              *)

StartPeriod ==
    /\ phase = "sleep"
    /\ phase' = "poll" /\ todo' = Nodes /\ used' = 0
    /\ UNCHANGED <<pc_opt, load, cap, limit, offer, risk, actions_executed, shared, lost>>

Reach(p, n) == phase = p /\ n \in todo /\ todo' = todo \ {n}

dyncon_get_power(n) ==
    /\ Reach("poll", n)
    /\ used' = used + Draw(n)
    /\ UNCHANGED <<pc_opt, load, cap, phase, limit, offer, risk, actions_executed, shared, lost>>

ear_set_powerlimit(n) ==
    /\ \E p \in {"start", "send"} : Reach(p, n)
    /\ pc_opt' = [pc_opt EXCEPT ![n] = set_powercap_value(@, limit)]
    /\ UNCHANGED <<load, cap, phase, used, limit, offer, risk, actions_executed, shared, lost>>

Lose(n) ==
    /\ Reach(phase, n)
    /\ lost.losses < MaxLosses
    /\ lost' = [lost EXCEPT !.losses = @ + 1]
    /\ UNCHANGED <<pc_opt, load, cap, phase, used, limit, offer, risk, actions_executed, shared>>

\* A slip: the limit is not sent again.
SlipSendsOnce(over, low) ==
    IF over /\ ~risk THEN UintSize - 1
    ELSE IF ~over /\ risk /\ low THEN POWER_CAP_UNLIMITED ELSE 0

\* The limit to send, 0 for none.  The nodes cut UINT_MAX to their max_powercap.
new_limit(over, low) ==
    IF over THEN UintSize - 1
    ELSE IF risk /\ low THEN POWER_CAP_UNLIMITED ELSE 0

\* What is published: half of what is free below the upper limit, or the power
\* above it.
Offer(margin) ==
    IF margin < 0 THEN [free |-> 0, req |-> (0 - margin) \div 100]
    ELSE [free |-> (margin \div 100) \div 2, req |-> 0]

\* cluster_soft_powercap up to its broadcast.
cluster_soft_powercap ==
    LET margin == cap * DefconLimit - used * 100
    IN  /\ phase = "poll" /\ todo = {} /\ cap # POWER_CAP_UNLIMITED
        /\ limit' = new_limit(margin < 0, used * 100 <= cap * DefconLower)
        /\ phase' = "send"
        /\ todo' = IF limit' = 0 THEN {} ELSE Nodes
        /\ offer' = Offer(margin)
        /\ UNCHANGED <<pc_opt, load, cap, used, risk, actions_executed, shared, lost>>

CapIsUnlimited ==
    /\ phase = "poll" /\ todo = {} /\ cap = POWER_CAP_UNLIMITED
    /\ phase' = "sleep" /\ used' = 0
    /\ shared' = write_shared_data(cap, DefaultCap, 0, 0)
    /\ UNCHANGED <<pc_opt, load, cap, todo, limit, offer, risk, actions_executed, lost>>

check_powercap_actions ==
    actions_executed' = IF ~actions_executed THEN used * 100 >= cap * DefconLimit
                        ELSE used * 100 > cap * DefconLower

\* A slip: the limit sent is not remembered.
SlipForgetsRisk == risk /\ limit # POWER_CAP_UNLIMITED
risk_after == (risk \/ limit # 0) /\ limit # POWER_CAP_UNLIMITED

\* The rest of the period, with the cap the commands left meanwhile.
EndPeriod ==
    /\ phase = "send" /\ todo = {}
    /\ phase' = "sleep" /\ used' = 0 /\ limit' = 0 /\ offer' = [free |-> 0, req |-> 0]
    /\ risk' = risk_after
    /\ shared' = write_shared_data(cap, DefaultCap, offer.free, offer.req)
    /\ check_powercap_actions
    /\ UNCHANGED <<pc_opt, load, cap, todo, lost>>

\* The broadcast of the start is followed by the first sleep.
Started ==
    /\ phase = "start" /\ todo = {}
    /\ phase' = "sleep" /\ limit' = 0
    /\ UNCHANGED <<pc_opt, load, cap, todo, used, offer, risk, actions_executed, shared, lost>>

EargmStep ==
    \/ Started \/ StartPeriod \/ cluster_soft_powercap \/ CapIsUnlimited \/ EndPeriod
    \/ \E n \in Nodes : dyncon_get_power(n) \/ ear_set_powerlimit(n) \/ Lose(n)

SoftNext ==
    \/ EargmStep \/ eargm_restart
    \/ \E n \in Nodes : ChangeLoad(n) \/ eard_restart(n)
    \/ \E l \in PcSteps : cluster_powercap_set_pc(l)

SoftSpec == SoftInit /\ [][SoftNext]_soft

\* The thread of the period runs for ever and waits for nothing else.
FairSoftSpec == SoftSpec /\ WF_soft(EargmStep)
-----------------------------------------------------------------------------
Drawn == FoldFunction(LAMBDA a, b : a + b, 0, [n \in Nodes |-> Draw(n)])
UpperLimit == [c \in Uint |-> (c * DefconLimit) \div 100]
LowerLimit == [c \in Uint |-> (c * DefconLower) \div 100]
Exceeds == cap # POWER_CAP_UNLIMITED /\ Drawn > UpperLimit[cap]
LoadsAreLow == \A n \in Nodes : load[n] <= LowerLimit[cap] \div Cardinality(Nodes)
AllUnlimited == \A n \in Nodes : Unlimited(n)

(* The state of EARGM and of its nodes keeps its types.                     *)
SoftTypeOK ==
    /\ pc_opt \in [Nodes -> Node] /\ load \in [Nodes -> Loads]
    /\ cap \in Uint \ {0} /\ limit \in Uint /\ used \in Nat
    /\ phase \in {"start", "sleep", "poll", "send"} /\ todo \subseteq Nodes
    /\ {risk, actions_executed} \subseteq BOOLEAN
    /\ shared.requested \in Nat /\ shared.available \in Nat

(* risk is all that cluster_soft_powercap remembers of the limits it sent:  *)
(* between two periods without it no node is limited, also when EARGM was   *)
(* restarted in the middle of a broadcast.                                  *)
UnlimitedWithoutRisk ==
    lost.losses = 0 /\ phase = "sleep" /\ ~risk => AllUnlimited

(* README.md of the global manager: EARGM ensures "the global power does    *)
(* not exceed a set value": while it does, the limit is sent again every    *)
(* period, so that it reaches every node although messages are lost and     *)
(* EARDs restart without the limit.                                         *)
LimitReachesAll == Exceeds ~> ~Exceeds \/ \A n \in Nodes : ~Unlimited(n)

(* README.md of the global manager: "Should the power go back to a value    *)
(* under the cap, a message is sent again so the nodes run at their default *)
(* value (unlimited power)", here for nodes whose loads stay so low that no *)
(* sum of samples taken at different times is above the lower threshold, as *)
(* long as every message arrives, also when EARGM or an EARD is restarted   *)
(* between any two steps.                                                   *)
UnlimitedIfReached == [](lost.losses = 0) /\ <>[]LoadsAreLow => <>[]AllUnlimited
=============================================================================
