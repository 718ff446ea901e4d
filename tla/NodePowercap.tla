---------------------------- MODULE NodePowercap ----------------------------
(***************************************************************************)
(* The power cap of one node under every order of the calls EARD makes on  *)
(* it: jobs starting and ending (power_monitor.c), remote commands from    *)
(* EARGM and econtrol (dynamic_configuration.c) and the periodic metric.   *)
(* Each call holds my_pc_opt.lock, and one thread serves all the remote    *)
(* commands, so each call is one step.                                     *)
(***************************************************************************)
EXTENDS PowercapOps

CONSTANTS Confs,       \* power caps the node may have in ear.conf
          MaxPowercap, \* max_powercap in ear.conf (0 or 1: none)
          SetLimits,   \* limits of EAR_RC_SET_POWER
          DefSteps,    \* amounts of EAR_RC_INC_POWER and EAR_RC_RED_POWER
          Extras,      \* shares EARGM gives to or takes from a greedy node
          Percs,       \* cluster_perc_power values of the options
          Domains,     \* statuses a domain plugin may answer
          Messages,    \* "ear messages" of external tools
          MaxJobs      \* bound on the jobs running at once

ASSUME NodeAssumption ==
    /\ Confs \subseteq Uint
    /\ \A c \in Confs : c > POWER_CAP_UNLIMITED \/ c = 0
    /\ MaxPowercap \in Uint
    /\ SetLimits \subseteq Uint
    /\ DefSteps \subseteq Uint
    /\ Extras \subseteq Int
    /\ Percs \subseteq Nat
    /\ Domains \subseteq DomainStatus
    /\ Messages \subseteq [mode : {"none", "manual"}, level : {"none", "node", "domain"},
                           action : {"none", "set", "deactivate"}, total : Uint]
    /\ MaxJobs \in Nat \ {0}

VARIABLES node,     \* the record of PowercapOps
          jobs,     \* contexts created and not finished
          ready,    \* powercap_init went through (an auxiliary variable)
          manual    \* an "ear message" was served (an auxiliary variable)

vars == <<node, jobs, ready, manual>>

Init ==
    \E conf \in Confs, pmgt_ok \in BOOLEAN :
        /\ node = powercap_init(conf, MaxPowercap, pmgt_ok)
        /\ ready = (conf # 0 /\ pmgt_ok)
        /\ jobs = 0
        /\ manual = FALSE
-----------------------------------------------------------------------------
\* powermon_new_job: the first job takes the node out of idle.
powermon_new_job ==
    /\ jobs < MaxJobs
    /\ jobs' = jobs + 1
    /\ node' = reallocate_power_between_domains(
                   IF jobs = 0 THEN powercap_idle_to_run(node) ELSE node)
    /\ UNCHANGED <<ready, manual>>

\* powermon_end_job: the last one takes it back.
powermon_end_job ==
    /\ jobs > 0
    /\ jobs' = jobs - 1
    /\ LET n == reallocate_power_between_domains(node)
       IN  node' = IF jobs = 1 THEN powercap_run_to_idle(n) ELSE n
    /\ UNCHANGED <<ready, manual>>

\* Domains release no more than they hold.
dyncon_get_powerstatus(release_power) ==
    \E cpu, gpu \in Domains :
        /\ cpu.exceed + gpu.exceed <= node.domains
        /\ node' = powercap_get_status(node, pmgt_get_status(node, cpu, gpu), release_power)
        /\ UNCHANGED <<jobs, ready, manual>>

set_powercap_opt ==
    \E listed \in BOOLEAN, extra \in Extras, perc \in Percs :
        /\ node' = powercap_set_opt(node, listed, extra, perc)
        /\ UNCHANGED <<jobs, ready, manual>>

dyncon_release_idle_power ==
    /\ node' = powercap_release_idle_power(node)
    /\ UNCHANGED <<jobs, ready, manual>>

\* dyncon_power_management: the commands that change the default.
Command(n) ==
    /\ node' = n
    /\ UNCHANGED <<jobs, ready, manual>>

EAR_RC_RED_POWER == \E p \in DefSteps : Command(powercap_reduce_def_power(node, p))
EAR_RC_INC_POWER == \E p \in DefSteps : Command(powercap_increase_def_power(node, p))
EAR_RC_SET_POWER == \E l \in SetLimits : Command(set_powercap_value(node, l))
EAR_RC_DEF_POWERCAP == Command(powercap_reset_default_power(node))

ear_message ==
    \E msg \in Messages :
        /\ msg.action = "set" => msg.level # "none"
        /\ node' = powercap_process_message(node, msg)
        /\ manual' = TRUE
        /\ UNCHANGED <<jobs, ready>>

periodic_metric ==
    \E reweigh \in BOOLEAN :
        /\ node' = powercap_set_power_per_domain(node, reweigh)
        /\ UNCHANGED <<jobs, ready, manual>>

Next ==
    \/ powermon_new_job
    \/ powermon_end_job
    \/ dyncon_get_powerstatus(TRUE)
    \/ dyncon_get_powerstatus(FALSE)
    \/ set_powercap_opt
    \/ dyncon_release_idle_power
    \/ EAR_RC_RED_POWER
    \/ EAR_RC_INC_POWER
    \/ EAR_RC_SET_POWER
    \/ EAR_RC_DEF_POWERCAP
    \/ ear_message
    \/ periodic_metric

Spec == Init /\ [][Next]_vars
-----------------------------------------------------------------------------
(* Every field keeps its C type: the uint fields of my_pc_opt, its status   *)
(* and the mode (powercap.c, node_powercap_opt_t).                          *)
TypeOK ==
    /\ node \in Node
    /\ jobs \in 0 .. MaxJobs
    /\ ready \in BOOLEAN
    /\ manual \in BOOLEAN

(* Once powercap_init went through, what the node reports to EARGM as held  *)
(* (last_t1_allocated, powercap_get_status) is the cap in force             *)
(* (current_pc); and as long as no ear message took the domains over, it is *)
(* also the limit given to the power domains (pmgt_limit) and the one their *)
(* plugins enforce, whatever the order of jobs, polls, options and          *)
(* commands.                                                                *)
AllocatedIsEnforced ==
    ready => /\ node.cur = node.last
             /\ ~manual => node.limit = node.cur /\ node.domains = node.cur

(* A status request never raises what the node holds, and one that does not *)
(* come from EARGM (release_power = 0, econtrol) does not change it at all: *)
(* the branch on release_power of powercap_get_status.  (With the domains   *)
(* driven by ear messages they may release more than the node's cap.)       *)
PollsOnlyRelease ==
    [][ready => /\ dyncon_get_powerstatus(TRUE) /\ ~manual => node'.last <= node.last
                /\ dyncon_get_powerstatus(FALSE) => node'.last = node.last]_vars

=============================================================================
