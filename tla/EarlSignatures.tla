--------------------------- MODULE EarlSignatures ---------------------------
(***************************************************************************)
(* The processes of an application on one node, each with its own copy of  *)
(* the library (library/api/ear.c, states/states.c, metrics/metrics.c,     *)
(* policies/policy.c, common/library_shared_data.c).  They share, without  *)
(* a lock, a flag per process that says its signature of the current round *)
(* is ready.  Process 0, the master, computes its signature first, waits   *)
(* for the others, applies the policy to the node and lowers the flags;    *)
(* the states of the library are driven by what comes of it.  At the end   *)
(* they meet again, with time limits, for the last signatures.             *)
(*                                                                         *)
(* An iteration that comes before its period or its minimum time is over   *)
(* changes nothing here, so only the others are steps.  Traces are off.    *)
(***************************************************************************)
EXTENDS Integers, FiniteSets

CONSTANTS N,            \* processes of the node
          Pstates, def, \* frequencies, and the default one
          MaxTries,     \* policy_max_tries_cnt
          MaxEvents     \* new loops, reschedulings, cancelled processes and lost daemon

Procs == 0 .. N - 1
Slaves == 1 .. N - 1

ASSUME EarlAssumption == N \in Nat \ {0} /\ def \in Pstates /\ MaxTries \in Nat /\ MaxEvents \in Nat

VARIABLES pc,                 \* where each process is
          slot,               \* next flag the master lowers
          EAR_STATE,
          ready, exited,      \* sig_shared_region
          master_ready, num_cpus, global_stop_ready, earl_on,   \* lib_shared_region
          eards_connected,
          freq, sig_ready, tries_current_loop, phase, force_rescheduling,   \* of the master
          dynais_used, estimate_node_metrics,
          fresh,              \* the signature was computed after the master's of this round
          late,               \* a process waited longer than it may
          events

region == <<ready, exited, master_ready, num_cpus, global_stop_ready, earl_on>>
policy == <<freq, sig_ready, tries_current_loop, phase, force_rescheduling>>
setting == <<dynais_used, estimate_node_metrics>>
vars == <<pc, slot, EAR_STATE, region, eards_connected, policy, setting, fresh, late, events>>

InApplication == {"start", "mask", "free", "run", "compute", "check", "apply", "stable", "clean"}
AfterGlobalStop == {"app", "exit", "stop3", "done"}
Leaving == {"stop1", "last", "stop2", "release", "global"} \cup AfterGlobalStop

master(p) == p = 0
Goes(p, where) == pc' = [pc EXCEPT ![p] = where]
At(p, where) == pc[p] = where
Event == events < MaxEvents /\ events' = events + 1
-----------------------------------------------------------------------------
(* The shared flags. *)
are_signatures_ready == \A p \in Procs : ready[p]
num_processes_exited == Cardinality({p \in Procs : exited[p]})

signature_ready(p) ==
    /\ ready' = [ready EXCEPT ![p] = TRUE]
    /\ fresh' = [fresh EXCEPT ![p] = master(p) \/ ready[0]]

(* free_node_signatures and clean_signatures: one flag after the other, the *)
(* master's first; then the master is at `where'.                           *)
SlipLowerOrder(k) == N - 1 - k
LowerOrder(k) == k

Lower(where) ==
    LET i == LowerOrder(slot)
    IN  /\ ready' = [ready EXCEPT ![i] = FALSE]
        /\ fresh' = IF i = 0 THEN [p \in Procs |-> FALSE] ELSE [fresh EXCEPT ![i] = FALSE]
        /\ slot' = (slot + 1) % N
        /\ IF slot = N - 1 THEN Goes(0, where) ELSE UNCHANGED pc
-----------------------------------------------------------------------------
(* ear_init: every process shows its affinity mask, and the master adds    *)
(* them up.                                                                *)
ear_init(p) ==
    /\ At(p, "start")
    /\ ready' = [ready EXCEPT ![p] = TRUE]
    /\ Goes(p, "mask")
    /\ UNCHANGED <<slot, EAR_STATE, exited, master_ready, num_cpus, global_stop_ready, earl_on,
                   eards_connected, policy, setting, fresh, late, events>>

compute_job_cpus ==
    /\ At(0, "mask") /\ are_signatures_ready
    /\ num_cpus' = TRUE
    /\ Goes(0, "free")
    /\ UNCHANGED <<slot, EAR_STATE, ready, exited, master_ready, global_stop_ready, earl_on,
                   eards_connected, policy, setting, fresh, late, events>>

WaitMask(p) ==
    /\ p \in Slaves /\ At(p, "mask") /\ num_cpus
    /\ Goes(p, "run")
    /\ UNCHANGED <<slot, EAR_STATE, region, eards_connected, policy, setting, fresh, late, events>>

free_node_signatures ==
    /\ At(0, "free") /\ Lower("run")
    /\ UNCHANGED <<EAR_STATE, exited, master_ready, num_cpus, global_stop_ready, earl_on,
                   eards_connected, policy, setting, late, events>>
-----------------------------------------------------------------------------
(* Iterations: states_begin_period and states_new_iteration. *)
Iterates(p) == At(p, "run") /\ earl_on

(* metrics_partial_stop, in a master without its daemon. *)
Disconnects(p) == master(p) /\ ~eards_connected

(* The first period comes by itself: with no loop found, the library turns *)
(* periodic.                                                               *)
Begins(p) ==
    /\ Iterates(p)
    /\ EAR_STATE' = [EAR_STATE EXCEPT ![p] = "TEST_LOOP"]
    /\ IF master(p) THEN tries_current_loop' = 0 /\ sig_ready' = {}
                    ELSE UNCHANGED <<tries_current_loop, sig_ready>>
    /\ UNCHANGED <<pc, slot, region, eards_connected, freq, phase, force_rescheduling, setting, fresh, late>>

FirstPeriod(p) == EAR_STATE[p] = "NO_PERIOD" /\ Begins(p) /\ UNCHANGED events
states_begin_period(p) == EAR_STATE[p] # "NO_PERIOD" /\ Event /\ Begins(p)

(* policy_new_iteration fails: the phase the policy slept through is over. *)
NewPhase ==
    /\ Iterates(0) /\ phase = "idle"
    /\ phase' = "comp" /\ freq' = def
    /\ EAR_STATE' = [EAR_STATE EXCEPT ![0] = "FIRST_ITERATION"]
    /\ UNCHANGED <<pc, slot, region, eards_connected, sig_ready, tries_current_loop, force_rescheduling,
                   setting, fresh, late, events>>

Reschedule ==
    /\ Iterates(0) /\ EAR_STATE[0] # "NO_PERIOD" /\ force_rescheduling
    /\ force_rescheduling' = FALSE /\ tries_current_loop' = 0
    /\ EAR_STATE' = [EAR_STATE EXCEPT ![0] = "SIGNATURE_HAS_CHANGED"]
    /\ UNCHANGED <<pc, slot, region, eards_connected, freq, sig_ready, phase, setting, fresh, late, events>>

Transition == [TEST_LOOP |-> "FIRST_ITERATION",
               FIRST_ITERATION |-> "EVALUATING_LOCAL_SIGNATURE",
               SIGNATURE_HAS_CHANGED |-> "EVALUATING_LOCAL_SIGNATURE",
               RECOMPUTING_N |-> "SIGNATURE_STABLE"]

states_new_iteration(p) ==
    /\ Iterates(p) /\ (master(p) => ~force_rescheduling)
    /\ EAR_STATE[p] \in DOMAIN Transition
    /\ EAR_STATE' = [EAR_STATE EXCEPT ![p] = Transition[EAR_STATE[p]]]
    /\ earl_on' = ~(EAR_STATE[p] = "FIRST_ITERATION" /\ Disconnects(p))
    /\ UNCHANGED <<pc, slot, ready, exited, master_ready, num_cpus, global_stop_ready,
                   eards_connected, policy, setting, fresh, late, events>>
-----------------------------------------------------------------------------
(* metrics_compute_signature_finish, from the two states that call it.     *)
(* metrics_partial_stop lets a slave compute only after its master.        *)
MayStop(p) == master(p) \/ ready[0]

metrics_compute_signature_finish(p) ==
    /\ Iterates(p) /\ (master(p) => ~force_rescheduling)
    /\ EAR_STATE[p] \in {"EVALUATING_LOCAL_SIGNATURE", "SIGNATURE_STABLE"}
    /\ \/ ~ready[p] /\ MayStop(p) /\ Goes(p, "compute")
       \/ ready[p] /\ master(p) /\ Goes(p, "check")
    /\ earl_on' = ~(~ready[p] /\ Disconnects(p))
    /\ UNCHANGED <<slot, EAR_STATE, ready, exited, master_ready, num_cpus, global_stop_ready,
                   eards_connected, policy, setting, fresh, late, events>>

metrics_compute_signature_data(p) ==
    /\ At(p, "compute") /\ signature_ready(p)
    /\ Goes(p, IF master(p) THEN "check" ELSE "run")
    /\ UNCHANGED <<slot, EAR_STATE, exited, master_ready, num_cpus, global_stop_ready, earl_on,
                   eards_connected, policy, setting, late, events>>

all_ready ==
    /\ At(0, "check")
    /\ master_ready' = ~are_signatures_ready
    /\ Goes(0, IF ~are_signatures_ready THEN "run"
               ELSE IF EAR_STATE[0] = "SIGNATURE_STABLE" THEN "stable" ELSE "apply")
    /\ UNCHANGED <<slot, EAR_STATE, ready, exited, num_cpus, global_stop_ready, earl_on,
                   eards_connected, policy, setting, fresh, late, events>>
-----------------------------------------------------------------------------
(* The master has the signatures of the node. *)
SlipNoClean == Goes(0, "run")
Cleans == Goes(0, "clean")
State(new) == EAR_STATE' = [EAR_STATE EXCEPT ![0] = new]

(* EVALUATING_LOCAL_SIGNATURE: policy_node_apply, and the state after it. *)
policy_node_apply ==
    \/ ~eards_connected /\ UNCHANGED <<freq, phase, tries_current_loop, EAR_STATE>> /\ Goes(0, "run")
    \/ /\ eards_connected /\ ~estimate_node_metrics
       /\ State("SIGNATURE_STABLE") /\ Goes(0, "run")
       /\ UNCHANGED <<freq, phase, tries_current_loop>>
    \/ /\ eards_connected /\ estimate_node_metrics /\ Cleans
       /\ freq' \in Pstates /\ phase' \in {"comp", "idle"}
       /\ \/ UNCHANGED <<tries_current_loop, EAR_STATE>>
          \/ IF freq' # freq /\ dynais_used
             THEN /\ tries_current_loop' = IF tries_current_loop < MaxTries THEN tries_current_loop + 1
                                           ELSE MaxTries
                  /\ State("RECOMPUTING_N")
             ELSE State("SIGNATURE_STABLE") /\ UNCHANGED tries_current_loop

EVALUATING_LOCAL_SIGNATURE ==
    /\ At(0, "apply")
    /\ sig_ready' = sig_ready \cup {freq}
    /\ policy_node_apply
    /\ UNCHANGED <<slot, region, eards_connected, force_rescheduling, setting, fresh, late, events>>

(* SIGNATURE_STABLE: policy_ok, and what is tried when it says no. *)
SlipKeepFreq == freq
policy_set_default_freq == def

NotOk ==
    /\ freq' = policy_set_default_freq /\ phase' = "comp"
    /\ UNCHANGED tries_current_loop
    /\ IF (tries_current_loop < MaxTries /\ freq = def) \/ ~dynais_used
       THEN State("EVALUATING_LOCAL_SIGNATURE")
       ELSE IF tries_current_loop >= MaxTries THEN State("PROJECTION_ERROR")
       ELSE \E next \in {"SIGNATURE_HAS_CHANGED", "EVALUATING_LOCAL_SIGNATURE"} : State(next)

SIGNATURE_STABLE ==
    /\ At(0, "stable")
    /\ sig_ready' = sig_ready \cup {freq}
    /\ \/ def \notin sig_ready' /\ UNCHANGED <<freq, phase, tries_current_loop, EAR_STATE>>
       \/ def \in sig_ready' /\ tries_current_loop' = 0 /\ UNCHANGED <<freq, phase, EAR_STATE>>
       \/ def \in sig_ready' /\ NotOk
    /\ Cleans
    /\ UNCHANGED <<slot, region, eards_connected, force_rescheduling, setting, fresh, late, events>>

clean_signatures ==
    /\ At(0, "clean") /\ Lower("run")
    /\ UNCHANGED <<EAR_STATE, exited, master_ready, num_cpus, global_stop_ready, earl_on,
                   eards_connected, policy, setting, late, events>>
-----------------------------------------------------------------------------
(* ear_finalize and metrics_dispose. *)
Exits(p) == exited' = [exited EXCEPT ![p] = TRUE] /\ Goes(p, "done")

ear_finalize(p) ==
    /\ At(p, "run")
    /\ \/ ~earl_on /\ Goes(p, "done") /\ UNCHANGED <<earl_on, exited>>
       \/ earl_on /\ Disconnects(p) /\ earl_on' = FALSE /\ Exits(p)
       \/ earl_on /\ ~Disconnects(p) /\ Goes(p, "stop1") /\ UNCHANGED <<earl_on, exited>>
    /\ UNCHANGED <<slot, EAR_STATE, ready, master_ready, num_cpus, global_stop_ready,
                   eards_connected, policy, setting, fresh, late, events>>

(* A wait with a time limit (MAX_SYNCHO_TIME). *)
Waits(met) == late' = (late \/ ~met)

(* Synchro 1: a slave waits for the signature of its master. *)
Synchro1(p) ==
    /\ At(p, "stop1")
    /\ Waits(MayStop(p) \/ ~earl_on)
    /\ earl_on' = (earl_on /\ ~Disconnects(p))
    /\ IF earl_on' THEN Goes(p, "last") /\ UNCHANGED exited ELSE Exits(p)
    /\ UNCHANGED <<slot, EAR_STATE, ready, master_ready, num_cpus, global_stop_ready,
                   eards_connected, policy, setting, fresh, events>>

LastSignature(p) ==
    /\ At(p, "last") /\ signature_ready(p) /\ Goes(p, "stop2")
    /\ UNCHANGED <<slot, EAR_STATE, exited, master_ready, num_cpus, global_stop_ready, earl_on,
                   eards_connected, policy, setting, late, events>>

(* Synchro 2: for the last signatures of the others; a slave also leaves   *)
(* when the master has gone on.                                            *)
Synchro2(p) ==
    /\ At(p, "stop2")
    /\ Waits(\/ num_processes_exited >= N - 1
             \/ are_signatures_ready
             \/ ~master(p) /\ global_stop_ready)
    /\ Goes(p, IF master(p) THEN "release" ELSE "global")
    /\ UNCHANGED <<slot, EAR_STATE, region, eards_connected, policy, setting, fresh, events>>

(* The master adds up the job, lowers the flags and lets the others stop. *)
SlipEarly == slot = 0
SlipNever == FALSE
Releases == slot = N - 1

ReleaseGlobalStop ==
    /\ At(0, "release") /\ Lower("app")
    /\ global_stop_ready' = (global_stop_ready \/ Releases)
    /\ UNCHANGED <<EAR_STATE, exited, master_ready, num_cpus, earl_on, eards_connected, policy,
                   setting, late, events>>

(* Synchro 4: metrics_global_stop waits for the master, with no limit. *)
MasterWentOn == global_stop_ready

metrics_global_stop(p) ==
    /\ At(p, "global") /\ MasterWentOn
    /\ Goes(p, "app")
    /\ UNCHANGED <<slot, EAR_STATE, region, eards_connected, policy, setting, fresh, late, events>>

(* metrics_compute_signature_data(APP): the flag first, exited at its end. *)
AppSignature(p) ==
    /\ At(p, "app") /\ signature_ready(p) /\ Goes(p, "exit")
    /\ UNCHANGED <<slot, EAR_STATE, exited, master_ready, num_cpus, global_stop_ready, earl_on,
                   eards_connected, policy, setting, late, events>>

MarkExited(p) ==
    /\ At(p, "exit")
    /\ exited' = [exited EXCEPT ![p] = TRUE] /\ Goes(p, "stop3")
    /\ UNCHANGED <<slot, EAR_STATE, ready, master_ready, num_cpus, global_stop_ready, earl_on,
                   eards_connected, policy, setting, fresh, late, events>>

(* Synchro 3: for the application signatures of the others. *)
Synchro3(p) ==
    /\ At(p, "stop3")
    /\ Waits(num_processes_exited = N \/ are_signatures_ready)
    /\ Goes(p, "done")
    /\ UNCHANGED <<slot, EAR_STATE, region, eards_connected, policy, setting, fresh, events>>
-----------------------------------------------------------------------------
(* What happens to the application and to the daemon. *)
ear_lib_sig_handler(p) ==
    /\ p \in Slaves /\ At(p, "run") /\ Event /\ Exits(p)
    /\ UNCHANGED <<slot, EAR_STATE, ready, master_ready, num_cpus, global_stop_ready, earl_on,
                   eards_connected, policy, setting, fresh, late>>

eards_connection_failure ==
    /\ eards_connected /\ Event /\ eards_connected' = FALSE
    /\ UNCHANGED <<pc, slot, EAR_STATE, region, policy, setting, fresh, late>>

ForceRescheduling ==
    /\ ~force_rescheduling /\ Event /\ force_rescheduling' = TRUE
    /\ UNCHANGED <<pc, slot, EAR_STATE, region, eards_connected, freq, sig_ready, tries_current_loop,
                   phase, setting, fresh, late>>
-----------------------------------------------------------------------------
Init ==
    /\ pc = [p \in Procs |-> "start"] /\ slot = 0
    /\ EAR_STATE = [p \in Procs |-> "NO_PERIOD"]
    /\ ready = [p \in Procs |-> FALSE] /\ exited = [p \in Procs |-> FALSE]
    /\ master_ready = FALSE /\ num_cpus = FALSE /\ global_stop_ready = FALSE
    /\ earl_on = TRUE /\ eards_connected = TRUE
    /\ freq = def /\ sig_ready = {} /\ tries_current_loop = 0 /\ phase = "comp"
    /\ force_rescheduling = FALSE
    /\ dynais_used \in BOOLEAN /\ estimate_node_metrics \in BOOLEAN
    /\ fresh = [p \in Procs |-> FALSE] /\ late = FALSE /\ events = 0

Step(p) ==
    \/ ear_init(p) \/ WaitMask(p)
    \/ FirstPeriod(p) \/ states_new_iteration(p)
    \/ metrics_compute_signature_finish(p) \/ metrics_compute_signature_data(p)
    \/ Synchro1(p) \/ LastSignature(p) \/ Synchro2(p) \/ metrics_global_stop(p)
    \/ AppSignature(p) \/ MarkExited(p) \/ Synchro3(p)

MasterStep ==
    \/ compute_job_cpus \/ free_node_signatures
    \/ NewPhase \/ Reschedule
    \/ all_ready \/ EVALUATING_LOCAL_SIGNATURE \/ SIGNATURE_STABLE \/ clean_signatures
    \/ ReleaseGlobalStop

Next ==
    \/ \E p \in Procs : \/ Step(p) \/ states_begin_period(p) \/ ear_finalize(p)
                        \/ ear_lib_sig_handler(p)
    \/ MasterStep
    \/ eards_connection_failure \/ ForceRescheduling

(* A process that has something to do in the library does it: its         *)
(* application goes on calling it.  When it ends is its own affair.        *)
Fairness == WF_vars(Step(0) \/ MasterStep) /\ \A p \in Slaves : WF_vars(Step(p))
Spec == Init /\ [][Next]_vars /\ Fairness
-----------------------------------------------------------------------------
(* Types; only the master judges a policy, so a slave is never in the     *)
(* states of a policy that was judged (states.c:719).                     *)
TypeOK ==
    /\ pc \in [Procs -> InApplication \cup Leaving] /\ slot \in Procs
    /\ EAR_STATE \in [Procs -> DOMAIN Transition \cup {"NO_PERIOD", "EVALUATING_LOCAL_SIGNATURE",
                                                       "SIGNATURE_STABLE", "PROJECTION_ERROR"}]
    /\ ready \in [Procs -> BOOLEAN] /\ exited \in [Procs -> BOOLEAN] /\ fresh \in [Procs -> BOOLEAN]
    /\ {master_ready, num_cpus, global_stop_ready, earl_on, eards_connected, late} \subseteq BOOLEAN
    /\ {force_rescheduling, dynais_used, estimate_node_metrics} \subseteq BOOLEAN
    /\ freq \in Pstates /\ sig_ready \subseteq Pstates /\ tries_current_loop \in 0 .. MaxTries
    /\ phase \in {"comp", "idle"} /\ events \in 0 .. MaxEvents
    /\ \A p \in Slaves : EAR_STATE[p] \notin {"SIGNATURE_STABLE", "PROJECTION_ERROR"}

(* Whenever the master applies or judges the policy, and when it adds up   *)
(* the last loop with nobody late or gone, every signature it reads of a   *)
(* process that is still in the application was computed after its own of  *)
(* the same round, none is left from a round before (metrics.c:1268,       *)
(* library_shared_data.c:225).                                             *)
SameRound ==
    (\/ pc[0] \in {"apply", "stable"}
     \/ At(0, "release") /\ slot = 0 /\ ~late /\ \A p \in Procs : ~exited[p])
    => \A p \in Procs : pc[p] \in InApplication => fresh[p]

(* No process takes its application signature before the master has        *)
(* added up the last loop, and no mark of such a signature is lowered      *)
(* with the marks of the loop (metrics.c:1006 and 2355).                   *)
StopOrder ==
    \A p \in Procs : /\ p \in Slaves /\ pc[p] \in {"app", "exit", "stop3"} => pc[0] \in AfterGlobalStop
                     /\ pc[p] \in {"exit", "stop3"} => ready[p]

(* After the last try the application runs at the default frequency, also  *)
(* while the state stays as it is (states.c:963, states/README.md).        *)
ErrorAtDefault ==
    EAR_STATE[0] = "PROJECTION_ERROR" => freq = def /\ tries_current_loop = MaxTries

(* A signature of the master that waits for the others is used in the end, *)
(* while nobody leaves the application and the daemon is there.            *)
RoundsEnd ==
    ready[0] ~> \/ ~ready[0] \/ ~eards_connected
                \/ \E p \in Procs : pc[p] \in Leaving

(* While the daemon is there, processes that all leave the application do  *)
(* leave the library: the end does not block (ear.c:2325).                 *)
AllReturn ==
    (\A p \in Procs : pc[p] \in Leaving) ~> (~eards_connected \/ \A p \in Procs : At(p, "done"))

=============================================================================
