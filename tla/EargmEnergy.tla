---------------------------- MODULE EargmEnergy ----------------------------
(***************************************************************************)
(* The energy budget of EARGM: the main loop of eargm.c, woken by the      *)
(* alarm of period T1 and by SIGHUP, the window of samples over period T2, *)
(* the levels of warning and what they send to the nodes.                  *)
(*                                                                         *)
(* The main thread blocks its signals except in sigsuspend.  The thread of *)
(* the power cap is created before catch_signals and blocks none: when the *)
(* main thread is busy it runs the handlers, which wakes nobody.           *)
(***************************************************************************)
EXTENDS Integers, Sequences, FiniteSetsExt, Functions, SequencesExt

CONSTANTS
    Confs,       \* configurations: t1, t2, energy, mode, grace, limits, power
    Energies,    \* what a query for the energy of T1 may answer
    Totals,      \* what a query for the energy of T2 may answer
    NewActions,  \* commands a warning starts: mail, energycap_action
    MaxEvents    \* bound on SIGHUPs and restarts of EARGM

(* T1 is positive (main() refuses another), grace periods are counted, and   *)
(* the queries answer unsigned numbers.                                     *)
ASSUME ConfsAssumption ==
    /\ \A c \in Confs : c.t1 \in Nat \ {0} /\ c.t2 \in Nat \ {0} /\ c.grace \in Nat
    /\ Energies \subseteq Nat /\ Totals \subseteq Nat /\ NewActions \in Nat

PANIC == 0
WARNING2 == 1
WARNING1 == 2
NO_PROBLEM == 3
Levels == {PANIC, WARNING2, WARNING1, NO_PROBLEM}

VARIABLES
    conf,              \* my_cluster_conf.eargm and the globals copied from it
    aggregate_samples,
    energy_consumed,
    current_sample,
    total_samples,
    main,              \* where the main thread is
    pending,           \* signals sent and not handled
    t1_expired,
    must_refill,
    powercap_th_start,
    threads,           \* threads of the power cap
    listener,          \* one of them was created before catch_signals
    result,            \* the answer of the query for T1, until it is used
    last_level,
    last_risk_sent,
    default_state,
    in_action,
    process_created,
    running,           \* commands started that have not ended
    nodes_risk,        \* the risk the nodes were last told
    recent,            \* the samples of the window, oldest first
    overwritten,       \* a reload has cleared the must_refill of another
    quiet,             \* periods still to pass before another warning
    restarted,         \* EARGM restarted and has sent nothing yet
    events

window == <<aggregate_samples, energy_consumed, current_sample, total_samples, recent>>
warning == <<last_level, last_risk_sent, default_state, in_action, nodes_risk, quiet, restarted>>
flags == <<t1_expired, must_refill, powercap_th_start, overwritten>>
commands == <<process_created, running>>
powercap == <<threads, listener>>
vars == <<conf, window, main, pending, flags, powercap, result, warning, commands, events>>

-----------------------------------------------------------------------------
(* The window of T2 *)

Samples(c) == c.t2 \div c.t1 + IF c.t2 % c.t1 # 0 THEN 1 ELSE 0

fill_periods(n, energy) ==
    /\ energy_consumed' = [i \in 0 .. n - 1 |-> energy \div n]
    /\ total_samples' = n
    /\ current_sample' = 0
    /\ recent' = [i \in 1 .. n |-> energy \div n]

SlipWrap(i) == IF i + 2 < aggregate_samples THEN i + 1 ELSE 0

NextSample(i) == (i + 1) % aggregate_samples

new_energy_sample(energy) ==
    /\ energy_consumed' = [energy_consumed EXCEPT ![current_sample] = energy]
    /\ current_sample' = NextSample(current_sample)
    /\ total_samples' = Min({total_samples + 1, aggregate_samples})
    /\ recent' = Append(Tail(recent), energy)
    /\ UNCHANGED aggregate_samples

compute_energy_t2(samples, total) ==
    LET limit == Min({total, aggregate_samples})
    IN  SumFunctionOnSet(samples, 0 .. limit - 1)

(* A budget of 0 makes the percentage infinite or not a number, and no      *)
(* comparison with a limit then holds.                                      *)
defcon(e_t2) ==
    LET Below(limit) == conf.energy # 0 /\ e_t2 * 100 < limit * conf.energy
    IN  IF Below(conf.limits[1]) THEN NO_PROBLEM
        ELSE IF Below(conf.limits[2]) THEN WARNING1
        ELSE IF Below(conf.limits[3]) THEN WARNING2
        ELSE PANIC

-----------------------------------------------------------------------------
(* Signals *)

SlipEnergyOnly(new) == conf.energy # new.energy

MustRefill(new) == conf.t1 # new.t1 \/ conf.t2 # new.t2 \/ conf.energy # new.energy

StartsPowercap(new) == powercap_th_start \/ (conf.power = 0 /\ new.power > 0)

reload_eargm_configuration(new) ==
    /\ must_refill' = MustRefill(new)
    /\ powercap_th_start' = StartsPowercap(new)
    /\ overwritten' = (overwritten \/ (must_refill /\ ~MustRefill(new)))
    /\ conf' = new

(* Without a SIGHUP, or with a file that cannot be read, all stays as it is. *)
my_signals_function ==
    /\ t1_expired' = (t1_expired \/ "ALRM" \in pending)
    /\ \/ "HUP" \in pending /\ \E new \in Confs : reload_eargm_configuration(new)
       \/ UNCHANGED <<conf, must_refill, powercap_th_start, overwritten>>
    /\ pending' = {}

(* The timer expires (the handler sets it again), or an administrator sends *)
(* a SIGHUP.                                                                *)
alarm ==
    /\ "ALRM" \notin pending
    /\ pending' = pending \union {"ALRM"}
    /\ UNCHANGED <<conf, window, main, flags, powercap, result, warning, commands, events>>

hangup ==
    /\ events < MaxEvents
    /\ "HUP" \notin pending
    /\ pending' = pending \union {"HUP"}
    /\ events' = events + 1
    /\ UNCHANGED <<conf, window, main, flags, powercap, result, warning, commands>>

(* The handlers run in the thread of the power cap. *)
HandledByThread ==
    /\ listener
    /\ main # "suspend"
    /\ pending # {}
    /\ my_signals_function
    /\ UNCHANGED <<window, main, powercap, result, warning, commands, events>>

-----------------------------------------------------------------------------
(* The main loop *)

sigsuspend ==
    /\ main = "suspend"
    /\ pending # {}
    /\ my_signals_function
    /\ main' = "wake"
    /\ UNCHANGED <<window, powercap, result, warning, commands, events>>

(* check_pending_processes waits until every command it started has ended. *)
check_pending_processes ==
    /\ main = "wake"
    /\ process_created > 0 => running = 0
    /\ process_created' = 0
    /\ main' = IF conf.energy = 0 THEN "suspend" ELSE "energy"
    /\ UNCHANGED <<conf, window, pending, flags, powercap, result, warning, running, events>>

NoAlarm ==
    /\ main = "energy"
    /\ ~t1_expired
    /\ main' = "powercap"
    /\ UNCHANGED <<conf, window, pending, flags, powercap, result, warning, commands, events>>

(* A query that fails answers 0. *)
db_select_acum_energy ==
    /\ main = "energy"
    /\ t1_expired
    /\ t1_expired' = FALSE
    /\ result' \in Energies \union {0}
    /\ main' = "decide"
    /\ UNCHANGED <<conf, window, pending, must_refill, powercap_th_start, overwritten, powercap,
                   warning, commands, events>>

SlipForgetState(level) ==
    /\ last_risk_sent' = level
    /\ nodes_risk' = level
    /\ restarted' = FALSE
    /\ UNCHANGED default_state

create_risk(level) ==
    /\ last_risk_sent' = level
    /\ default_state' = FALSE
    /\ nodes_risk' = level
    /\ restarted' = FALSE

SlipKeepRisk ==
    /\ default_state' = TRUE
    /\ nodes_risk' = NO_PROBLEM
    /\ UNCHANGED <<last_risk_sent, restarted>>

ear_cluster_restore_conf ==
    /\ last_risk_sent' = NO_PROBLEM
    /\ default_state' = TRUE
    /\ nodes_risk' = NO_PROBLEM
    /\ restarted' = FALSE

NothingSent == UNCHANGED <<last_risk_sent, default_state, nodes_risk, restarted>>

SafeArea ==
    /\ IF conf.mode = 1 /\ last_level = NO_PROBLEM /\ ~default_state
       THEN ear_cluster_restore_conf
       ELSE NothingSent
    /\ quiet' = IF quiet > 0 THEN quiet - 1 ELSE 0
    /\ UNCHANGED <<in_action, commands>>

SlipGrace(c) == Max({c.grace - 1, 0})

GracePeriods(c) == c.grace

Warned(level) ==
    /\ in_action' = in_action + GracePeriods(conf)
    /\ quiet' = conf.grace
    /\ IF conf.mode = 1 /\ last_risk_sent # level THEN create_risk(level) ELSE NothingSent
    /\ process_created' = process_created + NewActions
    /\ running' = running + NewActions

InGracePeriod ==
    /\ in_action' = in_action - 1
    /\ quiet' = IF quiet > 0 THEN quiet - 1 ELSE 0
    /\ NothingSent
    /\ UNCHANGED commands

Decide(level) ==
    \/ in_action > 0 /\ InGracePeriod
    \/ in_action = 0 /\ level = NO_PROBLEM /\ SafeArea
    \/ in_action = 0 /\ level # NO_PROBLEM /\ Warned(level)

NewPeriod ==
    /\ main = "decide"
    /\ new_energy_sample(result)
    /\ LET level == defcon(compute_energy_t2(energy_consumed', total_samples'))
       IN  /\ Decide(level)
           /\ last_level' = level
    /\ result' = 0
    /\ main' = "powercap"
    /\ UNCHANGED <<conf, pending, flags, powercap, events>>

(* cluster_powercap_init creates a thread, which inherits the blocked       *)
(* signals of the main thread.                                              *)
StartPowercap ==
    /\ main = "powercap"
    /\ powercap_th_start' = FALSE
    /\ threads' = IF powercap_th_start /\ conf.power > 0 THEN threads + 1 ELSE threads
    /\ main' = "refill"
    /\ UNCHANGED <<conf, window, pending, t1_expired, must_refill, overwritten, listener, result,
                   warning, commands, events>>

Refill ==
    /\ main = "refill"
    /\ must_refill
    /\ must_refill' = FALSE
    /\ aggregate_samples' = Samples(conf)
    /\ \E total \in Totals \union {0} : fill_periods(Samples(conf), total)
    /\ main' = "suspend"
    /\ UNCHANGED <<conf, pending, t1_expired, powercap_th_start, overwritten, powercap, result,
                   warning, commands, events>>

NoRefill ==
    /\ main = "refill"
    /\ ~must_refill
    /\ main' = "suspend"
    /\ UNCHANGED <<conf, window, pending, flags, powercap, result, warning, commands, events>>

CommandEnds ==
    /\ running > 0
    /\ running' = running - 1
    /\ UNCHANGED <<conf, window, main, pending, flags, powercap, result, warning, process_created,
                   events>>

-----------------------------------------------------------------------------
(* EARGM starts, without having read a SIGHUP or warned anybody: the first  *)
(* fill_periods, and a thread of the power cap before catch_signals.        *)
Init ==
    /\ conf \in Confs
    /\ aggregate_samples = Samples(conf)
    /\ \E total \in Totals \union {0} :
           /\ energy_consumed = [i \in 0 .. aggregate_samples - 1 |-> total \div aggregate_samples]
           /\ recent = [i \in 1 .. aggregate_samples |-> total \div aggregate_samples]
    /\ total_samples = aggregate_samples /\ current_sample = 0
    /\ threads = (IF conf.power > 0 THEN 1 ELSE 0) /\ listener = (conf.power > 0)
    /\ main = "suspend" /\ pending = {}
    /\ t1_expired = FALSE /\ must_refill = FALSE
    /\ powercap_th_start = FALSE /\ overwritten = FALSE
    /\ result = 0
    /\ last_level = NO_PROBLEM /\ last_risk_sent = NO_PROBLEM /\ default_state = TRUE
    /\ in_action = 0 /\ quiet = 0
    /\ nodes_risk = NO_PROBLEM /\ restarted = FALSE
    /\ process_created = 0 /\ running = 0
    /\ events = 0

(* EARGM is stopped or fails and is started again: the nodes keep their     *)
(* risk.                                                                    *)
Restart ==
    /\ events < MaxEvents
    /\ events' = events + 1
    /\ conf' \in Confs
    /\ aggregate_samples' = Samples(conf')
    /\ \E total \in Totals \union {0} : fill_periods(aggregate_samples', total)
    /\ threads' = (IF conf'.power > 0 THEN 1 ELSE 0) /\ listener' = (conf'.power > 0)
    /\ main' = "suspend" /\ pending' = {}
    /\ t1_expired' = FALSE /\ must_refill' = FALSE
    /\ powercap_th_start' = FALSE /\ overwritten' = FALSE
    /\ result' = 0
    /\ last_level' = NO_PROBLEM /\ last_risk_sent' = NO_PROBLEM /\ default_state' = TRUE
    /\ in_action' = 0 /\ quiet' = 0
    /\ restarted' = TRUE
    /\ process_created' = 0 /\ running' = 0
    /\ UNCHANGED nodes_risk

MainStep ==
    \/ sigsuspend
    \/ check_pending_processes
    \/ NoAlarm
    \/ db_select_acum_energy
    \/ NewPeriod
    \/ StartPowercap
    \/ Refill
    \/ NoRefill

Next ==
    \/ MainStep
    \/ alarm
    \/ hangup
    \/ HandledByThread
    \/ CommandEnds
    \/ Restart

Fairness == WF_vars(MainStep) /\ WF_vars(alarm) /\ WF_vars(CommandEnds)

Spec == Init /\ [][Next]_vars /\ Fairness

-----------------------------------------------------------------------------
(* The type of the state: the position in the window is inside the array    *)
(* that main() allocated for it, whatever reloads have changed.             *)
TypeOK ==
    /\ conf \in Confs
    /\ aggregate_samples \in Nat \ {0}
    /\ energy_consumed \in [0 .. aggregate_samples - 1 -> Nat]
    /\ current_sample \in 0 .. aggregate_samples - 1
    /\ total_samples \in 0 .. aggregate_samples
    /\ main \in {"suspend", "wake", "energy", "decide", "powercap", "refill"}
    /\ pending \subseteq {"ALRM", "HUP"}
    /\ t1_expired \in BOOLEAN /\ must_refill \in BOOLEAN /\ powercap_th_start \in BOOLEAN
    /\ threads \in Nat /\ listener \in BOOLEAN
    /\ result \in Nat
    /\ {last_level, last_risk_sent, nodes_risk} \subseteq Levels
    /\ default_state \in BOOLEAN
    /\ in_action \in Nat /\ quiet \in Nat
    /\ process_created \in Nat /\ running \in 0 .. process_created

(* The energy of T2 that defcon judges (compute_energy_t2 over the ring of  *)
(* eargm.c) is that of the last aggregate_samples samples, whatever the     *)
(* refills and restarts before them.                                        *)
WindowExact ==
    compute_energy_t2(energy_consumed, total_samples) = SumFunctionOnSet(recent, DOMAIN recent)

(* A window that no longer covers T2 is about to be filled again (the       *)
(* must_refill of eargm.c), unless a second reload cleared the flag before  *)
(* the main thread saw it.                                                  *)
WindowFollows ==
    aggregate_samples # Samples(conf) => must_refill \/ overwritten

(* A warning in automatic mode leaves the nodes at the risk of its level,   *)
(* although eargm.c sends only a risk that differs from last_risk_sent: what *)
(* it believes it has sent is never out of date, after a restart too.       *)
ActsOnWarning ==
    [][NewPeriod /\ conf.mode = 1 /\ in_action = 0 /\ last_level' # NO_PROBLEM
           => nodes_risk' = last_level']_vars

(* Commands are executed "only once per grace periods": grace_periods       *)
(* periods T1 pass between two warnings of one EARGM, also when a reload    *)
(* changes their number.                                                    *)
ActionsSpaced ==
    [][NewPeriod /\ running' # running => quiet = 0]_vars

(* In automatic mode the risk of the nodes follows the level: nodes reach   *)
(* the risk of a level that lasts, and their own configuration when the     *)
(* safe area lasts, unless EARGM restarted and forgot that it warned them.  *)
RiskFollows ==
    \A level \in Levels :
        <>[](last_level = level /\ conf.mode = 1 /\ conf.energy # 0)
            => <>[](nodes_risk = level \/ restarted)
=============================================================================
