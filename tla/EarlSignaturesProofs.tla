------------------------ MODULE EarlSignaturesProofs ------------------------
(***************************************************************************)
(* For any number of processes, the rounds of signatures and the order of  *)
(* the last ones.  The flags are lowered one after the other, and nobody   *)
(* locks them: what makes it right is that the master's goes first.  And   *)
(* what the policy of the master leaves when it fails.                     *)
(***************************************************************************)
EXTENDS EarlSignatures, FiniteSetTheorems, TLAPS

Types ==
    /\ pc \in [Procs -> InApplication \cup Leaving] /\ slot \in Procs
    /\ ready \in [Procs -> BOOLEAN] /\ fresh \in [Procs -> BOOLEAN] /\ exited \in [Procs -> BOOLEAN]
    /\ late \in BOOLEAN /\ num_cpus \in BOOLEAN /\ global_stop_ready \in BOOLEAN

Here(p) == pc[p] \in InApplication
Lowering == {"free", "clean", "release"}
AllHereReady == \A p \in Procs : Here(p) => ready[p]

(* Nobody runs before the master has seen everybody. *)
StartOrder ==
    /\ \A p \in Procs : At(p, "start") => ~ready[p]
    /\ pc[0] \in {"start", "mask"} => ~num_cpus
    /\ ~num_cpus => \A p \in Slaves : pc[p] \in {"start", "mask"}
    /\ pc[0] \notin {"start", "mask"} => \A p \in Procs : pc[p] # "start"

(* While the flags of a start or a round go down, the master's first, no   *)
(* slave is about to raise its own.                                        *)
LoweringOrder ==
    /\ pc[0] \notin Lowering => slot = 0
    /\ pc[0] \in {"apply", "stable"} => AllHereReady
    /\ pc[0] \in {"free", "clean"} =>
          /\ \A p \in Slaves : pc[p] # "compute"
          /\ slot = 0 => AllHereReady
          /\ slot > 0 => \A p \in Procs : Here(p) /\ p < slot => ~ready[p]

(* Between, a slave raises its flag only after the master. *)
Between == pc[0] \in {"run", "compute", "check", "apply", "stable", "stop1", "last", "stop2"}
           \/ (pc[0] \in {"clean", "release"} /\ slot = 0)

RoundOrder ==
    /\ Between => /\ \A p \in Procs : Here(p) /\ ready[p] => fresh[p]
                  /\ \A p \in Slaves : At(p, "compute") => ready[0]
    /\ \A p \in Procs : At(p, "compute") => ~ready[p]
    /\ At(0, "release") /\ slot = 0 /\ ~late /\ (\A p \in Procs : ~exited[p]) => AllHereReady

RInv == Types /\ StartOrder /\ LoweringOrder /\ RoundOrder

(* Process numbers, for the provers. *)
LEMMA ProcsFacts ==
    /\ 0 \in Procs /\ Slaves = Procs \ {0} /\ Procs \subseteq Int /\ N - 1 \in Procs
    /\ \A p \in Procs : p >= 0 /\ p <= N - 1
BY EarlAssumption DEF Procs, Slaves

(* The rounds start in order. *)
LEMMA RoundInit == Init => RInv
BY ProcsFacts, Zenon DEF Init, RInv, Types, StartOrder, LoweringOrder, RoundOrder, Between, AllHereReady,
   Here, At, Lowering, InApplication

(* Steps that touch neither the flags nor the places of the processes. *)
core == <<pc, slot, ready, exited, num_cpus, global_stop_ready, fresh, late>>

(* They keep the order of the rounds. *)
LEMMA RoundQuiet == RInv /\ UNCHANGED core => RInv'
BY DEF core, RInv, Types, StartOrder, LoweringOrder, RoundOrder, Between, AllHereReady, Here, At

(* ear_init raises the first flag of a process, before the master goes on. *)
LEMMA Round_ear_init == ASSUME RInv, NEW p \in Procs, ear_init(p) PROVE RInv'
BY ProcsFacts DEF ear_init, Goes, master,
   RInv, Types, StartOrder, LoweringOrder, RoundOrder, Between, AllHereReady, Here, At,
   Lowering, InApplication, Leaving, AfterGlobalStop

(* A slave starts to run only when the master has added up the masks. *)
LEMMA Round_WaitMask == ASSUME RInv, NEW p \in Procs, WaitMask(p) PROVE RInv'
BY ProcsFacts DEF WaitMask, Goes, region,
   RInv, Types, StartOrder, LoweringOrder, RoundOrder, Between, AllHereReady, Here, At,
   Lowering, InApplication, Leaving, AfterGlobalStop

(* A slave sets out to compute only after its master. *)
LEMMA Round_metrics_compute_signature_finish == ASSUME RInv, NEW p \in Procs, metrics_compute_signature_finish(p) PROVE RInv'
BY ProcsFacts DEF metrics_compute_signature_finish, Iterates, MayStop, Goes, master,
   RInv, Types, StartOrder, LoweringOrder, RoundOrder, Between, AllHereReady, Here, At,
   Lowering, InApplication, Leaving, AfterGlobalStop

(* A flag goes up in the round in which the master waits for it. *)
LEMMA Round_metrics_compute_signature_data == ASSUME RInv, NEW p \in Procs, metrics_compute_signature_data(p) PROVE RInv'
BY ProcsFacts, Zenon DEF metrics_compute_signature_data, signature_ready, Goes, master,
   RInv, Types, StartOrder, LoweringOrder, RoundOrder, Between, AllHereReady, Here, At,
   Lowering, InApplication, Leaving, AfterGlobalStop

(* The last signature is of a process that has left the application. *)
LEMMA Round_LastSignature == ASSUME RInv, NEW p \in Procs, LastSignature(p) PROVE RInv'
BY ProcsFacts DEF LastSignature, signature_ready, Goes, master,
   RInv, Types, StartOrder, LoweringOrder, RoundOrder, Between, AllHereReady, Here, At,
   Lowering, InApplication, Leaving, AfterGlobalStop

(* The global stop raises and lowers no flag. *)
LEMMA Round_metrics_global_stop == ASSUME RInv, NEW p \in Procs, metrics_global_stop(p) PROVE RInv'
BY ProcsFacts DEF metrics_global_stop, Goes, region,
   RInv, Types, StartOrder, LoweringOrder, RoundOrder, Between, AllHereReady, Here, At,
   Lowering, InApplication, Leaving, AfterGlobalStop

(* Nor is an application signature of a process in the application. *)
LEMMA Round_AppSignature == ASSUME RInv, NEW p \in Procs, AppSignature(p) PROVE RInv'
BY ProcsFacts DEF AppSignature, signature_ready, Goes, master,
   RInv, Types, StartOrder, LoweringOrder, RoundOrder, Between, AllHereReady, Here, At,
   Lowering, InApplication, Leaving, AfterGlobalStop

(* exited only grows. *)
LEMMA Round_MarkExited == ASSUME RInv, NEW p \in Procs, MarkExited(p) PROVE RInv'
BY ProcsFacts DEF MarkExited, Goes,
   RInv, Types, StartOrder, LoweringOrder, RoundOrder, Between, AllHereReady, Here, At,
   Lowering, InApplication, Leaving, AfterGlobalStop

(* The last wait touches no flag. *)
LEMMA Round_Synchro3 == ASSUME RInv, NEW p \in Procs, Synchro3(p) PROVE RInv'
BY ProcsFacts DEF Synchro3, Waits, Goes, region,
   RInv, Types, StartOrder, LoweringOrder, RoundOrder, Between, AllHereReady, Here, At,
   Lowering, InApplication, Leaving, AfterGlobalStop

(* A cancelled slave has left the application. *)
LEMMA Round_ear_lib_sig_handler == ASSUME RInv, NEW p \in Procs, ear_lib_sig_handler(p) PROVE RInv'
BY ProcsFacts DEF ear_lib_sig_handler, Exits, Goes,
   RInv, Types, StartOrder, LoweringOrder, RoundOrder, Between, AllHereReady, Here, At,
   Lowering, InApplication, Leaving, AfterGlobalStop

(* A process that leaves the application takes no flag with it. *)
LEMMA RoundLeaves ==
    ASSUME RInv, NEW p \in Procs, NEW w \in {"stop1", "last", "done"},
           pc[p] \in {"run", "stop1"}, pc' = [pc EXCEPT ![p] = w],
           UNCHANGED <<slot, ready, fresh, num_cpus, global_stop_ready>>,
           exited' \in [Procs -> BOOLEAN], \A q \in Procs : exited[q] => exited'[q],
           late' \in BOOLEAN, late => late'
    PROVE  RInv'
<1>1. Types'
  BY ProcsFacts, Zenon DEF RInv, Types, StartOrder, LoweringOrder, RoundOrder, Between, AllHereReady, Here, At,
       Lowering, InApplication, Leaving, AfterGlobalStop
<1>2. StartOrder'
  BY ProcsFacts DEF RInv, Types, StartOrder, LoweringOrder, RoundOrder, Between, AllHereReady, Here, At,
       Lowering, InApplication, Leaving, AfterGlobalStop
<1>3. LoweringOrder'
  BY ProcsFacts DEF RInv, Types, StartOrder, LoweringOrder, RoundOrder, Between, AllHereReady, Here, At,
       Lowering, InApplication, Leaving, AfterGlobalStop
<1>4. RoundOrder'
  BY ProcsFacts DEF RInv, Types, StartOrder, LoweringOrder, RoundOrder, Between, AllHereReady, Here, At,
       Lowering, InApplication, Leaving, AfterGlobalStop
<1>. QED BY <1>1, <1>2, <1>3, <1>4 DEF RInv

(* Synchro 1 leads on, or out when the library is off. *)
LEMMA Round_Synchro1 == ASSUME RInv, NEW p \in Procs, Synchro1(p) PROVE RInv'
<1>1. pc[p] = "stop1" /\ UNCHANGED <<slot, ready, fresh, num_cpus, global_stop_ready>>
  BY DEF Synchro1, At
<1>2. late' \in BOOLEAN /\ (late => late')
  BY Zenon DEF Synchro1, Waits
<1>3. CASE earl_on'
  <2>1. pc' = [pc EXCEPT ![p] = "last"] /\ exited' = exited
    BY <1>3 DEF Synchro1, Goes
  <2>. QED BY <1>1, <1>2, <2>1, RoundLeaves, Zenon DEF RInv, Types
<1>4. CASE ~earl_on'
  <2>1. pc' = [pc EXCEPT ![p] = "done"] /\ exited' = [exited EXCEPT ![p] = TRUE]
    BY <1>4 DEF Synchro1, Exits, Goes
  <2>2. exited' \in [Procs -> BOOLEAN] /\ \A q \in Procs : exited[q] => exited'[q]
    BY <2>1 DEF RInv, Types
  <2>. QED BY <1>1, <1>2, <2>1, <2>2, RoundLeaves, Zenon DEF RInv, Types
<1>. QED BY <1>3, <1>4

(* ear_finalize leads out of the application. *)
LEMMA Round_ear_finalize == ASSUME RInv, NEW p \in Procs, ear_finalize(p) PROVE RInv'
<1>1. pc[p] = "run" /\ UNCHANGED <<slot, ready, fresh, num_cpus, global_stop_ready, late>>
  BY DEF ear_finalize, At
<1>2. \/ \E w \in {"done", "stop1"} : pc' = [pc EXCEPT ![p] = w] /\ exited' = exited
      \/ pc' = [pc EXCEPT ![p] = "done"] /\ exited' = [exited EXCEPT ![p] = TRUE]
  BY DEF ear_finalize, Exits, Goes
<1>3. exited' \in [Procs -> BOOLEAN] /\ \A q \in Procs : exited[q] => exited'[q]
  BY <1>2, Zenon DEF RInv, Types
<1>4. PICK w \in {"done", "stop1"} : pc' = [pc EXCEPT ![p] = w]
  BY <1>2
<1>. QED BY <1>1, <1>3, <1>4, RoundLeaves, Zenon DEF RInv, Types

(* The master goes on when it has seen every flag. *)
LEMMA Round_compute_job_cpus == ASSUME RInv, compute_job_cpus PROVE RInv'
BY ProcsFacts DEF compute_job_cpus, are_signatures_ready, Goes, RInv, Types, StartOrder, LoweringOrder, RoundOrder, Between, AllHereReady, Here, At,
   Lowering, InApplication, Leaving, AfterGlobalStop

(* The master uses the signatures when it has seen every flag. *)
LEMMA Round_all_ready == ASSUME RInv, all_ready PROVE RInv'
BY ProcsFacts DEF all_ready, are_signatures_ready, Goes, RInv, Types, StartOrder, LoweringOrder, RoundOrder, Between, AllHereReady, Here, At,
   Lowering, InApplication, Leaving, AfterGlobalStop

(* The policy is applied with every flag still up. *)
LEMMA Round_EVALUATING_LOCAL_SIGNATURE == ASSUME RInv, EVALUATING_LOCAL_SIGNATURE PROVE RInv'
<1>1. PICK w \in {"run", "clean"} : pc' = [pc EXCEPT ![0] = w]
  BY Zenon DEF EVALUATING_LOCAL_SIGNATURE, policy_node_apply, Cleans, Goes
<1>2. pc[0] = "apply" /\ UNCHANGED <<slot, ready, exited, num_cpus, global_stop_ready, fresh, late>>
  BY DEF EVALUATING_LOCAL_SIGNATURE, region, At
<1>. QED BY <1>1, <1>2, ProcsFacts DEF RInv, Types, StartOrder, LoweringOrder, RoundOrder, Between, AllHereReady, Here, At,
   Lowering, InApplication, Leaving, AfterGlobalStop

(* And so is it judged. *)
LEMMA Round_SIGNATURE_STABLE == ASSUME RInv, SIGNATURE_STABLE PROVE RInv'
<1>1. pc' = [pc EXCEPT ![0] = "clean"]
  BY DEF SIGNATURE_STABLE, Cleans, Goes
<1>2. pc[0] = "stable" /\ UNCHANGED <<slot, ready, exited, num_cpus, global_stop_ready, fresh, late>>
  BY DEF SIGNATURE_STABLE, region, At
<1>. QED BY <1>1, <1>2, ProcsFacts DEF RInv, Types, StartOrder, LoweringOrder, RoundOrder, Between, AllHereReady, Here, At,
   Lowering, InApplication, Leaving, AfterGlobalStop

(* What lowering one flag does. *)
LEMMA LowerFacts ==
    ASSUME Types, NEW w, Lower(w)
    PROVE  /\ ready' = [ready EXCEPT ![slot] = FALSE]
           /\ slot < N - 1 => slot' = slot + 1 /\ pc' = pc
           /\ slot = N - 1 => slot' = 0 /\ pc' = [pc EXCEPT ![0] = w]
           /\ fresh' \in [Procs -> BOOLEAN]
           /\ slot' \in Procs
<1>1. ready' = [ready EXCEPT ![slot] = FALSE]
  BY DEF Lower, LowerOrder
<1>2. slot \in 0 .. N - 1 /\ N \in Nat \ {0}
  BY EarlAssumption DEF Types, Procs
<1>3. slot' = (slot + 1) % N
  BY DEF Lower
<1>4. slot < N - 1 => slot' = slot + 1 /\ pc' = pc
  BY <1>2, <1>3 DEF Lower
<1>5. slot = N - 1 => slot' = 0 /\ pc' = [pc EXCEPT ![0] = w]
  BY <1>2, <1>3 DEF Lower, Goes
<1>6. fresh' \in [Procs -> BOOLEAN]
  BY DEF Lower, LowerOrder, Types
<1>7. slot' \in Procs
  BY <1>2, <1>4, <1>5 DEF Procs
<1>. QED BY <1>1, <1>4, <1>5, <1>6, <1>7

(* The flags of a start or a round go down, the master's first. *)
LEMMA Round_Lower ==
    ASSUME RInv, pc[0] \in {"free", "clean"}, Lower("run"),
           UNCHANGED <<exited, num_cpus, global_stop_ready, late>>
    PROVE  RInv'
<1>1. Types
  BY DEF RInv
<1>2. CASE slot < N - 1
  <2>1. Types'
    BY <1>1, <1>2, LowerFacts, ProcsFacts, Zenon DEF RInv, Types, StartOrder, LoweringOrder, RoundOrder, Between, AllHereReady, Here, At,
         Lowering, InApplication, Leaving, AfterGlobalStop
  <2>2. StartOrder'
    BY <1>1, <1>2, LowerFacts, ProcsFacts DEF RInv, Types, StartOrder, LoweringOrder, RoundOrder, Between, AllHereReady, Here, At,
         Lowering, InApplication, Leaving, AfterGlobalStop
  <2>3. LoweringOrder'
    BY <1>1, <1>2, LowerFacts, ProcsFacts DEF RInv, Types, StartOrder, LoweringOrder, RoundOrder, Between, AllHereReady, Here, At,
         Lowering, InApplication, Leaving, AfterGlobalStop
  <2>4. RoundOrder'
    BY <1>1, <1>2, LowerFacts, ProcsFacts DEF RInv, Types, StartOrder, LoweringOrder, RoundOrder, Between, AllHereReady, Here, At,
         Lowering, InApplication, Leaving, AfterGlobalStop
  <2>. QED BY <2>1, <2>2, <2>3, <2>4 DEF RInv
<1>3. CASE slot = N - 1
  <2>0. /\ slot' = 0 /\ pc' = [pc EXCEPT ![0] = "run"]
        /\ ready' = [ready EXCEPT ![slot] = FALSE] /\ fresh' \in [Procs -> BOOLEAN]
    BY <1>1, <1>3, LowerFacts
  <2>1. Types'
    BY <1>1, <1>3, <2>0, ProcsFacts DEF Types, InApplication, Leaving, AfterGlobalStop
  <2>2. StartOrder'
    BY <1>1, <1>3, LowerFacts, ProcsFacts DEF RInv, Types, StartOrder, LoweringOrder, RoundOrder, Between, AllHereReady, Here, At,
         Lowering, InApplication, Leaving, AfterGlobalStop
  <2>3. LoweringOrder'
    BY <1>1, <1>3, LowerFacts, ProcsFacts DEF RInv, Types, StartOrder, LoweringOrder, RoundOrder, Between, AllHereReady, Here, At,
         Lowering, InApplication, Leaving, AfterGlobalStop
  <2>4. RoundOrder'
    BY <1>1, <1>3, LowerFacts, ProcsFacts DEF RInv, Types, StartOrder, LoweringOrder, RoundOrder, Between, AllHereReady, Here, At,
         Lowering, InApplication, Leaving, AfterGlobalStop
  <2>. QED BY <2>1, <2>2, <2>3, <2>4 DEF RInv
<1>4. slot < N - 1 \/ slot = N - 1
  BY <1>1, EarlAssumption DEF Types, Procs
<1>. QED BY <1>2, <1>3, <1>4

(* The flags of the last loop go down. *)
LEMMA Round_ReleaseGlobalStop == ASSUME RInv, ReleaseGlobalStop PROVE RInv'
<1>1. Types /\ Lower("app") /\ pc[0] = "release" /\ UNCHANGED <<exited, num_cpus, late>>
  BY DEF RInv, ReleaseGlobalStop, At
<1>2. global_stop_ready' \in BOOLEAN
  BY <1>1 DEF ReleaseGlobalStop, Types
<1>3. CASE slot < N - 1
  <2>1. Types'
    BY <1>1, <1>2, <1>3, LowerFacts, ProcsFacts, Zenon DEF RInv, Types, StartOrder, LoweringOrder, RoundOrder, Between, AllHereReady, Here, At,
         Lowering, InApplication, Leaving, AfterGlobalStop
  <2>2. StartOrder'
    BY <1>1, <1>2, <1>3, LowerFacts, ProcsFacts DEF RInv, Types, StartOrder, LoweringOrder, RoundOrder, Between, AllHereReady, Here, At,
         Lowering, InApplication, Leaving, AfterGlobalStop
  <2>3. LoweringOrder'
    BY <1>1, <1>2, <1>3, LowerFacts, ProcsFacts DEF RInv, Types, StartOrder, LoweringOrder, RoundOrder, Between, AllHereReady, Here, At,
         Lowering, InApplication, Leaving, AfterGlobalStop
  <2>4. RoundOrder'
    BY <1>1, <1>2, <1>3, LowerFacts, ProcsFacts DEF RInv, Types, StartOrder, LoweringOrder, RoundOrder, Between, AllHereReady, Here, At,
         Lowering, InApplication, Leaving, AfterGlobalStop
  <2>. QED BY <2>1, <2>2, <2>3, <2>4 DEF RInv
<1>4. CASE slot = N - 1
  <2>0. /\ slot' = 0 /\ pc' = [pc EXCEPT ![0] = "app"]
        /\ ready' = [ready EXCEPT ![slot] = FALSE] /\ fresh' \in [Procs -> BOOLEAN]
    BY <1>1, <1>4, LowerFacts
  <2>1. Types'
    BY <1>1, <1>2, <1>4, <2>0, ProcsFacts DEF Types, InApplication, Leaving, AfterGlobalStop
  <2>2. StartOrder'
    BY <1>1, <1>2, <1>4, LowerFacts, ProcsFacts DEF RInv, Types, StartOrder, LoweringOrder, RoundOrder, Between, AllHereReady, Here, At,
         Lowering, InApplication, Leaving, AfterGlobalStop
  <2>3. LoweringOrder'
    BY <1>1, <1>2, <1>4, LowerFacts, ProcsFacts DEF RInv, Types, StartOrder, LoweringOrder, RoundOrder, Between, AllHereReady, Here, At,
         Lowering, InApplication, Leaving, AfterGlobalStop
  <2>4. RoundOrder'
    BY <1>1, <1>2, <1>4, LowerFacts, ProcsFacts DEF RInv, Types, StartOrder, LoweringOrder, RoundOrder, Between, AllHereReady, Here, At,
         Lowering, InApplication, Leaving, AfterGlobalStop
  <2>. QED BY <2>1, <2>2, <2>3, <2>4 DEF RInv
<1>5. slot < N - 1 \/ slot = N - 1
  BY <1>1, EarlAssumption DEF Types, Procs
<1>. QED BY <1>3, <1>4, <1>5

(* With nobody late or gone, Synchro 2 ends with every flag up. *)
LEMMA Round_Synchro2 == ASSUME RInv, NEW p \in Procs, Synchro2(p) PROVE RInv'
<1>1. pc[p] = "stop2" /\ UNCHANGED <<slot, ready, exited, num_cpus, global_stop_ready, fresh>>
  BY DEF Synchro2, region, At
<1>2. late' \in BOOLEAN /\ (late => late')
  BY Zenon DEF Synchro2, Waits
<1>3. CASE p = 0
  <2>1. pc' = [pc EXCEPT ![0] = "release"]
    BY <1>3 DEF Synchro2, Goes, master
  <2>2. ASSUME ~late', \A q \in Procs : ~exited[q], NEW q \in Slaves PROVE ready[q]
    <3>1. {r \in Procs : exited[r]} = {}
      BY <2>2
    <3>2. num_processes_exited = 0
      BY <3>1, FS_EmptySet DEF num_processes_exited
    <3>3. N - 1 >= 1
      BY <2>2, EarlAssumption DEF Slaves
    <3>4. ~(num_processes_exited >= N - 1)
      BY <3>2, <3>3, EarlAssumption
    <3>5. late' = (late \/ ~(num_processes_exited >= N - 1 \/ are_signatures_ready))
      BY <1>3 DEF Synchro2, Waits, master
    <3>6. are_signatures_ready
      BY <2>2, <3>4, <3>5, Zenon
    <3>. QED BY <3>6, ProcsFacts DEF are_signatures_ready
  <2>. QED BY <1>1, <1>2, <1>3, <2>1, <2>2, ProcsFacts DEF RInv, Types, StartOrder, LoweringOrder, RoundOrder, Between, AllHereReady, Here, At,
   Lowering, InApplication, Leaving, AfterGlobalStop
<1>4. CASE p # 0
  <2>1. pc' = [pc EXCEPT ![p] = "global"]
    BY <1>4 DEF Synchro2, Goes, master
  <2>. QED BY <1>1, <1>2, <1>4, <2>1, ProcsFacts DEF RInv, Types, StartOrder, LoweringOrder, RoundOrder, Between, AllHereReady, Here, At,
   Lowering, InApplication, Leaving, AfterGlobalStop
<1>. QED BY <1>3, <1>4

(* Every step keeps the order of the rounds. *)
LEMMA RoundStep == RInv /\ [Next]_vars => RInv'
<1>. SUFFICES ASSUME RInv, [Next]_vars PROVE RInv'
  OBVIOUS
<1>1. CASE UNCHANGED vars
  BY <1>1, RoundQuiet DEF vars, region, core
<1>2. ASSUME NEW p \in Procs, Step(p) PROVE RInv'
  <2>1. CASE FirstPeriod(p) \/ states_new_iteration(p)
    <3>1. UNCHANGED core
      BY <2>1, Zenon DEF FirstPeriod, Begins, states_new_iteration, region, core
    <3>. QED BY <3>1, RoundQuiet
  <2>2. CASE ear_init(p) BY <2>2, Round_ear_init
  <2>3. CASE WaitMask(p) BY <2>3, Round_WaitMask
  <2>4. CASE metrics_compute_signature_finish(p) BY <2>4, Round_metrics_compute_signature_finish
  <2>5. CASE metrics_compute_signature_data(p) BY <2>5, Round_metrics_compute_signature_data
  <2>6. CASE Synchro1(p) BY <2>6, Round_Synchro1
  <2>7. CASE LastSignature(p) BY <2>7, Round_LastSignature
  <2>8. CASE Synchro2(p) BY <2>8, Round_Synchro2
  <2>9. CASE metrics_global_stop(p) BY <2>9, Round_metrics_global_stop
  <2>10. CASE AppSignature(p) BY <2>10, Round_AppSignature
  <2>11. CASE MarkExited(p) BY <2>11, Round_MarkExited
  <2>12. CASE Synchro3(p) BY <2>12, Round_Synchro3
  <2>. QED BY <1>2, <2>1, <2>2, <2>3, <2>4, <2>5, <2>6, <2>7, <2>8, <2>9, <2>10, <2>11, <2>12 DEF Step
<1>3. CASE MasterStep
  <2>1. CASE NewPhase \/ Reschedule
    <3>1. UNCHANGED core
      BY <2>1, Zenon DEF NewPhase, Reschedule, region, core
    <3>. QED BY <3>1, RoundQuiet
  <2>2. CASE free_node_signatures \/ clean_signatures
    <3>1. /\ pc[0] \in {"free", "clean"} /\ Lower("run")
          /\ UNCHANGED <<exited, num_cpus, global_stop_ready, late>>
      BY <2>2 DEF free_node_signatures, clean_signatures, At
    <3>. QED BY <3>1, Round_Lower
  <2>3. CASE compute_job_cpus BY <2>3, Round_compute_job_cpus
  <2>4. CASE all_ready BY <2>4, Round_all_ready
  <2>5. CASE EVALUATING_LOCAL_SIGNATURE BY <2>5, Round_EVALUATING_LOCAL_SIGNATURE
  <2>6. CASE SIGNATURE_STABLE BY <2>6, Round_SIGNATURE_STABLE
  <2>7. CASE ReleaseGlobalStop BY <2>7, Round_ReleaseGlobalStop
  <2>. QED BY <1>3, <2>1, <2>2, <2>3, <2>4, <2>5, <2>6, <2>7 DEF MasterStep
<1>4. ASSUME NEW p \in Procs, states_begin_period(p) PROVE RInv'
  <2>1. UNCHANGED core
    BY <1>4, Zenon DEF states_begin_period, Begins, region, core
  <2>. QED BY <2>1, RoundQuiet
<1>5. CASE eards_connection_failure \/ ForceRescheduling
  <2>1. UNCHANGED core
    BY <1>5, Zenon DEF eards_connection_failure, ForceRescheduling, region, core
  <2>. QED BY <2>1, RoundQuiet
<1>. QED BY <1>1, <1>2, <1>3, <1>4, <1>5, Round_ear_finalize, Round_ear_lib_sig_handler DEF Next

(* The order of the rounds is what SameRound needs. *)
LEMMA RoundSafe == RInv => SameRound
BY ProcsFacts DEF SameRound, RInv, Types, LoweringOrder, RoundOrder, Between, AllHereReady, Here, At,
   InApplication

(* For any number of processes: whatever the master reads of a process in  *)
(* the application is of the current round (policy_node_apply, policy_ok   *)
(* and the last loop in metrics_dispose).                                  *)
THEOREM SignaturesOfOneRound == Spec => []SameRound
<1>1. Spec => []RInv
  BY RoundInit, RoundStep, PTL DEF Spec
<1>. QED BY <1>1, RoundSafe, PTL
-----------------------------------------------------------------------------
(* The end.  The master raises global_stop_ready with its last flag down,  *)
(* and never comes back.                                                   *)
EInv ==
    /\ RInv /\ StopOrder
    /\ global_stop_ready => pc[0] \in AfterGlobalStop

(* Steps that touch no flag and no place keep the order of the end. *)
LEMMA EndQuiet == EInv /\ RInv' /\ UNCHANGED core => EInv'
BY DEF core, EInv, StopOrder, AfterGlobalStop

(* A process that moves on without touching a flag, and not past the       *)
(* global stop unless the master released it.                              *)
LEMMA EndMoves ==
    ASSUME EInv, RInv', NEW p \in Procs, NEW w, pc' = [pc EXCEPT ![p] = w],
           UNCHANGED <<ready, global_stop_ready>>,
           p = 0 => pc[0] \notin AfterGlobalStop \/ w \in AfterGlobalStop,
           p # 0 /\ w \in {"app", "exit", "stop3"} => pc[0] \in AfterGlobalStop,
           w \in {"exit", "stop3"} => ready[p]
    PROVE  EInv'
BY ProcsFacts DEF EInv, StopOrder, RInv, Types

(* A process that raises its flag. *)
LEMMA EndRaises ==
    ASSUME EInv, RInv', NEW p \in Procs, NEW w, pc' = [pc EXCEPT ![p] = w],
           ready' = [ready EXCEPT ![p] = TRUE], UNCHANGED global_stop_ready,
           p = 0 => pc[0] \notin AfterGlobalStop \/ w \in AfterGlobalStop,
           p # 0 /\ w \in {"app", "exit", "stop3"} => pc[0] \in AfterGlobalStop
    PROVE  EInv'
BY ProcsFacts DEF EInv, StopOrder, RInv, Types

(* While flags go down, nobody is past the global stop. *)
LEMMA EndLowers ==
    ASSUME EInv, RInv', pc[0] \in Lowering, NEW w, w \in {"run", "app"}, Lower(w),
           global_stop_ready' => global_stop_ready \/ (w = "app" /\ slot = N - 1)
    PROVE  EInv'
<1>1. Types
  BY DEF EInv, RInv
<1>2. pc' = pc \/ pc' = [pc EXCEPT ![0] = w]
  BY <1>1, LowerFacts, EarlAssumption DEF Types, Procs
<1>3. slot = N - 1 => pc' = [pc EXCEPT ![0] = w]
  BY <1>1, LowerFacts
<1>4. ready' = [ready EXCEPT ![slot] = FALSE]
  BY <1>1, LowerFacts
<1>5. \A p \in Procs : pc[p] \notin {"exit", "stop3"} /\ (p # 0 => pc[p] # "app")
  BY ProcsFacts DEF EInv, StopOrder, Lowering, AfterGlobalStop
<1>6. StopOrder'
  BY <1>1, <1>2, <1>4, <1>5, ProcsFacts DEF StopOrder, Types
<1>7. ~global_stop_ready
  BY DEF EInv, Lowering, AfterGlobalStop
<1>8. global_stop_ready' => pc'[0] \in AfterGlobalStop
  BY <1>1, <1>3, <1>7, ProcsFacts DEF AfterGlobalStop, Types
<1>. QED BY <1>6, <1>8 DEF EInv

(* The end has not come when the application starts. *)
LEMMA EndInit == Init => EInv
BY RoundInit, ProcsFacts DEF Init, EInv, StopOrder

(* The steps any process takes keep the order of the end. *)
LEMMA EndProcess == ASSUME EInv, RInv', NEW p \in Procs, Step(p) PROVE EInv'
<1>. USE DEF Goes, master
<1>1. CASE FirstPeriod(p) \/ states_new_iteration(p)
  <2>1. UNCHANGED core
    BY <1>1, Zenon DEF FirstPeriod, Begins, states_new_iteration, region, core
  <2>. QED BY <2>1, EndQuiet
<1>2. CASE ear_init(p)
  BY <1>2, EndRaises, Zenon DEF ear_init, At, AfterGlobalStop
<1>3. CASE WaitMask(p)
  BY <1>3, EndMoves, ProcsFacts, Zenon DEF WaitMask, At, region
<1>4. CASE metrics_compute_signature_finish(p)
  <2>1. PICK w \in {"compute", "check"} : pc' = [pc EXCEPT ![p] = w]
    BY <1>4 DEF metrics_compute_signature_finish
  <2>2. pc[p] = "run" /\ UNCHANGED <<ready, global_stop_ready>>
    BY <1>4 DEF metrics_compute_signature_finish, Iterates, At
  <2>. QED BY <2>1, <2>2, EndMoves, Zenon DEF AfterGlobalStop
<1>5. CASE metrics_compute_signature_data(p)
  <2>1. PICK w \in {"run", "check"} : pc' = [pc EXCEPT ![p] = w]
    BY <1>5, Zenon DEF metrics_compute_signature_data
  <2>2. pc[p] = "compute" /\ ready' = [ready EXCEPT ![p] = TRUE] /\ UNCHANGED global_stop_ready
    BY <1>5 DEF metrics_compute_signature_data, signature_ready, At
  <2>. QED BY <2>1, <2>2, EndRaises, Zenon DEF AfterGlobalStop
<1>6. CASE Synchro1(p)
  <2>1. PICK w \in {"last", "done"} : pc' = [pc EXCEPT ![p] = w]
    BY <1>6 DEF Synchro1, Exits
  <2>2. pc[p] = "stop1" /\ UNCHANGED <<ready, global_stop_ready>>
    BY <1>6 DEF Synchro1, At
  <2>. QED BY <2>1, <2>2, EndMoves, Zenon DEF AfterGlobalStop
<1>7. CASE LastSignature(p)
  <2>1. pc[p] = "last" /\ pc' = [pc EXCEPT ![p] = "stop2"]
    BY <1>7 DEF LastSignature, At
  <2>2. ready' = [ready EXCEPT ![p] = TRUE] /\ UNCHANGED global_stop_ready
    BY <1>7 DEF LastSignature, signature_ready
  <2>. QED BY <2>1, <2>2, EndRaises, Zenon DEF AfterGlobalStop
<1>8. CASE Synchro2(p)
  <2>1. PICK w \in {"release", "global"} : pc' = [pc EXCEPT ![p] = w]
    BY <1>8, Zenon DEF Synchro2
  <2>2. pc[p] = "stop2" /\ UNCHANGED <<ready, global_stop_ready>>
    BY <1>8 DEF Synchro2, At, region
  <2>. QED BY <2>1, <2>2, EndMoves, Zenon DEF AfterGlobalStop
<1>9. CASE metrics_global_stop(p)
  <2>1. pc[0] \in AfterGlobalStop
    BY <1>9 DEF metrics_global_stop, MasterWentOn, EInv
  <2>2. /\ pc' = [pc EXCEPT ![p] = "app"] /\ UNCHANGED <<ready, global_stop_ready>>
    BY <1>9 DEF metrics_global_stop, region
  <2>. QED BY <2>1, <2>2, EndMoves, Zenon DEF AfterGlobalStop
<1>10. CASE AppSignature(p)
  <2>1. pc[p] = "app" /\ pc' = [pc EXCEPT ![p] = "exit"]
    BY <1>10 DEF AppSignature, At
  <2>2. ready' = [ready EXCEPT ![p] = TRUE] /\ UNCHANGED global_stop_ready
    BY <1>10 DEF AppSignature, signature_ready
  <2>3. p # 0 => pc[0] \in AfterGlobalStop
    BY <2>1, ProcsFacts DEF EInv, StopOrder
  <2>. QED BY <2>1, <2>2, <2>3, EndRaises, Zenon DEF AfterGlobalStop
<1>11. CASE MarkExited(p) \/ Synchro3(p)
  <2>1. PICK w \in {"stop3", "done"} : pc' = [pc EXCEPT ![p] = w]
    BY <1>11 DEF MarkExited, Synchro3
  <2>2. pc[p] \in {"exit", "stop3"} /\ UNCHANGED <<ready, global_stop_ready>>
    BY <1>11 DEF MarkExited, Synchro3, At, region
  <2>3. ready[p] /\ (p # 0 => pc[0] \in AfterGlobalStop)
    BY <2>2, ProcsFacts DEF EInv, StopOrder
  <2>. QED BY <2>1, <2>2, <2>3, EndMoves, Zenon DEF AfterGlobalStop
<1>. QED BY <1>1, <1>2, <1>3, <1>4, <1>5, <1>6, <1>7, <1>8, <1>9, <1>10, <1>11 DEF Step

(* The steps only the master takes keep the order of the end. *)
LEMMA EndMaster == ASSUME EInv, RInv', MasterStep PROVE EInv'
<1>1. CASE NewPhase \/ Reschedule
  <2>1. UNCHANGED core
    BY <1>1, Zenon DEF NewPhase, Reschedule, region, core
  <2>. QED BY <2>1, EndQuiet
<1>2. CASE free_node_signatures \/ clean_signatures
  BY <1>2, EndLowers DEF free_node_signatures, clean_signatures, At, Lowering
<1>3. CASE ReleaseGlobalStop
  BY <1>3, EndLowers, Zenon DEF ReleaseGlobalStop, Releases, At, Lowering
<1>4. CASE compute_job_cpus \/ all_ready \/ EVALUATING_LOCAL_SIGNATURE \/ SIGNATURE_STABLE
  <2>1. /\ pc[0] \in {"mask", "check", "apply", "stable"}
        /\ \E w \in {"free", "run", "stable", "apply", "clean"} : pc' = [pc EXCEPT ![0] = w]
    BY <1>4, Zenon DEF compute_job_cpus, all_ready, EVALUATING_LOCAL_SIGNATURE, SIGNATURE_STABLE,
       policy_node_apply, Cleans, Goes, At
  <2>2. UNCHANGED <<ready, global_stop_ready>>
    BY <1>4, Zenon DEF compute_job_cpus, all_ready, EVALUATING_LOCAL_SIGNATURE, SIGNATURE_STABLE, region
  <2>. QED BY <2>1, <2>2, EndMoves, ProcsFacts, Zenon DEF AfterGlobalStop
<1>. QED BY <1>1, <1>2, <1>3, <1>4 DEF MasterStep

(* Every step keeps the order of the end. *)
LEMMA EndStep == EInv /\ [Next]_vars => EInv'
<1>. SUFFICES ASSUME EInv, [Next]_vars PROVE EInv'
  OBVIOUS
<1>0. RInv'
  BY RoundStep DEF EInv
<1>1. CASE UNCHANGED vars
  BY <1>0, <1>1, EndQuiet DEF vars, region, core
<1>2. ASSUME NEW p \in Procs, states_begin_period(p) PROVE EInv'
  <2>1. UNCHANGED core
    BY <1>2, Zenon DEF states_begin_period, Begins, region, core
  <2>. QED BY <1>0, <2>1, EndQuiet
<1>3. ASSUME NEW p \in Procs, ear_finalize(p) \/ ear_lib_sig_handler(p) PROVE EInv'
  <2>1. pc[p] = "run" /\ UNCHANGED <<ready, global_stop_ready>>
    BY <1>3 DEF ear_finalize, ear_lib_sig_handler, At
  <2>2. PICK w \in {"done", "stop1"} : pc' = [pc EXCEPT ![p] = w]
    BY <1>3 DEF ear_finalize, ear_lib_sig_handler, Exits, Goes
  <2>. QED BY <1>0, <2>1, <2>2, EndMoves, Zenon DEF AfterGlobalStop
<1>4. CASE eards_connection_failure \/ ForceRescheduling
  <2>1. UNCHANGED core
    BY <1>4, Zenon DEF eards_connection_failure, ForceRescheduling, region, core
  <2>. QED BY <1>0, <2>1, EndQuiet
<1>. QED BY <1>0, <1>1, <1>2, <1>3, <1>4, EndProcess, EndMaster DEF Next

(* For any number of processes: nobody takes its application signature     *)
(* before the master has added up the last loop, and no mark of one is     *)
(* lowered (metrics_dispose, metrics_global_stop).                         *)
THEOREM StopsInOrder == Spec => []StopOrder
<1>1. EInv => StopOrder
  BY DEF EInv
<1>. QED BY <1>1, EndInit, EndStep, PTL DEF Spec

-----------------------------------------------------------------------------
(* The policy.  Between its computation and its use nothing moves the      *)
(* state of the master, so what it judges is what it computed.             *)
Judging == {"compute", "check", "apply", "stable"}
States == {"NO_PERIOD", "TEST_LOOP", "FIRST_ITERATION", "EVALUATING_LOCAL_SIGNATURE", "RECOMPUTING_N",
           "SIGNATURE_STABLE", "SIGNATURE_HAS_CHANGED", "PROJECTION_ERROR"}

PInv ==
    /\ RInv /\ ErrorAtDefault
    /\ EAR_STATE \in [Procs -> States] /\ tries_current_loop \in 0 .. MaxTries
    /\ pc[0] \in {"compute", "check"} => EAR_STATE[0] \in {"EVALUATING_LOCAL_SIGNATURE", "SIGNATURE_STABLE"}
    /\ At(0, "apply") => EAR_STATE[0] = "EVALUATING_LOCAL_SIGNATURE"
    /\ At(0, "stable") => EAR_STATE[0] = "SIGNATURE_STABLE"

(* The policy has not started when the application does. *)
LEMMA PolicyInit == Init => PInv
<1>. SUFFICES ASSUME Init PROVE PInv
  OBVIOUS
<1>1. EAR_STATE \in [Procs -> States] /\ EAR_STATE[0] = "NO_PERIOD" /\ pc[0] = "start"
  BY ProcsFacts DEF Init, States
<1>2. tries_current_loop \in 0 .. MaxTries
  BY EarlAssumption DEF Init
<1>. QED BY <1>1, <1>2, RoundInit DEF PInv, ErrorAtDefault, At

(* Steps that leave the policy alone, and the master outside of it or      *)
(* where it was.                                                           *)
LEMMA PolicyQuiet ==
    ASSUME PInv, RInv', UNCHANGED <<EAR_STATE, freq, tries_current_loop>>,
           pc'[0] = pc[0] \/ pc'[0] \notin Judging
    PROVE  PInv'
BY DEF PInv, ErrorAtDefault, At, Judging

(* A process that moves on and leaves the policy alone. *)
LEMMA PolicyMoves ==
    ASSUME PInv, RInv', UNCHANGED <<EAR_STATE, freq, tries_current_loop>>,
           NEW p \in Procs, NEW w, w \notin Judging, pc' = [pc EXCEPT ![p] = w]
    PROVE  PInv'
<1>1. pc'[0] = pc[0] \/ pc'[0] \notin Judging
  BY ProcsFacts DEF PInv, RInv, Types
<1>. QED BY <1>1, PolicyQuiet

(* A running process that changes its state, and no other process's. *)
LEMMA PolicyTurns ==
    ASSUME PInv, RInv', NEW p \in Procs, At(p, "run"), UNCHANGED pc,
           NEW new \in States, new # "PROJECTION_ERROR", EAR_STATE' = [EAR_STATE EXCEPT ![p] = new],
           UNCHANGED <<freq, tries_current_loop>> \/ (p = 0 /\ tries_current_loop' \in 0 .. MaxTries)
    PROVE  PInv'
BY ProcsFacts DEF PInv, ErrorAtDefault, At

(* The steps any process takes. *)
LEMMA PolicyProcess == ASSUME PInv, RInv', NEW p \in Procs, Step(p) PROVE PInv'
<1>. USE DEF Goes, master
<1>1. CASE FirstPeriod(p)
  <2>1. /\ At(p, "run") /\ UNCHANGED pc /\ EAR_STATE' = [EAR_STATE EXCEPT ![p] = "TEST_LOOP"]
        /\ UNCHANGED <<freq, tries_current_loop>> \/ (p = 0 /\ tries_current_loop' = 0)
    BY <1>1 DEF FirstPeriod, Begins, Iterates
  <2>2. 0 \in 0 .. MaxTries /\ "TEST_LOOP" \in States
    BY EarlAssumption DEF States
  <2>. QED BY <2>1, <2>2, PolicyTurns, Zenon
<1>2. CASE states_new_iteration(p)
  <2>1. /\ At(p, "run") /\ UNCHANGED <<pc, freq, tries_current_loop>>
        /\ EAR_STATE' = [EAR_STATE EXCEPT ![p] = Transition[EAR_STATE[p]]]
        /\ EAR_STATE[p] \in DOMAIN Transition
    BY <1>2 DEF states_new_iteration, Iterates, policy
  <2>2. Transition[EAR_STATE[p]] \in States /\ Transition[EAR_STATE[p]] # "PROJECTION_ERROR"
    BY <2>1 DEF Transition, States
  <2>. QED BY <2>1, <2>2, PolicyTurns, Zenon
<1>3. CASE metrics_compute_signature_finish(p)
  <2>1. PICK w \in {"compute", "check"} : pc' = [pc EXCEPT ![p] = w]
    BY <1>3 DEF metrics_compute_signature_finish
  <2>2. /\ EAR_STATE[p] \in {"EVALUATING_LOCAL_SIGNATURE", "SIGNATURE_STABLE"}
        /\ UNCHANGED <<EAR_STATE, freq, tries_current_loop>>
    BY <1>3 DEF metrics_compute_signature_finish, policy
  <2>. QED BY <2>1, <2>2, ProcsFacts DEF PInv, RInv, Types, ErrorAtDefault, At
<1>4. CASE metrics_compute_signature_data(p)
  <2>1. /\ pc[p] = "compute" /\ pc' = [pc EXCEPT ![p] = IF p = 0 THEN "check" ELSE "run"]
        /\ UNCHANGED <<EAR_STATE, freq, tries_current_loop>>
    BY <1>4 DEF metrics_compute_signature_data, policy, At
  <2>. QED BY <2>1, ProcsFacts DEF PInv, RInv, Types, ErrorAtDefault, At
<1>5. CASE \/ ear_init(p) \/ WaitMask(p) \/ Synchro1(p) \/ LastSignature(p) \/ Synchro2(p)
           \/ metrics_global_stop(p) \/ AppSignature(p) \/ MarkExited(p) \/ Synchro3(p)
  <2>1. UNCHANGED <<EAR_STATE, freq, tries_current_loop>>
    BY <1>5, Zenon DEF ear_init, WaitMask, Synchro1, LastSignature, Synchro2, metrics_global_stop,
       AppSignature, MarkExited, Synchro3, policy
  <2>2. \E w \in {"mask", "run", "last", "done", "stop2", "release", "global", "app", "exit", "stop3"} :
           pc' = [pc EXCEPT ![p] = w]
    BY <1>5, Zenon DEF ear_init, WaitMask, Synchro1, Exits, LastSignature, Synchro2, metrics_global_stop,
       AppSignature, MarkExited, Synchro3
  <2>. QED BY <2>1, <2>2, PolicyMoves, Zenon DEF Judging
<1>. QED BY <1>1, <1>2, <1>3, <1>4, <1>5 DEF Step

(* The steps only the master takes. *)
LEMMA PolicyMaster == ASSUME PInv, RInv', MasterStep PROVE PInv'
<1>. USE DEF Goes
<1>0. 0 \in Procs /\ Types /\ MaxTries \in Nat
  BY ProcsFacts, EarlAssumption DEF PInv, RInv
<1>1. CASE free_node_signatures \/ clean_signatures \/ ReleaseGlobalStop
  <2>1. PICK w \in {"run", "app"} : Lower(w)
    BY <1>1 DEF free_node_signatures, clean_signatures, ReleaseGlobalStop
  <2>2. UNCHANGED <<EAR_STATE, freq, tries_current_loop>>
    BY <1>1, Zenon DEF free_node_signatures, clean_signatures, ReleaseGlobalStop, policy
  <2>3. pc' = pc \/ pc' = [pc EXCEPT ![0] = w]
    BY <1>0, <2>1, LowerFacts, EarlAssumption DEF Types, Procs
  <2>. QED BY <1>0, <2>2, <2>3, PolicyQuiet DEF Types, Judging
<1>2. CASE compute_job_cpus
  BY <1>0, <1>2, PolicyMoves, Zenon DEF compute_job_cpus, policy, Judging
<1>3. CASE NewPhase \/ Reschedule
  <2>1. PICK new \in {"FIRST_ITERATION", "SIGNATURE_HAS_CHANGED"} :
           EAR_STATE' = [EAR_STATE EXCEPT ![0] = new]
    BY <1>3 DEF NewPhase, Reschedule
  <2>2. /\ At(0, "run") /\ UNCHANGED pc
        /\ tries_current_loop' = tries_current_loop \/ tries_current_loop' = 0
    BY <1>3 DEF NewPhase, Reschedule, Iterates
  <2>3. tries_current_loop' \in 0 .. MaxTries
    BY <1>0, <2>2 DEF PInv
  <2>. QED BY <1>0, <2>1, <2>2, <2>3, PolicyTurns, Zenon DEF States
<1>4. CASE all_ready
  <2>1. PICK w \in {"run", "stable", "apply"} :
           /\ pc' = [pc EXCEPT ![0] = w]
           /\ w = "stable" => EAR_STATE[0] = "SIGNATURE_STABLE"
           /\ w = "apply" => EAR_STATE[0] # "SIGNATURE_STABLE"
    BY <1>4, Zenon DEF all_ready
  <2>2. At(0, "check") /\ UNCHANGED <<EAR_STATE, freq, tries_current_loop>>
    BY <1>4 DEF all_ready, policy
  <2>. QED BY <1>0, <2>1, <2>2 DEF PInv, Types, ErrorAtDefault, At
<1>5. CASE EVALUATING_LOCAL_SIGNATURE
  <2>1. PICK w \in {"run", "clean"} : pc' = [pc EXCEPT ![0] = w]
    BY <1>5 DEF EVALUATING_LOCAL_SIGNATURE, policy_node_apply, Cleans
  <2>2. EAR_STATE[0] = "EVALUATING_LOCAL_SIGNATURE" /\ EAR_STATE \in [Procs -> States]
    BY <1>5 DEF EVALUATING_LOCAL_SIGNATURE, PInv
  <2>3. \/ EAR_STATE' = EAR_STATE
        \/ \E new \in {"SIGNATURE_STABLE", "RECOMPUTING_N"} : EAR_STATE' = [EAR_STATE EXCEPT ![0] = new]
    BY <1>5 DEF EVALUATING_LOCAL_SIGNATURE, policy_node_apply, State
  <2>4. EAR_STATE' \in [Procs -> States] /\ EAR_STATE'[0] # "PROJECTION_ERROR"
    BY <1>0, <2>2, <2>3 DEF States
  <2>5. tries_current_loop' \in {tries_current_loop, MaxTries}
            \/ (tries_current_loop < MaxTries /\ tries_current_loop' = tries_current_loop + 1)
    BY <1>5 DEF EVALUATING_LOCAL_SIGNATURE, policy_node_apply
  <2>6. tries_current_loop' \in 0 .. MaxTries
    BY <1>0, <2>5 DEF PInv
  <2>. QED BY <1>0, <2>1, <2>4, <2>6, Zenon DEF PInv, Types, ErrorAtDefault, At
<1>6. CASE SIGNATURE_STABLE
  <2>1. pc' = [pc EXCEPT ![0] = "clean"]
    BY <1>6 DEF SIGNATURE_STABLE, Cleans
  <2>2. EAR_STATE[0] = "SIGNATURE_STABLE" /\ EAR_STATE \in [Procs -> States]
    BY <1>6 DEF SIGNATURE_STABLE, PInv
  <2>3. tries_current_loop' \in {tries_current_loop, 0}
    BY <1>6 DEF SIGNATURE_STABLE, NotOk
  <2>4. \/ EAR_STATE' = EAR_STATE
        \/ \E new \in {"EVALUATING_LOCAL_SIGNATURE", "SIGNATURE_HAS_CHANGED"} :
              EAR_STATE' = [EAR_STATE EXCEPT ![0] = new]
        \/ /\ EAR_STATE' = [EAR_STATE EXCEPT ![0] = "PROJECTION_ERROR"]
           /\ freq' = def /\ tries_current_loop' = tries_current_loop /\ tries_current_loop >= MaxTries
    BY <1>6 DEF SIGNATURE_STABLE, NotOk, State, policy_set_default_freq
  <2>5. EAR_STATE' \in [Procs -> States] /\ tries_current_loop' \in 0 .. MaxTries
    BY <1>0, <2>2, <2>3, <2>4 DEF PInv, States
  <2>6. ErrorAtDefault'
    BY <1>0, <2>2, <2>4, <2>5 DEF PInv, ErrorAtDefault
  <2>. QED BY <1>0, <2>1, <2>5, <2>6, Zenon DEF PInv, Types, At
<1>. QED BY <1>1, <1>2, <1>3, <1>4, <1>5, <1>6 DEF MasterStep

(* Every step keeps the policy in order. *)
LEMMA PolicyStep == PInv /\ [Next]_vars => PInv'
<1>. SUFFICES ASSUME PInv, [Next]_vars PROVE PInv'
  OBVIOUS
<1>0. RInv'
  BY RoundStep DEF PInv
<1>1. CASE UNCHANGED vars
  BY <1>0, <1>1, PolicyQuiet DEF vars, policy
<1>2. ASSUME NEW p \in Procs, states_begin_period(p) PROVE PInv'
  <2>1. /\ At(p, "run") /\ UNCHANGED pc /\ EAR_STATE' = [EAR_STATE EXCEPT ![p] = "TEST_LOOP"]
        /\ UNCHANGED <<freq, tries_current_loop>> \/ (p = 0 /\ tries_current_loop' = 0)
    BY <1>2 DEF states_begin_period, Begins, Iterates, master
  <2>2. 0 \in 0 .. MaxTries /\ "TEST_LOOP" \in States
    BY EarlAssumption DEF States
  <2>. QED BY <1>0, <2>1, <2>2, PolicyTurns, Zenon
<1>3. ASSUME NEW p \in Procs, ear_finalize(p) \/ ear_lib_sig_handler(p) PROVE PInv'
  <2>1. UNCHANGED <<EAR_STATE, freq, tries_current_loop>>
    BY <1>3, Zenon DEF ear_finalize, ear_lib_sig_handler, policy
  <2>2. PICK w \in {"done", "stop1"} : pc' = [pc EXCEPT ![p] = w]
    BY <1>3 DEF ear_finalize, ear_lib_sig_handler, Exits, Goes
  <2>. QED BY <1>0, <2>1, <2>2, PolicyMoves, Zenon DEF Judging
<1>4. CASE eards_connection_failure \/ ForceRescheduling
  <2>1. UNCHANGED <<pc, EAR_STATE, freq, tries_current_loop>>
    BY <1>4, Zenon DEF eards_connection_failure, ForceRescheduling, policy
  <2>. QED BY <1>0, <2>1, PolicyQuiet
<1>. QED BY <1>0, <1>1, <1>2, <1>3, <1>4, PolicyProcess, PolicyMaster DEF Next

(* For any number of processes, frequencies and tries: a policy that has   *)
(* failed its last try leaves the application at the default frequency     *)
(* (state_signature_stable and policy_set_default_freq, states.c:963).     *)
THEOREM FailedPolicyAtDefault == Spec => []ErrorAtDefault
<1>1. PInv => ErrorAtDefault
  BY DEF PInv
<1>. QED BY <1>1, PolicyInit, PolicyStep, PTL DEF Spec
=============================================================================
