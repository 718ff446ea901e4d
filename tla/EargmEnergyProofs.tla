------------------------- MODULE EargmEnergyProofs -------------------------
(***************************************************************************)
(* What holds of the energy budget for every set of configurations, every  *)
(* energy and every number of commands, reloads and restarts: the window   *)
(* holds the last samples and follows the reloads, and the warnings reach  *)
(* the nodes as far apart as configured.                                   *)
(***************************************************************************)
EXTENDS EargmEnergy, EarLemmas

-----------------------------------------------------------------------------
(* The window *)

(* A reload that leaves T1 and T2 alone leaves the number of samples alone, *)
(* and one that does not asks for a new window.                             *)
LEMMA ReloadFollows ==
    ASSUME WindowFollows, NEW new \in Confs, reload_eargm_configuration(new),
           aggregate_samples' = aggregate_samples
    PROVE  WindowFollows'
<1>1. CASE MustRefill(new)
    BY <1>1 DEF WindowFollows, reload_eargm_configuration
<1>2. CASE ~MustRefill(new)
    <2>1. Samples(conf) = Samples(new)
        BY <1>2 DEF MustRefill, Samples
    <2>2. CASE must_refill
        BY <1>2, <2>2, Zenon DEF WindowFollows, reload_eargm_configuration
    <2>3. CASE ~must_refill
        BY <1>2, <2>1, <2>3, Zenon DEF WindowFollows, reload_eargm_configuration
    <2> QED BY <2>2, <2>3
<1> QED BY <1>1, <1>2

(* Whichever thread runs the handlers. *)
LEMMA SignalFollows ==
    ASSUME WindowFollows, my_signals_function, aggregate_samples' = aggregate_samples
    PROVE  WindowFollows'
<1>1. CASE \E new \in Confs : reload_eargm_configuration(new)
    BY <1>1, ReloadFollows
<1>2. CASE UNCHANGED <<conf, must_refill, powercap_th_start, overwritten>>
    BY <1>2 DEF WindowFollows, Samples
<1> QED BY <1>1, <1>2 DEF my_signals_function

(* A window that does not cover T2 is about to be filled again, unless two  *)
(* reloads came while the main thread of eargm.c was busy.                  *)
THEOREM WindowFollowsReloads == Spec => []WindowFollows
<1>1. Init => WindowFollows
    BY DEF Init, WindowFollows
<1>2. WindowFollows /\ [Next]_vars => WindowFollows'
    <2> SUFFICES ASSUME WindowFollows, [Next]_vars PROVE WindowFollows'
        OBVIOUS
    <2>1. CASE sigsuspend
        BY <2>1, SignalFollows DEF sigsuspend, window
    <2>2. CASE HandledByThread
        BY <2>2, SignalFollows DEF HandledByThread, window
    <2>3. CASE Refill
        BY <2>3 DEF Refill, WindowFollows
    <2>4. CASE Restart
        BY <2>4 DEF Restart, WindowFollows
    <2>5. CASE NewPeriod
        BY <2>5 DEF NewPeriod, new_energy_sample, WindowFollows, flags
    <2>6. CASE check_pending_processes \/ NoAlarm \/ db_select_acum_energy \/ StartPowercap
               \/ NoRefill \/ alarm \/ hangup \/ CommandEnds \/ UNCHANGED vars
        BY <2>6 DEF check_pending_processes, NoAlarm, db_select_acum_energy, StartPowercap,
                    NoRefill, alarm, hangup, CommandEnds, vars, WindowFollows, window, flags
    <2> QED BY <2>1, <2>2, <2>3, <2>4, <2>5, <2>6 DEF Next, MainStep
<1> QED BY <1>1, <1>2, PTL DEF Spec

(* In a ring of n places whose oldest sample is at c, the i-th oldest is at *)
(* this place.                                                              *)
Place(c, n, i) == IF c + i - 1 < n THEN c + i - 1 ELSE c + i - 1 - n

(* The place after c, as new_energy_sample computes it. *)
LEMMA NextPlace ==
    ASSUME NEW n \in Nat, n > 0, NEW c \in 0 .. n - 1
    PROVE  (c + 1) % n = IF c + 1 = n THEN 0 ELSE c + 1
<1>1. CASE c + 1 = n
    BY <1>1
<1>2. CASE c + 1 # n
    <2>1. c + 1 \in 0 .. n - 1
        BY <1>2
    <2>2. \A x \in 0 .. n - 1 : x % n = x
        OBVIOUS
    <2> QED BY <1>2, <2>1, <2>2
<1> QED BY <1>1, <1>2

(* The places are those of the array, each once. *)
LEMMA Places ==
    ASSUME NEW n \in Nat, n > 0, NEW c \in 0 .. n - 1
    PROVE  /\ \A i \in 1 .. n : Place(c, n, i) \in 0 .. n - 1
           /\ \A i, j \in 1 .. n : Place(c, n, i) = Place(c, n, j) => i = j
           /\ \A j \in 0 .. n - 1 : \E i \in 1 .. n : Place(c, n, i) = j
<1>1. \A i \in 1 .. n : Place(c, n, i) \in 0 .. n - 1
    BY DEF Place
<1>2. ASSUME NEW i \in 1 .. n, NEW j \in 1 .. n, Place(c, n, i) = Place(c, n, j) PROVE i = j
    BY <1>2 DEF Place
<1>3. ASSUME NEW j \in 0 .. n - 1 PROVE \E i \in 1 .. n : Place(c, n, i) = j
    <2>1. CASE j >= c
        <3>1. j - c + 1 \in 1 .. n /\ Place(c, n, j - c + 1) = j
            BY <2>1 DEF Place
        <3> QED BY <3>1
    <2>2. CASE j < c
        <3>1. j - c + 1 + n \in 1 .. n /\ Place(c, n, j - c + 1 + n) = j
            BY <2>2 DEF Place
        <3> QED BY <3>1
    <2> QED BY <2>1, <2>2
<1> QED BY <1>1, <1>2, <1>3

(* The inductive invariant of the window: it is full from the start, and    *)
(* the ring holds the recent samples from the current one on.               *)
WindowInv ==
    /\ conf \in Confs /\ result \in Nat
    /\ aggregate_samples \in Nat /\ aggregate_samples > 0 /\ total_samples = aggregate_samples
    /\ current_sample \in 0 .. aggregate_samples - 1
    /\ energy_consumed \in [0 .. aggregate_samples - 1 -> Nat]
    /\ recent \in [1 .. aggregate_samples -> Nat]
    /\ \A i \in 1 .. aggregate_samples :
           recent[i] = energy_consumed[Place(current_sample, aggregate_samples, i)]

(* A window has at least one sample. *)
LEMMA SomeSamples == ASSUME NEW c \in Confs PROVE Samples(c) \in Nat /\ Samples(c) > 0
<1>1. \A a, b \in Nat : a > 0 => b \div a \in Nat /\ b % a \in Nat
    OBVIOUS
<1>2. ASSUME NEW a \in Nat, NEW b \in Nat, a > 0, b > 0, b % a = 0 PROVE b \div a # 0
    <2>1. b < a => b % a = b
        BY <1>2
    <2>2. b \div a = 0 => b < a
        BY <1>2
    <2> QED BY <1>2, <2>1, <2>2
<1>3. c.t1 \in Nat /\ c.t1 > 0 /\ c.t2 \in Nat /\ c.t2 > 0
    BY ConfsAssumption
<1>4. c.t2 \div c.t1 \in Nat /\ c.t2 % c.t1 \in Nat
    BY <1>1, <1>3
<1>5. c.t2 % c.t1 = 0 => c.t2 \div c.t1 # 0
    BY <1>2, <1>3
<1> QED BY <1>4, <1>5 DEF Samples

(* The shorter of equally long windows. *)
LEMMA Shorter == ASSUME NEW n \in Nat PROVE Min({n + 1, n}) = n /\ Min({n, n}) = n
<1>1. \A x \in {n + 1, n} : (\A y \in {n + 1, n} : x <= y) <=> x = n
    OBVIOUS
<1>2. \A x \in {n, n} : (\A y \in {n, n} : x <= y) <=> x = n
    OBVIOUS
<1> QED BY <1>1, <1>2 DEF Min

(* fill_periods spreads the energy evenly. *)
LEMMA Filled ==
    ASSUME NEW n \in Nat, n > 0, NEW e \in Nat
    PROVE  /\ [i \in 0 .. n - 1 |-> e \div n] \in [0 .. n - 1 -> Nat]
           /\ [i \in 1 .. n |-> e \div n] \in [1 .. n -> Nat]
<1>1. e \div n \in Nat
    OBVIOUS
<1> QED BY <1>1

(* The refills, at the start and after a reload or a restart. *)
LEMMA RefillKept ==
    ASSUME NEW e \in Nat, NEW n \in Nat, n > 0, aggregate_samples' = n, fill_periods(n, e),
           conf' \in Confs, result' \in Nat
    PROVE  WindowInv'
<1> DEFINE q == e \div n
<1>1. /\ energy_consumed' = [i \in 0 .. n - 1 |-> q] /\ recent' = [i \in 1 .. n |-> q]
      /\ total_samples' = n /\ current_sample' = 0
    BY DEF fill_periods
<1>2. energy_consumed' \in [0 .. n - 1 -> Nat] /\ recent' \in [1 .. n -> Nat]
    BY <1>1, Filled
<1> HIDE DEF q
<1>3. 0 \in 0 .. n - 1 /\ \A i \in 1 .. n : Place(0, n, i) \in 0 .. n - 1
    BY Places
<1>4. \A i \in 1 .. n : recent'[i] = energy_consumed'[Place(0, n, i)]
    BY <1>1, <1>3
<1> QED BY <1>1, <1>2, <1>3, <1>4 DEF WindowInv

(* new_energy_sample replaces the oldest sample. *)
LEMMA SampleKept ==
    ASSUME WindowInv, NEW e \in Nat, new_energy_sample(e), conf' \in Confs, result' \in Nat
    PROVE  WindowInv'
<1> DEFINE n == aggregate_samples
           c == current_sample
<1>1. /\ n \in Nat /\ n > 0 /\ c \in 0 .. n - 1 /\ n' = n /\ total_samples = n
      /\ energy_consumed \in [0 .. n - 1 -> Nat] /\ recent \in [1 .. n -> Nat]
      /\ \A i \in 1 .. n : recent[i] = energy_consumed[Place(c, n, i)]
    BY DEF WindowInv, new_energy_sample
<1>2. total_samples' = n
    BY <1>1, Shorter, Zenon DEF new_energy_sample
<1>3. c' = IF c + 1 = n THEN 0 ELSE c + 1
    BY <1>1, NextPlace, Zenon DEF new_energy_sample, NextSample
<1>4. energy_consumed' = [energy_consumed EXCEPT ![c] = e]
    BY DEF new_energy_sample
<1>5. recent \in Seq(Nat) /\ Len(recent) = n /\ recent # <<>>
    BY <1>1
<1>6. recent' \in Seq(Nat) /\ Len(recent') = n
      /\ \A i \in 1 .. n : recent'[i] = IF i = n THEN e ELSE recent[i + 1]
    BY <1>5 DEF new_energy_sample
<1>7. recent' \in [1 .. n -> Nat]
    BY <1>6
<1>8. /\ c' \in 0 .. n - 1 /\ Place(c', n, n) = c
      /\ \A i \in 1 .. n - 1 : Place(c', n, i) = Place(c, n, i + 1) /\ Place(c, n, i + 1) # c
    <2> DEFINE k == n
               b == c
               d == c'
    <2>1. k \in Nat /\ k > 0 /\ b \in 0 .. k - 1 /\ d = IF b + 1 = k THEN 0 ELSE b + 1
        BY <1>1, <1>3
    <2> HIDE DEF k, b, d
    <2>2. /\ d \in 0 .. k - 1 /\ Place(d, k, k) = b
          /\ \A i \in 1 .. k - 1 : Place(d, k, i) = Place(b, k, i + 1) /\ Place(b, k, i + 1) # b
        BY <2>1 DEF Place
    <2> QED BY <2>2 DEF k, b, d
<1>9. \A i \in 1 .. n : Place(c, n, i) \in 0 .. n - 1
    BY <1>1, Places, Zenon
<1>10. ASSUME NEW i \in 1 .. n PROVE recent'[i] = energy_consumed'[Place(c', n, i)]
    <2>1. CASE i = n
        BY <1>1, <1>4, <1>6, <1>8, <2>1
    <2>2. CASE i # n
        <3>1. i + 1 \in 1 .. n /\ i \in 1 .. n - 1
            BY <1>1, <2>2
        <3> QED BY <1>1, <1>4, <1>6, <1>8, <1>9, <2>2, <3>1, Zenon
    <2> QED BY <2>1, <2>2
<1>11. energy_consumed' \in [0 .. n - 1 -> Nat]
    BY <1>1, <1>4
<1> QED BY <1>1, <1>2, <1>7, <1>8, <1>10, <1>11, Zenon DEF WindowInv

(* The other steps leave the window alone. *)
LEMMA WindowKept ==
    ASSUME WindowInv, UNCHANGED window, conf' \in Confs, result' \in Nat
    PROVE  WindowInv'
BY DEF WindowInv, window

(* Every step keeps it. *)
LEMMA WindowInductive == WindowInv /\ [Next]_vars => WindowInv'
<1> SUFFICES ASSUME WindowInv, [Next]_vars PROVE WindowInv'
    OBVIOUS
<1>1. conf \in Confs /\ result \in Nat
    BY DEF WindowInv
<1>2. CASE sigsuspend \/ HandledByThread
    <2>1. UNCHANGED window /\ result' = result
        BY <1>2 DEF sigsuspend, HandledByThread
    <2>2. conf' \in Confs
        BY <1>1, <1>2 DEF sigsuspend, HandledByThread, my_signals_function,
                          reload_eargm_configuration
    <2> QED BY <1>1, <2>1, <2>2, WindowKept
<1>3. CASE check_pending_processes \/ NoAlarm \/ StartPowercap \/ NoRefill \/ alarm \/ hangup
           \/ CommandEnds \/ UNCHANGED vars
    <2>1. UNCHANGED window /\ result' = result /\ conf' = conf
        BY <1>3 DEF check_pending_processes, NoAlarm, StartPowercap, NoRefill, alarm, hangup,
                    CommandEnds, vars
    <2> QED BY <1>1, <2>1, WindowKept
<1>4. CASE db_select_acum_energy
    <2>1. UNCHANGED window /\ result' \in Nat /\ conf' = conf
        BY <1>4, ConfsAssumption DEF db_select_acum_energy
    <2> QED BY <1>1, <2>1, WindowKept
<1>5. CASE NewPeriod
    <2>1. new_energy_sample(result) /\ result' = 0 /\ conf' = conf
        BY <1>5 DEF NewPeriod
    <2> QED BY <1>1, <2>1, SampleKept
<1>6. CASE Refill
    <2>1. PICK total \in Totals \union {0} : fill_periods(Samples(conf), total)
        BY <1>6 DEF Refill
    <2>2. aggregate_samples' = Samples(conf) /\ result' = result /\ conf' = conf /\ total \in Nat
        BY <1>6, ConfsAssumption DEF Refill
    <2> QED BY <1>1, <2>1, <2>2, SomeSamples, RefillKept
<1>7. CASE Restart
    <2>1. PICK total \in Totals \union {0} : fill_periods(aggregate_samples', total)
        BY <1>7 DEF Restart
    <2>2. /\ aggregate_samples' = Samples(conf') /\ result' = 0 /\ conf' \in Confs /\ total \in Nat
        BY <1>7, ConfsAssumption DEF Restart
    <2>3. aggregate_samples' \in Nat /\ aggregate_samples' > 0 /\ result' \in Nat
        BY <2>2, SomeSamples
    <2> QED BY <2>1, <2>2, <2>3, RefillKept
<1> QED BY <1>2, <1>3, <1>4, <1>5, <1>6, <1>7 DEF Next, MainStep

(* It holds from the start. *)
LEMMA WindowStarts == Init => WindowInv
<1> SUFFICES ASSUME Init PROVE WindowInv
    OBVIOUS
<1> DEFINE n == aggregate_samples
<1>1. conf \in Confs /\ n \in Nat /\ n > 0 /\ total_samples = n /\ current_sample = 0 /\ result = 0
    BY SomeSamples DEF Init
<1>2. PICK e \in Totals \union {0} : /\ energy_consumed = [i \in 0 .. n - 1 |-> e \div n]
                                     /\ recent = [i \in 1 .. n |-> e \div n]
    BY DEF Init
<1>3. e \in Nat
    BY ConfsAssumption
<1>4. energy_consumed \in [0 .. n - 1 -> Nat] /\ recent \in [1 .. n -> Nat]
    BY <1>1, <1>2, <1>3, Filled
<1> DEFINE q == e \div n
<1>5. 0 \in 0 .. n - 1 /\ \A i \in 1 .. n : Place(0, n, i) \in 0 .. n - 1
    BY <1>1, Places
<1>6. energy_consumed = [i \in 0 .. n - 1 |-> q] /\ recent = [i \in 1 .. n |-> q]
    BY <1>2
<1> HIDE DEF q
<1>7. \A i \in 1 .. n : recent[i] = energy_consumed[Place(0, n, i)]
    BY <1>5, <1>6
<1> QED BY <1>1, <1>4, <1>5, <1>7 DEF WindowInv

(* The ring holds what the window does. *)
LEMMA WindowSums == WindowInv => WindowExact
<1> SUFFICES ASSUME WindowInv PROVE WindowExact
    OBVIOUS
<1> DEFINE n == aggregate_samples
           b == [i \in 1 .. n |-> Place(current_sample, n, i)]
<1>1. /\ n \in Nat /\ n > 0 /\ current_sample \in 0 .. n - 1 /\ total_samples = n
      /\ energy_consumed \in [0 .. n - 1 -> Nat] /\ recent \in [1 .. n -> Nat]
      /\ \A i \in 1 .. n : recent[i] = energy_consumed[Place(current_sample, n, i)]
    BY DEF WindowInv
<1>2. \A i \in 1 .. n : b[i] \in 0 .. n - 1
    BY <1>1, Places, Zenon
<1>3. \A i, j \in 1 .. n : b[i] = b[j] => i = j
    BY <1>1, Places
<1>4. \A j \in 0 .. n - 1 : \E i \in 1 .. n : b[i] = j
    BY <1>1, Places
<1>5. {b[i] : i \in 1 .. n} = 0 .. n - 1
    <2> HIDE DEF b
    <2> QED BY <1>2, <1>4
<1>6. \A i \in 1 .. n : energy_consumed[b[i]] \in Int /\ recent[i] = energy_consumed[b[i]]
    BY <1>1, <1>2
<1> HIDE DEF b
<1>7. IsFiniteSet(1 .. n)
    BY <1>1, FS_Interval
<1>8. SumFunctionOnSet(recent, 1 .. n) = SumFunctionOnSet(energy_consumed, 0 .. n - 1)
    <2> DEFINE S == 1 .. n
    <2>1. /\ IsFiniteSet(S) /\ \A x, y \in S : b[x] = b[y] => x = y
          /\ \A x \in S : energy_consumed[b[x]] \in Int /\ recent[x] = energy_consumed[b[x]]
        BY <1>3, <1>6, <1>7
    <2> HIDE DEF S
    <2>2. SumFunctionOnSet(recent, S) = SumFunctionOnSet(energy_consumed, {b[x] : x \in S})
        BY <2>1, SumRenamed
    <2> QED BY <1>5, <2>2, Zenon DEF S
<1>9. DOMAIN recent = 1 .. n /\ Min({total_samples, n}) = n
    BY <1>1, Shorter, Zenon
<1> QED BY <1>8, <1>9 DEF WindowExact, compute_energy_t2

(* What defcon judges is the energy of the last samples, for windows of any  *)
(* length, after any refills and restarts.                                  *)
THEOREM WindowIsExact == Spec => []WindowExact
BY WindowStarts, WindowInductive, WindowSums, PTL DEF Spec

-----------------------------------------------------------------------------
(* The warnings *)

(* What EARGM remembers of the risk it sent is what the nodes were told     *)
(* last: only a restart makes it forget, and then it remembers no risk.     *)
Remembered == last_risk_sent # NO_PROBLEM => nodes_risk = last_risk_sent

(* The grace periods are over when a warning is possible again. *)
GraceCounted == in_action \in Int /\ quiet \in Int /\ quiet <= in_action /\ 0 <= quiet

(* The three ways a period ends. *)
LEMMA DecisionKept ==
    ASSUME Remembered, GraceCounted, conf \in Confs,
           NEW level \in Levels, Decide(level)
    PROVE  Remembered' /\ GraceCounted'
<1>1. CASE in_action > 0
    <2>1. InGracePeriod
        BY <1>1 DEF Decide
    <2> QED BY <1>1, <2>1 DEF InGracePeriod, NothingSent, Remembered, GraceCounted
<1>2. CASE in_action = 0 /\ level = NO_PROBLEM
    <2>1. SafeArea
        BY <1>2 DEF Decide
    <2>2. Remembered'
        BY <2>1 DEF SafeArea, NothingSent, ear_cluster_restore_conf, Remembered
    <2> QED BY <1>2, <2>1, <2>2 DEF SafeArea, GraceCounted
<1>3. CASE in_action = 0 /\ level # NO_PROBLEM
    <2>1. Warned(level)
        BY <1>3 DEF Decide
    <2>2. Remembered'
        BY <2>1 DEF Warned, NothingSent, create_risk, Remembered
    <2> QED BY <1>3, <2>1, <2>2, ConfsAssumption DEF Warned, GracePeriods, GraceCounted
<1> QED BY <1>1, <1>2, <1>3 DEF GraceCounted

(* The other steps send nothing and start nothing. *)
LEMMA WarningsKept ==
    ASSUME Remembered, GraceCounted, conf \in Confs, [Next]_vars, ~NewPeriod
    PROVE  Remembered' /\ GraceCounted'
<1>1. CASE Restart
    BY <1>1 DEF Restart, Remembered, GraceCounted
<1>2. CASE sigsuspend \/ HandledByThread \/ Refill
    BY <1>2 DEF sigsuspend, HandledByThread, Refill, Remembered, GraceCounted, warning
<1>3. CASE check_pending_processes \/ NoAlarm \/ db_select_acum_energy \/ StartPowercap
           \/ NoRefill \/ alarm \/ hangup \/ CommandEnds \/ UNCHANGED vars
    BY <1>3 DEF check_pending_processes, NoAlarm, db_select_acum_energy, StartPowercap,
                NoRefill, alarm, hangup, CommandEnds, vars, Remembered, GraceCounted, warning
<1> QED BY <1>1, <1>2, <1>3 DEF Next, MainStep

(* A level is one of the four. *)
LEMMA LevelType == ASSUME NEW e PROVE defcon(e) \in Levels
    BY DEF defcon, Levels

(* The inductive invariant of the warnings. *)
WarnInv == conf \in Confs /\ Remembered /\ GraceCounted

(* Every step keeps it. *)
LEMMA WarnInductive ==
    ASSUME WarnInv, [Next]_vars
    PROVE  WarnInv'
<1>1. conf' \in Confs
    <2>1. CASE sigsuspend \/ HandledByThread
        BY <2>1 DEF sigsuspend, HandledByThread, my_signals_function, reload_eargm_configuration,
                    WarnInv
    <2>2. CASE Restart
        BY <2>2 DEF Restart
    <2>3. CASE check_pending_processes \/ NoAlarm \/ db_select_acum_energy \/ StartPowercap
               \/ Refill \/ NoRefill \/ alarm \/ hangup \/ CommandEnds \/ NewPeriod
               \/ UNCHANGED vars
        BY <2>3 DEF check_pending_processes, NoAlarm, db_select_acum_energy, StartPowercap, Refill,
                    NoRefill, alarm, hangup, CommandEnds, NewPeriod, vars, WarnInv
    <2> QED BY <2>1, <2>2, <2>3 DEF Next, MainStep
<1>2. Remembered' /\ GraceCounted'
    <2>1. CASE NewPeriod
        <3>1. PICK level \in Levels : Decide(level)
            BY <2>1, LevelType DEF NewPeriod
        <3> QED BY <3>1, DecisionKept, ConfsAssumption DEF WarnInv
    <2>2. CASE ~NewPeriod
        BY <2>2, WarningsKept DEF WarnInv
    <2> QED BY <2>1, <2>2
<1> QED BY <1>1, <1>2 DEF WarnInv

(* It holds from the start. *)
LEMMA WarnAlways == Spec => []WarnInv
<1>1. Init => WarnInv
    BY DEF Init, WarnInv, Remembered, GraceCounted
<1>2. WarnInv /\ [Next]_vars => WarnInv'
    BY WarnInductive
<1> QED BY <1>1, <1>2, PTL DEF Spec

(* A warning in automatic mode leaves the nodes at its risk, although       *)
(* eargm.c skips a risk it has sent before.                                 *)
THEOREM WarningsReachNodes == Spec => ActsOnWarning
<1> DEFINE Acts == NewPeriod /\ conf.mode = 1 /\ in_action = 0 /\ last_level' # NO_PROBLEM
                       => nodes_risk' = last_level'
<1>1. WarnInv /\ [Next]_vars => Acts
    <2> SUFFICES ASSUME WarnInv, NewPeriod, conf.mode = 1, in_action = 0, last_level' # NO_PROBLEM
                 PROVE  nodes_risk' = last_level'
        OBVIOUS
    <2>1. Decide(last_level')
        BY DEF NewPeriod
    <2>2. Warned(last_level')
        BY <2>1 DEF Decide
    <2>3. CASE last_risk_sent = last_level'
        BY <2>2, <2>3 DEF Warned, NothingSent, WarnInv, Remembered
    <2>4. CASE last_risk_sent # last_level'
        BY <2>2, <2>4 DEF Warned, create_risk
    <2> QED BY <2>3, <2>4
<1> QED BY <1>1, WarnAlways, PTL DEF Spec, ActsOnWarning

(* Between two warnings their grace periods pass, with every number of them *)
(* that reloads configure.                                                  *)
THEOREM WarningsAreSpaced == Spec => ActionsSpaced
<1> DEFINE Acts == NewPeriod /\ running' # running => quiet = 0
<1>1. WarnInv /\ [Next]_vars => Acts
    <2> SUFFICES ASSUME WarnInv, NewPeriod, running' # running PROVE quiet = 0
        OBVIOUS
    <2>1. PICK level : Decide(level)
        BY DEF NewPeriod
    <2>2. in_action = 0
        BY <2>1 DEF Decide, InGracePeriod, commands
    <2> QED BY <2>2 DEF WarnInv, GraceCounted
<1> QED BY <1>1, WarnAlways, PTL DEF Spec, ActionsSpaced
=============================================================================
