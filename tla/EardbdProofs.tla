---------------------------- MODULE EardbdProofs ----------------------------
(***************************************************************************)
(* For all periods, offsets, buffer sizes and numbers of metrics: the      *)
(* timeouts of a process agree with its select, and the indexes of the     *)
(* server stay inside their allocations.                                   *)
(***************************************************************************)
EXTENDS Eardbd, TLAPS

Timers == [insr : Nat, aggr : Nat, slct : Nat, left : Nat]

\* While the select waits; while an alarm is being handled, when the wait has been
\* subtracted and the select not started again.
Waiting(t) == /\ t.left <= t.slct /\ 0 < t.slct /\ t.slct <= t.insr /\ t.slct <= t.aggr
              /\ t.slct <= time_insr + SyncOffset
              /\ t.insr <= time_insr + SyncOffset + t.slct
              /\ t.insr - (t.slct - t.left) <= time_insr + SyncOffset + 1
Handled(t) == t.insr <= time_insr + SyncOffset /\ 0 < t.aggr

\* A question asked by a full buffer interrupts the wait, the others an alarm.
InWait(p) == pc[p] = "body" \/ (pc[p] = "wait" /\ asking.why = "full")

TInv ==
    /\ timers \in [Procs -> Timers]
    /\ up \in [Procs -> {"up", "down", "off"}]
    /\ pc \in [Procs -> {"body", "insr", "wait"}] /\ pc["server"] # "wait"
    /\ \A p \in Procs : up[p] # "up" => pc[p] = "body"
    /\ \A p \in Procs : InWait(p) => Waiting(timers[p])
    /\ \A p \in Procs : ~InWait(p) => Handled(timers[p])
-----------------------------------------------------------------------------
\* The select that starts waits for the shorter of the timeouts.
LEMMA ResetWaits ==
    ASSUME NEW r \in Timers, 0 < r.insr, r.insr <= time_insr + SyncOffset, 0 < r.aggr
    PROVE  time_reset_timeout_slct(r) \in Timers /\ Waiting(time_reset_timeout_slct(r))
  <1> DEFINE k == IF r.insr < r.aggr THEN r.insr ELSE r.aggr
             s == [r EXCEPT !.slct = k, !.left = k]
  <1>1. k \in Nat /\ 0 < k /\ k <= r.insr /\ k <= r.aggr
    BY DEF Timers
  <1>2. time_reset_timeout_slct(r) = s
    BY DEF time_reset_timeout_slct
  <1> HIDE DEF k
  <1>3. s \in Timers /\ s.insr = r.insr /\ s.aggr = r.aggr /\ s.slct = k /\ s.left = k
    BY <1>1, Zenon DEF Timers
  <1>4. r.insr \in Nat /\ r.aggr \in Nat
    BY DEF Timers
  <1> HIDE DEF s
  <1>5. Waiting(s)
    BY <1>1, <1>3, <1>4, TimersAssumption DEF Waiting
  <1> QED  BY <1>2, <1>3, <1>5

\* The select of a process that starts.
LEMMA StartWaits == init_time_configuration \in Timers /\ Waiting(init_time_configuration)
  <1> DEFINE r == [insr |-> time_insr, aggr |-> time_aggr, slct |-> 0, left |-> 0]
  <1>1. r \in Timers /\ 0 < r.insr /\ r.insr <= time_insr + SyncOffset /\ 0 < r.aggr
    BY TimersAssumption DEF Timers
  <1>2. init_time_configuration = time_reset_timeout_slct(r)
    BY DEF init_time_configuration
  <1> HIDE DEF r
  <1> QED  BY <1>1, <1>2, ResetWaits

\* The select that starts again after an alarm.
LEMMA EndWaits ==
    ASSUME NEW t \in Timers, Handled(t)
    PROVE  LET s == time_reset_timeout_slct(
                        IF t.insr = 0 THEN [t EXCEPT !.insr = time_insr] ELSE t)
           IN  s \in Timers /\ Waiting(s)
  <1> DEFINE r == IF t.insr = 0 THEN [t EXCEPT !.insr = time_insr] ELSE t
  <1>1. r \in Timers /\ 0 < r.insr /\ r.insr <= time_insr + SyncOffset /\ 0 < r.aggr
    BY TimersAssumption DEF Timers, Handled
  <1> HIDE DEF r
  <1>2. time_reset_timeout_slct(r) \in Timers /\ Waiting(time_reset_timeout_slct(r))
    BY <1>1, ResetWaits
  <1> QED  BY <1>2 DEF r

\* What manage_alarms makes of the timeouts when the select has expired.
LEMMA AlarmHandles ==
    ASSUME NEW t \in Timers, Waiting(t), t.left = 0
    PROVE  LET s == time_substract_timeouts(t)
               u == IF s.aggr = 0 THEN [s EXCEPT !.aggr = time_aggr] ELSE s
           IN  u \in Timers /\ Handled(u)
  <1> DEFINE s == time_substract_timeouts(t)
             u == IF s.aggr = 0 THEN [s EXCEPT !.aggr = time_aggr] ELSE s
             i == t.insr - t.slct
             a == t.aggr - t.slct
  <1>a. i \in Nat /\ a \in Nat
    BY DEF Timers, Waiting
  <1>b. s = [t EXCEPT !.insr = i, !.aggr = a]
    BY DEF time_substract_timeouts
  <1> HIDE DEF i, a
  <1>1. s \in Timers /\ s.insr = i /\ s.aggr = a
    BY <1>a, <1>b, Zenon DEF Timers
  <1>2. s.insr <= time_insr + SyncOffset
    BY <1>1, TimersAssumption DEF Timers, Waiting, i
  <1> HIDE DEF s
  <1>3. u \in Timers /\ u.insr = s.insr /\ 0 < u.aggr
    BY <1>1, TimersAssumption DEF Timers
  <1> HIDE DEF u
  <1>4. Handled(u)
    BY <1>2, <1>3 DEF Handled
  <1> QED  BY <1>3, <1>4 DEF s, u

\* A synchronisation during the wait.
LEMMA PostponeWaits ==
    ASSUME NEW t \in Timers, Waiting(t), t.left > 0, NEW fraction \in {0, 1}
    PROVE  LET s == postpone_insr(t, t.left - fraction)
           IN  s \in Timers /\ Waiting(s)
  BY TimersAssumption DEF postpone_insr, Timers, Waiting

\* A second of the wait.
LEMMA SecondWaits ==
    ASSUME NEW t \in Timers, Waiting(t), t.left > 0
    PROVE  Second(t) \in Timers /\ Waiting(Second(t))
  BY TimersAssumption DEF Second, Timers, Waiting
-----------------------------------------------------------------------------
\* The invariant of the timeouts holds at the start.
LEMMA TInvInit == Init => TInv
  BY StartWaits DEF Init, TInv, InWait, Procs

\* Steps that leave the timeouts alone.
LEMMA ReceiveKeeps == ASSUME TInv, NEW p \in Procs, storage_sample_receive(p) PROVE TInv'
  <1>1. timers' = timers /\ up' = up /\ pc[p] = "body"
    BY Zenon DEF storage_sample_receive, InBody
  <1> DEFINE t == TypeOf[Head(wire[p])]
  <1>2. \/ UNCHANGED sync /\ pc' = pc
        \/ p = "mirror" /\ sync_question("full", {t})
    BY Zenon DEF storage_sample_receive
  <1>4. \/ pc' = pc /\ asking' = asking
        \/ p = "mirror" /\ pc' = [pc EXCEPT !["mirror"] = "wait"] /\ asking'.why = "full"
    BY <1>2 DEF sync_question, sync
  <1>3. Running(p)
    BY Zenon DEF storage_sample_receive, InBody
  <1> QED  BY <1>1, <1>3, <1>4 DEF TInv, InWait, Running, Procs

\* The alarm of an aggregation.
LEMMA AggrKeeps == ASSUME TInv, NEW p \in Procs, manage_aggr(p) PROVE TInv'
  <1> DEFINE s == time_substract_timeouts(timers[p])
             u == IF s.aggr = 0 THEN [s EXCEPT !.aggr = time_aggr] ELSE s
  <1>1. Running(p) /\ pc[p] = "body" /\ timers[p].left = 0 /\ up' = up
    BY DEF manage_aggr
  <1>2. timers' = [timers EXCEPT ![p] = u]
    BY DEF manage_aggr
  <1>3. \/ pc' = [pc EXCEPT ![p] = "insr"] /\ asking' = asking
        \/ p = "mirror" /\ pc' = [pc EXCEPT !["mirror"] = "wait"] /\ asking'.why = "aggr"
    BY DEF manage_aggr, sync_question, sync
  <1>4. timers[p] \in Timers /\ Waiting(timers[p])
    BY <1>1 DEF TInv, InWait
  <1>5. u \in Timers /\ Handled(u)
    BY <1>1, <1>4, AlarmHandles
  <1> HIDE DEF u
  <1> QED  BY <1>1, <1>2, <1>3, <1>5 DEF TInv, InWait, Running, Procs

\* The end of an alarm, in either process.
LEMMA EndKeeps ==
    ASSUME TInv, NEW p \in Procs, EndAlarm(p), ~InWait(p), up[p] = "up", up' = up,
           pc' = [pc EXCEPT ![p] = "body"], p = "mirror" \/ asking' = asking
    PROVE  TInv'
  <1> DEFINE t == timers[p]
             u == time_reset_timeout_slct(IF t.insr = 0 THEN [t EXCEPT !.insr = time_insr] ELSE t)
  <1>1. timers' = [timers EXCEPT ![p] = u]
    BY DEF EndAlarm
  <1>2. t \in Timers /\ Handled(t)
    BY DEF TInv
  <1>3. u \in Timers /\ Waiting(u)
    BY <1>2, EndWaits
  <1> HIDE DEF u
  <1> QED  BY <1>1, <1>3 DEF TInv, InWait, Procs

\* The alarm of an insertion.
LEMMA InsrKeeps == ASSUME TInv, NEW p \in Procs, manage_insr(p) PROVE TInv'
  <1>1. Running(p) /\ pc[p] = "insr" /\ up' = up
    BY DEF manage_insr
  <1>2. CASE EndAlarm(p) /\ pc' = [pc EXCEPT ![p] = "body"] /\ asking' = asking
    BY <1>1, <1>2, EndKeeps, Zenon DEF InWait, Running
  <1>3. CASE /\ p = "mirror" /\ timers' = timers
             /\ pc' = [pc EXCEPT !["mirror"] = "wait"] /\ asking'.why = "time"
    BY <1>1, <1>3 DEF TInv, InWait, Running, Procs
  <1> QED  BY <1>2, <1>3 DEF manage_insr, sync_question, sync

\* The server answers during its wait.
LEMMA AnswerKeeps == ASSUME TInv, answer_question PROVE TInv'
  <1>1. InBody("server") /\ up' = up /\ pc' = pc /\ asking' = asking
    BY DEF answer_question
  <1> DEFINE t == timers["server"]
  <1>2. t \in Timers /\ Waiting(t) /\ t.left > 0
    BY <1>1 DEF TInv, InWait, InBody, Procs
  <1>3. PICK fraction \in {0, 1} :
           \/ timers' = timers
           \/ timers' = [timers EXCEPT !["server"] = postpone_insr(t, t.left - fraction)]
    BY Zenon DEF answer_question
  <1> DEFINE u == postpone_insr(t, t.left - fraction)
  <1>4. u \in Timers /\ Waiting(u)
    BY <1>2, PostponeWaits
  <1> HIDE DEF u
  <1>5. timers' = timers \/ timers' = [timers EXCEPT !["server"] = u]
    BY <1>3 DEF u
  <1> QED  BY <1>1, <1>4, <1>5 DEF TInv, InWait, InBody, Procs

\* The mirror reads the answer, or gives up.
LEMMA AnsweredKeeps == ASSUME TInv, after_full \/ after_aggr \/ after_time \/ timeout PROVE TInv'
  <1>1. CASE after_full
    BY <1>1 DEF TInv, InWait, after_full, Answered, Running, Procs
  <1>2. CASE after_aggr
    BY <1>2 DEF TInv, InWait, after_aggr, Answered, Running, Procs
  <1>3. CASE after_time
    <2>1. EndAlarm("mirror") /\ pc' = [pc EXCEPT !["mirror"] = "body"] /\ up' = up
      BY <1>3 DEF after_time, Answered
    <2>2. ~InWait("mirror") /\ up["mirror"] = "up"
      BY <1>3 DEF after_time, Answered, Running, InWait
    <2> QED  BY <2>1, <2>2, EndKeeps DEF Procs
  <1>4. CASE timeout
    BY <1>4 DEF TInv, InWait, timeout
  <1> QED  BY <1>1, <1>2, <1>3, <1>4

\* Processes stop and start, and time passes.
LEMMA OthersKeep ==
    ASSUME TInv, \/ \E m \in Metrics : report(m)
                 \/ \E p \in Procs : start(p) \/ release(p) \/ break(p)
                 \/ tick
    PROVE  TInv'
  <1>1. CASE \E m \in Metrics : report(m)
    BY <1>1, Zenon DEF TInv, InWait, report, sync
  <1>2. ASSUME NEW p \in Procs, start(p) PROVE TInv'
    BY <1>2, StartWaits DEF TInv, InWait, start, sync, Procs
  <1>3. ASSUME NEW p \in Procs, release(p) PROVE TInv'
    <2>1. /\ timers' = [timers EXCEPT ![p] = init_time_configuration]
          /\ pc' = [pc EXCEPT ![p] = "body"] /\ up' = [up EXCEPT ![p] = "down"]
      BY <1>3 DEF release
    <2>2. p = "mirror" \/ asking' = asking
      BY <1>3 DEF release, Procs
    <2> QED  BY <2>1, <2>2, StartWaits DEF TInv, InWait, Procs
  <1>4. ASSUME NEW p \in Procs, break(p) PROVE TInv'
    BY <1>4 DEF TInv, InWait, break, sync
  <1>5. CASE tick
    <2>1. /\ timers' = [p \in Procs |-> IF up[p] = "up" THEN Second(timers[p]) ELSE timers[p]]
          /\ up' = [p \in Procs |-> IF up[p] = "down" THEN "off" ELSE up[p]]
          /\ pc' = pc /\ asking' = asking
      BY <1>5 DEF tick, sync
    <2>2. \A p \in Procs : up[p] = "up" => pc[p] = "body" /\ timers[p].left > 0
      BY <1>5 DEF tick, InBody
    <2>3. \A p \in Procs : up[p] = "up" => Second(timers[p]) \in Timers /\ Waiting(Second(timers[p]))
      BY <2>2, SecondWaits DEF TInv, InWait
    <2>4. timers' \in [Procs -> Timers] /\ up' \in [Procs -> {"up", "down", "off"}]
      BY <2>1, <2>3 DEF TInv
    <2>5. \A p \in Procs : InWait(p)' => Waiting(timers[p])'
      BY <2>1, <2>3 DEF TInv, InWait
    <2>6. \A p \in Procs : ~InWait(p)' => Handled(timers[p])'
      BY <2>1, <2>2 DEF TInv, InWait
    <2> QED  BY <2>1, <2>4, <2>5, <2>6 DEF TInv
  <1> QED  BY <1>1, <1>2, <1>3, <1>4, <1>5

\* The timeouts of a process and its select agree, whatever the periods: no timeout
\* is carried past the 0 that manage_alarms tests for, and a synchronisation never
\* pushes the next insertion beyond its period, the offset and the rounding.
THEOREM SelectMeetsTimeouts == Spec => []TimersMeet
  <1>1. Init => TInv
    BY TInvInit
  <1>2. TInv /\ [Next]_vars => TInv'
    <2> SUFFICES ASSUME TInv, [Next]_vars PROVE TInv'
      OBVIOUS
    <2>1. CASE UNCHANGED vars
      BY <2>1 DEF TInv, InWait, vars, sync
    <2>2. CASE Next
      BY <2>2, ReceiveKeeps, AggrKeeps, InsrKeeps, AnswerKeeps, AnsweredKeeps, OthersKeep DEF Next
    <2> QED  BY <2>1, <2>2
  <1>3. TInv => TimersMeet
    BY DEF TInv, InWait, Waiting, TimersMeet
  <1> QED  BY <1>1, <1>2, <1>3, PTL DEF Spec
-----------------------------------------------------------------------------
(* The buffers.                                                             *)

BufferOK(c, a) == c \in [Types -> Seq(Metrics)] /\ a \in Seq(SUBSET Metrics) /\ Len(a) > 0
ServerOK(c, a) == (\A t \in Types : Len(c[t]) < Alloc[t]) /\ Len(a) - 1 < Alloc[Aggrs]

Buffers ==
    /\ DOMAIN chunk = Procs /\ DOMAIN aggrs = Procs
    /\ \A p \in Procs : BufferOK(chunk[p], aggrs[p])
    /\ ServerOK(chunk["server"], aggrs["server"])
SInv == TypeOf \in [Metrics -> Types] /\ wire \in [Procs -> Seq(Metrics)] /\ Buffers

\* One process changes its buffers.
LEMMA BuffersChange ==
    ASSUME Buffers, NEW p \in Procs, NEW c, NEW a, BufferOK(c, a),
           p = "server" => ServerOK(c, a),
           chunk' = [chunk EXCEPT ![p] = c], aggrs' = [aggrs EXCEPT ![p] = a]
    PROVE  Buffers'
  BY DEF Buffers, Procs

\* The buffers that an insertion resets have room, the others as before.
LEMMA EmptyFits ==
    ASSUME NEW c, NEW a, NEW x \in SUBSET Metrics, BufferOK(c, a), NEW option
    PROVE  /\ BufferOK(reset_chunks(c, option), <<x>>)
           /\ BufferOK(reset_chunks(c, option), a)
           /\ Len(<<x>>) - 1 < Alloc[Aggrs]
           /\ \A t \in Types : (t \notin option => Len(c[t]) < Alloc[t])
                              => Len(reset_chunks(c, option)[t]) < Alloc[t]
  <1>1. \A t \in Types \cup {Aggrs} : Alloc[t] \in Nat \ {0}
    BY EardbdAssumption DEF Aggrs
  <1>2. reset_chunks(c, option) \in [Types -> Seq(Metrics)]
    BY DEF BufferOK, reset_chunks
  <1>3. <<x>> \in Seq(SUBSET Metrics) /\ Len(<<x>>) = 1
    OBVIOUS
  <1>4. \A t \in Types : (t \notin option => Len(c[t]) < Alloc[t])
                         => Len(reset_chunks(c, option)[t]) < Alloc[t]
    BY <1>1 DEF reset_chunks
  <1> QED  BY <1>1, <1>2, <1>3, <1>4 DEF BufferOK

\* One aggregation is left, in the first position.
LEMMA ResetFits ==
    ASSUME NEW c, NEW a, BufferOK(c, a)
    PROVE  \E x \in SUBSET Metrics : reset_aggregations(a) = <<x>>
  <1>1. Last(a) \in SUBSET Metrics
    BY DEF BufferOK, Last
  <1> QED  BY <1>1 DEF reset_aggregations

\* An insertion leaves room in everything it names.
LEMMA InsertFits ==
    ASSUME Buffers, NEW p \in Procs, NEW c, NEW a, NEW option, BufferOK(c, a),
           insert_hub(p, c, a, option),
           p = "server" => /\ \A t \in Types \ option : Len(c[t]) < Alloc[t]
                           /\ Aggrs \in option \/ Len(a) - 1 < Alloc[Aggrs]
    PROVE  Buffers'
  <1> DEFINE b == IF Aggrs \in option /\ Len(a) > 1 THEN reset_aggregations(a) ELSE a
             d == reset_chunks(c, option)
  <1>1. chunk' = [chunk EXCEPT ![p] = d] /\ aggrs' = [aggrs EXCEPT ![p] = b]
    BY DEF insert_hub
  <1>2. PICK x \in SUBSET Metrics : reset_aggregations(a) = <<x>>
    BY ResetFits
  <1>3. BufferOK(d, <<x>>) /\ BufferOK(d, a) /\ Len(<<x>>) - 1 < Alloc[Aggrs]
    BY EmptyFits
  <1>4. BufferOK(d, b)
    BY <1>2, <1>3
  <1>5. ASSUME p = "server" PROVE ServerOK(d, b)
    <2>1. \A t \in Types : Len(d[t]) < Alloc[t]
      BY <1>5, EmptyFits, Zenon
    <2>2. Len(a) <= 1 => Len(a) - 1 < Alloc[Aggrs]
      BY EardbdAssumption DEF BufferOK, Aggrs
    <2>3. Len(b) - 1 < Alloc[Aggrs]
      <3>1. CASE Aggrs \in option /\ Len(a) > 1
        BY <3>1, <1>2, <1>3
      <3>2. CASE Aggrs \in option /\ ~(Len(a) > 1)
        BY <3>2, <2>2 DEF BufferOK
      <3>3. CASE Aggrs \notin option
        BY <3>3, <1>5
      <3> QED  BY <3>1, <3>2, <3>3
    <2> QED  BY <2>1, <2>3 DEF ServerOK
  <1> HIDE DEF b, d
  <1> QED  BY <1>1, <1>4, <1>5, BuffersChange, Zenon

\* A metric that arrives: the server inserts when it fills its buffer.
LEMMA ReceiveFits == ASSUME SInv, NEW p \in Procs, storage_sample_receive(p) PROVE SInv'
  <1> DEFINE m == Head(wire[p])
             t == TypeOf[m]
             c == [chunk[p] EXCEPT ![t] = Append(@, m)]
             a == IF t = Energy THEN Append(Front(aggrs[p]), Last(aggrs[p]) \cup {m})
                                ELSE aggrs[p]
  <1>1. wire[p] # <<>> /\ wire' = [wire EXCEPT ![p] = Tail(@)] /\ TypeOf' = TypeOf
    BY Zenon DEF storage_sample_receive
  <1>2. \/ UNCHANGED storage
        \/ Len(c[t]) < Alloc[t] /\ Keep(p, c, a)
        \/ p = "server" /\ insert_hub(p, c, a, {t})
        \/ p = "mirror" /\ Keep(p, c, a)
    BY Zenon DEF storage_sample_receive
  <1>3. m \in Metrics /\ t \in Types
    BY <1>1 DEF SInv
  <1>4. BufferOK(chunk[p], aggrs[p])
    BY DEF SInv, Buffers
  <1>5. c \in [Types -> Seq(Metrics)] /\ \A u \in Types : u # t => c[u] = chunk[p][u]
    BY <1>3, <1>4 DEF BufferOK
  <1>6. a \in Seq(SUBSET Metrics) /\ Len(a) = Len(aggrs[p])
    <2>1. Front(aggrs[p]) \in Seq(SUBSET Metrics) /\ Len(Front(aggrs[p])) = Len(aggrs[p]) - 1
      BY <1>4 DEF BufferOK, Front
    <2>2. Last(aggrs[p]) \cup {m} \in SUBSET Metrics
      BY <1>3, <1>4 DEF BufferOK, Last
    <2> DEFINE f == Front(aggrs[p])
               l == Last(aggrs[p]) \cup {m}
    <2> HIDE DEF f, l
    <2>3. Append(f, l) \in Seq(SUBSET Metrics) /\ Len(Append(f, l)) = Len(f) + 1
      BY <2>1, <2>2 DEF f, l
    <2> QED  BY <2>1, <2>3, <1>4 DEF f, l, BufferOK
  <1>7. BufferOK(c, a)
    BY <1>4, <1>5, <1>6 DEF BufferOK
  <1>8. p = "server" => /\ \A u \in Types \ {t} : Len(c[u]) < Alloc[u]
                        /\ Len(a) - 1 < Alloc[Aggrs]
    BY <1>5, <1>6 DEF SInv, Buffers, ServerOK
  <1> HIDE DEF c, a
  <1>9. Buffers'
    <2> USE DEF SInv
    <2>1. CASE UNCHANGED storage
      BY <2>1 DEF storage, Buffers
    <2>2. CASE Len(c[t]) < Alloc[t] /\ Keep(p, c, a)
      <3>1. p = "server" => ServerOK(c, a)
        BY <2>2, <1>8 DEF ServerOK
      <3> QED  BY <2>2, <3>1, <1>7, BuffersChange, Zenon DEF Keep
    <2>3. CASE p = "server" /\ insert_hub(p, c, a, {t})
      BY <2>3, <1>7, <1>8, InsertFits
    <2>4. CASE p = "mirror" /\ Keep(p, c, a)
      BY <2>4, <1>7, BuffersChange, Zenon DEF Keep
    <2> QED  BY <1>2, <2>1, <2>2, <2>3, <2>4
  <1>10. wire' \in [Procs -> Seq(Metrics)]
    BY <1>1 DEF SInv
  <1> QED  BY <1>1, <1>9, <1>10 DEF SInv

\* The alarms: a closed aggregation, and the periodic insertion.
LEMMA AlarmFits == ASSUME SInv, NEW p \in Procs, manage_aggr(p) \/ manage_insr(p) PROVE SInv'
  <1>1. BufferOK(chunk[p], aggrs[p]) /\ (p = "server" => ServerOK(chunk[p], aggrs[p]))
    BY DEF SInv, Buffers
  <1>2. CASE manage_aggr(p)
    <2> DEFINE over == time_substract_timeouts(timers[p]).aggr = 0
               a == IF over /\ Last(aggrs[p]) # {} THEN Append(aggrs[p], {}) ELSE aggrs[p]
    <2>1. \/ Len(a) - 1 < Alloc[Aggrs] /\ Keep(p, chunk[p], a)
          \/ p = "server" /\ insert_hub(p, chunk[p], a, {Aggrs})
          \/ p = "mirror" /\ Keep(p, chunk[p], a)
      BY <1>2, Zenon DEF manage_aggr
    <2>2. BufferOK(chunk[p], a)
      BY <1>1 DEF BufferOK
    <2>3. wire' = wire /\ TypeOf' = TypeOf
      BY <1>2 DEF manage_aggr, client
    <2> HIDE DEF a
    <2>4. CASE Len(a) - 1 < Alloc[Aggrs] /\ Keep(p, chunk[p], a)
      <3>1. p = "server" => ServerOK(chunk[p], a)
        BY <2>4, <1>1 DEF ServerOK
      <3> QED  BY <2>2, <2>3, <2>4, <3>1, BuffersChange, Zenon DEF Keep, SInv
    <2>5. CASE p = "server" /\ insert_hub(p, chunk[p], a, {Aggrs})
      BY <1>1, <2>2, <2>3, <2>5, InsertFits DEF SInv, ServerOK
    <2>6. CASE p = "mirror" /\ Keep(p, chunk[p], a)
      BY <2>2, <2>3, <2>6, BuffersChange, Zenon DEF Keep, SInv
    <2> QED  BY <2>1, <2>4, <2>5, <2>6
  <1>3. CASE manage_insr(p)
    <2>1. UNCHANGED storage \/ insert_hub(p, chunk[p], aggrs[p], SYNC_ALL)
      BY <1>3, Zenon DEF manage_insr
    <2>2. wire' = wire /\ TypeOf' = TypeOf
      BY <1>3 DEF manage_insr, client
    <2>3. CASE UNCHANGED storage
      BY <2>2, <2>3 DEF storage, SInv, Buffers
    <2>4. CASE insert_hub(p, chunk[p], aggrs[p], SYNC_ALL)
      BY <1>1, <2>2, <2>4, InsertFits DEF SInv, ServerOK
    <2> QED  BY <2>1, <2>3, <2>4
  <1> QED  BY <1>2, <1>3

\* The synchronisation, in both processes.
LEMMA SyncFits ==
    ASSUME SInv, answer_question \/ after_full \/ after_aggr \/ after_time \/ timeout
    PROVE  SInv'
  <1>1. wire' = wire /\ TypeOf' = TypeOf
    BY DEF answer_question, after_full, after_aggr, after_time, timeout, Answered, client
  <1>2. \/ UNCHANGED storage \/ reset_all("mirror")
        \/ \E p \in Procs, option \in {Head(questions).option, asking.option, SYNC_ALL} :
              insert_hub(p, chunk[p], aggrs[p], option)
    BY DEF answer_question, after_full, after_aggr, after_time, timeout, Insert, Procs
  <1>3. \A p \in Procs : BufferOK(chunk[p], aggrs[p])
    BY DEF SInv, Buffers
  <1>4. CASE UNCHANGED storage
    BY <1>1, <1>4 DEF storage, SInv, Buffers
  <1>5. CASE reset_all("mirror")
    <2>1. PICK x \in SUBSET Metrics : reset_aggregations(aggrs["mirror"]) = <<x>>
      BY <1>3, ResetFits DEF Procs
    <2>2. BufferOK(reset_chunks(chunk["mirror"], Types), <<x>>)
      BY <1>3, EmptyFits DEF Procs
    <2>3. /\ chunk' = [chunk EXCEPT !["mirror"] = reset_chunks(chunk["mirror"], Types)]
          /\ aggrs' = [aggrs EXCEPT !["mirror"] = <<x>>]
      BY <1>5, <2>1 DEF reset_all
    <2> QED  BY <1>1, <2>2, <2>3, BuffersChange, Zenon DEF SInv, Procs
  <1>6. ASSUME NEW p \in Procs, NEW option, insert_hub(p, chunk[p], aggrs[p], option)
        PROVE  SInv'
    BY <1>1, <1>3, <1>6, InsertFits DEF SInv, Buffers, ServerOK
  <1> QED  BY <1>2, <1>4, <1>5, <1>6

\* The node, the processes and time.
LEMMA OthersFit ==
    ASSUME SInv, \/ \E m \in Metrics : report(m)
                 \/ \E p \in Procs : start(p) \/ release(p) \/ break(p)
                 \/ tick
    PROVE  SInv'
  <1>1. ASSUME NEW m \in Metrics, report(m) PROVE SInv'
    <2>1. UNCHANGED storage /\ TypeOf' = TypeOf
      BY <1>1, Zenon DEF report
    <2>2. wire' = wire \/ \E l : wire' = [p \in Procs |-> IF l[p] = "open" THEN Append(wire[p], m)
                                                                          ELSE wire[p]]
      BY <1>1, Zenon DEF report, static_send
    <2>3. wire' \in [Procs -> Seq(Metrics)]
      <3>1. \A p \in Procs : wire[p] \in Seq(Metrics) /\ Append(wire[p], m) \in Seq(Metrics)
        BY DEF SInv
      <3>2. wire' = wire \/ wire' \in [Procs -> Seq(Metrics)]
        BY <2>2, <3>1, Zenon
      <3> QED  BY <3>2 DEF SInv
    <2> QED  BY <2>1, <2>3 DEF SInv, Buffers, storage
  <1>2. ASSUME NEW p \in Procs, start(p) PROVE SInv'
    BY <1>2 DEF start, storage, client, SInv, Buffers
  <1>3. ASSUME NEW p \in Procs, release(p) PROVE SInv'
    <2> DEFINE c == reset_chunks(chunk[p], Types)
    <2>1. /\ chunk' = [chunk EXCEPT ![p] = c] /\ aggrs' = [aggrs EXCEPT ![p] = <<{}>>]
          /\ wire' = [wire EXCEPT ![p] = <<>>] /\ TypeOf' = TypeOf
      BY <1>3 DEF release
    <2>2. BufferOK(chunk[p], aggrs[p])
      BY DEF SInv, Buffers
    <2>3. /\ BufferOK(c, <<{}>>) /\ Len(<<{}>>) - 1 < Alloc[Aggrs]
          /\ \A t \in Types : Len(c[t]) < Alloc[t]
      BY <2>2, EmptyFits
    <2> HIDE DEF c
    <2>4. Buffers'
      BY <2>1, <2>3, BuffersChange, Zenon DEF SInv, ServerOK
    <2> QED  BY <2>1, <2>4 DEF SInv
  <1>4. ASSUME NEW p \in Procs, break(p) PROVE SInv'
    BY <1>4 DEF break, storage, SInv, Buffers
  <1>5. CASE tick
    BY <1>5 DEF tick, storage, SInv, Buffers
  <1> QED  BY <1>1, <1>2, <1>3, <1>4, <1>5

\* The buffers are empty at the start.
LEMMA SInvInit == Init => SInv
  <1> SUFFICES ASSUME Init PROVE SInv
    OBVIOUS
  <1>1. TypeOf \in [Metrics -> Types] /\ wire \in [Procs -> Seq(Metrics)]
    BY EardbdAssumption DEF Init
  <1>2. /\ chunk = [p \in Procs |-> [t \in Types |-> <<>>]]
        /\ aggrs = [p \in Procs |-> <<{}>>]
    BY DEF Init
  <1>3. \A t \in Types \cup {Aggrs} : Alloc[t] \in Nat \ {0}
    BY EardbdAssumption DEF Aggrs
  <1> QED  BY <1>1, <1>2, <1>3 DEF SInv, Buffers, BufferOK, ServerOK, Procs

\* Whatever the sizes of the buffers and the order of samples, alarms, questions and
\* failures, the server never stores a sample or begins an aggregation outside its
\* allocation: every path of storage_sample_add, manage_alarms and insert_hub that
\* fills a buffer empties it.
THEOREM ServerStaysInside == Spec => []ServerFits
  <1>1. SInv /\ [Next]_vars => SInv'
    <2> SUFFICES ASSUME SInv, [Next]_vars PROVE SInv'
      OBVIOUS
    <2>1. CASE UNCHANGED vars
      BY <2>1 DEF SInv, Buffers, vars, storage, client
    <2>2. CASE Next
      BY <2>2, ReceiveFits, AlarmFits, SyncFits, OthersFit DEF Next
    <2> QED  BY <2>1, <2>2
  <1>2. SInv => ServerFits
    <2> SUFFICES ASSUME SInv, NEW t \in Types \cup {Aggrs} PROVE ~Full("server", t)
      BY DEF ServerFits
    <2>1. Alloc[t] \in Nat
      BY EardbdAssumption DEF Aggrs
    <2> QED  BY <2>1 DEF SInv, Buffers, BufferOK, ServerOK, Full, Procs
  <1> QED  BY SInvInit, <1>1, <1>2, PTL DEF Spec
=============================================================================
