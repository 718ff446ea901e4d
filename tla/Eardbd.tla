------------------------------- MODULE Eardbd -------------------------------
(***************************************************************************)
(* The database cache (database_cache, report/eardbd.c).  A node sends     *)
(* every metric to two EARDBD processes, the server and its mirror.  Both  *)
(* buffer it.  The server inserts its buffers in the database when they    *)
(* are full and periodically.  The mirror, at those moments, asks the      *)
(* server to insert and then forgets what it holds; it inserts by itself   *)
(* when the server does not answer, or answers that it is not a veteran    *)
(* (it has not completed a period since it started).                       *)
(*                                                                         *)
(* A metric is a number; the type of metric decides its buffer.  Metrics   *)
(* travel on TCP connections, processes stop and start, connections break, *)
(* answers come too late and insertions fail.  A tick is a second; what a  *)
(* process does between two waits takes none.                              *)
(***************************************************************************)
EXTENDS EardbdTimers, Sequences, FiniteSets, SequencesExt

CONSTANTS MaxMetrics,         \* the node sends the metrics 1 .. MaxMetrics
          Types, TypesOf,     \* types of metric; the types the metrics may have
          Energy,             \* the type EDB_TYPE_ENERGY_REP
          Alloc,              \* type_alloc_len of each type
          ReconnectWait,      \* seconds between two reconnections of the node
          MaxStops, MaxFaults \* bounds on stops of a process, and on other faults

Metrics == 1 .. MaxMetrics

ASSUME EardbdAssumption ==
    /\ MaxMetrics \in Nat
    /\ TypesOf \subseteq [Metrics -> Types] /\ Energy \in Types
    /\ Alloc \in [Types \cup {"aggrs"} -> Nat \ {0}]
    /\ {ReconnectWait, MaxStops, MaxFaults} \subseteq Nat

Procs == {"server", "mirror"}
Aggrs == "aggrs"               \* the seventh type: made here, never received
SYNC_ALL == Types \cup {Aggrs} \* a sync option is the set of types it names

VARIABLES up,        \* "down": stopped in this tick; "off": stopped before; "up"
          pc,        \* where body() is: in it, in an alarm, waiting for an answer
          veteran,
          chunk,     \* the buffered metrics, per process and type
          aggrs,     \* the aggregations: closed ones, then the one in progress
          timers,
          asking,    \* the question the mirror waits on: why it was asked, and for what
          questions, \* questions the server has not read
          answer,    \* the answer on its way
          outside,   \* an index left its allocation: nothing is said from there on
          node,      \* state of the connections in the node (eardbd_api.c, report/eardbd.c)
          link, wire,\* the TCP connections, and what is on them
          next,      \* next metric to send
          TypeOf,    \* the type of each metric
          db,        \* the metrics inserted
          counted,   \* energy metrics the server received, and those in the
          dbaggr,    \* aggregations it inserted, since it started
          failed,    \* what insertions that failed have dropped
          doubled,   \* metrics both processes have held at the same time
          stops, faults  \* how often a process stopped, and other faults

storage == <<chunk, aggrs, db, dbaggr, failed>>
sync == <<asking, questions, answer>>
client == <<node, link, wire, next, TypeOf>>
ghosts == <<doubled, counted, stops>>
vars == <<up, pc, veteran, timers, storage, sync, outside, client, ghosts, faults>>

Fault == faults < MaxFaults /\ faults' = faults + 1
-----------------------------------------------------------------------------
(* Buffers and insertions: eardbd_storage.c.                                *)

Held(p) == UNION {Range(chunk[p][t]) : t \in Types}

\* samples_index of a type: an aggregation counts once it is closed.
Full(p, t) == IF t = Aggrs THEN Len(aggrs[p]) - 1 >= Alloc[t]
                 ELSE Len(chunk[p][t]) >= Alloc[t]

\* The aggregation in progress moves to the first position.
\* A slip: the aggregations are all dropped.
SlipDropCurrent(a) == <<{}>>
reset_aggregations(a) ==
    IF Len(a) - 1 < Alloc[Aggrs] /\ Last(a) # {} THEN <<Last(a)>> ELSE <<{}>>

\* A slip: the index is not reset.
SlipKeepIndex(c, option) == c
reset_chunks(c, option) == [t \in Types |-> IF t \in option THEN <<>> ELSE c[t]]

\* insert_hub on buffers c and aggregations a of process p.  An insertion that
\* fails is noted in the status, and the buffers are reset all the same.
insert_hub(p, c, a, option) ==
    LET rows == UNION {Range(c[t]) : t \in option \cap Types}
        closed == IF Aggrs \in option THEN UNION Range(Front(a)) ELSE {}
    IN  /\ chunk' = [chunk EXCEPT ![p] = reset_chunks(c, option)]
        /\ aggrs' = [aggrs EXCEPT ![p] = IF Aggrs \in option /\ Len(a) > 1
                                         THEN reset_aggregations(a) ELSE a]
        /\ dbaggr' = IF p = "server" THEN dbaggr \cup closed ELSE dbaggr
        /\ \/ db' = db \cup rows /\ UNCHANGED <<failed, faults>>
           \/ rows \cup closed # {} /\ Fault /\ failed' = failed \cup rows /\ UNCHANGED db

reset_all(p) ==
    /\ chunk' = [chunk EXCEPT ![p] = reset_chunks(@, Types)]
    /\ aggrs' = [aggrs EXCEPT ![p] = reset_aggregations(@)]
    /\ UNCHANGED <<db, dbaggr, failed, faults>>
-----------------------------------------------------------------------------
(* Receiving a metric: storage_sample_receive and storage_sample_add.       *)

Running(p) == ~outside /\ up[p] = "up"
InBody(p) == Running(p) /\ pc[p] = "body" /\ timers[p].left > 0

Keep(p, c, a) ==
    /\ chunk' = [chunk EXCEPT ![p] = c] /\ aggrs' = [aggrs EXCEPT ![p] = a]
    /\ UNCHANGED <<db, dbaggr, failed, faults>>

\* sync_question: connect, send, and wait.  Without a server the connection fails.
sync_question(why, option) ==
    /\ pc' = [pc EXCEPT !["mirror"] = "wait"]
    /\ asking' = [why |-> why, option |-> option]
    /\ IF up["server"] = "up"
       THEN /\ questions' = Append(questions, [option |-> option, live |-> TRUE,
                                               veteran |-> veteran["mirror"]])
            /\ answer' = "none"
       ELSE answer' = "fail" /\ UNCHANGED questions

storage_sample_receive(p) ==
    /\ InBody(p) /\ wire[p] # <<>>
    /\ LET m == Head(wire[p])
           t == TypeOf[m]
           c == [chunk[p] EXCEPT ![t] = Append(@, m)]
           a == IF t = Energy THEN Append(Front(aggrs[p]), Last(aggrs[p]) \cup {m})
                              ELSE aggrs[p]
       IN  \/ /\ Full(p, t)
              /\ outside' = TRUE
              /\ UNCHANGED <<storage, sync, pc, faults>>
           \/ /\ Len(c[t]) < Alloc[t]
              /\ Keep(p, c, a)
              /\ UNCHANGED <<sync, pc, outside>>
           \/ /\ p = "server" /\ Len(c[t]) = Alloc[t]
              /\ insert_hub(p, c, a, {t})
              /\ UNCHANGED <<sync, pc, outside>>
           \/ /\ p = "mirror" /\ Len(c[t]) = Alloc[t]
              /\ Keep(p, c, a)
              /\ sync_question("full", {t})
              /\ UNCHANGED outside
    /\ wire' = [wire EXCEPT ![p] = Tail(@)]
    /\ doubled' = IF veteran["mirror"] /\ pc'["mirror"] # "wait"
                  THEN doubled \cup (Held("server")' \cap Held("mirror")')
                  ELSE doubled
    /\ counted' = IF p = "server" /\ TypeOf[Head(wire[p])] = Energy
                  THEN counted \cup {Head(wire[p])} ELSE counted
    /\ UNCHANGED <<up, veteran, timers, node, link, next, TypeOf, stops>>
-----------------------------------------------------------------------------
(* The alarms: manage_alarms of eardbd_body.c.                              *)

\* The select has expired.  When the time of an aggregation is over it is
\* closed, and a new one begins, unless it has no samples.
manage_aggr(p) ==
    LET t == time_substract_timeouts(timers[p])
        over == t.aggr = 0
        a == IF over /\ Last(aggrs[p]) # {} THEN Append(aggrs[p], {}) ELSE aggrs[p]
    IN  /\ Running(p) /\ pc[p] = "body" /\ timers[p].left = 0
        /\ timers' = [timers EXCEPT ![p] = IF over THEN [t EXCEPT !.aggr = time_aggr] ELSE t]
        /\ \/ /\ Len(a) - 1 < Alloc[Aggrs]
              /\ Keep(p, chunk[p], a)
              /\ pc' = [pc EXCEPT ![p] = "insr"]
              /\ UNCHANGED sync
           \/ /\ p = "server" /\ Len(a) - 1 = Alloc[Aggrs]
              /\ insert_hub(p, chunk[p], a, {Aggrs})
              /\ pc' = [pc EXCEPT ![p] = "insr"]
              /\ UNCHANGED sync
           \/ /\ p = "mirror" /\ Len(a) - 1 = Alloc[Aggrs]
              /\ Keep(p, chunk[p], a)
              /\ sync_question("aggr", {Aggrs})
        /\ UNCHANGED <<up, veteran, outside, client, ghosts>>

\* The end of the alarm.  A slip: the timeout that expired is not set again.
SlipNotSet(p) ==
    /\ timers' = [timers EXCEPT ![p] = time_reset_timeout_slct(@)]
    /\ veteran' = [veteran EXCEPT ![p] = @ \/ timers[p].insr = 0]
EndAlarm(p) ==
    LET t == timers[p]
    IN  /\ timers' = [timers EXCEPT ![p] = time_reset_timeout_slct(
                          IF t.insr = 0 THEN [t EXCEPT !.insr = time_insr] ELSE t)]
        /\ veteran' = [veteran EXCEPT ![p] = @ \/ t.insr = 0]

manage_insr(p) ==
    /\ Running(p) /\ pc[p] = "insr"
    /\ \/ /\ timers[p].insr # 0
          /\ EndAlarm(p) /\ pc' = [pc EXCEPT ![p] = "body"]
          /\ UNCHANGED <<storage, faults, sync>>
       \/ /\ timers[p].insr = 0 /\ p = "server"
          /\ insert_hub(p, chunk[p], aggrs[p], SYNC_ALL)
          /\ EndAlarm(p) /\ pc' = [pc EXCEPT ![p] = "body"]
          /\ UNCHANGED sync
       \/ /\ timers[p].insr = 0 /\ p = "mirror"
          /\ sync_question("time", SYNC_ALL)
          /\ UNCHANGED <<storage, faults, timers, veteran>>
    /\ UNCHANGED <<up, outside, client, ghosts>>
-----------------------------------------------------------------------------
(* The synchronisation: the server answers, the mirror reads the answer.    *)

\* A slip: the server is a veteran before it answers.
SlipVeteranFirst(q) == answer' = IF q.live THEN "veteran" ELSE answer
sync_answer(q) ==
    answer' = IF ~q.live THEN answer ELSE IF veteran["server"] THEN "veteran" ELSE "novice"

\* A full synchronisation makes a veteran.  A slip: only the alarm does.
SlipStayNovice(q) == veteran["server"]
seasoned(q) == veteran["server"] \/ q.option = SYNC_ALL

answer_question ==
    /\ InBody("server") /\ questions # <<>>
    /\ LET q == Head(questions)
       IN  /\ IF veteran["server"] \/ ~q.veteran
              THEN insert_hub("server", chunk["server"], aggrs["server"], q.option)
              ELSE UNCHANGED <<storage, faults>>
           /\ sync_answer(q)
           /\ \E fraction \in {0, 1} :
                 timers' = IF q.option = SYNC_ALL
                           THEN [timers EXCEPT !["server"] = postpone_insr(@, @.left - fraction)]
                           ELSE timers
           /\ veteran' = [veteran EXCEPT !["server"] = seasoned(q)]
    /\ questions' = Tail(questions)
    /\ UNCHANGED <<up, pc, asking, outside, client, ghosts>>

\* What follows sync_question, in storage_sample_add and in manage_alarms.
Answered(why) == /\ Running("mirror") /\ pc["mirror"] = "wait"
                 /\ asking.why = why /\ answer # "none"
                 /\ answer' = "none"
                 /\ asking' = [why |-> "none", option |-> {}]
                 /\ UNCHANGED <<up, questions, client, ghosts>>
Insert(option) == insert_hub("mirror", chunk["mirror"], aggrs["mirror"], option)

\* The buffer was full: only a failure empties it.
after_full ==
    /\ Answered("full")
    /\ IF answer = "fail" THEN Insert(asking.option) ELSE UNCHANGED <<storage, faults>>
    /\ pc' = [pc EXCEPT !["mirror"] = "body"]
    /\ UNCHANGED <<veteran, timers, outside>>

\* The aggregations were full: the new one begins after them.
after_aggr ==
    /\ Answered("aggr")
    /\ IF answer = "fail" THEN Insert(asking.option) /\ UNCHANGED outside
                          ELSE outside' = TRUE /\ UNCHANGED <<storage, faults>>
    /\ pc' = [pc EXCEPT !["mirror"] = "insr"]
    /\ UNCHANGED <<veteran, timers>>

Novice == answer = "novice" /\ veteran["mirror"]
after_time ==
    /\ Answered("time")
    /\ IF answer = "fail" \/ Novice THEN Insert(SYNC_ALL) ELSE reset_all("mirror")
    /\ EndAlarm("mirror")
    /\ pc' = [pc EXCEPT !["mirror"] = "body"]
    /\ UNCHANGED outside
-----------------------------------------------------------------------------
(* The node: static_send, eardbd_reconnect and the report functions.        *)

\* state_global: one of the two is enough.
state_global(s) == \E p \in Procs : s[p]

\* A connection whose other end is gone takes one more message before it fails.
static_send(m, l, rec) ==
    LET s == [p \in Procs |-> l[p] # "closed"]
    IN  /\ node' = [connected |-> state_global(s), s |-> s, rec |-> rec]
        /\ link' = [p \in Procs |-> IF l[p] = "half" THEN "closed" ELSE l[p]]
        /\ wire' = [p \in Procs |-> IF l[p] = "open" THEN Append(wire[p], m) ELSE wire[p]]

report(m) ==
    LET s == [p \in Procs |-> node.s[p] \/ up[p] = "up"]
        l == [p \in Procs |-> IF node.s[p] THEN link[p]
                              ELSE IF up[p] = "up" THEN "open" ELSE "closed"]
    IN  /\ ~outside /\ next = m
        /\ next' = next + 1
        /\ \/ node.connected /\ static_send(m, link, node.rec)
           \/ /\ ~node.connected /\ node.rec < ReconnectWait
              /\ UNCHANGED <<node, link, wire>>
           \/ /\ ~node.connected /\ node.rec = ReconnectWait /\ ~state_global(s)
              /\ node' = [node EXCEPT !.s = s, !.rec = 0] /\ link' = l
              /\ UNCHANGED wire
           \/ /\ ~node.connected /\ node.rec = ReconnectWait /\ state_global(s)
              /\ static_send(m, l, 0)
        /\ UNCHANGED <<up, pc, veteran, timers, storage, sync, outside, TypeOf, ghosts, faults>>
-----------------------------------------------------------------------------
(* Processes, connections and time.                                         *)

start(p) ==
    /\ ~outside /\ up[p] = "off"
    /\ up' = [up EXCEPT ![p] = "up"]
    /\ timers' = [timers EXCEPT ![p] = init_time_configuration]
    /\ UNCHANGED <<pc, veteran, storage, sync, outside, client, ghosts, faults>>

\* A process stops, by a signal or a crash.  Neither inserts what is buffered.
release(p) ==
    /\ Running(p) /\ stops < MaxStops
    /\ stops' = stops + 1
    /\ up' = [up EXCEPT ![p] = "down"]
    /\ pc' = [pc EXCEPT ![p] = "body"]
    /\ veteran' = [veteran EXCEPT ![p] = FALSE]
    /\ chunk' = [chunk EXCEPT ![p] = reset_chunks(@, Types)]
    /\ aggrs' = [aggrs EXCEPT ![p] = <<{}>>]
    /\ link' = [link EXCEPT ![p] = IF @ = "open" THEN "half" ELSE @]
    /\ wire' = [wire EXCEPT ![p] = <<>>]
    /\ timers' = [timers EXCEPT ![p] = init_time_configuration]
    /\ IF p = "server"
       THEN /\ counted' = {} /\ dbaggr' = {}
            /\ questions' = <<>> /\ UNCHANGED asking
            /\ answer' = IF pc["mirror"] = "wait" /\ answer = "none" THEN "fail" ELSE answer
       ELSE /\ asking' = [why |-> "none", option |-> {}] /\ answer' = "none"
            /\ questions' = [i \in DOMAIN questions |-> [questions[i] EXCEPT !.live = FALSE]]
            /\ UNCHANGED <<counted, dbaggr>>
    /\ UNCHANGED <<db, failed, outside, node, next, TypeOf, doubled, faults>>

\* The network drops a connection, and what is on it.
break(p) ==
    /\ ~outside /\ link[p] = "open" /\ Fault
    /\ link' = [link EXCEPT ![p] = "half"]
    /\ wire' = [wire EXCEPT ![p] = <<>>]
    /\ UNCHANGED <<up, pc, veteran, timers, storage, sync, outside, node, next, TypeOf, ghosts>>

\* No answer in ten seconds: the question remains with the server.
timeout ==
    /\ Running("mirror") /\ pc["mirror"] = "wait" /\ answer = "none" /\ Fault
    /\ answer' = "fail"
    /\ questions' = [i \in DOMAIN questions |-> [questions[i] EXCEPT !.live = FALSE]]
    /\ UNCHANGED <<up, pc, veteran, timers, storage, asking, outside, client, ghosts>>

tick ==
    /\ ~outside /\ \E p \in Procs : up[p] # "off"
    /\ \A p \in Procs : up[p] = "up" => InBody(p) /\ wire[p] = <<>>
    /\ timers' = [p \in Procs |-> IF up[p] = "up" THEN Second(timers[p]) ELSE timers[p]]
    /\ up' = [p \in Procs |-> IF up[p] = "down" THEN "off" ELSE up[p]]
    /\ node' = [node EXCEPT !.rec = IF @ < ReconnectWait THEN @ + 1 ELSE @]
    /\ UNCHANGED <<pc, veteran, storage, sync, outside, link, wire, next, TypeOf, ghosts, faults>>
-----------------------------------------------------------------------------
Init ==
    /\ up = [p \in Procs |-> "off"] /\ pc = [p \in Procs |-> "body"]
    /\ veteran = [p \in Procs |-> FALSE]
    /\ chunk = [p \in Procs |-> [t \in Types |-> <<>>]]
    /\ aggrs = [p \in Procs |-> <<{}>>]
    /\ timers = [p \in Procs |-> init_time_configuration]
    /\ asking = [why |-> "none", option |-> {}] /\ questions = <<>> /\ answer = "none"
    /\ outside = FALSE
    /\ node = [connected |-> FALSE, s |-> [p \in Procs |-> FALSE], rec |-> ReconnectWait]
    /\ link = [p \in Procs |-> "closed"] /\ wire = [p \in Procs |-> <<>>]
    /\ next = 1 /\ TypeOf \in TypesOf
    /\ db = {} /\ dbaggr = {} /\ counted = {} /\ failed = {} /\ doubled = {}
    /\ stops = 0 /\ faults = 0

Next ==
    \/ \E p \in Procs : storage_sample_receive(p) \/ manage_aggr(p) \/ manage_insr(p)
    \/ answer_question \/ after_full \/ after_aggr \/ after_time
    \/ \E m \in Metrics : report(m)
    \/ \E p \in Procs : start(p) \/ release(p) \/ break(p)
    \/ timeout \/ tick

\* The loops of the processes go on, and so does time.
Progress ==
    \/ \E p \in Procs : storage_sample_receive(p) \/ manage_aggr(p) \/ manage_insr(p)
    \/ answer_question \/ after_full \/ after_aggr \/ after_time
    \/ tick

Spec == Init /\ [][Next]_vars /\ WF_vars(Progress)
-----------------------------------------------------------------------------
\* The fields keep their types; in particular no timeout becomes negative.
TypeOK ==
    /\ up \in [Procs -> {"up", "down", "off"}] /\ pc \in [Procs -> {"body", "insr", "wait"}]
    /\ veteran \in [Procs -> BOOLEAN]
    /\ chunk \in [Procs -> [Types -> Seq(Metrics)]]
    /\ aggrs \in [Procs -> Seq(SUBSET Metrics)]
    /\ timers \in [Procs -> [insr : Nat, aggr : Nat, slct : Nat, left : Nat]]
    /\ answer \in {"none", "fail", "veteran", "novice"}
    /\ link \in [Procs -> {"open", "half", "closed"}] /\ wire \in [Procs -> Seq(Metrics)]
    /\ node \in [connected : BOOLEAN, s : [Procs -> BOOLEAN], rec : 0 .. ReconnectWait]
    /\ db \subseteq Metrics /\ failed \subseteq Metrics

\* A metric that both processes have held, the mirror being a veteran and not in the
\* middle of a question, is not lost by one stop of one of them, whenever it happens
\* and whatever else fails: it is in the database, in an insertion that failed, or
\* still held.  This is what the veteran flags of question and answer are for.
NeverLost ==
    \A m \in doubled : stops > 1 \/ m \in db \cup failed \cup Held("server") \cup Held("mirror")

\* Between two steps no index of the server is at the end of its allocation:
\* storage_sample_add writes before it looks.
ServerFits ==
    \A t \in Types \cup {Aggrs} : Running("server") => ~Full("server", t)

\* Every energy metric the server received is counted in exactly one of its
\* aggregations, inserted or not (reset_aggregations, add_periodic_aggregation).
CountedOnce ==
    LET a == aggrs["server"]
    IN  /\ counted = dbaggr \cup UNION Range(a)
        /\ \A i, j \in DOMAIN a : a[i] \cap dbaggr = {} /\ (i # j => a[i] \cap a[j] = {})

\* The timeouts and the select agree: neither timeout is shorter than the wait, so
\* none is ever carried past the 0 that manage_alarms tests for, the wait is never
\* empty, and the next insertion is never further away than one period and the
\* offset of a synchronisation (and the second that rounding may add).
TimersMeet ==
    \A p \in Procs : up[p] = "up" /\ pc[p] = "body" =>
        LET t == timers[p]
        IN  /\ t.left <= t.slct /\ 0 < t.slct /\ t.slct <= t.insr /\ t.slct <= t.aggr
            /\ t.insr - (t.slct - t.left) <= time_insr + SyncOffset + 1

\* What the server holds it does not hold forever, even when the mirror keeps
\* postponing its insertions.
HeldNotForever ==
    \A m \in Metrics : m \in Held("server") ~> (m \notin Held("server") \/ outside)
=============================================================================
