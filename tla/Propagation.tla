---------------------------- MODULE Propagation -----------------------------
(***************************************************************************)
(* How a request travels to the daemons of a range of nodes                *)
(* (common/messaging/msg_internals.c, daemon/remote_api/eard_server_api.c  *)
(* and dynamic_configuration.c).  A program sends a request to the first   *)
(* nodes; each sends it on to others, by its place in the range or by the  *)
(* list of nodes that comes with the request.  Whoever cannot deliver to a *)
(* node delivers, in its place, to the nodes it would have sent it to.  A  *)
(* node has one thread for requests: it accepts connections at any time    *)
(* but reads a request only when it is done with the previous one, so its  *)
(* answer may come after the sender has given up.  A node drops a request  *)
(* that it has in its history of requests.                                 *)
(***************************************************************************)
EXTENDS Integers, Sequences, FiniteSets, SequencesExt

CONSTANTS N,               \* at most N nodes in the range
          NUM_PROPS, MAX_PROP_DEPTH, MAX_HISTORIC_COMM,
          MaxRequests, Scripts, \* ranges, and the requests a program may send there
          MaxEvents        \* requests of a program and faults, together

Nodes == 0 .. N - 1
Caller == N
Procs == 0 .. N
\* Requests: commands (a setting; on a list of nodes, also a job that starts or ends
\* there); the power of the nodes; their status.
Kinds == {"set", "power", "status"}
Lists == UNION {[1 .. k -> Nodes] : k \in 0 .. N}

ASSUME PropagationAssumption ==
    /\ {N, NUM_PROPS, MAX_PROP_DEPTH, MAX_HISTORIC_COMM} \subseteq Nat \ {0} /\ NUM_PROPS > 1
    /\ \A s \in Scripts : /\ s.requests \in Seq([kind : Kinds, list : Lists, time : Nat])
                           /\ Len(s.requests) <= MaxRequests /\ s.total_ips \in 1 .. N
    /\ {MaxRequests, MaxEvents} \subseteq Nat

VARIABLES total_ips,
          script, issued, \* the requests of the program, and how many it has sent
          alive,
          conn,     \* the connections: who to whom, request, what was answered
          work,     \* what each thread is doing
          history,  \* list_last_commands of each node
          ran,      \* the requests each node has processed
          result,   \* the data of the last call, as it was put together
          excused,  \* nodes a fault keeps from a request
          faults

nodes == <<history, ran>>
vars == <<total_ips, script, issued, alive, conn, work, nodes, result, excused, faults>>

Kind(r) == script[r].kind
IsData(r) == Kind(r) \in {"power", "status"}
ByList(r) == script[r].list # <<>>
Fault == Len(script) + faults < MaxEvents /\ faults' = faults + 1
-----------------------------------------------------------------------------
(* Who sends to whom.  A target is a list of nodes: the node to connect to, *)
(* and the others that it has to reach.                                     *)

\* The next nodes, by place in the range.
next_ips(total, n) ==
    LET current_dist == n - (n % NUM_PROPS)
        off_ip == n % NUM_PROPS
    IN  SelectSeq([i \in 1 .. NUM_PROPS |-> current_dist * NUM_PROPS + i * NUM_PROPS + off_ip],
                  LAMBDA idx : idx < total)

\* Parts of base_distance nodes of a list, sends of them at most.
Parts(list, base_distance, sends) ==
    LET parts == {i \in 0 .. sends - 1 : base_distance * i < Len(list)}
    IN  [k \in 1 .. Cardinality(parts) |->
            SubSeq(list, base_distance * (k - 1) + 1,
                   IF base_distance * k < Len(list) THEN base_distance * k ELSE Len(list))]

\* A node takes itself off the list: the last one takes its place.
WithoutFirst(list) == IF Len(list) = 1 THEN <<>> ELSE <<Last(list)>> \o SubSeq(list, 2, Len(list) - 1)

\* The targets that follow a target, for its own node or for who stands in for it.
Onward(r, target) ==
    IF ByList(r)
    THEN LET rest == WithoutFirst(target)
         IN  Parts(rest, Len(rest) \div NUM_PROPS + 1, NUM_PROPS)
    ELSE LET ips == next_ips(total_ips, Head(target)) IN [i \in DOMAIN ips |-> <<ips[i]>>]

\* powl(num_props, max_depth), divided until it fits.
get_max_prop_group(num_nodes) ==
    LET fits == {d \in 0 .. MAX_PROP_DEPTH : NUM_PROPS ^ d <= num_nodes \div NUM_PROPS}
        max_nodes == NUM_PROPS ^ (CHOOSE d \in fits : \A e \in fits : e <= d)
    IN  IF num_nodes < NUM_PROPS THEN 1
        ELSE IF max_nodes > NUM_PROPS THEN max_nodes ELSE NUM_PROPS

First(r) ==
    LET list == script[r].list
        base_distance == get_max_prop_group(Len(list))
    IN  IF ByList(r) THEN Parts(list, base_distance, Len(list))
        ELSE [i \in 1 .. (IF total_ips < NUM_PROPS THEN total_ips ELSE NUM_PROPS) |-> <<i - 1>>]

\* All the nodes a target stands for.
Below[total \in 1 .. N, n \in Nodes] ==
    {n} \cup UNION {Below[total, c] : c \in Range(next_ips(total, n))}
Covers(r, target) == IF ByList(r) THEN Range(target) ELSE Below[total_ips, Head(target)]
-----------------------------------------------------------------------------
(* Sending.  A thread has one connection at a time, but for data_all_nodes, *)
(* which opens the first ones and then reads what they answer.              *)

Idle == [req |-> 0, target |-> <<>>, whom |-> Caller, fan |-> FALSE,
         todo |-> <<>>, out |-> <<>>, open |-> <<>>, failed |-> <<>>, got |-> <<>>]

Link(p, target) ==
    CHOOSE c \in conn : c.live /\ c.from = p /\ c.to = Head(target) /\ c.req = work[p].req

\* A target that failed: others in its place, at once or (data_all_nodes) at the end.
\* A slip: the node is given up, with all those behind it.
SlipNoCorrection(w, target) == w
correct_error(w, target) ==
    IF w.fan THEN [w EXCEPT !.failed = Append(@, target)]
             ELSE [w EXCEPT !.todo = Onward(w.req, target) \o @]

issue ==
    LET r == issued + 1
    IN  /\ work[Caller].req = 0 /\ issued < Len(script)
        /\ issued' = r
        /\ work' = [work EXCEPT ![Caller] = [Idle EXCEPT !.req = r, !.todo = First(r),
                                                        !.fan = IsData(r) /\ ~ByList(r)]]
        /\ UNCHANGED <<total_ips, script, alive, conn, nodes, result, excused, faults>>

remote_connect(p) ==
    LET w == work[p]
        t == Head(w.todo)
        n == Head(t)
        rest == [w EXCEPT !.todo = Tail(@)]
    IN  /\ w.req # 0 /\ w.out = <<>> /\ w.todo # <<>>
        /\ \/ /\ alive[n]
              /\ conn' = conn \cup {[from |-> p, to |-> n, req |-> w.req, target |-> t,
                                       st |-> "sent", live |-> TRUE, data |-> <<>>]}
              /\ work' = [work EXCEPT ![p] = [rest EXCEPT !.out = t]]
              /\ UNCHANGED <<excused, faults>>
           \/ /\ ~alive[n]
              /\ work' = [work EXCEPT ![p] = correct_error(rest, t)]
              /\ UNCHANGED <<conn, excused, faults>>
           \/ /\ alive[n] /\ Fault
              /\ work' = [work EXCEPT ![p] = correct_error(rest, t)]
              /\ excused' = excused \cup {<<w.req, n>>}
              /\ UNCHANGED conn
        /\ UNCHANGED <<total_ips, script, issued, alive, nodes, result>>

\* The sender of a command needs the ack; of a question, the data.
\* A slip: it does not wait for the ack.
SlipNoAck(p) ==
    LET w == work[p]
        c == Link(p, w.out)
    IN  /\ w.out # <<>> /\ ~IsData(w.req)
        /\ work' = [work EXCEPT ![p] = [w EXCEPT !.out = <<>>]]
        /\ conn' = (conn \ {c}) \cup (IF c.st = "sent" THEN {[c EXCEPT !.live = FALSE]} ELSE {})
        /\ UNCHANGED <<total_ips, script, issued, alive, nodes, result, excused, faults>>
send_command(p) ==
    LET w == work[p]
        c == Link(p, w.out)
        next == [w EXCEPT !.out = <<>>]
    IN  /\ w.out # <<>> /\ c.st # "sent"
        /\ \/ /\ c.st = "acked" /\ ~IsData(w.req)
              /\ work' = [work EXCEPT ![p] = next] /\ conn' = conn \ {c}
           \/ /\ c.st \in {"acked", "data"} /\ w.fan
              /\ work' = [work EXCEPT ![p] = [next EXCEPT !.open = Append(@, w.out)]]
              /\ UNCHANGED conn
           \/ /\ c.st = "data" /\ ~w.fan
              /\ work' = [work EXCEPT ![p] = [next EXCEPT !.got = @ \o c.data]]
              /\ conn' = conn \ {c}
           \/ /\ c.st \in {"ignored", "broken"}
              /\ work' = [work EXCEPT ![p] = correct_error(next, w.out)]
              /\ conn' = conn \ {c}
        /\ UNCHANGED <<total_ips, script, issued, alive, nodes, result, excused, faults>>

\* data_all_nodes: every first node has been asked.
receive_data ==
    LET w == work[Caller]
        c == Link(Caller, Head(w.open))
        next == [w EXCEPT !.open = Tail(@)]
    IN  /\ w.fan /\ w.out = <<>> /\ w.todo = <<>> /\ w.open # <<>>
        /\ \/ /\ c.st = "data"
              /\ work' = [work EXCEPT ![Caller] = [next EXCEPT !.got = @ \o c.data]]
           \/ /\ c.st = "broken"
              /\ work' = [work EXCEPT ![Caller] = correct_error(next, Head(w.open))]
        /\ conn' = conn \ {c}
        /\ UNCHANGED <<total_ips, script, issued, alive, nodes, result, excused, faults>>

corrections ==
    LET w == work[Caller]
    IN  /\ w.fan /\ w.out = <<>> /\ w.todo = <<>> /\ w.open = <<>> /\ w.failed # <<>>
        /\ work' = [work EXCEPT ![Caller] =
                      [w EXCEPT !.fan = FALSE, !.failed = <<>>,
                                !.todo = FlattenSeq([i \in DOMAIN w.failed |->
                                                        Onward(w.req, w.failed[i])])]]
        /\ UNCHANGED <<total_ips, script, issued, alive, conn, nodes, result, excused, faults>>

\* The tries of _read are over: the sender closes the connection.  What the node has
\* not read yet it will still read.  Of the data of a node that is late nothing is
\* used; those behind it have the request in their history when they are asked again.
LateData(r, target) ==
    CASE Kind(r) = "power"  -> {r} \X Covers(r, target)
      [] Kind(r) = "status" -> {<<r, Head(target)>>}
      [] OTHER              -> {}

GiveUp(c) == (conn \ {c}) \cup (IF c.st = "sent" THEN {[c EXCEPT !.live = FALSE]} ELSE {})

give_up(p) ==
    LET w == work[p]
        reading == w.out = <<>>
        t == IF reading THEN Head(w.open) ELSE w.out
        next == IF reading THEN [w EXCEPT !.open = Tail(@)] ELSE [w EXCEPT !.out = <<>>]
    IN  /\ w.out # <<>> \/ (w.fan /\ w.todo = <<>> /\ w.open # <<>>)
        /\ Link(p, t).st = "sent" \/ (Link(p, t).st = "acked" /\ IsData(w.req))
        /\ Fault
        /\ conn' = GiveUp(Link(p, t))
        /\ work' = [work EXCEPT ![p] = correct_error(next, t)]
        /\ excused' = excused \cup LateData(w.req, t)
        /\ UNCHANGED <<total_ips, script, issued, alive, nodes, result>>
-----------------------------------------------------------------------------
(* Receiving: process_remote_requests.                                      *)

\* A request in the history is not new, unless its type is exempt (EAR_RC_NEW_JOB_LIST
\* and EAR_RC_END_JOB_LIST are not).  The comparison takes in the addresses of lists,
\* the same or not as the memory is reused.
\* A slip: every request is new.
SlipNoHistory(n, c) == {TRUE}
is_new_command(n, c) ==
    IF Kind(c.req) = "status" \/ <<script[c.req], c.target>> \notin Range(history[n])
    THEN {TRUE}
    ELSE IF ByList(c.req) THEN BOOLEAN
    ELSE {FALSE}

new_command_received(n, c) ==
    history' = [history EXCEPT ![n] =
        LET h == Append(@, <<script[c.req], c.target>>)
        IN  IF Len(h) > MAX_HISTORIC_COMM THEN Tail(h) ELSE h]

Answer(c, st) == (conn \ {c}) \cup (IF c.live THEN {[c EXCEPT !.st = st]} ELSE {})

\* The thread reads a request.  It answers before it processes (a new job is
\* answered after that, and before it is sent on).
process_remote_requests(n) ==
    /\ alive[n] /\ work[n].req = 0
    /\ \E c \in conn :
         /\ c.to = n /\ c.st = "sent"
         /\ \/ /\ TRUE \in is_new_command(n, c)
               /\ new_command_received(n, c)
               /\ conn' = Answer(c, "acked")
               /\ ran' = [ran EXCEPT ![n] = Append(@, c.req)]
               /\ work' = [work EXCEPT ![n] = [Idle EXCEPT !.req = c.req, !.target = c.target,
                                                  !.whom = c.from, !.todo = Onward(c.req, c.target)]]
            \/ /\ FALSE \in is_new_command(n, c)
               /\ conn' = Answer(c, "ignored")
               /\ UNCHANGED <<nodes, work>>
    /\ UNCHANGED <<total_ips, script, issued, alive, result, excused, faults>>

\* All sent: a node answers with the data of those behind it and its own.
Sent(w) == w.req # 0 /\ w.out = <<>> /\ w.todo = <<>> /\ w.open = <<>> /\ w.failed = <<>>

send_data(n) ==
    LET w == work[n]
        asked == {c \in conn : c.st = "acked" /\ c.from = w.whom /\ c.to = n /\ c.req = w.req}
    IN  /\ Sent(w)
        /\ work' = [work EXCEPT ![n] = Idle]
        /\ conn' = IF IsData(w.req)
                   THEN (conn \ asked) \cup {[c EXCEPT !.st = "data", !.data = w.got \o <<n>>] : c \in asked}
                   ELSE conn
        /\ UNCHANGED <<total_ips, script, issued, alive, nodes, result, excused, faults>>

return ==
    /\ Sent(work[Caller])
    /\ result' = work[Caller].got
    /\ work' = [work EXCEPT ![Caller] = Idle]
    /\ UNCHANGED <<total_ips, script, issued, alive, conn, nodes, excused, faults>>

\* A daemon dies: its connections break, and what it had accepted goes no further.
die(n) ==
    LET w == work[n]
        to == {c \in conn : c.to = n}
        from == {c \in conn : c.from = n}
    IN  /\ alive[n] /\ Fault
        /\ alive' = [alive EXCEPT ![n] = FALSE]
        /\ work' = [work EXCEPT ![n] = Idle]
        /\ conn' = (conn \ (to \cup from))
                   \cup {[c EXCEPT !.st = "broken"] : c \in {c \in to : c.live /\ c.st # "data"}}
                   \cup {c \in to : c.st = "data"}
                   \cup {[c EXCEPT !.live = FALSE] : c \in {c \in from : c.st = "sent"}}
        /\ excused' = IF w.req = 0 THEN excused ELSE excused \cup ({w.req} \X Covers(w.req, w.target))
        /\ UNCHANGED <<total_ips, script, issued, nodes, result>>
-----------------------------------------------------------------------------
Init ==
    /\ \E s \in Scripts : total_ips = s.total_ips /\ script = s.requests
    /\ issued = 0
    /\ alive = [n \in Nodes |-> TRUE]
    /\ conn = {} /\ work = [p \in Procs |-> Idle]
    /\ history = [n \in Nodes |-> <<>>] /\ ran = [n \in Nodes |-> <<>>]
    /\ result = <<>> /\ excused = {} /\ faults = 0

Steps ==
    \/ issue \/ receive_data \/ corrections \/ return
    \/ \E p \in Procs : remote_connect(p) \/ send_command(p)
    \/ \E n \in Nodes : process_remote_requests(n) \/ send_data(n)
Faults == (\E p \in Procs : give_up(p)) \/ (\E n \in Nodes : die(n))
Next == Steps \/ Faults

\* The threads go on; no fault is ever due.
Spec == Init /\ [][Next]_vars /\ WF_vars(Steps)
-----------------------------------------------------------------------------
\* The state keeps its types, and a thread has open only the connections of the request
\* it works on, one to each node.
TypeOK ==
    /\ issued \in 0 .. Len(script) /\ alive \in [Nodes -> BOOLEAN]
    /\ \A c \in conn : /\ c.from \in Procs /\ c.to \in Nodes /\ c.req \in 1 .. issued
                        /\ IF c.live THEN work[c.from].req = c.req ELSE c.st = "sent"
    /\ \A c, d \in conn : c.live /\ d.live /\ c.from = d.from /\ c.to = d.to => c = d
    /\ \A n \in Nodes : Range(ran[n]) \subseteq 1 .. issued
    /\ Range(result) \subseteq Nodes /\ excused \subseteq (1 .. issued) \X Nodes

\* A request sent twice in a second with the same contents is one request.
HasRun(n, r) == \E q \in Range(ran[n]) : script[q] = script[r]
Aim(r) == IF ByList(r) THEN Range(script[r].list) ELSE 0 .. total_ips - 1
Over(r) == (\A p \in Procs : work[p].req # r) /\ (\A c \in conn : c.req # r)

\* When nobody works on a request any more, every node that is alive has run it,
\* whichever nodes were down, late, or gave up on others on the way: except the
\* nodes nobody could connect to, and those behind a node that died after it had
\* accepted the request.
AllReached ==
    \A r \in 1 .. issued : Over(r) =>
        \A n \in Aim(r) : alive[n] /\ <<r, n>> \notin excused => HasRun(n, r)

\* The answer to a question has the data of every node that is alive, except those of
\* AllReached and those a late node keeps from it.
AnswerComplete ==
    LET r == issued
    IN  r > 0 /\ work[Caller].req = 0 /\ IsData(r) =>
            \A n \in Aim(r) : alive[n] /\ <<r, n>> \notin excused => n \in Range(result)

\* As long as nothing fails every node runs the requests in the order they were sent,
\* although the program sends one when the first nodes have acknowledged the last.
InOrder ==
    faults = 0 => \A n \in Nodes : \A i, j \in DOMAIN ran[n] : i < j => ran[n][i] <= ran[n][j]

\* The tree of daemons does what Broadcast says.
B == INSTANCE Broadcast WITH
        returned <- IF work[Caller].req = 0 THEN issued ELSE issued - 1,
        Once <- {r \in 1 .. Len(script) : Kind(r) \in {"set", "power"} /\ ~ByList(r)},
        answer <- [n \in Nodes |-> Cardinality({i \in DOMAIN result : result[i] = n})]

(* Propagation implements Broadcast: whatever nodes fail or are late, each   *)
(* call returns, what runs was asked for, a request by range runs at most    *)
(* once on a node, and answers come from nodes that ran it.                  *)
Promise == B!Spec
=============================================================================
