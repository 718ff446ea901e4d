----------------------------- MODULE Broadcast ------------------------------
(***************************************************************************)
(* What the propagation of requests promises to the program that sends     *)
(* them (send_command_all, data_all_nodes and their list forms), without   *)
(* the tree of daemons that does it.  The program issues its requests one  *)
(* after the other.  Each call returns.  A node runs a request only after  *)
(* it was issued, and a request of Once at most once; the answer of a call *)
(* holds the data of nodes that ran the request, each once.                *)
(***************************************************************************)
EXTENDS Integers, Sequences

CONSTANTS Nodes, MaxRequests

VARIABLES issued,    \* requests issued
          returned,  \* calls that have returned
          Once,      \* the requests no node may run twice
          ran,       \* the requests each node has run, in order
          answer     \* how often each node is in the answer to the last call

vars == <<issued, returned, Once, ran, answer>>

Requests == 1 .. MaxRequests
HasRun(n, r) == \E i \in DOMAIN ran[n] : ran[n][i] = r

Issue ==
    /\ issued = returned /\ issued < MaxRequests
    /\ issued' = issued + 1
    /\ UNCHANGED <<returned, Once, ran, answer>>

Run(n, r) ==
    /\ r <= issued
    /\ r \in Once => ~HasRun(n, r)
    /\ ran' = [ran EXCEPT ![n] = Append(@, r)]
    /\ UNCHANGED <<issued, returned, Once, answer>>

Return ==
    /\ returned < issued
    /\ returned' = returned + 1
    /\ \E from \in SUBSET {n \in Nodes : HasRun(n, issued)} :
          answer' = [n \in Nodes |-> IF n \in from THEN 1 ELSE 0]
    /\ UNCHANGED <<issued, Once, ran>>

Init ==
    /\ issued = 0 /\ returned = 0 /\ Once \in SUBSET Requests
    /\ ran = [n \in Nodes |-> <<>>] /\ answer = [n \in Nodes |-> 0]

Next == Issue \/ Return \/ \E n \in Nodes, r \in Requests : Run(n, r)

Spec == Init /\ [][Next]_vars /\ WF_vars(Return)
=============================================================================
