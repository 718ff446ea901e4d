--------------------------- MODULE MCPropagation ----------------------------
(***************************************************************************)
(* A program sends two settings to four nodes (0 sends on to 2, 1 to 3),   *)
(* different or the same twice in a second, and one node fails or is late; *)
(* or one request and two such faults: a setting to four nodes or their    *)
(* status, the power of seven (0 to 2 and 4, 1 to 3 and 5, 2 to 6), or a   *)
(* command to a list of three or four.                                     *)
(***************************************************************************)
EXTENDS Propagation

Req(kind, list, time) == [kind |-> kind, list |-> list, time |-> time]
To(n, requests) == [total_ips |-> n, requests |-> requests]

MCScripts ==
    {To(4, <<Req("set", <<>>, 1), Req("set", <<>>, t)>>) : t \in 1 .. 2}
    \cup {To(4, <<Req(kind, <<>>, 1)>>) : kind \in {"set", "status"}}
    \cup {To(7, <<Req("power", <<>>, 1)>>), To(7, <<Req("set", <<4, 2, 0, 1>>, 1)>>),
          To(7, <<Req("set", <<4, 2, 0>>, 1)>>)}
=============================================================================
