--------------------------- MODULE MCNodePowercap ---------------------------
(* A node of 3 W, with uints modulo 5 and bytes modulo 4 so that both wrap. *)
EXTENDS NodePowercap

MCExtras == {-2, 1}

Domain(ok, requested, exceed) == [ok |-> ok, requested |-> requested, exceed |-> exceed]
MCDomains == {Domain("OK", 0, 0), Domain("GREEDY", 3, 0),
              Domain("RELEASE", 0, 1), Domain("ASK_DEF", 0, 0)}

Message(mode, level, action, total) ==
    [mode |-> mode, level |-> level, action |-> action, total |-> total]
MCMessages == {Message("manual", "none", "none", 0),
               Message("manual", "none", "deactivate", 0),
               Message("none", "domain", "set", 4),
               Message("none", "node", "set", 2)}
=============================================================================
