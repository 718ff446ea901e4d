---------------------------- MODULE PowercapOps ----------------------------
(***************************************************************************)
(* The power cap of one node as EARD keeps it (daemon/powercap/powercap.c, *)
(* my_pc_opt and the globals around it), as operators on a record.  They   *)
(* are used by the single-node specification NodePowercap and by the       *)
(* cluster specification ClusterPowercap.                                  *)
(*                                                                         *)
(*   conf      power cap of the node in ear.conf (0 off, 1 unlimited)      *)
(*   max       max_powercap of the node in ear.conf                        *)
(*   def       my_pc_opt.def_powercap                                      *)
(*   cur       my_pc_opt.current_pc                                        *)
(*   last      my_pc_opt.last_t1_allocated, what the node reports to hold  *)
(*   released, status   the fields of that name (requested is only logged) *)
(*   perc      last_cluster_perc                                           *)
(*   mode      current_mode                                                *)
(*   limit     pmgt_limit, the limit the power domains were last given     *)
(*   domains   what the plugins of the domains enforce together            *)
(***************************************************************************)
EXTENDS Integers

CONSTANTS UintSize,   \* uint arithmetic is modulo UintSize (2^32 in the code)
          ByteSize    \* the same for the uint8_t fields (2^8)

ASSUME UintSizeAssumption == UintSize \in Nat /\ UintSize > 1
ASSUME ByteSizeAssumption == ByteSize \in Nat /\ ByteSize > 1

Uint == 0 .. UintSize - 1
Byte == 0 .. ByteSize - 1
PC_STATUS == {"OK", "GREEDY", "RELEASE", "ASK_DEF", "IDLE", "ERROR"}
POWER_CAP_UNLIMITED == 1
EARD_POWERCAP_IDLE_PERC == 1
MAX_PERC_POWER == 90

Node == [conf : Uint, max : Uint, def : Uint, cur : Uint, last : Uint,
         released : Uint, status : PC_STATUS, perc : Nat,
         mode : {"AUTO", "MANUAL"}, limit : Uint, domains : Uint]

ear_min(a, b) == IF a < b THEN a ELSE b
ear_max(a, b) == IF a > b THEN a ELSE b

is_powercap_on(n) == n.status # "ERROR" /\ n.cur # 0
is_powercap_unlimited(n) == n.conf = POWER_CAP_UNLIMITED
powercap_idle(n) == ear_max(n.conf * EARD_POWERCAP_IDLE_PERC, 1)
get_powercap_allocated(n) == n.last
-----------------------------------------------------------------------------
(* Power management of the domains (powercap_mgt.c).                        *)

\* The limit is spread over the domains, whose shares add up to the node's.
pmgt_set_powercap_value(n, limit) ==
    IF n.mode = "MANUAL" THEN n
    ELSE [n EXCEPT !.limit = limit, !.domains = limit]

reallocate_power_between_domains(n) ==
    IF n.limit = POWER_CAP_UNLIMITED \/ n.mode = "MANUAL" THEN n
    ELSE [n EXCEPT !.domains = n.limit]

DomainStatus == [ok : {"OK", "GREEDY", "RELEASE", "ASK_DEF"},
                 requested : Byte, exceed : Uint]

\* The node's status out of that of its CPU and GPU domains.
pmgt_get_status(n, cpu, gpu) ==
    LET oks == {cpu.ok, gpu.ok}
        answer(s, req, tbr) == [status |-> s, requested |-> req, tbr |-> tbr]
    IN  IF n.limit = POWER_CAP_UNLIMITED THEN answer("OK", 0, 0)
        ELSE IF "GREEDY" \in oks
        THEN IF "RELEASE" \in oks THEN answer("OK", 0, 0)
             ELSE answer("GREEDY",
                         ear_min((cpu.requested + gpu.requested) % ByteSize,
                                 ByteSize - 1), 0)
        ELSE IF "RELEASE" \in oks
        THEN answer("RELEASE", 0, (cpu.exceed + gpu.exceed) % UintSize)
        ELSE answer("OK", 0, 0)
-----------------------------------------------------------------------------
(* The operations of powercap.c, each a map from a node to a node.          *)

\* A slip: the allocation is left as it was when a new value is set.
SlipKeepsAllocation(n, limit) ==
    pmgt_set_powercap_value([n EXCEPT !.def = limit, !.cur = limit], limit)

set_powercap_value(n, limit) ==
    LET v == IF n.max > 1 THEN ear_min(limit, n.max) ELSE limit
        m == [n EXCEPT !.def = v, !.last = v]
    IN  IF v = n.cur THEN m
        ELSE IF n.mode = "AUTO"
        THEN pmgt_set_powercap_value([m EXCEPT !.cur = v], v)
        ELSE [m EXCEPT !.cur = v]

set_default_node_powercap_opt(conf, max) ==
    LET n == [conf |-> conf, max |-> max, def |-> conf, cur |-> 0, last |-> conf,
              released |-> 0, status |-> "ERROR", perc |-> 0,
              mode |-> "AUTO", limit |-> 0, domains |-> 0]
    IN  [n EXCEPT !.released = (n.last - powercap_idle(n)) % UintSize]

\* pmgt_ok: the plugins of the domains were loaded and enabled.
powercap_init(conf, max, pmgt_ok) ==
    LET n == set_default_node_powercap_opt(conf, max)
    IN  IF conf = 0 \/ ~pmgt_ok THEN n
        ELSE set_powercap_value([n EXCEPT !.status = "IDLE"], powercap_idle(n))

powercap_idle_to_run(n) ==
    LET m == IF n.status # "IDLE" THEN n
             ELSE IF n.last >= n.def
             THEN set_powercap_value([n EXCEPT !.status = "OK", !.released = 0], n.last)
             ELSE set_powercap_value([n EXCEPT !.status = "ASK_DEF"], n.last)
    IN  IF ~is_powercap_on(n) \/ is_powercap_unlimited(n) THEN n
        ELSE reallocate_power_between_domains(m)

powercap_reset_default_power(n) ==
    IF n.last = n.def THEN n
    ELSE set_powercap_value([n EXCEPT !.last = n.def], n.def)

\* A slip: the released power is computed as a signed number.
SlipSignedRelease(n) ==
    LET m == set_powercap_value([n EXCEPT !.released = n.last - powercap_idle(n),
                                          !.status = "IDLE"], powercap_idle(n))
    IN  IF ~is_powercap_on(n) \/ n.status = "IDLE" THEN n ELSE m

powercap_run_to_idle(n) ==
    LET m == IF n.status = "IDLE" THEN n
             ELSE set_powercap_value(
                      [n EXCEPT !.released = (n.last - powercap_idle(n)) % UintSize,
                                !.status = "IDLE"], powercap_idle(n))
        r == reallocate_power_between_domains(m)
    IN  IF ~is_powercap_on(n) \/ is_powercap_unlimited(n) THEN n
        ELSE IF r.perc > MAX_PERC_POWER THEN powercap_reset_default_power(r) ELSE r

powercap_release_power(n) ==
    LET m == [n EXCEPT !.status = "OK", !.released = 0, !.last = n.cur]
    IN  IF m.mode = "AUTO" THEN pmgt_set_powercap_value(m, m.cur) ELSE m

\* p: the answer of pmgt_get_status, with ASK_DEF forced by a low allocation.
RunningStatus(n, p) == IF n.last < n.def THEN "ASK_DEF" ELSE p.status

\* A slip: any status request makes the node release.
SlipReleasesAlways(n, p, release_power) ==
    IF n.status = "IDLE" \/ RunningStatus(n, p) # "RELEASE" THEN n
    ELSE powercap_release_power([n EXCEPT !.cur = (n.cur - p.tbr) % UintSize])

\* The node after a status request, and (below) what it adds to the answer.
powercap_get_status(n, p, release_power) ==
    LET s == RunningStatus(n, p)
        m == [n EXCEPT !.status = s]
    IN  IF n.status = "IDLE" THEN n
        ELSE IF s # "RELEASE" THEN m
        ELSE powercap_release_power(
                 IF release_power
                 THEN [m EXCEPT !.released = p.tbr, !.cur = (n.cur - p.tbr) % UintSize]
                 ELSE m)

\* process_pmgt_status puts the node on the greedy list when it asks for power
\* or holds more than its default.
NodeAnswer(n, p, release_power) ==
    LET m == powercap_get_status(n, p, release_power)
        s == RunningStatus(n, p)
        idle == n.status = "IDLE"
        extra == IF ~idle /\ s \in {"GREEDY", "OK"} /\ n.last > n.def
                 THEN n.last - n.def ELSE 0
    IN  [total |-> get_powercap_allocated(m),
         idle |-> idle,
         released |-> IF idle THEN n.released ELSE 0,
         requested |-> IF ~idle /\ s = "ASK_DEF" THEN (n.def - n.last) % UintSize ELSE 0,
         greedy |-> ~idle /\ (s = "GREEDY" \/ (s = "OK" /\ extra > 0)),
         req |-> IF ~idle /\ s = "GREEDY" THEN p.requested ELSE 0,
         extra |-> extra]

\* A slip: a node that asked for its default is confirmed in what it holds.
SlipAskDefAsHeld(n, listed, extra, perc) ==
    IF ~listed /\ n.status = "ASK_DEF" THEN set_powercap_value([n EXCEPT !.status = "OK"], n.last)
    ELSE n

\* listed: the node is on the greedy list of the options (dyncon_filter_opt),
\* extra its share there.
powercap_set_opt(n, listed, extra, perc) ==
    LET m == [n EXCEPT !.perc = perc]
        given == [m EXCEPT !.last = (m.last + extra) % UintSize]
    IN  IF ~is_powercap_on(n) \/ is_powercap_unlimited(n) THEN n
        ELSE IF listed /\ m.status \in {"IDLE", "OK"} /\ m.last > m.def
        THEN set_powercap_value(given, given.last)
        ELSE IF listed /\ m.status = "GREEDY"
        THEN [set_powercap_value(given, given.last) EXCEPT !.status = "OK"]
        ELSE IF ~listed /\ m.status = "ASK_DEF"
        THEN set_powercap_value([m EXCEPT !.status = "OK", !.last = m.def], m.def)
        ELSE m

powercap_release_idle_power(n) ==
    IF n.status = "IDLE" THEN [n EXCEPT !.released = 0, !.last = n.cur] ELSE n

ReleasedIdlePower(n) == IF n.status = "IDLE" THEN n.released ELSE 0

powercap_reduce_def_power(n, power) ==
    IF power > n.def THEN n ELSE [n EXCEPT !.def = n.def - power]

powercap_increase_def_power(n, power) == [n EXCEPT !.def = (n.def + power) % UintSize]

\* The periodic metric: the domain weights follow the measured power.
powercap_set_power_per_domain(n, reweigh) ==
    IF is_powercap_on(n) /\ n.mode = "AUTO" /\ n.last >= n.def /\ reweigh
    THEN reallocate_power_between_domains(n) ELSE n

\* An "ear message": mode and level choose who sets the domains' power, a "set"
\* writes it (total: the sum of the values given to the domains).
powercap_process_message(n, msg) ==
    LET byMode == IF msg.mode = "manual" THEN "MANUAL" ELSE n.mode
        byLevel == CASE msg.level = "node" -> "AUTO"
                     [] msg.level = "domain" -> "MANUAL"
                     [] OTHER -> byMode
    IN  IF msg.mode = "manual" /\ msg.action = "deactivate"
        THEN [n EXCEPT !.mode = "AUTO"]
        ELSE [n EXCEPT !.mode = byLevel,
                       !.domains = IF msg.action = "set" THEN msg.total ELSE n.domains]
=============================================================================
