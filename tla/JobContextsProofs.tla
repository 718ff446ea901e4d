------------------------- MODULE JobContextsProofs --------------------------
(***************************************************************************)
(* The contexts of an EARD for any number of jobs, places, connections and *)
(* failures, and any interleaving of its two threads: the counters and     *)
(* lists kept beside the contexts agree with them, and contexts that are   *)
(* exclusive are of one job.                                               *)
(***************************************************************************)
EXTENDS JobContexts, FiniteSetTheorems, TLAPS
-----------------------------------------------------------------------------
(* What the state looks like: the idle context is always there and never    *)
(* finished, a connection that has a descriptor is of a step, and an open   *)
(* descriptor has a connection.                                             *)

Context(K) == [k : K, job_created : BOOLEAN, master_pid : BOOLEAN, finished : BOOLEAN,
               local_ids : Nat, exclusive : BOOLEAN]
ContextsTyped(list) ==
    /\ list \in [Contexts -> Context(Apps) \cup Context({IDLE}) \cup {NULL}]
    /\ list[0] \in Context({IDLE}) /\ list[0].finished = FALSE /\ list[0].master_pid = FALSE
    /\ \A i \in Contexts \ {0} : list[i] \in Context(Apps) \cup {NULL}

Connection == [k : Apps \cup {IDLE}, fd : {0} \cup Slots, cancelled : BOOLEAN]
ConnectionsOK ==
    /\ eard_local_conn \in [Slots -> Connection] /\ fds \in [Slots -> Apps \cup {IDLE}]
    /\ \A s \in Slots : eard_local_conn[s].k \in Apps \/ eard_local_conn[s].fd = 0
    /\ \A f \in Slots : fds[f] # IDLE => \E s \in Slots : eard_local_conn[s].fd = f

(* What a thread holds is what it found, until the other one spoils it: a   *)
(* context that is there, or an empty place.                                *)

Thread == [pc : {"quiet", "finish", "mark", "new_job", "create", "end", "ended", "settle", "task",
                 "find", "again", "mpi_init", "mpi_finalize"},
           req : {"none", "new", "end", "task"}, want : Apps \cup {IDLE}, k : Apps \cup {IDLE},
           cc : Nat, i : Nat, then : {"quiet", "finish", "mark", "again"},
           stale : BOOLEAN, finished : BOOLEAN, idle : BOOLEAN]
HoldsWhatItFound(w, list) ==
    /\ w \in Thread
    /\ w.pc # "quiet" => w.k \in Apps /\ w.want \in Apps
    /\ w.pc \in Holding /\ w.stale = FALSE => w.cc \in Contexts \ {0}
    /\ w.pc \in Holding \ {"create"} /\ w.stale = FALSE => list[w.cc] # NULL
    /\ w.pc = "end" /\ w.stale = FALSE => list[w.cc].k = w.k
    /\ w.pc = "create" /\ w.stale = FALSE => list[w.cc] = NULL

(* There is room in jobs_in_node_list for the jobs that have a context      *)
(* ("This should not happen" otherwise, says add_job_in_node).              *)
FewJobs == Cardinality({j \in Jobs : JobContext(j) # {}}) <= MAX_CPUS_SUPPORTED

(* The inductive invariant. *)
ContextInv ==
    /\ ContextsTyped(current_ear_app) /\ ConnectionsOK
    /\ th \in [Threads -> Thread]
    /\ \A t \in Threads : HoldsWhatItFound(th[t], current_ear_app)
    /\ CountsAgree /\ ExclusiveJob
    /\ DOMAIN shared_eard_joblist = Contexts /\ DOMAIN jobs_in_node_list = Jobs
-----------------------------------------------------------------------------
(* The least and the highest place of a set. *)

(* A set of naturals has a least one. *)
LEMMA LeastPlace ==
    ASSUME NEW S, S \subseteq Nat, S # {}
    PROVE  \E n \in S : \A x \in S : n <= x
<1>1. PICK n \in S : \A x \in S : <<x, n>> \notin OpToRel(<, Nat)
    BY NatLessThanWellFounded, WFMin, Zenon
<1>2. \A x \in S : x \in Nat /\ n \in Nat
    OBVIOUS
<1>3. \A x \in S : ~(x < n)
    BY <1>1, <1>2, Zenon DEF OpToRel
<1> QED BY <1>2, <1>3

(* Min and Max find them. *)
LEMMA MinPlace ==
    ASSUME NEW S, S \subseteq Nat, S # {}
    PROVE  Min(S) \in S /\ \A x \in S : Min(S) <= x
<1>1. \E n \in S : \A x \in S : n <= x
    BY LeastPlace, Zenon
<1> QED BY <1>1, Zenon DEF Min

(* A greatest element is the maximum. *)
LEMMA MaxPlace ==
    ASSUME NEW S, S \subseteq Int, NEW x \in S, \A y \in S : y <= x
    PROVE  Max(S) = x
<1>1. \E n \in S : \A y \in S : n >= y
    OBVIOUS
<1>2. Max(S) \in S /\ \A y \in S : Max(S) >= y
    BY <1>1, Zenon DEF Max
<1>3. Max(S) >= x /\ Max(S) <= x /\ Max(S) \in Int /\ x \in Int
    BY <1>2, Zenon
<1> QED BY <1>3

(* A set of places that is not empty has a highest one. *)
LEMMA HighestPlace ==
    ASSUME NEW S, S \subseteq Contexts, S # {}
    PROVE  Max(S) \in S /\ \A y \in S : y <= Max(S)
<1> DEFINE m == MAX_NESTED_LEVELS
           T == {m - x : x \in S}
<1>1. m \in Nat /\ \A x \in S : x \in Nat /\ x <= m
    BY JobAssumption DEF Contexts
<1>2. T \subseteq Nat /\ T # {}
    BY <1>1
<1>3. PICK n \in T : \A y \in T : n <= y
    BY <1>2, LeastPlace, Zenon
<1>4. PICK x \in S : n = m - x
    BY <1>3
<1>5. \A y \in S : y <= x
    <2> TAKE y \in S
    <2>1. n <= m - y
        BY <1>3
    <2> QED BY <1>1, <1>4, <2>1
<1>6. Max(S) = x
    BY <1>1, <1>5, MaxPlace
<1> QED BY <1>5, <1>6

(* The places. *)
LEMMA PlaceFacts == /\ IsFiniteSet(Contexts) /\ Contexts \subseteq Nat /\ 0 \in Contexts
                    /\ \A n \in Contexts : 0 .. n \subseteq Contexts
<1>1. MAX_NESTED_LEVELS \in Nat /\ MAX_NESTED_LEVELS > 1
    BY JobAssumption
<1>2. IsFiniteSet(0 .. MAX_NESTED_LEVELS - 1)
    BY <1>1, FS_Interval, 0 \in Int, MAX_NESTED_LEVELS - 1 \in Int
<1> QED BY <1>1, <1>2 DEF Contexts

(* A step is not the idle context, nor nothing. *)
LEMMA StepsAreNot ==
    /\ IDLE \notin Apps /\ NULL.k \notin Apps /\ NULL.k # IDLE
    /\ \A k \in Apps : k[1] \in Jobs /\ k[1] # 0
    /\ 0 \notin Jobs /\ IDLE[1] = 0 /\ NULL.k[1] = 0
<1>1. \A k \in Apps : k[1] \in Jobs /\ k[1] # 0
    BY JobAssumption DEF Jobs
<1>2. IDLE[1] = 0 /\ NULL.k[1] = 0 /\ NULL.k # IDLE
    BY DEF IDLE, NULL
<1>3. 0 \notin Jobs
    BY <1>1 DEF Jobs
<1> QED BY <1>1, <1>2, <1>3

(* A context that is typed is there, or is nothing. *)
LEMMA ContextFacts ==
    ASSUME NEW list, ContextsTyped(list)
    PROVE  /\ list[0] # NULL /\ list[0].k = IDLE
           /\ \A i \in Contexts : /\ list[i].k \in Apps => i # 0 /\ list[i] # NULL
                                  /\ i # 0 /\ list[i] # NULL => list[i].k \in Apps
                                  /\ list[i] = NULL => i # 0
<1>1. list[0].k = IDLE /\ \A i \in Contexts \ {0} : list[i] # NULL => list[i].k \in Apps
    BY DEF ContextsTyped, Context
<1>2. list[0] # NULL
    BY <1>1, StepsAreNot
<1> QED BY <1>1, <1>2, StepsAreNot
-----------------------------------------------------------------------------
(* The threads *)

(* A thread that does nothing, or that resumes something, holds nothing. *)
LEMMA QuietHolds == ASSUME NEW list PROVE HoldsWhatItFound(Quiet, list)
<1>1. Quiet \in Thread
    BY DEF Quiet, Thread
<1> QED BY <1>1 DEF Quiet, HoldsWhatItFound, Holding

(* Serving and Resumes, for what a thread goes on with. *)
LEMMA ServingTyped ==
    ASSUME NEW req \in {"none", "new", "end", "task"}, NEW k \in Apps
    PROVE  /\ Serving(req, k) \in Thread /\ Serving(req, k).pc = "quiet"
           /\ Serving(req, k).k = k /\ Serving(req, k).want = k /\ Serving(req, k).stale = FALSE
           /\ Serving(req, k).req = req /\ Serving(req, k).i = 0 /\ Serving(req, k).then = "quiet"
BY Zenon DEF Serving, Quiet, Thread

(* A thread that goes back to its request holds nothing. *)
LEMMA ResumesHolds ==
    ASSUME NEW list, NEW w \in Thread, w.want \in Apps,
           NEW pc \in {"quiet", "finish", "mark", "new_job", "again"}
    PROVE  HoldsWhatItFound(Resumes(w, pc), list)
<1> DEFINE s == Serving(w.req, w.want)
           r == Resumes(w, pc)
<1>1. w.req \in {"none", "new", "end", "task"} /\ w.i \in Nat
    BY DEF Thread
<1>2. s \in Thread /\ s.k = w.want /\ s.want = w.want
    <2>1. \A q \in {"none", "new", "end", "task"}, k \in Apps :
              Serving(q, k) \in Thread /\ Serving(q, k).k = k /\ Serving(q, k).want = k
        BY Zenon DEF Serving, Quiet, Thread
    <2> QED BY <1>1, <2>1
<1>3. r = [s EXCEPT !.pc = pc, !.i = w.i]
    BY DEF Resumes
<1> HIDE DEF s, r
<1>4. r \in Thread /\ r.pc = pc /\ r.k = w.want /\ r.want = w.want
    BY <1>1, <1>2, <1>3, Zenon DEF Thread
<1>5. HoldsWhatItFound(r, list)
    BY <1>4 DEF HoldsWhatItFound, Holding
<1> QED BY <1>5 DEF r

(* find_context_for_job finds a context of the step. *)
LEMMA FoundIsThere ==
    ASSUME ContextsTyped(current_ear_app), max_context_created \in Contexts, NEW k \in Apps,
           NEW cc, cc = find_context_for_job(k)
    PROVE  \/ cc = -1
           \/ /\ cc \in Contexts \ {0} /\ cc \in Nat /\ ~(cc < 0)
              /\ current_ear_app[cc] # NULL /\ current_ear_app[cc].k = k
<1> DEFINE found == {i \in 0 .. max_context_created : current_ear_app[i].k = k}
<1>1. CASE found = {}
    BY <1>1 DEF find_context_for_job
<1>2. CASE found # {}
    <2>1. found \subseteq Nat /\ found \subseteq Contexts
        BY PlaceFacts
    <2>2. Min(found) \in found
        BY <1>2, <2>1, MinPlace
    <2>3. cc = Min(found)
        BY <1>2 DEF find_context_for_job
    <2>4. cc \in Contexts /\ cc \in Nat /\ current_ear_app[cc].k = k
        BY <2>1, <2>2, <2>3
    <2> QED BY <2>4, ContextFacts
<1> QED BY <1>1, <1>2

(* powermon_end_job starts from a context that is there. *)
LEMMA EndJobHolds ==
    ASSUME ContextsTyped(current_ear_app), max_context_created \in Contexts, NEW k \in Apps,
           NEW w \in Thread, w.want \in Apps, NEW then \in {"quiet", "finish", "mark"}
    PROVE  HoldsWhatItFound(EndJob(w, k, then), current_ear_app)
<1> DEFINE cc == find_context_for_job(k)
           e == [w EXCEPT !.pc = "end", !.k = k, !.cc = cc, !.then = then, !.stale = FALSE]
<1>1. \/ cc = -1
      \/ /\ cc \in Contexts \ {0} /\ cc \in Nat /\ ~(cc < 0)
         /\ current_ear_app[cc] # NULL /\ current_ear_app[cc].k = k
    BY FoundIsThere
<1>2. EndJob(w, k, then) = IF cc < 0 THEN Resumes(w, then) ELSE e
    BY DEF EndJob
<1> HIDE DEF cc
<1>3. CASE cc = -1
    BY <1>2, <1>3, ResumesHolds
<1>4. CASE cc # -1
    <2>1. e \in Thread /\ e.pc = "end" /\ e.k = k /\ e.cc = cc /\ e.want = w.want
        BY <1>1, <1>4, Zenon DEF Thread
    <2> HIDE DEF e
    <2>2. HoldsWhatItFound(e, current_ear_app)
        BY <1>1, <1>4, <2>1 DEF HoldsWhatItFound
    <2> QED BY <1>1, <1>2, <1>4, <2>2
<1> QED BY <1>3, <1>4

(* The flags of a context may change; the step it is of may not. *)
SameSteps(list, next) == \A i \in Contexts : /\ next[i].k = list[i].k
                                             /\ next[i] = NULL <=> list[i] = NULL

(* A thread still holds what it found when flags change. *)
LEMMA StillHolds ==
    ASSUME NEW list, NEW next, SameSteps(list, next), NEW w, HoldsWhatItFound(w, list)
    PROVE  HoldsWhatItFound(w, next)
BY DEF HoldsWhatItFound, SameSteps, Holding

(* A step of one thread. *)
LEMMA GoesHolds ==
    ASSUME NEW list, th \in [Threads -> Thread], \A t \in Threads : HoldsWhatItFound(th[t], list),
           NEW t \in Threads, NEW next, HoldsWhatItFound(next, list), Goes(t, next)
    PROVE  th' \in [Threads -> Thread] /\ \A u \in Threads : HoldsWhatItFound(th'[u], list)
<1> DEFINE n == IF next.pc = "quiet" THEN Quiet ELSE next
<1>1. n \in Thread /\ HoldsWhatItFound(n, list)
    BY QuietHolds, Zenon DEF HoldsWhatItFound
<1>2. th' = [th EXCEPT ![t] = n]
    BY DEF Goes
<1> HIDE DEF n
<1> QED BY <1>1, <1>2
-----------------------------------------------------------------------------
(* The contexts *)

(* Flags change, steps do not: the counters still agree. *)
LEMMA CountsStay ==
    ASSUME CountsAgree, SameSteps(current_ear_app, current_ear_app'),
           UNCHANGED <<max_context_created, num_contexts, shared_eard_joblist, jobs_in_node_list>>
    PROVE  CountsAgree'
<1>1. {i \in Contexts : Here(i)}' = {i \in Contexts : Here(i)}
    BY DEF SameSteps, Here
<1>2. \A j \in Jobs : {i \in Contexts : current_ear_app'[i].k[1] = j}
                     = {i \in Contexts : current_ear_app[i].k[1] = j}
    BY DEF SameSteps
<1>3. \A i \in Contexts : Here(i)' <=> Here(i)
    BY DEF SameSteps, Here
<1> QED BY <1>1, <1>2, <1>3, Zenon DEF CountsAgree, SameSteps

(* No context becomes exclusive but a new one. *)
LEMMA ExclusiveStays ==
    ASSUME ExclusiveJob, SameSteps(current_ear_app, current_ear_app'),
           \A i \in Contexts \ {0} : Here(i) /\ current_ear_app'[i].exclusive
                                        => current_ear_app[i].exclusive
    PROVE  ExclusiveJob'
BY DEF ExclusiveJob, SameSteps, Here

(* Contexts whose flags change. *)
LEMMA FlagSet ==
    ASSUME NEW K, NEW c \in Context(K), NEW b \in BOOLEAN, NEW n \in Nat
    PROVE  /\ [c EXCEPT !.finished = b] \in Context(K)
           /\ [c EXCEPT !.finished = b].k = c.k
           /\ [c EXCEPT !.finished = b].exclusive = c.exclusive
           /\ [c EXCEPT !.master_pid = b] \in Context(K)
           /\ [c EXCEPT !.master_pid = b].k = c.k
           /\ [c EXCEPT !.master_pid = b].exclusive = c.exclusive
           /\ [c EXCEPT !.exclusive = b] \in Context(K)
           /\ [c EXCEPT !.exclusive = b].k = c.k
           /\ [c EXCEPT !.local_ids = n] \in Context(K)
           /\ [c EXCEPT !.local_ids = n].k = c.k
           /\ [c EXCEPT !.local_ids = n].exclusive = c.exclusive
           /\ [c EXCEPT !.exclusive = b].finished = c.finished
           /\ [c EXCEPT !.local_ids = n].finished = c.finished
           /\ [c EXCEPT !.master_pid = b].finished = c.finished
BY DEF Context

(* What a set of flag changes, of contexts that are there and are not the   *)
(* idle one, makes of them.                                                 *)
Flagged(list, next) ==
    /\ ContextsTyped(next) /\ SameSteps(list, next)
    /\ \A i \in Contexts : list[i] # NULL /\ next[i].exclusive = TRUE => list[i].exclusive = TRUE

OnlyFlags(list, next) ==
    /\ DOMAIN next = Contexts /\ next = [i \in Contexts |-> next[i]]
    /\ \A i \in Contexts :
          \/ next[i] = list[i]
          \/ /\ i # 0 /\ list[i] # NULL /\ next[i] \in Context(Apps) /\ next[i].k = list[i].k
             /\ next[i].exclusive = TRUE => list[i].exclusive = TRUE

(* Contexts whose flags change keep their types, their steps and their exclusiveness. *)
LEMMA FlagsChange ==
    ASSUME NEW list, ContextsTyped(list), NEW next, OnlyFlags(list, next)
    PROVE  Flagged(list, next)
<1> USE DEF OnlyFlags
<1>1. \A i \in Contexts : next[i] \in Context(Apps) \cup Context({IDLE}) \cup {NULL}
    BY DEF ContextsTyped
<1>2. next \in [Contexts -> Context(Apps) \cup Context({IDLE}) \cup {NULL}]
    BY <1>1
<1>3. 0 \in Contexts /\ next[0] = list[0]
    BY PlaceFacts
<1>4. \A i \in Contexts \ {0} : next[i] \in Context(Apps) \cup {NULL}
    BY DEF ContextsTyped
<1>5. ContextsTyped(next)
    BY <1>2, <1>3, <1>4 DEF ContextsTyped
<1>6. \A i \in Contexts : next[i] # list[i] => next[i] # NULL
    <2>1. \A c \in Context(Apps) : c # NULL
        BY StepsAreNot DEF Context
    <2> QED BY <2>1
<1>7. SameSteps(list, next)
    BY <1>6 DEF SameSteps
<1> QED BY <1>5, <1>7 DEF Flagged
-----------------------------------------------------------------------------
(* The steps that change no context, or only flags of contexts.             *)

(* What such a step leaves of the invariant to be shown. *)
LEMMA FlagStep ==
    ASSUME ContextInv, Flagged(current_ear_app, current_ear_app'), ConnectionsOK',
           UNCHANGED <<max_context_created, num_contexts, shared_eard_joblist, jobs_in_node_list>>,
           NEW t \in Threads, NEW next, HoldsWhatItFound(next, current_ear_app),
           Goes(t, next) \/ UNCHANGED th
    PROVE  ContextInv'
<1>1. SameSteps(current_ear_app, current_ear_app') /\ ContextsTyped(current_ear_app')
    BY DEF Flagged
<1>2. CountsAgree'
    BY <1>1, CountsStay DEF ContextInv
<1>3. ExclusiveJob'
    <2>1. \A i \in Contexts \ {0} : Here(i) /\ current_ear_app'[i].exclusive
                                        => current_ear_app[i].exclusive
        <3> SUFFICES ASSUME NEW i \in Contexts \ {0}, Here(i), current_ear_app'[i].exclusive
                     PROVE  current_ear_app[i].exclusive
            OBVIOUS
        <3>1. current_ear_app'[i] \in Context(Apps)
            BY <1>1 DEF ContextsTyped, SameSteps, Here
        <3>2. current_ear_app'[i].exclusive = TRUE
            BY <3>1 DEF Context
        <3> QED BY <3>2 DEF Flagged, Here
    <2> QED BY <1>1, <2>1, ExclusiveStays DEF ContextInv
<1>4. th' \in [Threads -> Thread] /\ \A u \in Threads : HoldsWhatItFound(th'[u], current_ear_app)
    <2>1. CASE Goes(t, next)
        BY <2>1, GoesHolds DEF ContextInv
    <2>2. CASE UNCHANGED th
        BY <2>2 DEF ContextInv
    <2> QED BY <2>1, <2>2
<1>5. \A u \in Threads : HoldsWhatItFound(th'[u], current_ear_app')
    BY <1>1, <1>4, StillHolds
<1>6. DOMAIN shared_eard_joblist' = Contexts /\ DOMAIN jobs_in_node_list' = Jobs
    BY DEF ContextInv
<1> QED BY <1>1, <1>2, <1>3, <1>4, <1>5, <1>6 DEF ContextInv

(* Without a change of the contexts. *)
LEMMA QuietStep ==
    ASSUME ContextInv, UNCHANGED contexts, ConnectionsOK',
           NEW t \in Threads, NEW next, HoldsWhatItFound(next, current_ear_app),
           Goes(t, next) \/ UNCHANGED th
    PROVE  ContextInv'
<1>1. Flagged(current_ear_app, current_ear_app')
    BY DEF Flagged, contexts, ContextInv, SameSteps
<1> QED BY <1>1, FlagStep DEF contexts

(* Nor of the connections. *)
LEMMA ConnectionsStay == ASSUME ConnectionsOK, UNCHANGED connections PROVE ConnectionsOK'
BY DEF ConnectionsOK, connections

(* Neither threads, contexts nor connections. *)
LEMMA NothingHappens ==
    ASSUME ContextInv, UNCHANGED <<contexts, connections, th>>
    PROVE  ContextInv'
<1>1. ConnectionsOK'
    BY ConnectionsStay DEF ContextInv
<1>2. "main" \in Threads
    BY DEF Threads
<1> QED BY <1>1, <1>2, QuietHolds, QuietStep

(* What the invariant says of the counters. *)
LEMMA InvFacts ==
    ASSUME ContextInv
    PROVE  /\ max_context_created \in Contexts /\ Here(max_context_created)
           /\ \A i \in Contexts : Here(i) => i <= max_context_created
           /\ \A t \in Threads : th[t] \in Thread /\ HoldsWhatItFound(th[t], current_ear_app)
<1> DEFINE S == {i \in Contexts : Here(i)}
<1>1. S # {} /\ S \subseteq Contexts
    BY PlaceFacts, ContextFacts DEF ContextInv, Here
<1>2. max_context_created = Max(S)
    BY DEF ContextInv, CountsAgree
<1> HIDE DEF S
<1>3. Max(S) \in S /\ \A i \in S : i <= Max(S)
    BY <1>1, HighestPlace
<1>4. \A i : i \in S <=> i \in Contexts /\ Here(i)
    BY DEF S
<1> QED BY <1>2, <1>3, <1>4 DEF ContextInv
-----------------------------------------------------------------------------
(* The request thread *)

(* Marking contexts as finished. *)
LEMMA MarkStep ==
    ASSUME ContextInv, NEW w \in Thread, w.k \in Apps, w.want \in Apps,
           NEW which, which \subseteq Contexts \ {0}, \A i \in which : Here(i),
           NEW otherwise \in {"quiet", "new_job"}, MarkAndFinish(w, which, otherwise),
           UNCHANGED connections
    PROVE  ContextInv'
<1> DEFINE next == [w EXCEPT !.pc = IF which = {} THEN otherwise ELSE "finish", !.i = 0]
           list == current_ear_app
<1>1. list' = [i \in Contexts |-> IF i \in which THEN [list[i] EXCEPT !.finished = TRUE] ELSE list[i]]
    BY DEF MarkAndFinish
<1>2. \A i \in Contexts :
          \/ list'[i] = list[i]
          \/ /\ i # 0 /\ list[i] # NULL /\ list'[i] \in Context(Apps) /\ list'[i].k = list[i].k
             /\ list'[i].exclusive = TRUE => list[i].exclusive = TRUE
    <2> SUFFICES ASSUME NEW i \in Contexts, i \in which
                 PROVE  /\ i # 0 /\ list[i] # NULL /\ list'[i] \in Context(Apps)
                        /\ list'[i].k = list[i].k /\ list'[i].exclusive = list[i].exclusive
        BY <1>1
    <2>1. i # 0 /\ list[i] # NULL /\ list[i] \in Context(Apps)
        BY DEF Here, ContextInv, ContextsTyped
    <2>2. list'[i] = [list[i] EXCEPT !.finished = TRUE]
        BY <1>1
    <2> HIDE DEF list
    <2>3. [list[i] EXCEPT !.finished = TRUE] \in Context(Apps)
        BY <2>1, Zenon DEF Context
    <2>4. /\ [list[i] EXCEPT !.finished = TRUE].k = list[i].k
          /\ [list[i] EXCEPT !.finished = TRUE].exclusive = list[i].exclusive
        BY <2>1 DEF Context
    <2> QED BY <2>1, <2>2, <2>3, <2>4
<1>3. Flagged(list, list')
    <2>1. ContextsTyped(list)
        BY DEF ContextInv
    <2>2. DOMAIN list' = Contexts /\ list' = [i \in Contexts |-> list'[i]]
        BY <1>1
    <2>3. OnlyFlags(list, list')
        BY <1>2, <2>2 DEF OnlyFlags
    <2> QED BY <2>1, <2>3, FlagsChange
<1>4. next \in Thread /\ next.pc \in {"quiet", "new_job", "finish"} /\ next.k = w.k /\ next.want = w.want
    BY Zenon DEF Thread
<1> HIDE DEF next
<1>5. HoldsWhatItFound(next, list)
    BY <1>4 DEF HoldsWhatItFound, Holding
<1>6. Goes("remote", next) /\ "remote" \in Threads
    BY DEF MarkAndFinish, next, Threads
<1>7. ConnectionsOK'
    BY ConnectionsStay DEF ContextInv
<1> QED BY <1>3, <1>5, <1>6, <1>7, FlagStep DEF MarkAndFinish

(* A new job is read: contexts of dead steps are marked. *)
LEMMA NewJobStep == ASSUME ContextInv, NEW k \in Apps, EAR_RC_NEW_JOB(k) PROVE ContextInv'
<1> DEFINE which == mark_contexts_to_finish_by_pid
           w == Serving("new", k)
<1>1. w \in Thread /\ w.k = k /\ w.want = k
    BY ServingTyped, "new" \in {"none", "new", "end", "task"}, Zenon
<1>2. \A i \in which : i \in Contexts /\ Here(i) /\ current_ear_app[i].master_pid
    BY InvFacts, PlaceFacts, Zenon DEF mark_contexts_to_finish_by_pid
<1>3. 0 \notin which
    BY <1>2 DEF ContextInv, ContextsTyped
<1>4. MarkAndFinish(w, which, "new_job") /\ UNCHANGED connections
    BY DEF EAR_RC_NEW_JOB, Reads
<1> HIDE DEF which, w
<1>5. which \subseteq Contexts \ {0}
    BY <1>2, <1>3
<1> QED BY <1>1, <1>2, <1>4, <1>5, MarkStep

(* The end of a job is read. *)
LEMMA EndRequestStep == ASSUME ContextInv, NEW k \in Apps, EAR_RC_END_JOB(k) PROVE ContextInv'
<1> DEFINE w == Serving("end", k)
           next == EndJob(w, k, "mark")
<1>1. w \in Thread /\ w.want = k
    BY ServingTyped, "end" \in {"none", "new", "end", "task"}, Zenon
<1>2. Goes("remote", next) /\ UNCHANGED contexts /\ UNCHANGED connections
    BY DEF EAR_RC_END_JOB, Reads
<1> HIDE DEF w
<1>3. HoldsWhatItFound(next, current_ear_app)
    BY <1>1, InvFacts, EndJobHolds DEF ContextInv
<1>4. ConnectionsOK' /\ "remote" \in Threads
    BY <1>2, ConnectionsStay DEF ContextInv, Threads
<1> HIDE DEF next
<1> QED BY <1>2, <1>3, <1>4, QuietStep

(* A new task is read. *)
LEMMA TaskRequestStep == ASSUME ContextInv, NEW k \in Apps, EAR_RC_NEW_TASK(k) PROVE ContextInv'
<1> DEFINE cc == find_context_for_job(k)
           w == Serving("task", k)
           e == [w EXCEPT !.pc = "task", !.cc = cc]
           next == IF cc < 0 THEN Quiet ELSE e
<1>1. w \in Thread /\ w.k = k /\ w.want = k /\ w.stale = FALSE
    BY ServingTyped, "task" \in {"none", "new", "end", "task"}, Zenon
<1>2. Goes("remote", next) /\ UNCHANGED contexts /\ UNCHANGED connections
    BY DEF EAR_RC_NEW_TASK, Reads
<1>3. \/ cc = -1
      \/ /\ cc \in Contexts \ {0} /\ cc \in Nat /\ ~(cc < 0)
         /\ current_ear_app[cc] # NULL /\ current_ear_app[cc].k = k
    BY InvFacts, FoundIsThere DEF ContextInv
<1> HIDE DEF w, cc
<1>4. HoldsWhatItFound(next, current_ear_app)
    <2>1. CASE cc = -1
        BY <2>1, QuietHolds
    <2>2. CASE cc # -1
        <3>1. e \in Thread /\ e.pc = "task" /\ e.k = k /\ e.cc = cc /\ e.want = k /\ next = e
            BY <1>1, <1>3, <2>2, Zenon DEF Thread
        <3> HIDE DEF e, next
        <3>2. HoldsWhatItFound(e, current_ear_app)
            BY <1>3, <2>2, <3>1 DEF HoldsWhatItFound
        <3> QED BY <3>1, <3>2
    <2> QED BY <2>1, <2>2
<1>5. ConnectionsOK' /\ "remote" \in Threads
    BY <1>2, ConnectionsStay DEF ContextInv, Threads
<1> HIDE DEF next
<1> QED BY <1>2, <1>4, <1>5, QuietStep

(* One context gets a flag. *)
LEMMA OneFlag ==
    ASSUME NEW list, ContextsTyped(list), NEW cc \in Contexts \ {0}, list[cc] # NULL,
           NEW c \in Context(Apps), c.k = list[cc].k, c.exclusive = list[cc].exclusive,
           NEW next, next = [list EXCEPT ![cc] = c]
    PROVE  Flagged(list, next)
<1>1. list \in [Contexts -> Context(Apps) \cup Context({IDLE}) \cup {NULL}]
    BY DEF ContextsTyped
<1>2. next \in [Contexts -> Context(Apps) \cup Context({IDLE}) \cup {NULL}]
    BY <1>1
<1>3. \A i \in Contexts : next[i] = IF i = cc THEN c ELSE list[i]
    BY <1>1
<1>4. c # NULL
    BY StepsAreNot DEF Context
<1>5. ContextsTyped(next)
    BY <1>2, <1>3, PlaceFacts DEF ContextsTyped
<1>6. SameSteps(list, next)
    BY <1>3, <1>4 DEF SameSteps
<1> QED BY <1>3, <1>5, <1>6 DEF Flagged

(* A thread changes a flag of the context it holds. *)
LEMMA OneFlagStep ==
    ASSUME ContextInv, NEW t \in Threads, th[t].pc \in Holding \ {"create"}, th[t].stale = FALSE,
           NEW c, c \in Context(Apps), c.k = current_ear_app[th[t].cc].k,
           c.exclusive = current_ear_app[th[t].cc].exclusive,
           current_ear_app' = [current_ear_app EXCEPT ![th[t].cc] = c],
           UNCHANGED <<max_context_created, num_contexts, shared_eard_joblist, jobs_in_node_list,
                       connections>>,
           NEW next, HoldsWhatItFound(next, current_ear_app), Goes(t, next)
    PROVE  ContextInv'
<1>1. th[t].cc \in Contexts \ {0} /\ current_ear_app[th[t].cc] # NULL
    BY InvFacts, Zenon DEF HoldsWhatItFound
<1>2. Flagged(current_ear_app, current_ear_app')
    BY <1>1, OneFlag, Zenon DEF ContextInv
<1>3. ConnectionsOK'
    BY ConnectionsStay DEF ContextInv
<1> QED BY <1>2, <1>3, FlagStep

(* What a thread that holds a context knows of it. *)
LEMMA HeldContext ==
    ASSUME ContextInv, NEW t \in Threads, th[t].pc \in Holding \ {"create"}, th[t].stale = FALSE
    PROVE  /\ th[t].cc \in Contexts \ {0} /\ th[t] \in Thread /\ th[t].k \in Apps /\ th[t].want \in Apps
           /\ current_ear_app[th[t].cc] \in Context(Apps) /\ current_ear_app[th[t].cc] # NULL
           /\ th[t].pc = "end" => current_ear_app[th[t].cc].k = th[t].k
<1>1. th[t].cc \in Contexts \ {0} /\ current_ear_app[th[t].cc] # NULL
    BY InvFacts, Zenon DEF HoldsWhatItFound
<1>2. current_ear_app[th[t].cc] \in Context(Apps)
    BY <1>1 DEF ContextInv, ContextsTyped
<1>3. th[t].k \in Apps /\ th[t].want \in Apps /\ th[t] \in Thread
    BY InvFacts, Zenon DEF HoldsWhatItFound, Holding
<1> QED BY <1>1, <1>2, <1>3, InvFacts, Zenon DEF HoldsWhatItFound

(* A new task is noted in its context. *)
LEMMA TaskStep == ASSUME ContextInv, powermon_new_task PROVE ContextInv'
<1> DEFINE w == th["remote"]
           c == [current_ear_app[w.cc] EXCEPT !.master_pid = TRUE]
<1>1. "remote" \in Threads /\ w.pc \in Holding \ {"create"} /\ w.stale = FALSE
    <2>1. "remote" \in Threads /\ w.pc \in Holding \ {"create"} /\ ~w.stale
        BY DEF powermon_new_task, Threads, Holding
    <2>2. w.stale \in BOOLEAN
        BY <2>1, InvFacts DEF Thread
    <2> QED BY <2>1, <2>2
<1>2. current_ear_app[w.cc] \in Context(Apps)
    BY <1>1, HeldContext, Zenon
<1>3. c \in Context(Apps) /\ c.k = current_ear_app[w.cc].k /\ c.exclusive = current_ear_app[w.cc].exclusive
    BY <1>2, FlagSet, 0 \in Nat, Zenon
<1>4. current_ear_app' = [current_ear_app EXCEPT ![w.cc] = c] /\ Goes("remote", Quiet)
    BY DEF powermon_new_task
<1>5. UNCHANGED <<max_context_created, num_contexts, shared_eard_joblist, jobs_in_node_list, connections>>
    BY DEF powermon_new_task
<1> HIDE DEF c
<1> QED BY <1>1, <1>3, <1>4, <1>5, QuietHolds, OneFlagStep, Zenon

(* The contexts of a script that ended are marked. *)
LEMMA MarkJobStep == ASSUME ContextInv, mark_contexts_to_finish_by_jobid PROVE ContextInv'
<1> DEFINE w == th["remote"]
           its == {i \in 0 .. max_context_created : current_ear_app[i].k[1] = w.want[1]}
           which == IF w.want[2] = "batch" THEN its ELSE {}
<1>1. w.pc = "mark" /\ MarkAndFinish(w, which, "quiet") /\ UNCHANGED connections
    BY DEF mark_contexts_to_finish_by_jobid
<1>2. "remote" \in Threads
    BY DEF Threads
<1>3. w \in Thread /\ w.k \in Apps /\ w.want \in Apps
    BY <1>1, <1>2, InvFacts, Zenon DEF HoldsWhatItFound
<1>4. \A i \in its : i \in Contexts /\ i # 0 /\ Here(i)
    <2> TAKE i \in its
    <2>1. i \in Contexts /\ current_ear_app[i].k[1] # 0
        BY <1>3, InvFacts, PlaceFacts, StepsAreNot, Zenon
    <2>2. current_ear_app[i] # NULL /\ i # 0
        BY <2>1, ContextFacts, StepsAreNot DEF ContextInv
    <2> QED BY <2>1, <2>2 DEF Here
<1> HIDE DEF w, its
<1>5. which \subseteq Contexts \ {0} /\ \A i \in which : Here(i)
    BY <1>4
<1> HIDE DEF which
<1> QED BY <1>1, <1>3, <1>5, MarkStep

(* The contexts that are marked are ended one after the other. *)
LEMMA FinishStep == ASSUME ContextInv, finish_pending_contexts PROVE ContextInv'
<1> DEFINE w == th["remote"]
           marked == Marked(w.i)
           s == Serving(w.req, w.want)
           done == [s EXCEPT !.pc = IF w.req = "new" THEN "new_job" ELSE "quiet"]
           v == [w EXCEPT !.i = Min(marked) + 1]
           more == EndJob(v, current_ear_app[Min(marked)].k, "finish")
           next == IF marked = {} THEN done ELSE more
<1>1. w.pc = "finish" /\ Goes("remote", next) /\ UNCHANGED contexts /\ UNCHANGED connections
    BY DEF finish_pending_contexts
<1>2. "remote" \in Threads
    BY DEF Threads
<1>3. w \in Thread /\ w.k \in Apps /\ w.want \in Apps
    BY <1>1, <1>2, InvFacts, Zenon DEF HoldsWhatItFound
<1>4. w.req \in {"none", "new", "end", "task"} /\ w.i \in Nat
    BY <1>3 DEF Thread
<1>5. HoldsWhatItFound(done, current_ear_app)
    <2> HIDE DEF w
    <2>1. s \in Thread /\ s.k = w.want /\ s.want = w.want
        <3>1. \A q \in {"none", "new", "end", "task"}, k \in Apps :
                  Serving(q, k) \in Thread /\ Serving(q, k).k = k /\ Serving(q, k).want = k
            BY Zenon DEF Serving, Quiet, Thread
        <3> QED BY <1>3, <1>4, <3>1
    <2> HIDE DEF s
    <2>2. done \in Thread /\ done.pc \in {"new_job", "quiet"} /\ done.k = w.want /\ done.want = w.want
        BY <2>1 DEF Thread
    <2> HIDE DEF done
    <2> QED BY <1>3, <2>2 DEF HoldsWhatItFound, Holding
<1>6. ASSUME marked # {} PROVE HoldsWhatItFound(more, current_ear_app)
    <2>1. marked \subseteq Nat /\ \A i \in marked : /\ i \in Contexts /\ Here(i)
                                                    /\ current_ear_app[i].finished
        <3>1. max_context_created \in Nat /\ 0 .. max_context_created \subseteq Contexts
            BY InvFacts, PlaceFacts, Zenon
        <3>2. \A i \in w.i .. max_context_created : i \in Nat /\ i \in 0 .. max_context_created
            BY <1>4, <3>1
        <3> QED BY <3>1, <3>2 DEF Marked
    <2> HIDE DEF marked
    <2> DEFINE n == Min(marked)
    <2>2. n \in marked /\ n \in Nat
        BY <1>6, <2>1, MinPlace, Zenon
    <2> HIDE DEF n
    <2>3. n # 0
        BY <2>1, <2>2 DEF ContextInv, ContextsTyped
    <2>4. current_ear_app[n].k \in Apps
        BY <2>1, <2>2, <2>3, ContextFacts DEF ContextInv, Here
    <2> HIDE DEF w
    <2> DEFINE u == [w EXCEPT !.i = n + 1]
    <2>5. u \in Thread /\ u.want \in Apps
        BY <1>3, <2>2 DEF Thread
    <2> HIDE DEF u
    <2>6. HoldsWhatItFound(EndJob(u, current_ear_app[n].k, "finish"), current_ear_app)
        BY <2>4, <2>5, InvFacts, EndJobHolds DEF ContextInv
    <2> QED BY <2>6 DEF u, n
<1> HIDE DEF done, more
<1>7. HoldsWhatItFound(next, current_ear_app)
    BY <1>5, <1>6
<1>8. ConnectionsOK'
    BY <1>1, ConnectionsStay DEF ContextInv
<1> HIDE DEF next
<1> QED BY <1>1, <1>2, <1>7, <1>8, QuietStep
-----------------------------------------------------------------------------
(* The connections *)

(* Places and descriptors are finitely many, from 1 on. *)
LEMMA SlotFacts == IsFiniteSet(Slots) /\ Slots \subseteq Nat /\ 0 \notin Slots
<1>1. num_local_con \in Nat
    BY JobAssumption
<1>2. IsFiniteSet(1 .. num_local_con)
    BY <1>1, FS_Interval, 1 \in Int, num_local_con \in Int
<1> QED BY <1>1, <1>2 DEF Slots

(* A place that is free leaves a descriptor that is. *)
LEMMA DescriptorLeft ==
    ASSUME ConnectionsOK, NEW s \in Slots, eard_local_conn[s].fd = 0
    PROVE  \E f \in Slots : fds[f] = IDLE
<1> SUFFICES ASSUME \A f \in Slots : fds[f] # IDLE PROVE FALSE
    OBVIOUS
<1> DEFINE g == [f \in Slots |-> CHOOSE u \in Slots : eard_local_conn[u].fd = f]
           T == Slots \ {s}
<1>1. \A f \in Slots : g[f] \in Slots /\ eard_local_conn[g[f]].fd = f
    BY DEF ConnectionsOK
<1>2. g \in [Slots -> T]
    BY <1>1, SlotFacts
<1>3. IsFiniteSet(T) /\ Cardinality(T) = Cardinality(Slots) - 1
    BY SlotFacts, FS_RemoveElement, Zenon
<1>4. Cardinality(T) < Cardinality(Slots)
    BY <1>3, SlotFacts, FS_CardinalityType
<1> HIDE DEF g, T
<1>5. \E x, y \in Slots : x # y /\ g[x] = g[y]
    BY <1>2, <1>3, <1>4, SlotFacts, FS_PigeonHole, Zenon
<1> QED BY <1>1, <1>5

(* A library connects: it gets a place and a descriptor. *)
LEMMA ConnectStep == ASSUME ContextInv, NEW k \in Apps, connect_service(k) PROVE ContextInv'
<1> DEFINE free == {s \in Slots : eard_local_conn[s] = FreeSlot}
           open == {f \in Slots : fds[f] = IDLE}
           fd == Min(open)
           m == Min(free)
           new == [k |-> k, fd |-> fd, cancelled |-> FALSE]
           next == [Quiet EXCEPT !.pc = "find", !.want = k, !.k = k]
<1>1. CASE free = {}
    BY <1>1, NothingHappens DEF connect_service
<1>2. CASE free # {}
    <2>1. /\ eard_local_conn' = [eard_local_conn EXCEPT ![m] = new]
          /\ fds' = [fds EXCEPT ![fd] = k] /\ Goes("main", next) /\ UNCHANGED contexts
        BY <1>2 DEF connect_service
    <2>2. m \in Slots /\ eard_local_conn[m].fd = 0
        <3>1. free \subseteq Nat
            BY SlotFacts, Zenon
        <3>2. Min(free) \in free
            BY <1>2, <3>1, MinPlace
        <3> QED BY <3>2 DEF FreeSlot
    <2>3. fd \in Slots
        <3>1. open \subseteq Nat /\ open # {}
            BY <2>2, SlotFacts, DescriptorLeft, Zenon DEF ContextInv
        <3>2. Min(open) \in open
            BY <3>1, MinPlace
        <3> QED BY <3>2
    <2> HIDE DEF m, fd
    <2>4. new \in Connection /\ new.k \in Apps /\ new.fd = fd
        BY <2>3 DEF Connection
    <2> HIDE DEF new
    <2>5. ConnectionsOK'
        <3>1. /\ eard_local_conn' \in [Slots -> Connection] /\ fds' \in [Slots -> Apps \cup {IDLE}]
              /\ \A s \in Slots : eard_local_conn'[s] = IF s = m THEN new ELSE eard_local_conn[s]
              /\ \A f \in Slots : fds'[f] = IF f = fd THEN k ELSE fds[f]
            BY <2>1, <2>2, <2>3, <2>4 DEF ContextInv, ConnectionsOK
        <3>2. \A s \in Slots : eard_local_conn'[s].k \in Apps \/ eard_local_conn'[s].fd = 0
            BY <2>4, <3>1 DEF ContextInv, ConnectionsOK
        <3>3. ASSUME NEW f \in Slots, fds'[f] # IDLE
              PROVE  \E s \in Slots : eard_local_conn'[s].fd = f
            <4>1. CASE f = fd
                BY <2>2, <2>4, <3>1, <4>1
            <4>2. CASE f # fd
                <5>1. PICK s \in Slots : eard_local_conn[s].fd = f
                    BY <3>1, <3>3, <4>2 DEF ContextInv, ConnectionsOK
                <5>2. s # m
                    BY <2>2, <5>1, SlotFacts
                <5> QED BY <3>1, <5>1, <5>2
            <4> QED BY <4>1, <4>2
        <3> QED BY <3>1, <3>2, <3>3 DEF ConnectionsOK
    <2>6. next \in Thread /\ next.pc = "find" /\ next.k = k /\ next.want = k /\ "main" \in Threads
        BY Zenon DEF Quiet, Thread, Threads
    <2> HIDE DEF next
    <2>7. HoldsWhatItFound(next, current_ear_app)
        BY <2>6 DEF HoldsWhatItFound, Holding
    <2> QED BY <2>1, <2>5, <2>6, <2>7, QuietStep
<1> QED BY <1>1, <1>2

(* A connection is closed by its descriptor. *)
LEMMA CloseStep == ASSUME ContextInv, NEW fd \in Slots, service_close(fd) PROVE ContextInv'
<1> DEFINE its == {u \in Slots : eard_local_conn[u].fd = fd}
           s == get_local_connection_by_fd(fd)
           k == eard_local_conn[s].k
           cc == find_context_for_job(k)
           e == [Quiet EXCEPT !.pc = "mpi_finalize", !.want = k, !.k = k, !.cc = cc]
           next == IF cc < 0 THEN Quiet ELSE e
<1>1. /\ eard_local_conn' = [eard_local_conn EXCEPT ![s] = FreeSlot] /\ fds' = [fds EXCEPT ![fd] = IDLE]
      /\ Goes("main", next) /\ UNCHANGED contexts /\ fds[fd] # IDLE
    BY DEF service_close, Closes
<1>2. s \in Slots /\ eard_local_conn[s].fd = fd
    <2>1. its # {} /\ its \subseteq Nat
        BY <1>1, SlotFacts DEF ContextInv, ConnectionsOK
    <2>2. Min(its) \in its
        BY <2>1, MinPlace
    <2> QED BY <2>2 DEF get_local_connection_by_fd
<1> HIDE DEF s
<1>3. k \in Apps
    BY <1>2, SlotFacts DEF ContextInv, ConnectionsOK
<1> HIDE DEF k
<1>4. ConnectionsOK'
    <2>1. FreeSlot \in Connection /\ FreeSlot.fd = 0
        BY DEF FreeSlot, Connection
    <2>2. /\ eard_local_conn' \in [Slots -> Connection] /\ fds' \in [Slots -> Apps \cup {IDLE}]
          /\ \A u \in Slots : eard_local_conn'[u] = IF u = s THEN FreeSlot ELSE eard_local_conn[u]
          /\ \A f \in Slots : fds'[f] = IF f = fd THEN IDLE ELSE fds[f]
        BY <1>1, <1>2, <2>1 DEF ContextInv, ConnectionsOK
    <2>3. \A u \in Slots : eard_local_conn'[u].k \in Apps \/ eard_local_conn'[u].fd = 0
        BY <2>1, <2>2 DEF ContextInv, ConnectionsOK
    <2>4. ASSUME NEW f \in Slots, fds'[f] # IDLE
          PROVE  \E u \in Slots : eard_local_conn'[u].fd = f
        <3>1. PICK u \in Slots : eard_local_conn[u].fd = f
            BY <2>2, <2>4 DEF ContextInv, ConnectionsOK
        <3>2. u # s
            BY <1>2, <2>2, <2>4, <3>1
        <3> QED BY <2>2, <3>1, <3>2
    <2> QED BY <2>2, <2>3, <2>4 DEF ConnectionsOK
<1>5. \/ cc = -1
      \/ /\ cc \in Contexts \ {0} /\ cc \in Nat /\ ~(cc < 0)
         /\ current_ear_app[cc] # NULL /\ current_ear_app[cc].k = k
    BY <1>3, InvFacts, FoundIsThere DEF ContextInv
<1> HIDE DEF cc
<1>6. HoldsWhatItFound(next, current_ear_app)
    <2>1. CASE cc = -1
        BY <2>1, QuietHolds
    <2>2. CASE cc # -1
        <3>1. e \in Thread /\ e.pc = "mpi_finalize" /\ e.k = k /\ e.cc = cc /\ e.want = k /\ next = e
            BY <1>3, <1>5, <2>2, Zenon DEF Quiet, Thread
        <3> HIDE DEF e, next
        <3>2. HoldsWhatItFound(e, current_ear_app)
            BY <1>3, <1>5, <2>2, <3>1 DEF HoldsWhatItFound
        <3> QED BY <3>1, <3>2
    <2> QED BY <2>1, <2>2
<1>7. "main" \in Threads
    BY DEF Threads
<1> HIDE DEF next
<1> QED BY <1>1, <1>4, <1>6, <1>7, QuietStep

(* The connections of a step are closed with its context. *)
LEMMA ConnectionsClosed == ASSUME ConnectionsOK, NEW k, service_close_by_id(k) PROVE ConnectionsOK'
<1> DEFINE its == {s \in Slots : eard_local_conn[s].k = k /\ ~eard_local_conn[s].cancelled}
<1>1. /\ eard_local_conn' = [s \in Slots |-> IF s \in its THEN [eard_local_conn[s] EXCEPT !.cancelled = TRUE]
                                                ELSE eard_local_conn[s]]
      /\ fds' = [f \in Slots |-> IF \E s \in its : eard_local_conn[s].fd = f THEN IDLE ELSE fds[f]]
    BY DEF service_close_by_id
<1> HIDE DEF its
<1>2. ASSUME NEW c \in Connection
      PROVE  /\ [c EXCEPT !.cancelled = TRUE] \in Connection
             /\ [c EXCEPT !.cancelled = TRUE].k = c.k /\ [c EXCEPT !.cancelled = TRUE].fd = c.fd
    BY Zenon DEF Connection
<1>3. \A s \in Slots : /\ eard_local_conn'[s] \in Connection
                       /\ eard_local_conn'[s].k = eard_local_conn[s].k
                       /\ eard_local_conn'[s].fd = eard_local_conn[s].fd
    BY <1>1, <1>2 DEF ConnectionsOK
<1>4. \A f \in Slots : fds'[f] \in {IDLE, fds[f]}
    BY <1>1
<1>5. eard_local_conn' \in [Slots -> Connection] /\ fds' \in [Slots -> Apps \cup {IDLE}]
    <2>1. eard_local_conn' \in [Slots -> Connection]
        BY <1>1, <1>3
    <2>2. fds' \in [Slots -> Apps \cup {IDLE}]
        BY <1>1, <1>4 DEF ConnectionsOK
    <2> QED BY <2>1, <2>2
<1> QED BY <1>3, <1>4, <1>5 DEF ConnectionsOK
-----------------------------------------------------------------------------
(* The main thread, and what both threads do *)

(* The main thread looks for the context of a library. *)
LEMMA FindStep == ASSUME ContextInv, mpi_init_find PROVE ContextInv'
<1> DEFINE w == th["main"]
           cc == find_context_for_job(w.k)
           e == [w EXCEPT !.pc = "mpi_init", !.cc = cc, !.stale = FALSE]
           n == [w EXCEPT !.pc = "new_job", !.then = "again"]
           next == IF cc >= 0 THEN e ELSE IF w.pc = "again" THEN Quiet ELSE n
<1>1. w.pc \in {"find", "again"} /\ Goes("main", next) /\ UNCHANGED contexts /\ UNCHANGED connections
    BY DEF mpi_init_find
<1>2. "main" \in Threads
    BY DEF Threads
<1>3. w \in Thread /\ w.k \in Apps /\ w.want \in Apps
    BY <1>1, <1>2, InvFacts, Zenon DEF HoldsWhatItFound
<1> HIDE DEF w
<1>4. \/ cc = -1
      \/ /\ cc \in Contexts \ {0} /\ cc \in Nat /\ ~(cc < 0)
         /\ current_ear_app[cc] # NULL /\ current_ear_app[cc].k = w.k
    BY <1>3, InvFacts, FoundIsThere DEF ContextInv
<1> HIDE DEF cc
<1>5. HoldsWhatItFound(next, current_ear_app)
    <2>1. CASE cc = -1
        <3>1. n \in Thread /\ n.pc = "new_job" /\ n.k = w.k /\ n.want = w.want
            BY <1>3, Zenon DEF Thread
        <3> HIDE DEF n
        <3>2. HoldsWhatItFound(n, current_ear_app)
            BY <1>3, <3>1 DEF HoldsWhatItFound, Holding
        <3> QED BY <2>1, <3>2, QuietHolds
    <2>2. CASE cc # -1
        <3>1. e \in Thread /\ e.pc = "mpi_init" /\ e.k = w.k /\ e.cc = cc /\ e.want = w.want
            BY <1>3, <1>4, <2>2, Zenon DEF Thread
        <3>2. next = e
            BY <1>4, <2>2
        <3> HIDE DEF e, next
        <3>3. HoldsWhatItFound(e, current_ear_app)
            BY <1>3, <1>4, <2>2, <3>1 DEF HoldsWhatItFound
        <3> QED BY <3>2, <3>3
    <2> QED BY <2>1, <2>2
<1>6. ConnectionsOK'
    BY <1>1, ConnectionsStay DEF ContextInv
<1> HIDE DEF next
<1> QED BY <1>1, <1>2, <1>5, <1>6, QuietStep

(* The main thread holds a context. *)
LEMMA MainHolds ==
    ASSUME ContextInv, th["main"].pc \in {"mpi_init", "mpi_finalize"}, ~th["main"].stale
    PROVE  /\ "main" \in Threads /\ th["main"].pc \in Holding \ {"create"} /\ th["main"].stale = FALSE
           /\ th["main"] \in Thread /\ th["main"].k \in Apps /\ th["main"].want \in Apps
           /\ current_ear_app[th["main"].cc] \in Context(Apps)
<1>1. "main" \in Threads /\ th["main"].pc \in Holding \ {"create"}
    BY DEF Threads, Holding
<1>2. th["main"].stale = FALSE
    BY <1>1, InvFacts DEF Thread
<1> QED BY <1>1, <1>2, HeldContext, Zenon

(* The context found gets one more process. *)
LEMMA InitStep == ASSUME ContextInv, powermon_mpi_init PROVE ContextInv'
<1> DEFINE w == th["main"]
           old == current_ear_app[w.cc]
           c == [old EXCEPT !.local_ids = (old.local_ids + 1) % UINT]
<1>1. w.pc \in {"mpi_init", "mpi_finalize"} /\ ~w.stale
    BY DEF powermon_mpi_init
<1>2. old \in Context(Apps)
    BY <1>1, MainHolds, Zenon
<1>3. current_ear_app' = [current_ear_app EXCEPT ![w.cc] = c] /\ Goes("main", Quiet)
    BY DEF powermon_mpi_init
<1>4. UNCHANGED <<max_context_created, num_contexts, shared_eard_joblist, jobs_in_node_list, connections>>
    BY DEF powermon_mpi_init
<1>5. c \in Context(Apps) /\ c.k = old.k /\ c.exclusive = old.exclusive
    <2> HIDE DEF old
    <2>1. UINT \in Nat /\ UINT > 0 /\ old.local_ids \in Nat
        BY <1>2, JobAssumption DEF Context
    <2>2. (old.local_ids + 1) % UINT \in Nat
        BY <2>1
    <2>3. ASSUME NEW n \in Nat
          PROVE  /\ [old EXCEPT !.local_ids = n] \in Context(Apps)
                 /\ [old EXCEPT !.local_ids = n].k = old.k
                 /\ [old EXCEPT !.local_ids = n].exclusive = old.exclusive
        BY <1>2 DEF Context
    <2> QED BY <2>2, <2>3
<1> HIDE DEF c
<1> QED BY <1>1, <1>3, <1>4, <1>5, MainHolds, QuietHolds, OneFlagStep, Zenon

(* A library leaves its context. *)
LEMMA FinalizeStep == ASSUME ContextInv, powermon_mpi_finalize PROVE ContextInv'
<1> DEFINE w == th["main"]
           old == current_ear_app[w.cc]
           ids == OneLess(old.local_ids)
           c == [old EXCEPT !.local_ids = ids]
           e == EndJob(w, w.k, "quiet")
           next == IF ids = 0 /\ EndsWithConnection(old) THEN e ELSE Quiet
<1>1. w.pc \in {"mpi_init", "mpi_finalize"} /\ ~w.stale
    BY DEF powermon_mpi_finalize
<1>2. old \in Context(Apps) /\ w \in Thread /\ w.k \in Apps /\ w.want \in Apps
    BY <1>1, MainHolds, Zenon
<1>3. current_ear_app' = [current_ear_app EXCEPT ![w.cc] = c] /\ Goes("main", next)
    BY DEF powermon_mpi_finalize
<1>4. UNCHANGED <<max_context_created, num_contexts, shared_eard_joblist, jobs_in_node_list, connections>>
    BY DEF powermon_mpi_finalize
<1>5. c \in Context(Apps) /\ c.k = old.k /\ c.exclusive = old.exclusive
    <2> HIDE DEF old
    <2>1. UINT \in Nat /\ UINT > 0 /\ old.local_ids \in Nat
        BY <1>2, JobAssumption DEF Context
    <2>2. ids \in Nat
        BY <2>1 DEF OneLess
    <2> HIDE DEF ids
    <2>3. ASSUME NEW n \in Nat
          PROVE  /\ [old EXCEPT !.local_ids = n] \in Context(Apps)
                 /\ [old EXCEPT !.local_ids = n].k = old.k
                 /\ [old EXCEPT !.local_ids = n].exclusive = old.exclusive
        BY <1>2 DEF Context
    <2> QED BY <2>2, <2>3
<1>6. HoldsWhatItFound(next, current_ear_app)
    <2>1. HoldsWhatItFound(e, current_ear_app)
        <3> HIDE DEF w
        <3> QED BY <1>2, InvFacts, EndJobHolds DEF ContextInv
    <2> HIDE DEF e
    <2> QED BY <2>1, QuietHolds
<1> HIDE DEF c, next
<1> QED BY <1>1, <1>3, <1>4, <1>5, <1>6, MainHolds, OneFlagStep, Zenon

(* A thread looks for an empty place. *)
LEMMA PlaceStep == ASSUME ContextInv, NEW t \in Threads, new_job(t) PROVE ContextInv'
<1> DEFINE w == th[t]
           free == {i \in Contexts : ~Here(i)}
           r == Resumes(w, w.then)
           e == [w EXCEPT !.pc = "create", !.cc = Min(free), !.stale = FALSE]
           next == IF num_contexts = MAX_NESTED_LEVELS \/ free = {} THEN r ELSE e
<1>1. w.pc = "new_job" /\ Goes(t, next) /\ UNCHANGED contexts /\ UNCHANGED connections
    BY DEF new_job
<1>2. w \in Thread /\ w.k \in Apps /\ w.want \in Apps
    BY <1>1, InvFacts, Zenon DEF HoldsWhatItFound
<1>3. HoldsWhatItFound(r, current_ear_app)
    <2> HIDE DEF w
    <2>1. w.then \in {"quiet", "finish", "mark", "new_job", "again"}
        BY <1>2 DEF Thread
    <2> QED BY <1>2, <2>1, ResumesHolds
<1>4. ASSUME free # {} PROVE HoldsWhatItFound(e, current_ear_app)
    <2>1. free \subseteq Nat
        BY PlaceFacts, Zenon
    <2> DEFINE c == Min(free)
    <2>2. c \in free
        BY <1>4, <2>1, MinPlace
    <2> HIDE DEF c
    <2>3. c \in Contexts \ {0} /\ c \in Nat /\ current_ear_app[c] = NULL
        BY <2>2, PlaceFacts, ContextFacts DEF ContextInv, Here
    <2> HIDE DEF w, free
    <2>4. e \in Thread /\ e.pc = "create" /\ e.k = w.k /\ e.cc = c /\ e.want = w.want
        BY <1>2, <2>3, Zenon DEF Thread, c
    <2> HIDE DEF e
    <2> QED BY <1>2, <2>3, <2>4 DEF HoldsWhatItFound
<1> HIDE DEF r, e
<1>5. HoldsWhatItFound(next, current_ear_app)
    BY <1>3, <1>4
<1>6. ConnectionsOK'
    BY <1>1, ConnectionsStay DEF ContextInv
<1> HIDE DEF next
<1> QED BY <1>1, <1>5, <1>6, QuietStep

(* A thread tests whether the node is idle. *)
LEMMA TestStep == ASSUME ContextInv, NEW t \in Threads, end_is_idle(t) PROVE ContextInv'
<1> DEFINE w == th[t]
           b == ~w.finished /\ powermon_is_idle(current_ear_app, max_context_created)
           next == [w EXCEPT !.pc = "settle", !.idle = b]
<1>1. w.pc = "ended" /\ Goes(t, next) /\ UNCHANGED contexts /\ UNCHANGED connections
    BY DEF end_is_idle
<1>2. w \in Thread /\ w.k \in Apps /\ w.want \in Apps
    BY <1>1, InvFacts, Zenon DEF HoldsWhatItFound
<1>3. b \in BOOLEAN
    BY DEF powermon_is_idle
<1> HIDE DEF b, w
<1>4. next \in Thread /\ next.pc = "settle" /\ next.k = w.k /\ next.want = w.want
    BY <1>2, <1>3, Zenon DEF Thread
<1> HIDE DEF next
<1>5. HoldsWhatItFound(next, current_ear_app)
    BY <1>2, <1>4 DEF HoldsWhatItFound, Holding
<1>6. ConnectionsOK'
    BY <1>1, ConnectionsStay DEF ContextInv
<1> QED BY <1>1, <1>5, <1>6, QuietStep

(* A thread changes the mode of the node and resumes. *)
LEMMA SettleStep == ASSUME ContextInv, NEW t \in Threads, end_job(t) PROVE ContextInv'
<1> DEFINE w == th[t]
           next == Resumes(w, w.then)
<1>1. w.pc = "settle" /\ Goes(t, next) /\ UNCHANGED contexts /\ service_close_by_id(w.k)
    BY DEF end_job
<1>2. w \in Thread /\ w.want \in Apps
    BY <1>1, InvFacts, Zenon DEF HoldsWhatItFound
<1>3. ConnectionsOK'
    BY <1>1, ConnectionsClosed DEF ContextInv
<1> HIDE DEF w
<1>4. w.then \in {"quiet", "finish", "mark", "new_job", "again"}
    BY <1>2 DEF Thread
<1>5. HoldsWhatItFound(next, current_ear_app)
    BY <1>2, <1>4, ResumesHolds
<1> HIDE DEF next
<1> QED BY <1>1, <1>3, <1>5, QuietStep

(* The power monitor only takes exclusiveness away. *)
LEMMA MonitorStep == ASSUME ContextInv, update_pmapps PROVE ContextInv'
<1> DEFINE list == current_ear_app
           n == num_jobs_in_node(jobs_in_node_list)
           shared == {i \in 1 .. max_context_created : Here(i) /\ list[i].exclusive /\ n # 1}
<1>1. /\ list' = [i \in Contexts |-> IF i \in shared THEN [list[i] EXCEPT !.exclusive = FALSE] ELSE list[i]]
      /\ UNCHANGED <<max_context_created, num_contexts, shared_eard_joblist, jobs_in_node_list>>
      /\ UNCHANGED th /\ UNCHANGED connections
    BY DEF update_pmapps
<1>2. \A i \in shared : i \in Contexts /\ i # 0 /\ Here(i)
    <2>1. max_context_created \in Nat /\ 0 .. max_context_created \subseteq Contexts
        BY InvFacts, PlaceFacts
    <2>2. \A i \in 1 .. max_context_created : i # 0 /\ i \in 0 .. max_context_created
        BY <2>1
    <2> QED BY <2>1, <2>2
<1>3. \A i \in Contexts :
          \/ list'[i] = list[i]
          \/ /\ i # 0 /\ list[i] # NULL /\ list'[i] \in Context(Apps) /\ list'[i].k = list[i].k
             /\ list'[i].exclusive = TRUE => list[i].exclusive = TRUE
    <2> SUFFICES ASSUME NEW i \in Contexts, i \in shared
                 PROVE  /\ i # 0 /\ list[i] # NULL /\ list'[i] \in Context(Apps)
                        /\ list'[i].k = list[i].k /\ list'[i].exclusive = FALSE
        BY <1>1, Zenon
    <2>1. i # 0 /\ list[i] # NULL /\ list[i] \in Context(Apps)
        BY <1>2 DEF Here, ContextInv, ContextsTyped
    <2>2. list'[i] = [list[i] EXCEPT !.exclusive = FALSE]
        BY <1>1
    <2> HIDE DEF list
    <2>3. [list[i] EXCEPT !.exclusive = FALSE] \in Context(Apps)
        BY <2>1, Zenon DEF Context
    <2>4. /\ [list[i] EXCEPT !.exclusive = FALSE].k = list[i].k
          /\ [list[i] EXCEPT !.exclusive = FALSE].exclusive = FALSE
        BY <2>1 DEF Context
    <2> QED BY <2>1, <2>2, <2>3, <2>4
<1>4. Flagged(list, list')
    <2>1. ContextsTyped(list)
        BY DEF ContextInv
    <2>2. DOMAIN list' = Contexts /\ list' = [i \in Contexts |-> list'[i]]
        BY <1>1
    <2>3. OnlyFlags(list, list')
        BY <1>3, <2>2 DEF OnlyFlags
    <2> QED BY <2>1, <2>3, FlagsChange
<1>5. ConnectionsOK' /\ "main" \in Threads
    BY <1>1, ConnectionsStay DEF ContextInv, Threads
<1> QED BY <1>1, <1>4, <1>5, QuietHolds, FlagStep
-----------------------------------------------------------------------------
(* Contexts end and start *)

(* What the step of one thread does to the other. *)
LEMMA SpoilsHolds ==
    ASSUME ContextInv, NEW t \in Threads, NEW cc \in Contexts,
           NEW list, \A i \in Contexts \ {cc} : list[i] = current_ear_app[i],
           NEW next, HoldsWhatItFound(next, list), GoesAndSpoils(t, next, cc)
    PROVE  th' \in [Threads -> Thread] /\ \A u \in Threads : HoldsWhatItFound(th'[u], list)
<1> DEFINE spoiled(u) == th[u].stale \/ (th[u].pc \in Holding /\ th[u].cc = cc)
           other(u) == [th[u] EXCEPT !.stale = spoiled(u)]
<1>1. ASSUME NEW u \in Threads PROVE other(u) \in Thread /\ HoldsWhatItFound(other(u), list)
    <2>1. th[u] \in Thread /\ HoldsWhatItFound(th[u], current_ear_app)
        BY InvFacts
    <2>2. spoiled(u) \in BOOLEAN
        OBVIOUS
    <2> DEFINE v == th[u]
               b == spoiled(u)
               o == [v EXCEPT !.stale = b]
    <2>3. b = FALSE => v.stale = FALSE /\ (v.pc \in Holding => v.cc # cc)
        <3>1. v.stale \in BOOLEAN
            BY <2>1 DEF Thread
        <3> QED BY <3>1, Zenon
    <2> HIDE DEF v, b
    <2>4. v \in Thread /\ HoldsWhatItFound(v, current_ear_app) /\ b \in BOOLEAN
        BY <2>1, <2>2 DEF v, b
    <2>5. o \in Thread /\ o.pc = v.pc /\ o.k = v.k /\ o.want = v.want /\ o.cc = v.cc /\ o.stale = b
        BY <2>4 DEF Thread
    <2> HIDE DEF o
    <2>6. HoldsWhatItFound(o, list)
        <3>1. o.pc # "quiet" => o.k \in Apps /\ o.want \in Apps
            BY <2>4, <2>5 DEF HoldsWhatItFound
        <3>2. CASE b = TRUE
            BY <2>5, <3>1, <3>2 DEF HoldsWhatItFound
        <3>3. CASE b = FALSE
            <4>1. v.stale = FALSE /\ (v.pc \in Holding => v.cc \in Contexts \ {0} /\ v.cc # cc)
                BY <2>3, <2>4, <3>3 DEF HoldsWhatItFound
            <4>2. v.pc \in Holding => list[v.cc] = current_ear_app[v.cc]
                BY <4>1
            <4>3. v.pc = "end" \/ v.pc = "create" => v.pc \in Holding
                BY DEF Holding
            <4> QED BY <2>4, <2>5, <3>1, <4>1, <4>2, <4>3, Zenon DEF HoldsWhatItFound
        <3> QED BY <2>4, <3>2, <3>3, Zenon
    <2> QED BY <2>5, <2>6 DEF o, v, b
<1> DEFINE n == IF next.pc = "quiet" THEN Quiet ELSE next
<1>2. n \in Thread /\ HoldsWhatItFound(n, list)
    BY QuietHolds, Zenon DEF HoldsWhatItFound
<1>3. th' = [u \in Threads |-> IF u # t THEN other(u) ELSE n]
    BY DEF GoesAndSpoils
<1> HIDE DEF other, n
<1> QED BY <1>1, <1>2, <1>3

(* The sets that are counted. *)
LEMMA PlaceSets ==
    ASSUME ContextInv
    PROVE  /\ IsFiniteSet({i \in Contexts : Here(i)}) /\ Cardinality({i \in Contexts : Here(i)}) \in Nat
           /\ \A j \in Jobs : IsFiniteSet(JobContext(j)) /\ Cardinality(JobContext(j)) \in Nat
           /\ \A j \in Jobs : jobs_in_node_list[j] = Cardinality(JobContext(j))
           /\ \A j \in Jobs : jobs_in_node_list[j] > 0 <=> JobContext(j) # {}
<1>1. IsFiniteSet({i \in Contexts : Here(i)}) /\ Cardinality({i \in Contexts : Here(i)}) \in Nat
    BY PlaceFacts, FS_Subset, FS_CardinalityType
<1>2. ASSUME NEW j \in Jobs
      PROVE  /\ IsFiniteSet(JobContext(j)) /\ Cardinality(JobContext(j)) \in Nat
             /\ jobs_in_node_list[j] = Cardinality(JobContext(j))
             /\ jobs_in_node_list[j] > 0 <=> JobContext(j) # {}
    <2>1. JobContext(j) \subseteq Contexts
        BY DEF JobContext
    <2>2. IsFiniteSet(JobContext(j)) /\ Cardinality(JobContext(j)) \in Nat
        BY <2>1, PlaceFacts, FS_Subset, FS_CardinalityType
    <2>3. jobs_in_node_list[j] = Cardinality(JobContext(j))
        BY DEF ContextInv, CountsAgree, JobContext
    <2>4. Cardinality(JobContext(j)) = 0 <=> JobContext(j) = {}
        BY <2>2, FS_EmptySet
    <2> QED BY <2>2, <2>3, <2>4
<1> QED BY <1>1, <1>2

(* A context ends. *)
LEMMA EndStep == ASSUME ContextInv, NEW t \in Threads, end_context(t) PROVE ContextInv'
<1> DEFINE w == th[t]
           cc == w.cc
           list == current_ear_app
           P == {i \in Contexts : Here(i)}
           j0 == w.k[1]
           next == [w EXCEPT !.pc = "ended", !.finished = list[cc].finished]
<1>1. /\ w.pc = "end" /\ ~w.stale
      /\ list' = [list EXCEPT ![cc] = NULL]
      /\ max_context_created' = HighestWithout(cc)
      /\ num_contexts' = num_contexts - 1
      /\ shared_eard_joblist' = [shared_eard_joblist EXCEPT ![cc] = IDLE]
      /\ jobs_in_node_list' = del_job_in_node(j0)
      /\ GoesAndSpoils(t, next, cc) /\ UNCHANGED connections
    BY DEF end_context
<1>2. /\ w \in Thread /\ w.k \in Apps /\ w.want \in Apps /\ cc \in Contexts \ {0}
      /\ list[cc] \in Context(Apps) /\ list[cc] # NULL /\ list[cc].k = w.k
    <2>1. w.pc \in Holding \ {"create"} /\ w.pc = "end"
        BY <1>1 DEF Holding
    <2>2. w.stale = FALSE
        BY <1>1, InvFacts DEF Thread
    <2> QED BY <2>1, <2>2, HeldContext, Zenon
<1>3. j0 \in Jobs /\ 0 \notin Jobs
    BY <1>2, StepsAreNot
<1>4. DOMAIN list = Contexts /\ DOMAIN list' = Contexts
      /\ \A i \in Contexts : list'[i] = IF i = cc THEN NULL ELSE list[i]
    BY <1>1, <1>2 DEF ContextInv, ContextsTyped
<1> HIDE DEF w, cc, j0
<1>5. ContextsTyped(list')
    <2>1. list' \in [Contexts -> Context(Apps) \cup Context({IDLE}) \cup {NULL}]
        BY <1>1, <1>2 DEF ContextInv, ContextsTyped
    <2> QED BY <1>2, <1>4, <2>1, PlaceFacts DEF ContextInv, ContextsTyped
<1>6. {i \in Contexts : Here(i)}' = P \ {cc}
    BY <1>2, <1>4 DEF Here
<1>7. num_contexts' = Cardinality(P \ {cc})
    <2>1. IsFiniteSet(P) /\ Cardinality(P) \in Nat /\ num_contexts = Cardinality(P)
        BY PlaceSets, Zenon DEF ContextInv, CountsAgree
    <2>2. cc \in P
        BY <1>2 DEF Here
    <2> HIDE DEF P
    <2> QED BY <1>1, <2>1, <2>2, FS_RemoveElement, Zenon
<1>8. max_context_created' = Max(P \ {cc})
    <2>1. /\ max_context_created \in P /\ \A i \in P : i <= max_context_created
          /\ P \subseteq Contexts /\ Contexts \subseteq Nat /\ 0 \in P
        BY InvFacts, PlaceFacts, ContextFacts DEF Here, ContextInv
    <2>2. CASE cc # max_context_created
        <3> DEFINE Q == P \ {cc}
        <3> HIDE DEF P
        <3>1. max_context_created \in Q /\ Q \subseteq Int /\ \A i \in Q : i <= max_context_created
            <4>1. max_context_created \in Q
                BY <2>1, <2>2
            <4>2. Q \subseteq Int
                <5>1. Contexts \subseteq Int
                    BY DEF Contexts
                <5> QED BY <2>1, <5>1, Zenon
            <4>3. \A i \in Q : i <= max_context_created
                BY <2>1
            <4> QED BY <4>1, <4>2, <4>3
        <3> HIDE DEF Q
        <3>2. Max(Q) = max_context_created
            BY <3>1, MaxPlace, Zenon
        <3> QED BY <1>1, <2>2, <3>2 DEF HighestWithout, Q
    <2>3. CASE cc = max_context_created
        <3>1. {0} \cup {i \in 0 .. max_context_created : Here(i) /\ i # cc} = P \ {cc}
            <4>1. max_context_created \in Nat /\ 0 .. max_context_created \subseteq Contexts
                BY <2>1, PlaceFacts
            <4>2. \A i \in P : i \in 0 .. max_context_created
                BY <2>1, <4>1
            <4>3. 0 \in P \ {cc}
                BY <1>2, <2>1
            <4> QED BY <4>1, <4>2, <4>3
        <3> QED BY <1>1, <2>3, <3>1 DEF HighestWithout
    <2> QED BY <2>2, <2>3
<1>9. /\ DOMAIN shared_eard_joblist' = Contexts
      /\ \A i \in Contexts : shared_eard_joblist'[i] = IF Here(i)' THEN list'[i].k ELSE IDLE
    <2>1. \A i \in Contexts : shared_eard_joblist'[i] = IF i = cc THEN IDLE ELSE shared_eard_joblist[i]
        BY <1>1, <1>2 DEF ContextInv
    <2> QED BY <1>1, <1>4, <2>1 DEF ContextInv, CountsAgree, Here
<1>10. /\ DOMAIN jobs_in_node_list' = Jobs
       /\ \A j \in Jobs : jobs_in_node_list'[j] = Cardinality({i \in Contexts : list'[i].k[1] = j})
    <2>1. cc \in JobContext(j0)
        BY <1>2 DEF JobContext, j0
    <2>2. jobs_in_node_list[j0] > 0
        BY <1>3, <2>1, PlaceSets
    <2>3. jobs_in_node_list' = [jobs_in_node_list EXCEPT ![j0] = jobs_in_node_list[j0] - 1]
        BY <1>1, <2>2 DEF del_job_in_node
    <2>4. DOMAIN jobs_in_node_list = Jobs
        BY DEF ContextInv
    <2>5. ASSUME NEW j \in Jobs
          PROVE  jobs_in_node_list'[j] = Cardinality({i \in Contexts : list'[i].k[1] = j})
        <3>1. {i \in Contexts : list'[i].k[1] = j} = JobContext(j) \ {cc}
            BY <1>3, <1>4, StepsAreNot DEF JobContext
        <3>2. CASE j = j0
            <4> DEFINE J == JobContext(j0)
            <4>1. IsFiniteSet(J) /\ Cardinality(J) \in Nat /\ jobs_in_node_list[j0] = Cardinality(J) /\ cc \in J
                BY <1>3, <2>1, PlaceSets
            <4> HIDE DEF J
            <4>2. Cardinality(J \ {cc}) = Cardinality(J) - 1
                BY <4>1, FS_RemoveElement, Zenon
            <4> QED BY <2>3, <2>4, <3>1, <3>2, <4>1, <4>2, Zenon DEF J
        <3>3. CASE j # j0
            <4>1. cc \notin JobContext(j)
                BY <1>2, <3>3 DEF JobContext, j0
            <4>2. JobContext(j) \ {cc} = JobContext(j)
                BY <4>1
            <4>3. jobs_in_node_list'[j] = jobs_in_node_list[j]
                BY <2>3, <2>4, <3>3
            <4> QED BY <3>1, <4>2, <4>3, PlaceSets, Zenon
        <3> QED BY <3>2, <3>3
    <2> QED BY <2>3, <2>4, <2>5
<1>11. ExclusiveJob'
    BY <1>4 DEF ContextInv, ExclusiveJob, Here
<1>12. next \in Thread /\ next.pc = "ended" /\ next.k = w.k /\ next.want = w.want
    <2> DEFINE b == list[cc].finished
    <2>1. b \in BOOLEAN
        BY <1>2 DEF Context
    <2> HIDE DEF b
    <2> QED BY <1>2, <2>1, Zenon DEF Thread, b
<1> HIDE DEF next
<1>13. HoldsWhatItFound(next, list')
    BY <1>2, <1>12 DEF HoldsWhatItFound, Holding
<1>14. th' \in [Threads -> Thread] /\ \A u \in Threads : HoldsWhatItFound(th'[u], list')
    <2>1. \A i \in Contexts \ {cc} : list'[i] = current_ear_app[i]
        BY <1>4
    <2> QED BY <1>1, <1>2, <1>13, <2>1, SpoilsHolds, Zenon
<1>15. CountsAgree'
    BY <1>6, <1>7, <1>8, <1>9, <1>10 DEF CountsAgree
<1>16. ConnectionsOK'
    BY <1>1, ConnectionsStay DEF ContextInv
<1> QED BY <1>5, <1>9, <1>10, <1>11, <1>14, <1>15, <1>16 DEF ContextInv

(* The jobs that have a context are finitely many, and jobs_in_node_list counts them. *)
LEMMA JobsHere ==
    ASSUME ContextInv
    PROVE  /\ IsFiniteSet({j \in Jobs : JobContext(j) # {}})
           /\ num_jobs_in_node(jobs_in_node_list) = Cardinality({j \in Jobs : JobContext(j) # {}})
<1> DEFINE H == {j \in Jobs : JobContext(j) # {}}
           f == [i \in Contexts |-> current_ear_app[i].k[1]]
           T == {f[i] : i \in Contexts}
<1>1. IsFiniteSet(T)
    <2>1. f \in Surjection(Contexts, T)
        BY DEF Surjection
    <2> HIDE DEF f, T
    <2> QED BY <2>1, PlaceFacts, FS_Surjection
<1>2. H \subseteq T
    BY DEF JobContext
<1>3. IsFiniteSet(H)
    <2> HIDE DEF H, T
    <2> QED BY <1>1, <1>2, FS_Subset
<1>4. {j \in Jobs : jobs_in_node_list[j] > 0} = H
    BY PlaceSets
<1> QED BY <1>3, <1>4 DEF num_jobs_in_node

(* There is room for the job of a new context. *)
LEMMA JobAdded ==
    ASSUME ContextInv, FewJobs', NEW j0 \in Jobs,
           \A j \in Jobs \ {j0} : JobContext(j)' = JobContext(j), JobContext(j0)' # {}
    PROVE  add_job_in_node(j0) = [jobs_in_node_list EXCEPT ![j0] = jobs_in_node_list[j0] + 1]
<1> DEFINE H == {j \in Jobs : JobContext(j) # {}}
           G == {j \in Jobs : JobContext(j)' # {}}
<1> SUFFICES ASSUME ~(jobs_in_node_list[j0] > 0),
                    ~(num_jobs_in_node(jobs_in_node_list) < MAX_CPUS_SUPPORTED)
             PROVE  FALSE
    BY DEF add_job_in_node
<1>1. j0 \notin H
    BY PlaceSets
<1>2. G = H \cup {j0}
    OBVIOUS
<1>3. IsFiniteSet(H) /\ num_jobs_in_node(jobs_in_node_list) = Cardinality(H)
    BY JobsHere
<1>4. Cardinality(G) <= MAX_CPUS_SUPPORTED
    BY DEF FewJobs
<1> HIDE DEF H, G
<1>5. Cardinality(G) = Cardinality(H) + 1 /\ Cardinality(H) \in Nat
    BY <1>1, <1>2, <1>3, FS_AddElement, FS_CardinalityType
<1>6. MAX_CPUS_SUPPORTED \in Nat
    BY JobAssumption
<1> QED BY <1>3, <1>4, <1>5, <1>6

(* The counters after a context was made. *)
LEMMA CountsGrow ==
    ASSUME ContextInv, NEW cc \in Contexts \ {0}, current_ear_app[cc] = NULL,
           NEW c, c \in Context(Apps), NEW k \in Apps, c.k = k, FewJobs',
           current_ear_app' = [current_ear_app EXCEPT ![cc] = c],
           max_context_created' = Max({max_context_created, cc}),
           num_contexts' = num_contexts + 1,
           shared_eard_joblist' = [shared_eard_joblist EXCEPT ![cc] = k],
           jobs_in_node_list' = add_job_in_node(k[1])
    PROVE  /\ CountsAgree' /\ ContextsTyped(current_ear_app')
           /\ DOMAIN shared_eard_joblist' = Contexts /\ DOMAIN jobs_in_node_list' = Jobs
<1> DEFINE list == current_ear_app
           P == {i \in Contexts : Here(i)}
           j0 == k[1]
<1>1. c # NULL /\ j0 \in Jobs /\ 0 \notin Jobs /\ NULL.k[1] = 0
    BY StepsAreNot DEF Context
<1>2. DOMAIN list = Contexts /\ list' \in [Contexts -> Context(Apps) \cup Context({IDLE}) \cup {NULL}]
      /\ \A i \in Contexts : list'[i] = IF i = cc THEN c ELSE list[i]
    BY DEF ContextInv, ContextsTyped
<1>3. ContextsTyped(list')
    BY <1>2, PlaceFacts DEF ContextInv, ContextsTyped
<1>4. {i \in Contexts : Here(i)}' = P \cup {cc}
    BY <1>1, <1>2 DEF Here
<1>5. num_contexts' = Cardinality(P \cup {cc})
    <2>1. IsFiniteSet(P) /\ Cardinality(P) \in Nat /\ num_contexts = Cardinality(P)
        BY PlaceSets, Zenon DEF ContextInv, CountsAgree
    <2>2. cc \notin P
        BY DEF Here
    <2> HIDE DEF P
    <2> QED BY <2>1, <2>2, FS_AddElement, Zenon
<1>6. max_context_created' = Max(P \cup {cc})
    <2>1. /\ max_context_created \in P /\ \A i \in P : i <= max_context_created
          /\ P \subseteq Contexts /\ Contexts \subseteq Int
        BY InvFacts DEF Here, Contexts
    <2> HIDE DEF P
    <2>2. ASSUME NEW x \in {max_context_created, cc}, max_context_created <= x, cc <= x
          PROVE  max_context_created' = Max(P \cup {cc})
        <3> DEFINE Q == P \cup {cc}
                   R == {max_context_created, cc}
        <3>1. x \in Q /\ Q \subseteq Int
            BY <2>1
        <3>2. \A i \in Q : i <= x
            <4>1. \A i \in P : i \in Int /\ i <= max_context_created
                BY <2>1
            <4>2. x \in Int /\ max_context_created \in Int
                BY <2>1
            <4> QED BY <2>2, <4>1, <4>2
        <3>3. x \in R /\ R \subseteq Int /\ \A i \in R : i <= x
            BY <2>1, <2>2
        <3> HIDE DEF Q, R
        <3>4. Max(Q) = x /\ Max(R) = x
            BY <3>1, <3>2, <3>3, MaxPlace, Zenon
        <3> QED BY <3>4 DEF Q, R
    <2>3. cc \in Int /\ max_context_created \in Int
        BY <2>1
    <2>4. CASE cc <= max_context_created
        BY <2>2, <2>3, <2>4
    <2>5. CASE ~(cc <= max_context_created)
        BY <2>2, <2>3, <2>5
    <2> QED BY <2>4, <2>5
<1>7. /\ DOMAIN shared_eard_joblist' = Contexts
      /\ \A i \in Contexts : shared_eard_joblist'[i] = IF Here(i)' THEN list'[i].k ELSE IDLE
    <2>1. \A i \in Contexts : shared_eard_joblist'[i] = IF i = cc THEN k ELSE shared_eard_joblist[i]
        BY Zenon DEF ContextInv
    <2> QED BY <1>1, <1>2, <2>1, Zenon DEF ContextInv, CountsAgree, Here
<1>8. \A j \in Jobs : {i \in Contexts : list'[i].k[1] = j} = IF j = j0 THEN JobContext(j) \cup {cc} ELSE JobContext(j)
    <2>1. list[cc].k[1] = 0
        BY <1>1
    <2> QED BY <1>1, <1>2, <2>1 DEF JobContext
<1>9. jobs_in_node_list' = [jobs_in_node_list EXCEPT ![j0] = jobs_in_node_list[j0] + 1]
    <2>1. \A j \in Jobs : JobContext(j)' = IF j = j0 THEN JobContext(j) \cup {cc} ELSE JobContext(j)
        BY <1>8 DEF JobContext
    <2> HIDE DEF j0
    <2>2. add_job_in_node(j0) = [jobs_in_node_list EXCEPT ![j0] = jobs_in_node_list[j0] + 1]
        BY <1>1, <2>1, JobAdded
    <2> QED BY <2>2 DEF j0
<1>10. DOMAIN jobs_in_node_list = Jobs
    BY DEF ContextInv
<1>11. ASSUME NEW j \in Jobs
       PROVE  jobs_in_node_list'[j] = Cardinality({i \in Contexts : list'[i].k[1] = j})
    <2> DEFINE J == JobContext(j)
    <2>1. IsFiniteSet(J) /\ Cardinality(J) \in Nat /\ jobs_in_node_list[j] = Cardinality(J)
        BY PlaceSets
    <2>2. cc \notin J
        BY <1>1 DEF JobContext
    <2> HIDE DEF J
    <2>3. Cardinality(J \cup {cc}) = Cardinality(J) + 1
        BY <2>1, <2>2, FS_AddElement, Zenon
    <2>4. {i \in Contexts : list'[i].k[1] = j} = IF j = j0 THEN J \cup {cc} ELSE J
        BY <1>8 DEF J
    <2>5. jobs_in_node_list'[j] = IF j = j0 THEN jobs_in_node_list[j] + 1 ELSE jobs_in_node_list[j]
        BY <1>9, <1>10
    <2> HIDE DEF j0
    <2> QED BY <2>1, <2>3, <2>4, <2>5, Zenon
<1>12. CountsAgree'
    BY <1>4, <1>5, <1>6, <1>7, <1>11, Zenon DEF CountsAgree
<1> QED BY <1>3, <1>7, <1>9, <1>10, <1>12

(* jobs_in_node_list counts the contexts of each job. *)
JobsCounted(list, jobs) ==
    \A j \in Jobs : jobs[j] = Cardinality({i \in Contexts : list[i].k[1] = j})

(* When one job is counted, any two contexts are of it. *)
LEMMA OneJob ==
    ASSUME NEW list, NEW jobs, JobsCounted(list, jobs), num_jobs_in_node(jobs) = 1,
           NEW a \in Contexts, NEW b \in Contexts, list[a].k[1] \in Jobs, list[b].k[1] \in Jobs
    PROVE  list[a].k[1] = list[b].k[1]
<1> DEFINE G == {j \in Jobs : jobs[j] > 0}
           f == [i \in Contexts |-> list[i].k[1]]
           T == {f[i] : i \in Contexts}
           J(j) == {i \in Contexts : list[i].k[1] = j}
<1>1. IsFiniteSet(T)
    <2>1. f \in Surjection(Contexts, T)
        BY DEF Surjection
    <2> HIDE DEF f, T
    <2> QED BY <2>1, PlaceFacts, FS_Surjection
<1>2. \A j \in Jobs : IsFiniteSet(J(j)) /\ Cardinality(J(j)) \in Nat
    BY PlaceFacts, FS_Subset, FS_CardinalityType
<1>3. \A j \in Jobs : jobs[j] > 0 <=> J(j) # {}
    <2> SUFFICES ASSUME NEW j \in Jobs PROVE jobs[j] > 0 <=> J(j) # {}
        OBVIOUS
    <2>1. Cardinality(J(j)) = 0 <=> J(j) = {}
        BY <1>2, FS_EmptySet
    <2>2. jobs[j] = Cardinality(J(j))
        BY Zenon DEF JobsCounted
    <2> HIDE DEF J
    <2> QED BY <1>2, <2>1, <2>2
<1>4. G \subseteq T /\ list[a].k[1] \in G /\ list[b].k[1] \in G
    BY <1>3
<1>5. Cardinality(G) = 1
    BY DEF num_jobs_in_node
<1> HIDE DEF G, T
<1>6. IsFiniteSet(G)
    BY <1>1, <1>4, FS_Subset
<1>7. PICK x : G = {x}
    BY <1>5, <1>6, FS_Singleton, Zenon
<1> QED BY <1>4, <1>7

(* A context is made. *)
LEMMA NewStep == ASSUME ContextInv, FewJobs', NEW t \in Threads, new_context(t) PROVE ContextInv'
<1> DEFINE w == th[t]
           cc == w.cc
           list == current_ear_app
           alone == num_jobs_in_node(add_job_in_node(w.k[1])) = 1
           made == t = "remote"
           c == [k |-> w.k, job_created |-> made, master_pid |-> FALSE, finished |-> FALSE,
                 local_ids |-> 0, exclusive |-> alone]
           next == Resumes(w, w.then)
<1>1. /\ w.pc = "create" /\ ~w.stale
      /\ list' = [list EXCEPT ![cc] = c]
      /\ max_context_created' = Max({max_context_created, cc})
      /\ num_contexts' = num_contexts + 1
      /\ shared_eard_joblist' = [shared_eard_joblist EXCEPT ![cc] = w.k]
      /\ jobs_in_node_list' = add_job_in_node(w.k[1])
      /\ GoesAndSpoils(t, next, cc) /\ UNCHANGED connections
    BY Zenon DEF new_context
<1>2. w \in Thread /\ w.k \in Apps /\ w.want \in Apps /\ cc \in Contexts \ {0} /\ list[cc] = NULL
    <2>1. w.stale = FALSE
        BY <1>1, InvFacts, Zenon DEF Thread
    <2> QED BY <1>1, <2>1, InvFacts, Zenon DEF HoldsWhatItFound, Holding
<1>3. alone = (num_jobs_in_node(jobs_in_node_list') = 1)
    BY <1>1, Zenon
<1>4. alone \in BOOLEAN /\ made \in BOOLEAN
    OBVIOUS
<1> HIDE DEF w, cc, alone, made
<1>5. c \in Context(Apps) /\ c.k = w.k /\ c.exclusive = alone
    BY <1>2, <1>4 DEF Context
<1> HIDE DEF c
<1>6. /\ CountsAgree' /\ ContextsTyped(list')
      /\ DOMAIN shared_eard_joblist' = Contexts /\ DOMAIN jobs_in_node_list' = Jobs
    BY <1>1, <1>2, <1>5, CountsGrow, Zenon
<1>7. DOMAIN list = Contexts
    BY DEF ContextInv, ContextsTyped
<1>8. \A i \in Contexts : list'[i] = IF i = cc THEN c ELSE list[i]
    BY <1>1, <1>2, <1>7
<1>9. ExclusiveJob'
    <2> SUFFICES ASSUME NEW i \in Contexts \ {0}, NEW j \in Contexts \ {0}, list'[i] # NULL, list'[j] # NULL,
                        list'[i].exclusive, list'[j].exclusive
                 PROVE  list'[i].k[1] = list'[j].k[1]
        BY DEF ExclusiveJob, Here
    <2>1. list'[i].k \in Apps /\ list'[j].k \in Apps
        BY <1>6, ContextFacts
    <2>2. list'[i].k[1] \in Jobs /\ list'[j].k[1] \in Jobs
        BY <2>1, StepsAreNot
    <2>3. CASE i = cc \/ j = cc
        <3>1. num_jobs_in_node(jobs_in_node_list') = 1
            BY <1>3, <1>5, <1>8, <2>3, Zenon
        <3>2. JobsCounted(list', jobs_in_node_list')
            BY <1>6 DEF CountsAgree, JobsCounted
        <3> QED BY <2>2, <3>1, <3>2, OneJob
    <2>4. CASE i # cc /\ j # cc
        BY <1>8, <2>4 DEF ContextInv, ExclusiveJob, Here
    <2> QED BY <2>3, <2>4
<1>10. HoldsWhatItFound(next, list')
    <2>1. w.then \in {"quiet", "finish", "mark", "new_job", "again"}
        BY <1>2 DEF Thread
    <2> QED BY <1>2, <2>1, ResumesHolds
<1> HIDE DEF next
<1>11. th' \in [Threads -> Thread] /\ \A u \in Threads : HoldsWhatItFound(th'[u], list')
    <2>1. \A i \in Contexts \ {cc} : list'[i] = current_ear_app[i]
        BY <1>8
    <2> QED BY <1>1, <1>2, <1>10, <2>1, SpoilsHolds, Zenon
<1>12. ConnectionsOK'
    BY <1>1, ConnectionsStay, Zenon DEF ContextInv
<1> QED BY <1>6, <1>9, <1>11, <1>12 DEF ContextInv
-----------------------------------------------------------------------------
(* EARD starts with the idle context. *)
LEMMA ContextsStart == Init => ContextInv
<1> SUFFICES ASSUME Init PROVE ContextInv
    OBVIOUS
<1> DEFINE idle == [k |-> IDLE, job_created |-> FALSE, master_pid |-> FALSE, finished |-> FALSE,
                    local_ids |-> 0, exclusive |-> FALSE]
           list == current_ear_app
<1>1. list = [i \in Contexts |-> IF i > 0 THEN NULL ELSE idle]
    BY Zenon DEF Init
<1>2. idle \in Context({IDLE}) /\ idle.finished = FALSE /\ idle.master_pid = FALSE /\ idle.k = IDLE /\ idle # NULL
    <2>1. idle \in Context({IDLE}) /\ idle.finished = FALSE /\ idle.master_pid = FALSE /\ idle.k = IDLE
        BY DEF Context
    <2> HIDE DEF idle
    <2>2. idle # NULL
        BY <2>1, StepsAreNot
    <2> QED BY <2>1, <2>2
<1> HIDE DEF idle
<1>3. list[0] = idle /\ \A i \in Contexts \ {0} : list[i] = NULL
    <2>1. \A i \in Contexts \ {0} : i > 0
        BY PlaceFacts
    <2> QED BY <1>1, <2>1, PlaceFacts
<1>4. ContextsTyped(list)
    BY <1>1, <1>2, <1>3 DEF ContextsTyped
<1>5. ConnectionsOK
    <2>1. FreeSlot \in Connection /\ FreeSlot.fd = 0
        BY DEF FreeSlot, Connection
    <2> QED BY <2>1 DEF Init, ConnectionsOK
<1>6. Quiet \in Thread
    BY DEF Quiet, Thread
<1>7. th \in [Threads -> Thread] /\ \A t \in Threads : HoldsWhatItFound(th[t], list)
    BY <1>6, QuietHolds DEF Init
<1>8. {i \in Contexts : Here(i)} = {0}
    BY <1>2, <1>3, PlaceFacts, Zenon DEF Here
<1>9. Cardinality({0}) = 1 /\ Max({0}) = 0
    BY FS_Singleton, MaxPlace, {0} \subseteq Int, 0 \in {0}, \A y \in {0} : y <= 0, Zenon
<1>10. \A j \in Jobs : {i \in Contexts : list[i].k[1] = j} = {}
    BY <1>2, <1>3, StepsAreNot
<1>11. CountsAgree
    <2>1. \A i \in Contexts : shared_eard_joblist[i] = IF Here(i) THEN list[i].k ELSE IDLE
        BY <1>2, <1>3 DEF Init, Here
    <2>2. \A j \in Jobs : jobs_in_node_list[j] = Cardinality({i \in Contexts : list[i].k[1] = j})
        BY <1>10, FS_EmptySet, Zenon DEF Init
    <2> QED BY <1>8, <1>9, <2>1, <2>2, Zenon DEF Init, CountsAgree
<1>12. ExclusiveJob
    BY <1>3 DEF ExclusiveJob, Here
<1> QED BY <1>4, <1>5, <1>7, <1>11, <1>12 DEF Init, ContextInv

(* Whatever a thread, the monitor, the scheduler or a program does. *)
LEMMA ContextsStep == ContextInv /\ FewJobs' /\ [Next]_vars => ContextInv'
<1> SUFFICES ASSUME ContextInv, FewJobs', [Next]_vars PROVE ContextInv'
    OBVIOUS
<1>1. CASE remote
    BY <1>1, NewJobStep, EndRequestStep, TaskRequestStep, TaskStep, MarkJobStep, FinishStep DEF remote
<1>2. CASE main
    BY <1>2, ConnectStep, CloseStep, FindStep, InitStep, FinalizeStep DEF main
<1>3. ASSUME NEW t \in Threads, either(t) PROVE ContextInv'
    <2>1. CASE Breaks(t)
        BY <2>1, NothingHappens DEF Breaks
    <2> QED BY <1>3, <2>1, PlaceStep, NewStep, EndStep, TestStep, SettleStep DEF either
<1>4. CASE env
    <2>1. UNCHANGED <<contexts, connections, th>>
        BY <1>4, Zenon DEF env, submit, start, connect, exit, finish, over, Env
    <2> QED BY <2>1, NothingHappens
<1>5. CASE UNCHANGED vars
    <2>1. UNCHANGED <<contexts, connections, th>>
        BY <1>5 DEF vars
    <2> QED BY <2>1, NothingHappens
<1> QED BY <1>1, <1>2, <1>3, <1>4, <1>5, MonitorStep DEF Next

(* The invariant of the contexts holds throughout. *)
LEMMA ContextsAlways == Spec /\ []FewJobs => []ContextInv
BY ContextsStart, ContextsStep, PTL DEF Spec

(* For any number of jobs, contexts, connections and failures, and whatever the two threads *)
(* find of what the other one leaves: as long as jobs_in_node_list has room, the counters   *)
(* that powermon_new_job and powermon_end_job keep up to date one by one say the same as    *)
(* the contexts.                                                                            *)
THEOREM CountersAgree == Spec /\ []FewJobs => []CountsAgree
<1>1. ContextInv => CountsAgree
    BY DEF ContextInv
<1> QED BY <1>1, ContextsAlways, PTL

(* Contexts that are exclusive are of one job, although update_pmapps looks at them later. *)
THEOREM ExclusiveIsOneJob == Spec /\ []FewJobs => []ExclusiveJob
<1>1. ContextInv => ExclusiveJob
    BY DEF ContextInv
<1> QED BY <1>1, ContextsAlways, PTL
=============================================================================
