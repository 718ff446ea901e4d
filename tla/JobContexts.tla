---------------------------- MODULE JobContexts -----------------------------
(***************************************************************************)
(* The jobs of a node as its EARD sees them (daemon/power_monitor.c,       *)
(* eard_node_services.c, remote_api/dynamic_configuration.c).  A context   *)
(* stands for a job step.  The request thread ("remote") makes and ends    *)
(* contexts when the scheduler says so; the main thread ("main") serves    *)
(* the connections of the library and makes a context for a program the    *)
(* scheduler knows nothing of.  Each has a lock per context, but looks a   *)
(* context, or an empty place, up without it.  Messages of the scheduler   *)
(* may be lost, or be read after it has given up on them.                  *)
(***************************************************************************)
EXTENDS Integers, FiniteSets, FiniteSetsExt

CONSTANTS Apps,                \* steps <<job, step>>; step "batch" for the script
          Scenarios,           \* which of Apps come, which without the scheduler, and a bound on faults
          MAX_NESTED_LEVELS,   \* contexts
          MAX_CPUS_SUPPORTED,  \* jobs
          num_local_con,       \* connections of the library
          UINT                 \* 2^32

Jobs == {k[1] : k \in Apps}
Threads == {"remote", "main"}
Contexts == 0 .. MAX_NESTED_LEVELS - 1
Slots == 1 .. num_local_con
NULL == [k |-> <<0, "none">>]
IDLE == <<0, "idle">>

ASSUME JobAssumption ==
    /\ \A k \in Apps : k[1] \in Nat \ {0}
    /\ \A s \in Scenarios : /\ s.come \subseteq Apps /\ s.unscheduled \subseteq s.come
                             /\ \A k \in s.unscheduled : k[2] # "batch"
                             /\ s.faults \in Nat
    /\ {MAX_NESTED_LEVELS, MAX_CPUS_SUPPORTED, num_local_con, UINT} \subseteq Nat \ {0}
    /\ MAX_NESTED_LEVELS > 1

VARIABLES scenario,
          app,                  \* each step, as the scheduler and the system see it
          inbox,                \* requests of the scheduler that wait to be read
          pipe,                 \* steps whose library asks for a connection
          current_ear_app, max_context_created, num_contexts, shared_eard_joblist,
          jobs_in_node_list,    \* contexts counted for each job
          eard_local_conn, fds, \* connections; who is at the other end of a descriptor
          mode,                 \* power cap and frequencies: for an idle node or for jobs
          th,                   \* what each thread is doing
          undefined,            \* memory that was freed, or is of another, was used
          excused,              \* jobs the daemon is not told, or told late, of, and why
          faults

contexts == <<current_ear_app, max_context_created, num_contexts, shared_eard_joblist,
              jobs_in_node_list>>
connections == <<eard_local_conn, fds>>
world == <<scenario, app, inbox, pipe>>
vars == <<world, contexts, connections, mode, th, undefined, excused, faults>>

Alive == {"run", "connected"}
Fault == faults < scenario.faults /\ faults' = faults + 1
Here(i) == current_ear_app[i] # NULL
-----------------------------------------------------------------------------
(* Threads.  th[t] has the request it serves (want), the step it deals with *)
(* now (k), the context it has found (cc), a loop index, what follows the   *)
(* end of a context (then), and whether the other thread has freed, or      *)
(* taken, cc in the meantime (stale).                                       *)

Quiet == [pc |-> "quiet", req |-> "none", want |-> IDLE, k |-> IDLE, cc |-> 0, i |-> 0,
          then |-> "quiet", stale |-> FALSE, finished |-> FALSE, idle |-> FALSE]
Serving(req, k) == [Quiet EXCEPT !.req = req, !.want = k, !.k = k]
Resumes(w, pc) == [Serving(w.req, w.want) EXCEPT !.pc = pc, !.i = w.i]
Holding == {"end", "create", "task", "mpi_init", "mpi_finalize"}

\* Thread t does what next says; the other one, if it holds cc, holds something else.
Goes(t, next) == th' = [th EXCEPT ![t] = IF next.pc = "quiet" THEN Quiet ELSE next]
GoesAndSpoils(t, next, cc) ==
    th' = [u \in Threads |->
             IF u # t THEN [th[u] EXCEPT !.stale = @ \/ (th[u].pc \in Holding /\ th[u].cc = cc)]
             ELSE IF next.pc = "quiet" THEN Quiet ELSE next]

find_context_for_job(k) ==
    LET found == {i \in 0 .. max_context_created : current_ear_app[i].k = k}
    IN  IF found = {} THEN -1 ELSE Min(found)

\* A slip: the idle context, which is always there, counts as a job.
SlipIdle(list, max) == {i \in 0 .. max : list[i] # NULL} = {}
powermon_is_idle(list, max) ==
    LET created == {i \in 0 .. max : list[i] # NULL}
    IN  max = 0 \/ {i \in created : list[i].finished} = created

\* A slip: a job counts from its second context on.
SlipSecond(list) == Cardinality({j \in Jobs : list[j] > 1})
num_jobs_in_node(list) == Cardinality({j \in Jobs : list[j] > 0})
add_job_in_node(j) ==
    IF jobs_in_node_list[j] > 0 \/ num_jobs_in_node(jobs_in_node_list) < MAX_CPUS_SUPPORTED
    THEN [jobs_in_node_list EXCEPT ![j] = @ + 1] ELSE jobs_in_node_list
del_job_in_node(j) ==
    IF jobs_in_node_list[j] > 0 THEN [jobs_in_node_list EXCEPT ![j] = @ - 1] ELSE jobs_in_node_list

powercap_idle_to_run == mode' = "run"
powercap_run_to_idle == mode' = "idle"
-----------------------------------------------------------------------------
(* The end of a context: powermon_end_job, in four steps.                   *)

\* The context is looked up, and the rest follows if there is one.
EndJob(w, k, then) ==
    LET cc == find_context_for_job(k)
    IN  IF cc < 0 THEN Resumes(w, then)
        ELSE [w EXCEPT !.pc = "end", !.k = k, !.cc = cc, !.then = then, !.stale = FALSE]

\* A slip: the context below the highest is taken to be there.
SlipMax(cc) == IF cc # max_context_created THEN max_context_created ELSE cc - 1
HighestWithout(cc) ==
    IF cc # max_context_created THEN max_context_created
    ELSE Max({0} \cup {i \in 0 .. max_context_created : Here(i) /\ i # cc})

end_context(t) ==
    LET w == th[t]
    IN  /\ w.pc = "end" /\ ~w.stale
        /\ current_ear_app' = [current_ear_app EXCEPT ![w.cc] = NULL]
        /\ max_context_created' = HighestWithout(w.cc)
        /\ num_contexts' = num_contexts - 1
        /\ shared_eard_joblist' = [shared_eard_joblist EXCEPT ![w.cc] = IDLE]
        /\ jobs_in_node_list' = del_job_in_node(w.k[1])
        /\ GoesAndSpoils(t, [w EXCEPT !.pc = "ended", !.finished = current_ear_app[w.cc].finished], w.cc)
        /\ UNCHANGED <<world, connections, mode, undefined, excused, faults>>

\* The test that the node is idle; the mode follows it.
end_is_idle(t) ==
    LET w == th[t]
    IN  /\ w.pc = "ended"
        /\ Goes(t, [w EXCEPT !.pc = "settle",
                     !.idle = ~w.finished /\ powermon_is_idle(current_ear_app, max_context_created)])
        /\ UNCHANGED <<world, contexts, connections, mode, undefined, excused, faults>>

\* Connections of a step whose context has ended are closed, and kept as cancelled.
service_close_by_id(k) ==
    LET its == {s \in Slots : eard_local_conn[s].k = k /\ ~eard_local_conn[s].cancelled}
    IN  /\ eard_local_conn' = [s \in Slots |-> IF s \in its THEN [eard_local_conn[s] EXCEPT !.cancelled = TRUE]
                                                ELSE eard_local_conn[s]]
        /\ fds' = [f \in Slots |-> IF \E s \in its : eard_local_conn[s].fd = f THEN IDLE ELSE fds[f]]
        /\ excused' = excused \cup {<<l[1], "mixed">> : l \in {fds[eard_local_conn[s].fd] : s \in its} \ {k, IDLE}}

end_job(t) ==
    LET w == th[t]
    IN  /\ w.pc = "settle"
        /\ IF w.idle THEN powercap_run_to_idle ELSE UNCHANGED mode
        /\ service_close_by_id(w.k)
        /\ Goes(t, Resumes(w, w.then))
        /\ UNCHANGED <<world, contexts, undefined, faults>>

\* finish_pending_contexts: the next one that is marked.
Marked(from) == {i \in from .. max_context_created : Here(i) /\ current_ear_app[i].finished}

finish_pending_contexts ==
    LET w == th["remote"]
        marked == Marked(w.i)
    IN  /\ w.pc = "finish"
        /\ Goes("remote",
                IF marked = {} THEN [Serving(w.req, w.want) EXCEPT !.pc = IF w.req = "new" THEN "new_job" ELSE "quiet"]
                ELSE EndJob([w EXCEPT !.i = Min(marked) + 1], current_ear_app[Min(marked)].k, "finish"))
        /\ UNCHANGED <<world, contexts, connections, mode, undefined, excused, faults>>

\* Contexts are marked, and those marked are finished if there is a new one.
MarkAndFinish(w, which, otherwise) ==
    /\ current_ear_app' = [i \in Contexts |-> IF i \in which THEN [current_ear_app[i] EXCEPT !.finished = TRUE]
                                              ELSE current_ear_app[i]]
    /\ Goes("remote", [w EXCEPT !.pc = IF which = {} THEN otherwise ELSE "finish", !.i = 0])
    /\ UNCHANGED <<max_context_created, num_contexts, shared_eard_joblist, jobs_in_node_list>>

mark_contexts_to_finish_by_jobid ==
    LET w == th["remote"]
        its == {i \in 0 .. max_context_created : current_ear_app[i].k[1] = w.want[1]}
    IN  /\ w.pc = "mark"
        /\ MarkAndFinish(w, IF w.want[2] = "batch" THEN its ELSE {}, "quiet")
        /\ UNCHANGED <<world, connections, mode, undefined, excused, faults>>
-----------------------------------------------------------------------------
(* A new context: powermon_new_job, in two steps.                           *)

new_job(t) ==
    LET w == th[t]
        free == {i \in Contexts : ~Here(i)}
    IN  /\ w.pc = "new_job"
        /\ IF powermon_is_idle(current_ear_app, max_context_created) THEN powercap_idle_to_run
           ELSE UNCHANGED mode
        /\ Goes(t, IF num_contexts = MAX_NESTED_LEVELS \/ free = {} THEN Resumes(w, w.then)
                   ELSE [w EXCEPT !.pc = "create", !.cc = Min(free), !.stale = FALSE])
        /\ UNCHANGED <<world, contexts, connections, undefined, excused, faults>>

new_context(t) ==
    LET w == th[t]
        jobs == add_job_in_node(w.k[1])
    IN  /\ w.pc = "create" /\ ~w.stale
        /\ current_ear_app' = [current_ear_app EXCEPT ![w.cc] =
               [k |-> w.k, job_created |-> t = "remote", master_pid |-> FALSE, finished |-> FALSE,
                local_ids |-> 0, exclusive |-> num_jobs_in_node(jobs) = 1]]
        /\ max_context_created' = Max({max_context_created, w.cc})
        /\ num_contexts' = num_contexts + 1
        /\ shared_eard_joblist' = [shared_eard_joblist EXCEPT ![w.cc] = w.k]
        /\ jobs_in_node_list' = jobs
        /\ GoesAndSpoils(t, Resumes(w, w.then), w.cc)
        /\ UNCHANGED <<world, connections, mode, undefined, excused, faults>>
-----------------------------------------------------------------------------
(* Requests of the scheduler (process_remote_requests).                     *)

Reads(req, k) == /\ th["remote"] = Quiet /\ <<req, k>> \in inbox
                 /\ inbox' = inbox \ {<<req, k>>}
                 /\ UNCHANGED <<scenario, app, pipe, connections, mode, undefined, excused, faults>>

\* Contexts whose first task has gone are ended before a new one is made.
mark_contexts_to_finish_by_pid ==
    {i \in 0 .. max_context_created :
        Here(i) /\ current_ear_app[i].master_pid /\ app[current_ear_app[i].k] \notin Alive}

EAR_RC_NEW_JOB(k) ==
    /\ Reads("new", k)
    /\ MarkAndFinish(Serving("new", k), mark_contexts_to_finish_by_pid, "new_job")

EAR_RC_END_JOB(k) ==
    /\ Reads("end", k)
    /\ Goes("remote", EndJob(Serving("end", k), k, "mark"))
    /\ UNCHANGED contexts

EAR_RC_NEW_TASK(k) ==
    LET cc == find_context_for_job(k)
    IN  /\ Reads("task", k)
        /\ Goes("remote", IF cc < 0 THEN Quiet ELSE [Serving("task", k) EXCEPT !.pc = "task", !.cc = cc])
        /\ UNCHANGED contexts

powermon_new_task ==
    LET w == th["remote"]
    IN  /\ w.pc = "task" /\ ~w.stale
        /\ current_ear_app' = [current_ear_app EXCEPT ![w.cc].master_pid = TRUE]
        /\ Goes("remote", Quiet)
        /\ UNCHANGED <<max_context_created, num_contexts, shared_eard_joblist, jobs_in_node_list,
                       world, connections, mode, undefined, excused, faults>>
-----------------------------------------------------------------------------
(* Connections of the library (eard_local_api).                             *)

FreeSlot == [k |-> IDLE, fd |-> 0, cancelled |-> FALSE]

connect_service(k) ==
    LET free == {s \in Slots : eard_local_conn[s] = FreeSlot}
        fd == Min({f \in Slots : fds[f] = IDLE})
    IN  /\ th["main"] = Quiet /\ k \in pipe
        /\ IF free = {}
           THEN undefined' = TRUE /\ UNCHANGED <<pipe, connections, th>>
           ELSE /\ pipe' = pipe \ {k}
                /\ eard_local_conn' = [eard_local_conn EXCEPT ![Min(free)] =
                                         [k |-> k, fd |-> fd, cancelled |-> FALSE]]
                /\ fds' = [fds EXCEPT ![fd] = k]
                /\ Goes("main", [Quiet EXCEPT !.pc = "find", !.want = k, !.k = k])
                /\ UNCHANGED undefined
        /\ UNCHANGED <<scenario, app, inbox, contexts, mode, excused, faults>>

\* powermon_mpi_init looks for the context, and makes one, once, if there is none.
mpi_init_find ==
    LET w == th["main"]
        cc == find_context_for_job(w.k)
    IN  /\ w.pc \in {"find", "again"}
        /\ Goes("main", IF cc >= 0 THEN [w EXCEPT !.pc = "mpi_init", !.cc = cc, !.stale = FALSE]
                        ELSE IF w.pc = "again" THEN Quiet
                        ELSE [w EXCEPT !.pc = "new_job", !.then = "again"])
        /\ UNCHANGED <<world, contexts, connections, mode, undefined, excused, faults>>

powermon_mpi_init ==
    LET w == th["main"]
    IN  /\ w.pc = "mpi_init" /\ ~w.stale
        /\ current_ear_app' = [current_ear_app EXCEPT ![w.cc].local_ids = (@ + 1) % UINT]
        /\ Goes("main", Quiet)
        /\ UNCHANGED <<max_context_created, num_contexts, shared_eard_joblist, jobs_in_node_list,
                       world, connections, mode, undefined, excused, faults>>

\* The first place that has a descriptor is taken for it.  It is closed when the peer has gone,
\* and when the peer sends something and the place says that the connection was cancelled.
get_local_connection_by_fd(fd) == Min({s \in Slots : eard_local_conn[s].fd = fd})
Closes(fd) == /\ fds[fd] # IDLE
              /\ \/ app[fds[fd]] \notin Alive
                 \/ eard_local_conn[get_local_connection_by_fd(fd)].cancelled

service_close(fd) ==
    LET s == get_local_connection_by_fd(fd)
        k == eard_local_conn[s].k
        cc == find_context_for_job(k)
    IN  /\ th["main"] = Quiet /\ Closes(fd)
        /\ eard_local_conn' = [eard_local_conn EXCEPT ![s] = FreeSlot]
        /\ fds' = [fds EXCEPT ![fd] = IDLE]
        /\ Goes("main", IF cc < 0 THEN Quiet
                        ELSE [Quiet EXCEPT !.pc = "mpi_finalize", !.want = k, !.k = k, !.cc = cc])
        /\ excused' = IF fds[fd] # k THEN excused \cup {<<fds[fd][1], "mixed">>} ELSE excused
        /\ UNCHANGED <<world, contexts, mode, undefined, faults>>

\* A slip: the context of a program that the scheduler does not know of is left.
SlipKeepContext(c) == FALSE
EndsWithConnection(c) == ~c.job_created

\* local_ids is unsigned.
OneLess(n) == (n + UINT - 1) % UINT

powermon_mpi_finalize ==
    LET w == th["main"]
        c == current_ear_app[w.cc]
        ids == OneLess(c.local_ids)
    IN  /\ w.pc = "mpi_finalize" /\ ~w.stale
        /\ current_ear_app' = [current_ear_app EXCEPT ![w.cc].local_ids = ids]
        /\ Goes("main", IF ids = 0 /\ EndsWithConnection(c) THEN EndJob(w, w.k, "quiet") ELSE Quiet)
        /\ UNCHANGED <<max_context_created, num_contexts, shared_eard_joblist, jobs_in_node_list,
                       world, connections, mode, undefined, excused, faults>>

\* A thread that goes on with a context the other one has freed, or a place it has taken.
Breaks(t) ==
    /\ th[t].pc \in Holding /\ th[t].stale
    /\ undefined' = TRUE
    /\ UNCHANGED <<world, contexts, connections, mode, th, excused, faults>>
-----------------------------------------------------------------------------
(* The power monitor: a job is exclusive until another one is in the node.  *)

update_pmapps ==
    LET n == num_jobs_in_node(jobs_in_node_list)
        shared == {i \in 1 .. max_context_created : Here(i) /\ current_ear_app[i].exclusive /\ n # 1}
    IN  /\ n > 0 /\ shared # {}
        /\ current_ear_app' = [i \in Contexts |-> IF i \in shared THEN [current_ear_app[i] EXCEPT !.exclusive = FALSE]
                                                  ELSE current_ear_app[i]]
        /\ UNCHANGED <<max_context_created, num_contexts, shared_eard_joblist, jobs_in_node_list,
                       world, connections, mode, th, undefined, excused, faults>>
-----------------------------------------------------------------------------
(* The scheduler and the programs.  A program is none, asked for (the       *)
(* scheduler waits for the answer to a new job), run, connected, dead,      *)
(* ending (it waits for the request to be read), or over.                   *)

Step(k, to) == app' = [app EXCEPT ![k] = to]
Env == UNCHANGED <<scenario, contexts, connections, mode, th, undefined>>
Alone(k) == \A l \in Apps \ {k} : l[1] # k[1]

\* The script of a job starts first and ends last.
submit(k) ==
    /\ app[k] = "none"
    /\ \A l \in Apps : l[1] = k[1] /\ l[2] = "batch" /\ l # k => app[l] \in Alive
    /\ \/ k \in scenario.unscheduled /\ Step(k, "run") /\ UNCHANGED <<inbox, faults>>
       \/ k \notin scenario.unscheduled /\ Step(k, "asked") /\ inbox' = inbox \cup {<<"new", k>>} /\ UNCHANGED faults
       \/ k \notin scenario.unscheduled /\ Step(k, "run") /\ UNCHANGED inbox /\ Fault
    /\ UNCHANGED <<pipe, excused>> /\ Env

\* The job starts when it is answered; or when the scheduler has waited enough.
start(k) ==
    /\ app[k] = "asked" /\ Step(k, "run") /\ inbox' = inbox \cup {<<"task", k>>}
    /\ \/ /\ <<"new", k>> \notin inbox /\ ~(th["remote"].req = "new" /\ th["remote"].want = k)
          /\ UNCHANGED <<excused, faults>>
       \/ <<"new", k>> \in inbox /\ excused' = excused \cup {<<k[1], "late">>} /\ Fault
    /\ UNCHANGED pipe /\ Env

connect(k) ==
    /\ app[k] = "run" /\ k[2] # "batch"
    /\ Step(k, "connected") /\ pipe' = pipe \cup {k}
    /\ UNCHANGED <<inbox, excused, faults>> /\ Env

exit(k) ==
    /\ app[k] \in Alive /\ k \notin pipe /\ th["main"].want # k
    /\ k[2] = "batch" => \A l \in Apps \ {k} : l[1] = k[1] => app[l] \in {"none", "over"}
    /\ Step(k, IF k \in scenario.unscheduled THEN "over" ELSE "dead")
    /\ UNCHANGED <<inbox, pipe, excused, faults>> /\ Env

\* The end is sent; if it is lost, nothing tells the node of a script, or of a step without one.
finish(k) ==
    /\ app[k] = "dead"
    /\ \/ Step(k, "ending") /\ inbox' = inbox \cup {<<"end", k>>} /\ UNCHANGED <<excused, faults>>
       \/ /\ Step(k, "over") /\ Fault /\ UNCHANGED inbox
          /\ excused' = IF k[2] = "batch" \/ Alone(k) THEN excused \cup {<<k[1], "lost">>} ELSE excused
    /\ UNCHANGED pipe /\ Env

over(k) ==
    /\ app[k] = "ending" /\ Step(k, "over")
    /\ \/ <<"end", k>> \notin inbox /\ UNCHANGED faults
       \/ <<"end", k>> \in inbox /\ Fault
    /\ UNCHANGED <<inbox, pipe, excused>> /\ Env
-----------------------------------------------------------------------------
Init ==
    /\ scenario \in Scenarios
    /\ app = [k \in Apps |-> IF k \in scenario.come THEN "none" ELSE "over"]
    /\ inbox = {} /\ pipe = {}
    /\ current_ear_app = [i \in Contexts |->
           IF i > 0 THEN NULL
           ELSE [k |-> IDLE, job_created |-> FALSE, master_pid |-> FALSE, finished |-> FALSE,
                 local_ids |-> 0, exclusive |-> FALSE]]
    /\ max_context_created = 0 /\ num_contexts = 1
    /\ shared_eard_joblist = [i \in Contexts |-> IDLE]
    /\ jobs_in_node_list = [j \in Jobs |-> 0]
    /\ eard_local_conn = [s \in Slots |-> FreeSlot] /\ fds = [f \in Slots |-> IDLE]
    /\ mode = "idle" /\ th = [t \in Threads |-> Quiet]
    /\ undefined = FALSE /\ excused = {} /\ faults = 0

remote ==
    \/ \E k \in Apps : EAR_RC_NEW_JOB(k) \/ EAR_RC_END_JOB(k) \/ EAR_RC_NEW_TASK(k)
    \/ powermon_new_task \/ mark_contexts_to_finish_by_jobid \/ finish_pending_contexts
main ==
    \/ \E k \in Apps : connect_service(k)
    \/ \E f \in Slots : service_close(f)
    \/ mpi_init_find \/ powermon_mpi_init \/ powermon_mpi_finalize
either(t) == new_job(t) \/ new_context(t) \/ end_context(t) \/ end_is_idle(t) \/ end_job(t) \/ Breaks(t)
env == \E k \in Apps : submit(k) \/ start(k) \/ connect(k) \/ exit(k) \/ finish(k) \/ over(k)

Next == /\ ~undefined
        /\ \/ remote \/ main \/ (\E t \in Threads : either(t))
           \/ update_pmapps
           \/ env
Spec == Init /\ [][Next]_vars
-----------------------------------------------------------------------------
\* Types.
TypeOK ==
    /\ app \in [Apps -> {"none", "asked", "run", "connected", "dead", "ending", "over"}]
    /\ inbox \subseteq {"new", "end", "task"} \X Apps /\ pipe \subseteq Apps
    /\ max_context_created \in Contexts /\ num_contexts \in 1 .. MAX_NESTED_LEVELS
    /\ \A i \in Contexts : Here(i) => current_ear_app[i].local_ids \in 0 .. UINT - 1
    /\ jobs_in_node_list \in [Jobs -> 0 .. MAX_NESTED_LEVELS]
    /\ mode \in {"idle", "run"} /\ faults \in 0 .. scenario.faults
    /\ undefined \in BOOLEAN /\ excused \subseteq Jobs \X {"late", "lost", "mixed"}

\* The counters, the list the library reads and the list of jobs say the same as the contexts,
\* whatever the threads are doing: those are what new_context, end_context and the power
\* monitor keep up to date one by one.
CountsAgree ==
    /\ num_contexts = Cardinality({i \in Contexts : Here(i)})
    /\ max_context_created = Max({i \in Contexts : Here(i)})
    /\ \A i \in Contexts : shared_eard_joblist[i] = IF Here(i) THEN current_ear_app[i].k ELSE IDLE
    /\ \A j \in Jobs : jobs_in_node_list[j] = Cardinality({i \in Contexts : current_ear_app[i].k[1] = j})

Resting == \A t \in Threads : th[t] = Quiet
JobContext(j) == {i \in Contexts : current_ear_app[i].k[1] = j}
Done(j) == /\ \A k \in Apps : k[1] = j => app[k] = "over"
           /\ \A r \in inbox : r[2][1] # j
           /\ \A x \in excused : x[1] # j

\* A job whose steps are over leaves no context, whatever order its messages come in and
\* whatever the library does: what it had is ended by its own end or by that of its script.
Cleaned == \A j \in Jobs :
    Done(j) /\ Resting /\ (\A f \in Slots : fds[f][1] # j) => JobContext(j) = {}

\* Without lost messages, the node is in the mode of jobs as long as it has one.
ModeFollows ==
    (faults = 0 /\ (\A k \in scenario.unscheduled : app[k] = "none") /\ Resting) =>
        (mode = "run" <=> \E j \in Jobs : JobContext(j) # {})

\* The power of the node is given whole to a context that is exclusive: two of them are of one job.
ExclusiveJob == \A i, j \in Contexts \ {0} :
    (Here(i) /\ Here(j) /\ current_ear_app[i].exclusive /\ current_ear_app[j].exclusive)
        => current_ear_app[i].k[1] = current_ear_app[j].k[1]
=============================================================================
