--------------------------- MODULE WindowsDaemon ---------------------------
(***************************************************************************)
(* The Windows daemon (platform/windows): the loop of run_daemon, the      *)
(* control server's asynchronous requests with their pending responses,    *)
(* and programs that live in Job Objects.                                  *)
(*                                                                         *)
(* The daemon is one thread.  A turn of the loop is run_for, poll and the  *)
(* pass over the processes; run_for and poll answer the pending responses  *)
(* that have become due and then run the callbacks that are ready: client  *)
(* requests, the exit of a root process, the end of its output.  So pc     *)
(* goes "ticked" -> "run_for" -> "poll" -> "ticked", one step for the      *)
(* answers (Respond) or the pass (Tick) and any number of callbacks at     *)
(* "run_for" and "poll".  Processes act at any time.                       *)
(*                                                                         *)
(* What the code reads and writes is one record w.  Deadlines that have    *)
(* passed, launches, CTRL_BREAK events, QueryInformationJobObject and      *)
(* TerminateJobObject calls that fail, restarts the policy suppresses and  *)
(* clients that hung up are choices of the step that looks, its record e;  *)
(* late holds the programs whose kill timeout has passed.                  *)
(* The generation of a launch is its index in os: the code numbers the     *)
(* launches of all programs together and compares within one program.  The *)
(* persistence worker is never busy here; it is SaveService.               *)
(***************************************************************************)
EXTENDS DependencyRuntime, TerminationJob, SequencesExt

CONSTANTS
  Configured,    \* the program list of the configuration file, in order
  Daemon,        \* Daemon[p]: restart p automatically when it exits
  StartTimeout,  \* StartTimeout[p]: "zero", "timed" (> 0) or "never" (< 0)
  Heartbeat,     \* Heartbeat[p]: heartbeat_timeout > 0
  FailureAction, \* FailureAction[p]: "skip" or "restart"
  Ops,           \* the commands clients send
  MaxLaunch,     \* bound: launches per program name
  MaxPending     \* bound: clients waiting at a time

ASSUME WindowsAssumption ==
  /\ Configured \in Seq(Node)
  /\ \A i \in DOMAIN Configured : Deps[Configured[i]] \subseteq {Configured[j] : j \in 1 .. (i - 1)}
  /\ Daemon \in [Node -> BOOLEAN] /\ Heartbeat \in [Node -> BOOLEAN]
  /\ StartTimeout \in [Node -> {"zero", "timed", "never"}]
  /\ FailureAction \in [Node -> {"skip", "restart"}]
  /\ MaxLaunch \in Nat /\ MaxPending \in Nat

VARIABLES
  w,     \* processes, config_map, RuntimeControlState, pending_responses
  pc,    \* where the daemon thread is
  told   \* the requests the last step answered with success

vars == <<w, pc, told>>

\* A default ProcessHandle.  seen: root_exit_observed; eof: every log pipe is
\* at its end.
NewHandle == [has_process |-> FALSE, ready |-> FALSE, disable_restart |-> FALSE,
              restart_pending |-> FALSE, generation |-> 0, seen |-> FALSE, eof |-> FALSE,
              termination |-> NewJob, completion_action |-> "automatic"]

Listed(t, p) == \E i \in DOMAIN t.processes : t.processes[i] = p

\* dependency_graph::build accepts the programs G.
Closed(G) == \A p \in G : Deps[p] \subseteq G

Dead(launch) == ~launch.root /\ ~launch.desc

Gone == [root |-> FALSE, desc |-> FALSE]

phase(t, p) == t.proc[p].termination.phase

-----------------------------------------------------------------------------
(* process_runner.cpp *)

\* is_process_tree_empty: the Job Object has no active process.  A query that
\* fails is in poll_program_termination.
is_process_tree_empty(t, p) ==
  t.proc[p].has_process => Dead(t.os[p][t.proc[p].generation])

\* Mutant: only the root process is terminated.
Mut_terminate(t, p) == [t EXCEPT !.os[p][t.proc[p].generation].root = FALSE]

\* TerminateJobObject, and the closing of the last handle of a job
terminate(t, p) == [t EXCEPT !.os[p][t.proc[p].generation] = Gone]

\* What a function that may fail leaves behind, and whether it succeeded
Done(t) == [t |-> t, ok |-> TRUE]
Failed(t) == [t |-> t, ok |-> FALSE]

\* force_terminate_program: the query or TerminateJobObject may fail, which
\* unkilled remembers.
force_terminate_program(t, p, e) ==
  IF p \in e.stubborn THEN Failed([t EXCEPT !.unkilled = @ \cup {p}]) ELSE Done(terminate(t, p))

\* ProcessHandle::reset.  The last handle of the Job Object is closed, which
\* kills what is left in it (JOB_OBJECT_LIMIT_KILL_ON_JOB_CLOSE); cut records
\* that something was left.
reset_handle(t, p) ==
  LET h == t.proc[p]
      u == IF is_process_tree_empty(t, p) THEN t ELSE [terminate(t, p) EXCEPT !.cut = TRUE]
  IN  [u EXCEPT !.late = @ \ {p}, !.unkilled = @ \ {p},
                !.proc[p] = [NewHandle EXCEPT !.generation = h.generation,
                                              !.disable_restart = h.disable_restart,
                                              !.restart_pending = h.restart_pending]]

LaunchOk(t, p, e) == p \notin e.fails /\ Len(t.os[p]) < MaxLaunch

\* launch_program.  A process that cannot be put into its job or resumed is
\* terminated before it ran.  Past the bound a launch fails, as it may.
launch_program(t, p, e) ==
  LET u == reset_handle(t, p)
  IN  IF ~LaunchOk(t, p, e) THEN u
      ELSE [u EXCEPT !.os[p] = Append(@, [root |-> TRUE, desc |-> FALSE]),
                     !.proc[p] = [NewHandle EXCEPT !.has_process = TRUE,
                                                   !.generation = Len(t.os[p]) + 1]]

\* A program has become ready: the new state and what mark_ready unlocked.
become_ready(t, p) ==
  LET r == mark_ready(t.rt, p)
  IN  [t |-> [t EXCEPT !.proc[p].ready = TRUE, !.rt = r.rt], start |-> r.start]

\* A successful launch and what it unlocked.
launch(t, p, e) ==
  LET u == [launch_program(t, p, e) EXCEPT !.rt = mark_starting(@, p)]
  IN  IF StartTimeout[p] = "zero" THEN become_ready(u, p) ELSE [t |-> u, start |-> {}]

fail(t, p) == [t EXCEPT !.rt = mark_failed(@, p).rt]

\* One launch: its result joins the queue, its failure the failures.
enqueue(acc, r) == [acc EXCEPT !.t = r.t, !.queue = @ \o SetToSeq(r.start)]

launch_next(acc, p, e) ==
  IF LaunchOk(acc.t, p, e) THEN enqueue(acc, launch(acc.t, p, e))
  ELSE [acc EXCEPT !.t = fail(launch_program(@, p, e), p), !.failed = @ \cup {p}]

\* schedule_dependency_launch passes over a program without a record and one
\* that has a process.
skips(t, p) == ~Listed(t, p) \/ t.proc[p].has_process

\* schedule_dependency_launch: works off a queue that grows as programs without
\* a start timeout become ready at once.  A program is queued at most once.
schedule_dependency_launch(t, start, e) ==
  LET Step(acc, i) ==
        IF i > Len(acc.queue) \/ skips(acc.t, acc.queue[i]) THEN acc
        ELSE launch_next([acc EXCEPT !.t.proc[acc.queue[i]].disable_restart = FALSE,
                                     !.t.proc[acc.queue[i]].restart_pending = FALSE],
                         acc.queue[i], e)
  IN  FoldLeft(Step, [t |-> t, queue |-> SetToSeq(start), failed |-> {}],
               [i \in 1 .. Cardinality(Node) |-> i])

\* Starts what the readiness of a program unlocked.
schedule_unlocked(r, e) == schedule_dependency_launch(r.t, r.start, e).t

\* Schedules what a runtime operation handed out.
scheduled(t, r, e) == schedule_dependency_launch([t EXCEPT !.rt = r.rt], r.start, e)

request_launch(t, p, e) == scheduled(t, request_closure(t.rt, p), e)

\* rebuild_dependencies: the state of the programs that stay is kept.
rebuild_dependencies(t, G) == [t EXCEPT !.rt = migrate(G, @)]

\* ensure_process_records
ensure_process_records(t, G) ==
  [t EXCEPT !.processes = @ \o SetToSeq({p \in G : ~Listed(t, p)})]

\* request_program_termination: the completion action is the latest one asked
\* for, the deadline the first.  Without CTRL_BREAK the job is terminated, and
\* if that fails so does the request, whose traces stay.
request_program_termination(t, p, action, e) ==
  LET h == t.proc[p]
      r == request(h.termination, h.generation, 0, 1)
      u == [t EXCEPT !.proc[p].termination = r.job, !.proc[p].completion_action = action]
  IN  CASE ~h.has_process -> Done(t)
        [] h.has_process /\ (r.action = "none" \/ p \notin e.deaf) -> Done(u)
        [] OTHER -> force_terminate_program(
                      [u EXCEPT !.proc[p].termination = force(r.job, h.generation).job], p, e)

\* reload and quit ask every program of the graph to end; the requests are
\* independent of each other, so their reverse topological order is not kept.
stop_all(t, e) ==
  FoldLeft(LAMBDA u, p : IF p \in u.rt.nodes /\ u.proc[p].has_process
                         THEN request_program_termination(
                                [u EXCEPT !.proc[p].disable_restart = TRUE], p, "remove", e).t
                         ELSE u,
           t, t.processes)

erase(t, p) ==
  [reset_handle(t, p) EXCEPT !.processes = SelectSeq(@, LAMBDA q : q # p), !.proc[p] = NewHandle]

-----------------------------------------------------------------------------
(* The choices of a step *)

\* Programs whose restart, start or heartbeat timeout may be due.
MayBeDue(t) ==
  {p \in ToSet(t.processes) :
     \/ ~t.proc[p].has_process /\ t.proc[p].restart_pending
     \/ /\ t.proc[p].has_process /\ phase(t, p) = "none"
        /\ \/ ~t.proc[p].ready /\ StartTimeout[p] # "never"
           \/ t.proc[p].ready /\ Heartbeat[p]}

\* Only programs that can meet a choice are given it: one with a living tree
\* is not launched or restarted in this step, CTRL_BREAK is sent once, and a
\* job is terminated without it or when the kill timeout has passed.
Unasked(t) == {p \in Node : t.proc[p].has_process /\ phase(t, p) = "none"}

StepChoices(t) ==
  {[fails |-> f, deaf |-> d, stubborn |-> k] :
     f \in SUBSET {p \in Node : is_process_tree_empty(t, p)},
     d \in SUBSET Unasked(t), k \in SUBSET Unasked(t)}

KillDue(t) == {p \in t.late : t.proc[p].has_process /\ phase(t, p) = "term_requested"}

TickChoices(t) ==
  {[fails |-> f, deaf |-> d, stubborn |-> k, blind |-> q, due |-> o, suppressed |-> s] :
     f \in SUBSET {p \in Node : is_process_tree_empty(t, p)},
     d \in SUBSET Unasked(t), k \in SUBSET (Unasked(t) \cup KillDue(t)),
     q \in SUBSET {p \in Node : t.proc[p].has_process}, o \in SUBSET MayBeDue(t),
     s \in SUBSET {p \in Node : t.proc[p].has_process /\ is_process_tree_empty(t, p) /\ t.proc[p].eof}}
-----------------------------------------------------------------------------
(* Requests: handle_async_request and the handlers of handle_message *)

\* A callback of the pipe server.
Callback == pc \in {"run_for", "poll"} /\ UNCHANGED pc

\* One that does not answer a stop, delete or restart with success
Silent == Callback /\ told' = {}

Request(op) == op \in Ops /\ Callback

Response(cmd, p, g, log) == [cmd |-> cmd, name |-> p, generation |-> g, log |-> log]

\* Past the bound the client hangs up as soon as it has sent its request.
pend(t, r) ==
  IF Cardinality(t.pending) = MaxPending THEN t ELSE [t EXCEPT !.pending = @ \cup {r}]

apply_manual_stop(t, p) ==
  [t EXCEPT !.proc[p].disable_restart = TRUE, !.proc[p].restart_pending = FALSE,
            !.rt = mark_idle(@, p)]

\* handle_async_request: a request for termination that fails is answered with
\* an error and goes no further, one without a process is answered at once, and
\* the others wait.
Refused(r) == ~r.ok /\ w' = r.t /\ told' = {}

AtOnce(t, r) == ~w.proc[r.name].has_process /\ w' = t /\ told' = {r}

Later(t, r) == w.proc[r.name].has_process /\ w' = pend(t, r) /\ told' = {}

\* stop
Stop(p) ==
  /\ Request("stop") /\ Listed(w, p)
  /\ \E e \in StepChoices(w) :
       LET q == request_program_termination(w, p, "remove", e)
           t == apply_manual_stop(q.t, p)
           r == Response("stop", p, w.proc[p].generation, FALSE)
       IN  Refused(q) \/ (q.ok /\ (AtOnce(t, r) \/ Later(t, r)))

\* delete: prepare_delete, the termination request, commit_delete
commit_delete(t, p) ==
  rebuild_dependencies([t EXCEPT !.config_map = @ \ {p}], t.config_map \ {p})

Delete(p) ==
  /\ Request("remove") /\ Listed(w, p)
  /\ p \in w.config_map /\ dependents(w.rt.nodes, p) = {} /\ Closed(w.config_map \ {p})
  /\ \E e \in StepChoices(w) :
       LET q == request_program_termination(w, p, "delete_config", e)
           t == commit_delete(q.t, p)
           r == Response("remove", p, w.proc[p].generation, FALSE)
       IN  Refused(q) \/ (q.ok /\ (AtOnce(erase(t, p), r) \/ Later(t, r)))

\* restart of a program without a process, for a client that follows the log
\* or not: "OK restart scheduled" is sent if no launch failed.
relaunched(r, p, log) ==
  LET g == w.proc[p].generation
  IN  /\ w' = IF log /\ r.failed = {} THEN pend(r.t, Response("restart", p, g, log)) ELSE r.t
      /\ told' = IF ~log /\ r.failed = {} THEN {Response("scheduled", p, g, log)} ELSE {}

Restart(p, log) ==
  /\ Request("restart") /\ Listed(w, p)
  /\ \E e \in StepChoices(w) :
       LET q == request_program_termination(w, p, "restart", e)
       IN  \/ Refused(q)
           \/ q.ok /\ Later(q.t, Response("restart", p, w.proc[p].generation, log))
           \/ ~w.proc[p].has_process /\ relaunched(request_launch(w, p, e), p, log)

\* Every running program that is ready is marked so in the runtime; what that
\* unlocks is not started here.
mark_running(t) ==
  FoldLeft(LAMBDA u, p : IF u.proc[p].has_process /\ (u.proc[p].ready \/ StartTimeout[p] = "zero")
                         THEN [u EXCEPT !.rt = mark_ready(@, p).rt] ELSE u,
           t, t.processes)

\* The common part of handle_start: the graph with p, its record, its launch.
with_program(t, p) ==
  [ensure_process_records(mark_running(rebuild_dependencies(t, t.config_map \cup {p})),
                          t.config_map \cup {p})
     EXCEPT !.config_map = @ \cup {p}]

start_program(t, p, e) == request_launch(with_program(t, p), p, e)

\* start of a defined program: handle_start, start_mode::existing
Start(p) ==
  /\ Request("start") /\ Silent /\ ~w.reload /\ ~w.stop
  /\ p \in w.config_map /\ ~(Listed(w, p) /\ w.proc[p].has_process)
  /\ \E e \in StepChoices(w) :
       LET t == IF Listed(w, p)
                THEN [w EXCEPT !.proc[p].restart_pending = FALSE, !.rt = mark_idle(@, p)] ELSE w
       IN  w' = IF Closed(w.config_map) THEN start_program(t, p, e).t ELSE t

\* start with a definition: handle_start, start_mode::create.  When a launch
\* fails the definition is taken back, and with it the record unless an older
\* process is still in it.
take_back(t, p) ==
  IF t.proc[p].has_process THEN [t EXCEPT !.config_map = @ \ {p}]
  ELSE erase([t EXCEPT !.config_map = @ \ {p}], p)

restore_graph(t) ==
  mark_running(IF Closed(t.config_map) THEN rebuild_dependencies(t, t.config_map) ELSE t)

created(r, p) == IF r.failed = {} THEN r.t ELSE restore_graph(take_back(r.t, p))

Create(p) ==
  /\ Request("create") /\ Silent /\ ~w.reload /\ ~w.stop
  /\ p \notin w.config_map /\ Closed(w.config_map \cup {p})
  /\ \E e \in StepChoices(w) : w' = created(start_program(w, p, e), p)

\* app_ready: handle_app_signal
AppReady(p) ==
  /\ Silent /\ Listed(w, p) /\ w.proc[p].has_process
  /\ \E e \in StepChoices(w) : w' = schedule_unlocked(become_ready(w, p), e)

\* reload, of a configuration that load_program_configs accepts
Reload ==
  /\ Request("reload") /\ Silent /\ ~w.reload /\ ~w.stop
  /\ \E e \in StepChoices(w) :
       w' = pend(stop_all([w EXCEPT !.reload = TRUE], e), Response("reload", "", 0, FALSE))

\* quit; so do the console and service control handlers.
Quit == Request("quit") /\ Silent /\ w' = [w EXCEPT !.stop = TRUE]

\* handle_process_exit, for the current generation (the others are ignored)
RootSeen(p) ==
  /\ Silent /\ w.proc[p].has_process /\ ~w.proc[p].seen
  /\ ~w.os[p][w.proc[p].generation].root
  /\ w' = [w EXCEPT !.proc[p].seen = TRUE]

\* The end of the output: handle_process_log, poll_program_log.  The programs
\* are taken to keep their output open: an end that is seen earlier is only
\* looked at when the tree is empty.
Eof(p) ==
  /\ Silent /\ w.proc[p].has_process /\ is_process_tree_empty(w, p) /\ ~w.proc[p].eof
  /\ w' = [w EXCEPT !.proc[p].eof = TRUE]
-----------------------------------------------------------------------------
(* The loop *)

active(t, p) == t.proc[p].has_process \/ phase(t, p) # "none"

\* Mutant: a deletion is complete once the definition is gone.
Mut_complete(t, r) ==
  CASE r.cmd = "reload" -> ~t.reload
    [] r.cmd = "stop" -> Listed(t, r.name) /\ ~active(t, r.name)
    [] r.cmd = "restart" -> /\ Listed(t, r.name) /\ active(t, r.name)
                            /\ t.proc[r.name].generation # r.generation
    [] r.cmd = "remove" -> r.name \notin t.config_map

\* control_operation::complete, and the condition for reload
complete(t, r) ==
  CASE r.cmd = "reload" -> ~t.reload
    [] r.cmd = "stop" -> Listed(t, r.name) /\ ~active(t, r.name)
    [] r.cmd = "restart" -> /\ Listed(t, r.name) /\ active(t, r.name)
                            /\ t.proc[r.name].generation # r.generation
    [] r.cmd = "remove" -> ~Listed(t, r.name) /\ r.name \notin t.config_map

\* A restart whose client follows the log is answered with an error.
restart_failed(t, r) ==
  /\ r.cmd = "restart" /\ r.log
  /\ Listed(t, r.name) /\ ~t.proc[r.name].has_process /\ t.rt.state[r.name] = "failed"

\* poll_pending_responses
Respond ==
  /\ pc \in {"ticked", "run_for"}
  /\ pc' = IF pc = "ticked" THEN "run_for" ELSE "poll"
  /\ \E gone \in SUBSET w.pending :
       LET heard == w.pending \ gone
       IN  /\ told' = {r \in heard : complete(w, r)}
           /\ w' = [w EXCEPT !.pending = {r \in heard \ told' : ~restart_failed(w, r)}]

\* A restart that is due.  A launch that fails leaves it due.
restart_due(t, p, e) ==
  IF p \notin e.due \/ ~t.proc[p].restart_pending \/ t.shutdown_scheduled \/ t.reload THEN t
  ELSE IF LaunchOk(t, p, e) THEN schedule_unlocked(launch(t, p, e), e)
  ELSE fail(launch_program(t, p, e), p)

\* A start or heartbeat timeout of the generation the plan was made for.
timed_out(t, p, e) ==
  CASE p \notin e.due \/ t.proc[p].seen \/ ~w.proc[p].has_process -> t
    [] p \in e.due /\ FailureAction[p] = "restart" ->
         request_program_termination(t, p, "failure_restart", e).t
    [] p \in e.due /\ FailureAction[p] = "skip" /\ w.proc[p].ready -> t
    [] OTHER -> schedule_unlocked(become_ready(t, p), e)

\* poll_program_termination: nothing is polled when the query fails, and a kill
\* that fails is not repeated, the job being in force_kill_requested.
poll_program_termination(t, p, e) ==
  LET h == t.proc[p]
      r == poll(h.termination, h.generation, IF p \in t.late THEN 1 ELSE 0, is_process_tree_empty(t, p))
      u == [t EXCEPT !.proc[p].termination = r.job]
  IN  CASE p \in e.blind -> Failed(t)
        [] p \notin e.blind /\ r.action = "send_kill" -> force_terminate_program(u, p, e)
        [] OTHER -> Done(u)

\* Whether a completed process is to be launched again.
should_restart(t, p) ==
  /\ ~t.shutdown_scheduled /\ ~t.reload
  /\ \/ t.proc[p].completion_action \in {"restart", "failure_restart"}
     \/ /\ t.proc[p].completion_action = "automatic"
        /\ Daemon[p] /\ ~t.proc[p].disable_restart

\* By hand at once, otherwise as the restart policy says.
plan_restart(t, p, action, e) ==
  CASE action = "restart" -> [t EXCEPT !.proc[p].restart_pending = TRUE]
    [] action # "restart" /\ p \notin e.suppressed ->
         [t EXCEPT !.proc[p].restart_pending = TRUE, !.rt = mark_pending(@, p)]
    [] OTHER -> [t EXCEPT !.proc[p].restart_pending = FALSE,
                          !.rt = IF action = "failure_restart" THEN mark_failed(@, p).rt ELSE @]

finish(t, p, action, ready) ==
  CASE action = "remove" -> [t EXCEPT !.rt = mark_idle(@, p)]
    [] action = "delete_config" -> erase([t EXCEPT !.config_map = @ \ {p}], p)
    [] OTHER -> IF ready THEN t ELSE fail(t, p)

\* The process tree is gone and its output read.
completed(t, p, e) ==
  IF should_restart(t, p)
  THEN plan_restart(reset_handle(t, p), p, t.proc[p].completion_action, e)
  ELSE finish(reset_handle(t, p), p, t.proc[p].completion_action, t.proc[p].ready)

\* Mutant: the exit of the root process is taken for the end of the tree.
Mut_polled(t, p, empty, e) ==
  IF (empty \/ t.proc[p].seen) /\ (t.proc[p].eof \/ t.proc[p].seen) THEN completed(t, p, e) ELSE t

\* After the termination was polled, which found the tree empty or not.
polled(t, p, empty, e) ==
  CASE ~empty /\ t.proc[p].seen /\ phase(t, p) = "none" ->
         request_program_termination(t, p, "automatic", e).t
    [] empty /\ t.proc[p].eof -> completed(t, p, e)
    [] OTHER -> t

look(t, p, e) ==
  LET r == poll_program_termination(t, p, e)
  IN  IF r.ok THEN polled(r.t, p, is_process_tree_empty(t, p), e) ELSE r.t

\* The loop body for one process.
process_pass(t, p, e) ==
  IF t.proc[p].has_process THEN look(timed_out(t, p, e), p, e) ELSE restart_due(t, p, e)

\* A quit is carried out once.
schedule_shutdown(t, e) ==
  IF t.stop /\ ~t.shutdown_scheduled
  THEN stop_all([t EXCEPT !.shutdown_scheduled = TRUE, !.reload = FALSE], e) ELSE t

all_processes_stopped(t) == \A p \in ToSet(t.processes) : ~active(t, p)

\* The configuration of an accepted reload is put in place.
replace_configuration(t) ==
  rebuild_dependencies(
    [FoldLeft(reset_handle, t, t.processes) EXCEPT
       !.config_map = ToSet(Configured), !.processes = Configured,
       !.proc = [p \in Node |-> NewHandle], !.reload = FALSE],
    ToSet(Configured))

start_all(t, e) == scheduled(t, request_all(t.rt), e).t

\* After the pass over the processes; when the loop ends the handles go with it.
settle(t, e) ==
  IF ~all_processes_stopped(t) THEN w' = t /\ pc' = "ticked"
  ELSE IF t.shutdown_scheduled THEN w' = FoldLeft(erase, t, t.processes) /\ pc' = "down"
  ELSE w' = (IF t.reload THEN start_all(replace_configuration(t), e) ELSE t) /\ pc' = "ticked"

TickWith(e) ==
  /\ pc = "poll" /\ told' = {}
  /\ settle(FoldLeft(LAMBDA u, p : process_pass(u, p, e), schedule_shutdown(w, e), w.processes), e)

Tick == \E e \in TickChoices(w) : TickWith(e)

-----------------------------------------------------------------------------
(* The processes and the clock *)

ProcessStep(change) == pc # "down" /\ w' = change /\ told' = {} /\ UNCHANGED pc

RootExit(p, l) == w.os[p][l].root /\ ProcessStep([w EXCEPT !.os[p][l].root = FALSE])

Fork(p, l) ==
  w.os[p][l].root /\ ~w.os[p][l].desc /\ ProcessStep([w EXCEPT !.os[p][l].desc = TRUE])

DescendantsExit(p, l) == w.os[p][l].desc /\ ProcessStep([w EXCEPT !.os[p][l].desc = FALSE])

\* The kill timeout of a termination passes.
KillTimeout(p) ==
  phase(w, p) = "term_requested" /\ p \notin w.late /\ ProcessStep([w EXCEPT !.late = @ \cup {p}])

\* run_daemon: the configuration has been read and its programs are started.
Init ==
  /\ \E fails \in SUBSET Node :
       LET u == [processes |-> Configured, config_map |-> ToSet(Configured),
                 proc |-> [p \in Node |-> NewHandle], rt |-> reset(ToSet(Configured)),
                 os |-> [p \in Node |-> <<>>], reload |-> FALSE, stop |-> FALSE,
                 shutdown_scheduled |-> FALSE, pending |-> {}, late |-> {}, unkilled |-> {}, cut |-> FALSE]
       IN  w = start_all(u, [fails |-> fails])
  /\ pc = "run_for" /\ told = {}

Requests ==
  \/ \E p \in Node : \/ Stop(p) \/ Delete(p) \/ Restart(p, TRUE) \/ Restart(p, FALSE)
                     \/ Start(p) \/ Create(p) \/ AppReady(p)
  \/ Reload \/ Quit

Observations == \E p \in Node : RootSeen(p) \/ Eof(p)

Processes == \E p \in Node : \E l \in DOMAIN w.os[p] :
               RootExit(p, l) \/ Fork(p, l) \/ DescendantsExit(p, l)

\* The loop has ended.
Down == pc = "down" /\ UNCHANGED vars

Next == Requests \/ Observations \/ Respond \/ Tick \/ Processes \/ Down
        \/ \E p \in Node : KillTimeout(p)

\* An empty job whose output has not been read to its end.
Unread(p) ==
  w.proc[p].has_process /\ is_process_tree_empty(w, p) /\ ~w.proc[p].eof

\* A pass in which the job of p is queried with success.
SeeingTick(p) == \E e \in TickChoices(w) : p \notin e.blind /\ TickWith(e)

\* The loop turns until it ends, kill timeouts pass, a pipe without writers
\* reports its end, and no job is queried in vain for ever.  Nothing is assumed
\* of clients and processes, nor of TerminateJobObject.
Fairness ==
  /\ []<>(pc \in {"poll", "down"}) /\ []<>(pc \in {"ticked", "down"})
  /\ \A p \in Node : /\ []<>~(phase(w, p) = "term_requested" /\ p \notin w.late)
                     /\ []<>~Unread(p)
                     /\ []<>(pc = "down") \/ []<><<SeeingTick(p)>>_vars

Spec == Init /\ [][Next]_vars /\ Fairness
-----------------------------------------------------------------------------
(* Properties. *)

Handles == [has_process : BOOLEAN, ready : BOOLEAN, disable_restart : BOOLEAN,
            restart_pending : BOOLEAN, generation : 0 .. MaxLaunch, seen : BOOLEAN, eof : BOOLEAN,
            termination : Jobs(0 .. MaxLaunch, {0}, {0, 1}),
            completion_action : {"automatic", "failure_restart", "restart", "remove", "delete_config"}]

Responses == [cmd : {"stop", "remove", "restart", "scheduled", "reload"}, name : Node \cup {""},
              generation : 0 .. MaxLaunch, log : BOOLEAN]

TypeOK ==
  /\ pc \in {"ticked", "run_for", "poll", "down"}
  /\ IsInjective(w.processes) /\ ToSet(w.processes) \subseteq Node
  /\ w.config_map \subseteq Node /\ w.late \cup w.unkilled \subseteq Node /\ w.rt \in Runtimes /\ w.proc \in [Node -> Handles]
  /\ w.pending \subseteq Responses /\ told \subseteq Responses
  /\ \A p \in Node :
       /\ \A l \in DOMAIN w.os[p] : w.os[p][l] \in [root : BOOLEAN, desc : BOOLEAN]
       /\ w.proc[p].has_process => Listed(w, p) /\ w.proc[p].generation = Len(w.os[p])

\* No process is killed by the closing of its Job Object: whenever a handle is
\* reset, erased or replaced (a relaunch, a delete, a reload, the end of the
\* daemon) its tree has ended by itself or been terminated after its deadline.
NothingCutShort == ~w.cut

\* The runtime does not hand out a program without a process.  It takes it for
\* one that starts or is ready (after an automatic restart that was suppressed,
\* and after the exit of a ready program without daemon, the state is left
\* behind), lets it wait for a dependency, or no longer knows it (a delete
\* whose completion action a later stop has replaced leaves the record).
Withheld(p) ==
  /\ ~w.proc[p].has_process
  /\ p \in w.rt.nodes => w.rt.state[p] \in {"starting", "ready", "pending"}

\* windows_port_status.md: stop, delete and restart are answered with success
\* only when the whole tree of the generation they were sent for, and of every
\* earlier one, is gone; for restart a later generation runs.  The exception is
\* "OK restart scheduled", which is also sent for a program that is Withheld
\* (control_operation::complete, handle_async_request).
AnswersAreTrue ==
  \A r \in told : r.cmd # "reload" =>
    /\ \A l \in 1 .. r.generation : Dead(w.os[r.name][l])
    /\ r.cmd \in {"restart", "scheduled"} =>
         \/ w.proc[r.name].has_process /\ w.proc[r.name].generation > r.generation
         \/ r.cmd = "scheduled" /\ Withheld(r.name)

\* The current tree of p was asked to end and lives.
Ending(p) == phase(w, p) # "none" /\ ~is_process_tree_empty(w, p)

\* A process tree that was asked to end lives on for one reason only: the one
\* call that should have killed it failed (force_terminate_program), which is
\* not repeated.  In every other case CTRL_BREAK, and TerminateJobObject when
\* the kill timeout has passed, end it, whatever is asked meanwhile.
TerminationEnds == \A p \in Node : <>[]Ending(p) => <>[](p \in w.unkilled)

=============================================================================
