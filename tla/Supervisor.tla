----------------------------- MODULE Supervisor -----------------------------
(***************************************************************************)
(* The Linux daemon as a whole: the control commands, the maintenance pass *)
(* (reap, restarts and timeouts, termination polling, quit and reload) and *)
(* the dependency runtime, over programs whose processes exit, fork and    *)
(* report ready as they like.                                              *)
(*                                                                         *)
(* The daemon is one thread.  A command is handled in one step, at pc =    *)
(* "idle"; a maintenance pass takes three: "idle" -> "tick" -> "quit" ->   *)
(* "idle", and processes may act between them.  Client commands cannot.    *)
(*                                                                         *)
(* Everything the C++ handlers read and write is one record s, threaded    *)
(* through operators named after the functions.  Wall-clock conditions     *)
(* (restart delays, start, heartbeat and kill timeouts) are choices made   *)
(* when the code looks at the clock; so are the outcome of a fork, whether *)
(* the restart policy suppresses a restart and whether the client that is  *)
(* waiting for a restart is still connected.  The choices of one step are  *)
(* a record e.                                                             *)
(***************************************************************************)
EXTENDS DependencyRuntime, TerminationJob, SequencesExt

CONSTANTS
  Configured,    \* the program list of the configuration file, in order
  Daemon,        \* Daemon[p]: restart p automatically when it exits
  StartTimed,    \* StartTimed[p]: start_timeout >= 0
  Heartbeat,     \* Heartbeat[p]: heartbeat_timeout > 0
  FailureAction, \* FailureAction[p]: "skip", "restart" or "reboot"
  SpawnOutcomes, \* how a fork may end: "ok", "early" or "late" failure
  Suppresses,    \* whether the restart policy may suppress a restart
  Forks,         \* the programs that may have descendants
  Ops,           \* the commands clients send
  MaxLaunch      \* bound: MaxLaunch[p] successful launches of p

ASSUME ConfiguredAssumption ==
  /\ Configured \in Seq(Node)
  /\ \A i \in DOMAIN Configured : Deps[Configured[i]] \subseteq {Configured[j] : j \in 1 .. (i - 1)}
ASSUME ProgramAssumption ==
  /\ Daemon \in [Node -> BOOLEAN] /\ StartTimed \in [Node -> BOOLEAN]
  /\ Heartbeat \in [Node -> BOOLEAN]
  /\ FailureAction \in [Node -> {"skip", "restart", "reboot"}]
ASSUME ChoiceAssumption ==
  /\ SpawnOutcomes \subseteq {"ok", "early", "late"} /\ SpawnOutcomes # {}
  /\ Suppresses \in BOOLEAN /\ Forks \subseteq Node
  /\ MaxLaunch \in [Node -> Nat]

VARIABLES
  s,     \* pm_tiny_server_t and the processes it manages
  pc,    \* where the daemon thread is
  save   \* persistence_worker: "idle", "running" or "completed"

vars == <<s, pc, save>>

States == {"NO_RUN", "WAITING_START", "STARTING", "RUNING", "REQUEST_STOP",
           "REQUEST_DELETE", "STOPED", "EXIT", "STARTUP_FAIL", "BLOCKED"}

Stopping == {"REQUEST_STOP", "REQUEST_DELETE"}

NoPid == 0

\* A default managed_process_instance.  pid and tree name a launch of os;
\* the tree handle is active iff tree # NoPid.
NewInstance == [generation |-> 0, pid |-> NoPid, tree |-> NoPid, job |-> NewJob]

NewProg == [state |-> "NO_RUN", instance |-> NewInstance,
            tasks |-> <<>>, restart_pending |-> FALSE]

\* The real processes of each launch: the root and, if any, its descendants.
Launch == [root : {"alive", "zombie", "gone"}, desc : BOOLEAN]

HasProcess(t, p) == t.prog[p].instance.pid # NoPid

Listed(t, p) == \E i \in DOMAIN t.progs : t.progs[i] = p

Closed(list) == \A i \in DOMAIN list : Deps[list[i]] \subseteq ToSet(list)

\* dependency_graph::build: the topological order, earliest in the list first.
topological_order(list) ==
  LET Next1(acc, i) ==
        LET free == SelectSeq(list, LAMBDA p : /\ p \notin ToSet(acc)
                                               /\ Deps[p] \subseteq ToSet(acc))
        IN  Append(acc, Head(free))
  IN  FoldLeft(Next1, <<>>, list)

-----------------------------------------------------------------------------
(* prog_info_t *)

\* prog_info_t::is_tree_empty with the cgroup backend: cgroup.procs does not
\* list zombies.
is_tree_empty(t, p) ==
  LET h == t.prog[p].instance.tree
  IN  h # NoPid => t.os[p][h].root # "alive" /\ ~t.os[p][h].desc

cleanup(t, p) == [t EXCEPT !.prog[p].instance.tree = NoPid]

\* prog_info_t::async_kill_prog.  SIGTERM leaves every process free to exit,
\* which it is anyway.
async_kill_prog(t, p) ==
  LET i == t.prog[p].instance
  IN  [t EXCEPT !.prog[p].state = "REQUEST_STOP",
                !.prog[p].instance.job = request(i.job, i.generation, 0, 1).job]

enqueue_after_termination(t, p, kind) ==
  [t EXCEPT !.prog[p].tasks =
     Append(@, [generation |-> t.prog[p].instance.generation, kind |-> kind])]

\* prog_info_t::plan_automatic_restart
plan_automatic_restart(t, p, e) == [t EXCEPT !.prog[p].restart_pending = p \notin e.suppressed]

\* Mutant: the attempts are forgotten, the scheduled restart is not.
Mut_reset_restart_policy(t, p) == t

reset_restart_policy(t, p) == [t EXCEPT !.prog[p].restart_pending = FALSE]


\* prog_info_t::signal_tree(SIGKILL) reaching every member of the tree.
kill_tree(t, p) ==
  LET h == t.prog[p].instance.tree
  IN  IF h = NoPid THEN t
      ELSE [t EXCEPT !.os[p][h] =
              [root |-> IF @.root = "alive" THEN "zombie" ELSE @.root, desc |-> FALSE]]

-----------------------------------------------------------------------------
(* pm_tiny_server_t: launching *)

\* pm_tiny_server_t::real_spawn_prog.  An early failure happens before the
\* fork; a late one after begin() (attach, gate, exec handshake), and has
\* used up a generation.  Past the bound MaxLaunch a fork fails, as it may.
SpawnOk(t, p, e) == e.spawn[p] = "ok" /\ Len(t.os[p]) < MaxLaunch[p]

real_spawn_prog(t, p, e) ==
  LET g == t.prog[p].instance.generation + 1
      l == Len(t.os[p]) + 1
  IN  CASE SpawnOk(t, p, e) ->
             [t EXCEPT !.os[p] = Append(@, [root |-> "alive", desc |-> FALSE]),
                       !.prog[p].instance = [generation |-> g, pid |-> l, tree |-> l, job |-> NewJob],
                       !.prog[p].state = "STARTING"]
        [] ~SpawnOk(t, p, e) /\ e.spawn[p] = "late" /\ g <= MaxLaunch[p] ->
             [t EXCEPT !.prog[p].instance = [NewInstance EXCEPT !.generation = g]]
        [] OTHER -> t

\* pm_tiny_server_t::flag_startup_fail
flag_startup_fail(t, p) ==
  LET f == mark_failed(t.rt, p)
  IN  [t EXCEPT !.rt = f.rt,
                !.prog = [q \in Node |->
                   CASE q = p -> [@[q] EXCEPT !.state = "STARTUP_FAIL"]
                     [] q \in f.blocked \ {p} /\ Listed(t, q) -> [@[q] EXCEPT !.state = "BLOCKED"]
                     [] OTHER -> @[q]]]

\* Mutant: a program that has a process is launched again.
Mut_spawn0_again(t, start, e) ==
  LET Step(acc, p) ==
        IF SpawnOk(acc.t, p, e)
        THEN [acc EXCEPT !.t = real_spawn_prog(@, p, e)]
        ELSE [t |-> flag_startup_fail(real_spawn_prog(acc.t, p, e), p),
              failed |-> acc.failed \cup {p}]
  IN  FoldLeft(Step, [t |-> t, failed |-> {}], start)


\* pm_tiny_server_t::spawn0, with the programs that failed.
spawn0(t, start, e) ==
  LET Step(acc, p) ==
        CASE HasProcess(acc.t, p) -> acc
          [] ~HasProcess(acc.t, p) /\ SpawnOk(acc.t, p, e) ->
               [acc EXCEPT !.t = real_spawn_prog(@, p, e)]
          [] OTHER ->
               [t |-> flag_startup_fail(real_spawn_prog(acc.t, p, e), p),
                failed |-> acc.failed \cup {p}]
  IN  FoldLeft(Step, [t |-> t, failed |-> {}], start)

\* progs_from_names, of names in the graph's topological order.
progs_from_names(t, names) ==
  SelectSeq(t.graph, LAMBDA p : p \in names /\ Listed(t, p))

\* pm_tiny_server_t::spawn1
spawn1(t, started, e) ==
  LET Ready(acc, p) ==
        LET r == mark_ready(acc.t.rt, p)
        IN  [t |-> [acc.t EXCEPT !.rt = r.rt],
             start |-> acc.start \o progs_from_names(acc.t, r.start)]
      all == FoldLeft(Ready, [t |-> t, start |-> <<>>], started)
  IN  spawn0(all.t, all.start, e).t

\* pm_tiny_server_t::spawn
spawn(t, e) ==
  LET r == request_all(reset(ToSet(t.graph)))
      waiting == [t EXCEPT !.rt = r.rt,
                           !.prog = [p \in Node |->
                              IF Listed(t, p) THEN [@[p] EXCEPT !.state = "WAITING_START"] ELSE @[p]]]
  IN  spawn0(waiting, progs_from_names(waiting, r.start), e).t

\* The loop that shows every pending node of the runtime as waiting.
ShowWaiting(t) ==
  [t EXCEPT !.prog = [p \in Node |->
     IF Listed(t, p) /\ p \in t.rt.nodes /\ t.rt.state[p] = "pending"
     THEN [@[p] EXCEPT !.state = "WAITING_START"] ELSE @[p]]]

\* mark_ready of every running program, in list order; whatever it unblocks
\* is not started here.
MarkRunning(t, rt) ==
  FoldLeft(LAMBDA r, p : IF t.prog[p].state = "RUNING" THEN mark_ready(r, p).rt ELSE r,
           rt, t.progs)

\* pm_tiny_server_t::request_start
request_start(t, p, e) ==
  LET r == request_closure(MarkRunning(t, t.rt), p)
      u == ShowWaiting([t EXCEPT !.rt = r.rt])
  IN  spawn0(u, progs_from_names(u, r.start), e).t

\* pm_tiny_server_t::start_and_add_prog, after validate_and_order_prog_cfgs
\* accepted the new program; on a failed launch the program is dropped again
\* and, if the rest forms a graph, the runtime goes back to the snapshot.
start_and_add_prog(t, p, e) ==
  LET list == Append(t.progs, p)
      r == request_closure(migrate(ToSet(list), t.rt), p)
      u == ShowWaiting([t EXCEPT !.progs = list, !.graph = topological_order(list), !.rt = r.rt,
                                 !.prog[p] = NewProg])
      v == spawn0(u, progs_from_names(u, r.start), e)
      dropped == [v.t EXCEPT !.progs = t.progs, !.prog[p] = NewProg]
  IN  CASE v.failed = {} -> v.t
        [] v.failed # {} /\ Closed(t.progs) ->
             [dropped EXCEPT !.graph = topological_order(t.progs),
                             !.rt = migrate(ToSet(t.progs), t.rt)]
        [] OTHER -> dropped

\* pm_tiny_server_t::remove_prog with rebuild_dependency_graph: if the rest
\* does not form a graph the old one stays.
remove_prog(t, p) ==
  LET u == [t EXCEPT !.progs = SelectSeq(@, LAMBDA q : q # p), !.prog[p] = NewProg]
  IN  IF Closed(u.progs)
      THEN [u EXCEPT !.graph = topological_order(u.progs), !.rt = MarkRunning(u, reset(ToSet(u.progs)))]
      ELSE u

-----------------------------------------------------------------------------
(* Continuations of a termination *)

\* The bodies of the tasks that stop, delete, restart, an automatic restart
\* and a timeout restart leave behind.  The first two only answer the client.
\* A restart whose client has gone, or that finds the server exiting, is not
\* carried out; one that fails to launch is only reported.
RunTask(t, p, kind, e) ==
  CASE kind \in {"stop", "delete"} -> t
    [] kind = "restart" ->
         IF p \in e.gone \/ t.exit \/ HasProcess(t, p) THEN t ELSE real_spawn_prog(t, p, e)
    [] kind = "auto" ->
         [plan_automatic_restart(t, p, e) EXCEPT !.prog[p].state =
            IF p \in e.suppressed THEN "STOPED" ELSE "WAITING_START"]
    [] kind = "timeout" ->
         IF p \in e.suppressed
         THEN flag_startup_fail(plan_automatic_restart(t, p, e), p)
         ELSE [plan_automatic_restart(t, p, e) EXCEPT !.prog[p].state = "WAITING_START"]

\* prog_info_t::execute_penddingtasks
execute_penddingtasks(t, p, e) ==
  LET g == t.prog[p].instance.generation
      Run(u, task) ==
        IF task.generation = g /\ u.prog[p].instance.generation = g
        THEN RunTask(u, p, task.kind, e) ELSE u
  IN  [FoldLeft(Run, t, t.prog[p].tasks) EXCEPT !.prog[p].tasks = <<>>]

\* pm_tiny_server_t::request_quit
request_quit(t, e) ==
  LET known == SelectSeq(Reverse(t.graph), LAMBDA p : Listed(t, p))
      order == known \o SelectSeq(t.progs, LAMBDA p : p \notin ToSet(known))
      Quit(u, p) ==
        LET v == reset_restart_policy(u, p)
            w == IF HasProcess(v, p)
                 THEN execute_penddingtasks(async_kill_prog(v, p), p, e) ELSE v
        IN  IF w.prog[p].state = "WAITING_START"
            THEN [w EXCEPT !.prog[p].state = "NO_RUN"] ELSE w
  IN  IF t.exit THEN t ELSE FoldLeft(Quit, [t EXCEPT !.exit = TRUE], order)

-----------------------------------------------------------------------------
(* The choices of a step *)

HasTask(t, p, kinds) == \E i \in DOMAIN t.prog[p].tasks : t.prog[p].tasks[i].kind \in kinds

\* Only programs that can meet a choice in state t are given it: a program
\* with a living root is not launched or restarted in this step.
StepChoices(t) ==
  LET Rooted(p) == HasProcess(t, p) /\ t.os[p][t.prog[p].instance.pid].root = "alive"
      Zombie(p) == HasProcess(t, p) /\ ~Rooted(p)
      some == CHOOSE o \in SpawnOutcomes : TRUE
  IN  [spawn : {f \in [Node -> SpawnOutcomes] : \A p \in Node : Rooted(p) => f[p] = some},
       suppressed : SUBSET {p \in Node : /\ Suppresses
                                          /\ \/ Daemon[p] /\ Zombie(p)
                                             \/ HasTask(t, p, {"auto", "timeout"})},
       gone : SUBSET {p \in Node : HasTask(t, p, {"restart"})}]

\* The client of a command in progress is connected.
Connected(t) == {e \in StepChoices(t) : e.gone = {}}

-----------------------------------------------------------------------------
(* Control commands: handle_frame *)

Command(op) == pc = "idle" /\ op \in Ops /\ UNCHANGED <<pc, save>>

\* stop
Stop(p) ==
  /\ Command("stop") /\ Listed(s, p) /\ s.prog[p].tasks = <<>> /\ ~s.exit
  /\ LET t == reset_restart_policy(s, p) IN
       s' = IF HasProcess(t, p)
            THEN enqueue_after_termination(async_kill_prog(t, p), p, "stop")
            ELSE [t EXCEPT !.prog[p].state = "STOPED", !.rt = mark_idle(@, p)]

\* start of a program in the list: handle_cmd_start, start_mode::existing
Start(p) ==
  /\ Command("start") /\ ~s.exit /\ Listed(s, p) /\ ~HasProcess(s, p)
  /\ \E e \in Connected(s) : s' = request_start(reset_restart_policy(s, p), p, e)

\* start of a program that is not in the list, with its definition
StartNew(p) ==
  /\ Command("start_new") /\ ~s.exit /\ ~Listed(s, p) /\ Closed(Append(s.progs, p))
  /\ \E e \in Connected(s) : s' = start_and_add_prog(s, p, e)

\* remove
Delete(p) ==
  /\ Command("delete") /\ Listed(s, p) /\ dependents(s.rt.nodes, p) = {}
  /\ s.prog[p].tasks = <<>> /\ ~s.exit
  /\ s' = IF HasProcess(s, p)
          THEN enqueue_after_termination(
                 [async_kill_prog(s, p) EXCEPT !.prog[p].state = "REQUEST_DELETE"], p, "delete")
          ELSE remove_prog([s EXCEPT !.rt = IF s.prog[p].state = "WAITING_START"
                                            THEN mark_idle(@, p) ELSE @], p)

\* restart: the policy is reset even if the command is then refused.
Restart(p) ==
  /\ Command("restart") /\ Listed(s, p)
  /\ LET t == reset_restart_policy(s, p) IN
       IF t.prog[p].tasks # <<>> THEN s' = t
       ELSE IF HasProcess(t, p)
       THEN s' = enqueue_after_termination(async_kill_prog(t, p), p, "restart")
       ELSE \E e \in Connected(s) : s' = RunTask(t, p, "restart", e)

\* app_ready, from a process in the tree of the current generation
\* (heartbeat_peer_matches).
AppReady(p) ==
  /\ pc = "idle" /\ Listed(s, p) /\ HasProcess(s, p) /\ ~is_tree_empty(s, p)
  /\ s.prog[p].state = "STARTING"
  /\ \E e \in StepChoices(s) : s' = spawn1([s EXCEPT !.prog[p].state = "RUNING"], <<p>>, e)
  /\ UNCHANGED <<pc, save>>

\* quit; a termination signal takes the same path (check_delayed_exit_sig).
Quit ==
  /\ Command("quit")
  /\ \E e \in StepChoices(s) : s' = request_quit(s, e)

\* reload, with a configuration file that parse_cfg2 accepted
Reload ==
  /\ Command("reload") /\ ~s.exit /\ save = "idle"
  /\ \E e \in StepChoices(s) : s' = request_quit([s EXCEPT !.reload = <<Configured>>], e)

\* save: begin_save_proc_to_cfg
Save ==
  /\ pc = "idle" /\ "save" \in Ops
  /\ ~(s.exit /\ s.reload # <<>>) /\ save = "idle"
  /\ save' = "running"
  /\ UNCHANGED <<s, pc>>

-----------------------------------------------------------------------------
(* The maintenance pass *)

\* check_delayed_chld_sig for one reaped root.  acc collects the lists that
\* are worked off when all children have been reaped.
ReapOne(acc, p, e) ==
  LET h == acc.t.prog[p].instance.pid
      st == acc.t.prog[p].state
      t == [acc.t EXCEPT !.rt = mark_idle(@, p), !.os[p][h].root = "gone",
                         !.prog[p].instance.pid = NoPid]
      i == t.prog[p].instance
      draining == mark_tree_draining(i.job, i.generation, 0, 1).job
      auto == IF Daemon[p] /\ st \notin Stopping
              THEN enqueue_after_termination(t, p, "auto") ELSE t
      clean == cleanup(t, p)
      restarts == Daemon[p] /\ st \notin Stopping /\ p \notin e.suppressed
      exited == CASE st = "REQUEST_STOP" -> "STOPED"
                  [] st # "REQUEST_STOP" /\ (st = "REQUEST_DELETE" \/ ~Daemon[p]) -> "EXIT"
                  [] OTHER -> IF restarts THEN "WAITING_START" ELSE "STOPED"
  IN  IF ~is_tree_empty(t, p)
      THEN [acc EXCEPT !.t = [auto EXCEPT !.prog[p].instance.job = draining,
                                          !.prog[p].state = "REQUEST_STOP"]]
      ELSE [t |-> [clean EXCEPT !.prog[p].state = exited,
                                !.prog[p].restart_pending =
                                   IF Daemon[p] /\ st \notin Stopping THEN restarts ELSE @],
            starting |-> IF st = "STARTING" /\ ~restarts THEN Append(acc.starting, p) ELSE acc.starting,
            tasks |-> IF st \in Stopping THEN Append(acc.tasks, p) ELSE acc.tasks,
            deleting |-> IF st = "REQUEST_DELETE" THEN Append(acc.deleting, p) ELSE acc.deleting]

\* The SIGCHLD part of check_delayed_chld_sig: reap_all, then the programs
\* that ended while starting, the pending tasks and the removals.
check_delayed_chld_sig(t, e) ==
  LET dead == SelectSeq(t.progs, LAMBDA p : /\ HasProcess(t, p)
                                            /\ t.os[p][t.prog[p].instance.pid].root = "zombie")
      acc == FoldLeft(LAMBDA a, p : ReapOne(a, p, e),
                      [t |-> t, starting |-> <<>>, tasks |-> <<>>, deleting |-> <<>>], dead)
      u == spawn1(acc.t, acc.starting, e)
      v == FoldLeft(LAMBDA a, p : execute_penddingtasks(a, p, e), u, acc.tasks)
  IN  FoldLeft(LAMBDA a, p : remove_prog(a, p), v, acc.deleting)

Reap ==
  /\ pc = "idle"
  /\ \E e \in StepChoices(s) : s' = check_delayed_chld_sig(s, e)
  /\ pc' = "tick"
  /\ UNCHANGED save

-----------------------------------------------------------------------------
\* plan_lifecycle_tick: what may be due in state t.
RestartDue(t) == {p \in ToSet(t.progs) : ~HasProcess(t, p) /\ t.prog[p].restart_pending}

TimeoutDue(t) ==
  {p \in ToSet(t.progs) :
     /\ HasProcess(t, p)
     /\ \/ t.prog[p].state = "STARTING" /\ StartTimed[p]
        \/ t.prog[p].state = "RUNING" /\ Heartbeat[p]}

KillDue(t) ==
  {p \in ToSet(t.progs) :
     t.prog[p].state \in Stopping /\ t.prog[p].instance.job.phase \in {"term_requested", "tree_draining"}}

\* Mutant: restarts that fall due while the server exits are carried out.
Mut_due_restarts(t, due, e) ==
  LET Step(u, p) ==
        IF p \in due /\ u.prog[p].restart_pending /\ ~HasProcess(u, p) /\ is_tree_empty(u, p)
        THEN LET v == [real_spawn_prog(u, p, e) EXCEPT !.prog[p].restart_pending = FALSE]
             IN  IF SpawnOk(u, p, e) THEN v ELSE flag_startup_fail(v, p)
        ELSE u
  IN  FoldLeft(Step, t, t.progs)

\* The scheduled restarts that are due.
due_restarts(t, due, e) ==
  LET Step(u, p) ==
        IF p \in due /\ u.prog[p].restart_pending /\ ~HasProcess(u, p) /\ is_tree_empty(u, p)
        THEN LET v == [real_spawn_prog(u, p, e) EXCEPT !.prog[p].restart_pending = FALSE]
             IN  IF SpawnOk(u, p, e) THEN v ELSE flag_startup_fail(v, p)
        ELSE u
  IN  IF t.exit THEN t ELSE FoldLeft(Step, t, t.progs)

\* decide_lifecycle_timeout and the loop over the timeouts.  ready collects
\* the programs to be announced ready; a reboot ends the loop and, should the
\* machine survive it, the announcement.
Timeouts(t, seen, due) ==
  LET Step(acc, p) ==
        IF p \notin due \/ acc.reboot \/ acc.t.exit \/ ~HasProcess(acc.t, p)
           \/ acc.t.prog[p].instance.generation # seen.prog[p].instance.generation
        THEN acc
        ELSE CASE FailureAction[p] = "skip" ->
                    IF seen.prog[p].state = "STARTING"
                    THEN [acc EXCEPT !.t.prog[p].state = "RUNING", !.ready = Append(@, p)]
                    ELSE acc
               [] FailureAction[p] = "restart" ->
                    [acc EXCEPT !.t = enqueue_after_termination(async_kill_prog(@, p), p, "timeout")]
               [] FailureAction[p] = "reboot" -> [acc EXCEPT !.reboot = TRUE]
  IN  FoldLeft(Step, [t |-> t, ready |-> <<>>, reboot |-> FALSE], seen.progs)

\* The poll loop: poll_termination, the release of a drained program and
\* async_force_kill.
PollLoop(t, due, e) ==
  LET Step(u, p) ==
        LET i == u.prog[p].instance
            r == poll(i.job, i.generation, IF p \in due THEN 1 ELSE 0, is_tree_empty(u, p))
            v == [u EXCEPT !.prog[p].instance.job = r.job]
            forced == force(r.job, i.generation)
        IN  IF u.prog[p].state \notin Stopping THEN u
            ELSE IF i.pid = NoPid /\ is_tree_empty(u, p)
            THEN execute_penddingtasks(cleanup(v, p), p, e)
            ELSE IF r.action = "send_kill" /\ forced.action = "send_kill"
            THEN kill_tree([v EXCEPT !.prog[p].instance.job = forced.job], p)
            ELSE v
  IN  FoldLeft(Step, t, t.progs)

\* The rest of check_delayed_chld_sig, run on every pass.
LifecycleTick(t, restarts, timeouts, kills, e) ==
  LET started == due_restarts(t, restarts, e)
      timed == Timeouts(started, t, timeouts)
      polled == PollLoop(timed.t, kills, e)
  IN  IF timed.reboot THEN polled ELSE spawn1(polled, timed.ready, e)

\* A pass in which every deadline in the given sets has passed.
TickWith(restarts, timeouts, kills) ==
  /\ pc = "tick"
  /\ \E e \in StepChoices(s) : s' = LifecycleTick(s, restarts, timeouts, kills, e)
  /\ pc' = "quit"
  /\ UNCHANGED save

Tick ==
  \E restarts \in SUBSET RestartDue(s), timeouts \in SUBSET TimeoutDue(s), kills \in SUBSET KillDue(s) :
    TickWith(restarts, timeouts, kills)

\* check_quit_or_reload, with get_living_processes_count and swap_reload_config.
Living(t) == {p \in ToSet(t.progs) : HasProcess(t, p) \/ ~is_tree_empty(t, p)}

swap_reload_config(t) ==
  [t EXCEPT !.progs = t.reload[1], !.graph = t.reload[1], !.rt = reset(ToSet(t.reload[1])),
            !.reload = <<>>, !.prog = [p \in Node |-> NewProg]]

check_quit_or_reload ==
  /\ pc = "quit"
  /\ save' = IF save = "completed" THEN "idle" ELSE save
  /\ IF ~s.exit \/ Living(s) # {} \/ save' # "idle"
     THEN pc' = "idle" /\ UNCHANGED s
     ELSE IF s.reload = <<>>
     THEN pc' = "down" /\ UNCHANGED s
     ELSE /\ pc' = "idle"
          /\ \E e \in StepChoices(s) :
               s' = spawn(swap_reload_config([s EXCEPT !.exit = FALSE]), e)

-----------------------------------------------------------------------------
(* The processes and the persistence worker *)

ProcessStep(change) == pc # "down" /\ s' = change /\ UNCHANGED <<pc, save>>

RootExit(p, l) ==
  /\ s.os[p][l].root = "alive"
  /\ ProcessStep([s EXCEPT !.os[p][l].root = "zombie"])

Fork(p, l) ==
  /\ p \in Forks /\ s.os[p][l].root = "alive" /\ ~s.os[p][l].desc
  /\ ProcessStep([s EXCEPT !.os[p][l].desc = TRUE])

DescendantsExit(p, l) ==
  /\ s.os[p][l].desc
  /\ ProcessStep([s EXCEPT !.os[p][l].desc = FALSE])

SaveDone == pc # "down" /\ save = "running" /\ save' = "completed" /\ UNCHANGED <<s, pc>>

\* start(): the configuration has been read and spawn() starts it.
Init ==
  /\ \E e \in [spawn : [Node -> SpawnOutcomes], suppressed : {{}}, gone : {{}}] :
       s = spawn([progs |-> Configured, graph |-> Configured, rt |-> reset({}),
                  prog |-> [p \in Node |-> NewProg], exit |-> FALSE, reload |-> <<>>,
                  os |-> [p \in Node |-> <<>>]], e)
  /\ pc = "idle" /\ save = "idle"

Commands ==
  \/ \E p \in Node : \/ Stop(p) \/ Start(p) \/ StartNew(p) \/ Delete(p)
                     \/ Restart(p) \/ AppReady(p)
  \/ Quit \/ Reload \/ Save

Maintenance == Reap \/ Tick \/ check_quit_or_reload

Processes == \E p \in Node : \E l \in DOMAIN s.os[p] :
               RootExit(p, l) \/ Fork(p, l) \/ DescendantsExit(p, l)

\* The loop has ended.  start() waits for a save still running, and kill_all_prog
\* finds nothing to kill: check_quit_or_reload saw no living program.
Down == pc = "down" /\ UNCHANGED vars

Next == Commands \/ Maintenance \/ SaveDone \/ Processes \/ Down

\* The loop keeps running passes until it ends, kill and restart deadlines pass
\* and saves end.  Nothing is assumed of clients and processes.  (The
\* first two say weak fairness of Maintenance and strong fairness of DueTick
\* without ENABLED: a pass is possible in every state but the last.)
DueTick ==
  /\ pc = "tick"
  /\ \E timeouts \in SUBSET TimeoutDue(s) : TickWith(RestartDue(s), timeouts, KillDue(s))

Fairness ==
  /\ <>(pc = "down") \/ ([]<>(pc = "tick") /\ []<>(pc = "idle"))
  /\ <>[](pc # "tick") \/ []<><<DueTick>>_vars
  /\ WF_vars(SaveDone)

Spec == Init /\ [][Next]_vars /\ Fairness

-----------------------------------------------------------------------------
(* Properties. *)

\* A late failure uses up a generation without a launch.
Generations(p) == 0 .. 2 * MaxLaunch[p]

Instances(p) == [generation : Generations(p), pid : 0 .. MaxLaunch[p], tree : 0 .. MaxLaunch[p],
                 job : Jobs(Generations(p), {0}, {0, 1})]

TaskKinds == {"stop", "delete", "restart", "auto", "timeout"}

TypeOK ==
  /\ pc \in {"idle", "tick", "quit", "down"}
  /\ save \in {"idle", "running", "completed"}
  /\ s.rt \in Runtimes /\ s.rt.nodes = ToSet(s.graph)
  /\ IsInjective(s.progs) /\ ToSet(s.progs) \subseteq Node
  /\ s.exit \in BOOLEAN /\ s.reload \in {<<>>, <<Configured>>}
  /\ \A p \in Node :
       /\ s.prog[p].state \in States
       /\ s.prog[p].instance \in Instances(p)
       /\ s.prog[p].restart_pending \in BOOLEAN
       /\ \A i \in DOMAIN s.prog[p].tasks :
            s.prog[p].tasks[i] \in [generation : Generations(p), kind : TaskKinds]
       /\ Len(s.os[p]) <= MaxLaunch[p]
       /\ \A l \in DOMAIN s.os[p] : s.os[p][l] \in Launch

Root(p, l) == s.os[p][l].root

\* No root process is ever forgotten: every root that has not been waited for
\* is the current process of a program in the list, so at most one launch of
\* a name has a living root.  Delete, reload, restart and a failed start all
\* keep this (instance.begin, close_fds, remove_prog, swap_reload_config).
RootIsTracked ==
  \A p \in Node : \A l \in DOMAIN s.os[p] :
    Root(p, l) # "gone" => Listed(s, p) /\ s.prog[p].instance.pid = l

\* Nothing is launched once the server is exiting, until a reload completes.
NoLaunchWhileExiting ==
  [][s.exit /\ s'.exit => \A p \in Node : Len(s'.os[p]) = Len(s.os[p])]_vars

\* A program that was stopped, has exited or was not run is not waiting to be
\* restarted behind the user's back (reset_restart_policy, due_restarts).
StoppedStaysStopped ==
  \A p \in Node : s.prog[p].state \in {"STOPED", "EXIT", "NO_RUN"} /\ ~s.exit
                    => ~s.prog[p].restart_pending


\* The poll loop, the only place that escalates to SIGKILL, looks at programs
\* in a stopping state only.  A living program that something took out of that
\* state is passed over and is left to end by itself.  That happens to
\*   - a program that quit finds with a timeout restart pending, whose task
\*     sets it to NO_RUN or STARTUP_FAIL (request_quit),
\*   - a dependent that is being stopped when its dependency fails, which sets
\*     it to BLOCKED (flag_startup_fail),
\*   - a program that was restarted before its dependencies were ready and is
\*     being stopped, which the start of another program shows as waiting
\*     (request_start), and
\*   - a program whose root is gone while its tree drains, which a second stop
\*     sets to STOPED (handle_cmd_stop).
PassedOver(p) ==
  /\ p \in Living(s)
  /\ s.prog[p].state \in {"NO_RUN", "STARTUP_FAIL", "BLOCKED", "WAITING_START", "STOPED"}

\* A quit or a reload that never ends has one reason: some living program is
\* passed over for ever.  In every other case the server goes down, or is in
\* service again with the new configuration, whatever the processes do.
QuitCompletes == <>[](s.exit /\ pc # "down") => <>[](\E p \in Node : PassedOver(p))

\* The end of the process tree of p has been asked for, by a command, a
\* timeout or the exit of its root, and is not reached.
Ending(p) == p \in Living(s) /\ s.prog[p].instance.job.phase # "none"


-----------------------------------------------------------------------------
(* What the documentation says and the code does not keep. *)

\* process_tree_termination.md: an accepted delete goes on when the tree is
\* gone.
DeleteCompletes == \A p \in Node : s.prog[p].state = "REQUEST_DELETE" ~> ~Listed(s, p)

=============================================================================
