------------------------ MODULE DependencyScheduler ------------------------
(***************************************************************************)
(* The dependency runtime driven by the Linux daemon: the calls            *)
(* pm_tiny_server_t makes on it, in any order the life of the programs can *)
(* produce.  A manual or automatic restart spawns a program without asking *)
(* the runtime, so a program in any runtime state can become ready, fail   *)
(* to start or stop.                                                       *)
(***************************************************************************)
EXTENDS DependencyRuntime

VARIABLE rt  \* pm_tiny_server_t::dependency_runtime_

vars == <<rt>>

\* pm_tiny_server_t::spawn, at daemon start and again after each reload:
\* every program of the configuration is requested at once.
spawn == request_all(reset(Node)).rt

Init == rt = spawn

\* The loop at the head of request_start: mark_ready of every running program,
\* one after another, which are ready in the runtime already.  What is held
\* below them is released; what becomes startable is not started here.
Running == SUBSET {n \in Node : rt.state[n] = "ready"}

MarkRunning(running) ==
  LET held == UNION {Held(rt, n) : n \in running} IN collect_startable(Unblocked(rt, held)).rt

\* pm start <name>: pm_tiny_server_t::request_start.
request_start(n) ==
  \E running \in Running : rt' = request_closure(MarkRunning(running), n).rt

\* app_ready, an accepted start timeout, spawn1.
program_ready(n) == rt' = mark_ready(rt, n).rt

\* pm_tiny_server_t::flag_startup_fail.
flag_startup_fail(n) == rt' = mark_failed(rt, n).rt

\* pm_tiny_server_t::mark_dependency_stopped, when the root is reaped or a
\* program without a process is stopped.
mark_dependency_stopped(n) == rt' = mark_idle(rt, n)

Next ==
  \E n \in Node :
    \/ request_start(n)
    \/ program_ready(n)
    \/ flag_startup_fail(n)
    \/ mark_dependency_stopped(n)

\* A program that was told to start reports ready or fails: every program
\* here has a start timeout (start_timeout >= 0).
Outcome(n) == rt.state[n] = "starting" /\ (program_ready(n) \/ flag_startup_fail(n))

Fairness == \A n \in Node : WF_vars(Outcome(n))

Spec == Init /\ [][Next]_vars /\ Fairness

-----------------------------------------------------------------------------
(* Properties. *)

TypeOK == rt \in Runtimes /\ rt.nodes = Node

Waiting(n) == rt.requested[n] /\ rt.state[n] = "pending"

\* No requested program sits waiting while all its dependencies are ready:
\* every operation that can complete a set of dependencies also collects
\* (collect_startable), and the ones that do not collect cannot.
NoLostWakeup == \A n \in Node : Waiting(n) => ~dependencies_ready(rt, n)

\* A waiting program waits for something that can still come: none of its
\* dependencies is failed or blocked (mark_failed, mark_ready and
\* request_dependencies keep this between them).
WaitsForPossible ==
  \A n \in Node : Waiting(n) => \A d \in Deps[n] : rt.state[d] \notin {"failed", "blocked"}

\* A program is handed out to be started only when all its dependencies are
\* ready (collect_startable).
StartsAfterDependencies ==
  [][\A n \in Node : rt'.state[n] = "starting" /\ rt.state[n] # "starting"
                       => dependencies_ready(rt', n)]_vars

=============================================================================
