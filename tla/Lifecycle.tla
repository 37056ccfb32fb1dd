----------------------------- MODULE Lifecycle -----------------------------
(***************************************************************************)
(* One automatically restarted program under the real clock: the restart   *)
(* policy (core/restart_policy.cpp), the start, heartbeat and kill         *)
(* deadlines of a maintenance pass, and the timer the pass arms for the    *)
(* next one (core/lifecycle_orchestrator.cpp, daemon/pm_tiny.cpp).         *)
(*                                                                         *)
(* A pass is "idle" -> "plan" -> "poll" -> "arm" -> "idle".  It begins     *)
(* when the timer expires or earlier, for a SIGCHLD; commands are handled  *)
(* between passes and do not arm the timer.  A pass takes no time: the     *)
(* clock moves at "idle", never past wake.  The one stamp the code keeps   *)
(* for later, that of a root that left descendants behind, is in its task. *)
(*                                                                         *)
(* What Supervisor leaves open (when a deadline has passed, whether a      *)
(* restart is suppressed) is decided here; its dependency graph, quit and  *)
(* reload are left out here.                                               *)
(***************************************************************************)
EXTENDS TerminationJob, Sequences

CONSTANTS
  Configs,      \* the configurations the program may have
  DefaultWait,  \* plan_lifecycle_tick's default_wait_ms
  DrainingWait, \* its draining_wait_ms
  BusyWait,     \* the wait while the persistence worker is busy
  Outcomes,     \* how a launch may end: "ok", "early" or "late" failure, or
                \* "held", not handed out by the dependency runtime
  MaxTime,      \* bound: the clock stops here
  MaxExits      \* bound: exits of the root that the policy has to plan for

ConfigSpace ==
  [delay : Nat, max_delay : Nat, window : Nat, max_attempts : Nat, reset_after : Nat,
   start_timeout : Int, heartbeat : Int, kill_timeout : Nat,
   action : {"skip", "restart", "reboot"}]

ASSUME ConfigsAssumption == Configs \subseteq ConfigSpace
ASSUME WaitAssumption == /\ DefaultWait \in Nat \ {0} /\ DrainingWait \in Nat \ {0}
                         /\ BusyWait \in Nat \ {0}
                         /\ DrainingWait <= DefaultWait /\ BusyWait <= DefaultWait
ASSUME OutcomesAssumption == Outcomes \subseteq {"ok", "early", "late", "held"}
ASSUME BoundAssumption == MaxTime \in Nat /\ MaxExits \in Nat

VARIABLES
  config,     \* the program's configuration
  now,        \* the monotonic clock
  wake,       \* when the maintenance timer expires
  pc,         \* where the daemon thread is
  st,         \* prog_info_t::state
  root,       \* the root of the current generation: "alive", "zombie", "gone"
  desc,       \* it has living descendants
  job,        \* instance.job
  task,       \* the pending task of this generation
  stale,      \* kill_pendingtasks also holds tasks of earlier generations
  policy,     \* restart_policy_state
  pending,    \* restart_pending
  due,        \* restart_due_ms
  launched,   \* last_startup_ms
  tick,       \* last_tick_timepoint
  action_due, \* heartbeat_action_due_ms
  decided,    \* history: stamps of the restarts planned since a user's reset
  relaunched, \* history: when those restarts were carried out
  latest      \* history: the last stamp the policy was asked about, and when

proc_vars == <<st, root, desc, job, task, stale>>
policy_vars == <<policy, pending, due, decided, latest>>
stamp_vars == <<launched, tick, action_due>>
clock_vars == <<config, now, wake>>
vars == <<clock_vars, pc, proc_vars, policy_vars, stamp_vars, relaunched>>

Gen == 1

\* The bodies left in kill_pendingtasks.  An "auto" task holds the time of
\* the root's exit and its life time.
NoTask == [kind |-> "none", at |-> 0, life |-> 0]
Task(kind) == [NoTask EXCEPT !.kind = kind]

NewPolicy == [attempts |-> <<>>, failures |-> 0, suppressed |-> FALSE]

Has_process == root # "gone"
is_tree_empty == root # "alive" /\ ~desc

Min2(a, b) == IF a <= b THEN a ELSE b
Max2(a, b) == IF a >= b THEN a ELSE b

-----------------------------------------------------------------------------
(* The restart policy *)

\* The delay after n consecutive failures: doubled once per failure, capped.
BackOff(n) == Min2(Max2(config.delay, config.max_delay), config.delay * 2^n)

\* The loop that pops expired attempts stops after k of them.
Expired(attempts, at, k) ==
  /\ \A i \in 1 .. k : at - attempts[i] >= config.window
  /\ k < Len(attempts) => at - attempts[k + 1] < config.window

\* Mutant: one attempt too many.
Mut_plan_limit(at, life) ==
  LET known == IF config.reset_after > 0 /\ life >= config.reset_after THEN NewPolicy ELSE policy
  IN  \E k \in 0 .. Len(known.attempts) :
        /\ Expired(known.attempts, at, k)
        /\ LET kept == SubSeq(known.attempts, k + 1, Len(known.attempts))
           IN  IF config.max_attempts > 0 /\ Len(kept) > config.max_attempts
               THEN /\ policy' = [known EXCEPT !.attempts = kept, !.suppressed = TRUE]
                    /\ pending' = FALSE /\ due' = 0 /\ decided' = decided
               ELSE /\ policy' = [attempts |-> Append(kept, at), failures |-> known.failures + 1,
                                  suppressed |-> FALSE]
                    /\ pending' = TRUE /\ due' = at + BackOff(known.failures)
                    /\ decided' = Append(decided, at)
        /\ latest' = [at |-> at, when |-> now]

\* Mutant: a policy that is never to be reset is reset by every life.
Mut_plan_reset(at, life) ==
  LET known == IF life >= config.reset_after THEN NewPolicy ELSE policy
  IN  \E k \in 0 .. Len(known.attempts) :
        /\ Expired(known.attempts, at, k)
        /\ LET kept == SubSeq(known.attempts, k + 1, Len(known.attempts))
           IN  IF config.max_attempts > 0 /\ Len(kept) >= config.max_attempts
               THEN /\ policy' = [known EXCEPT !.attempts = kept, !.suppressed = TRUE]
                    /\ pending' = FALSE /\ due' = 0 /\ decided' = decided
               ELSE /\ policy' = [attempts |-> Append(kept, at), failures |-> known.failures + 1,
                                  suppressed |-> FALSE]
                    /\ pending' = TRUE /\ due' = at + BackOff(known.failures)
                    /\ decided' = Append(decided, at)
        /\ latest' = [at |-> at, when |-> now]

\* prog_info_t::plan_automatic_restart at the stamp at, after a life time.
plan_automatic_restart(at, life) ==
  LET known == IF config.reset_after > 0 /\ life >= config.reset_after THEN NewPolicy ELSE policy
  IN  \E k \in 0 .. Len(known.attempts) :
        /\ Expired(known.attempts, at, k)
        /\ LET kept == SubSeq(known.attempts, k + 1, Len(known.attempts))
           IN  IF config.max_attempts > 0 /\ Len(kept) >= config.max_attempts
               THEN /\ policy' = [known EXCEPT !.attempts = kept, !.suppressed = TRUE]
                    /\ pending' = FALSE /\ due' = 0 /\ decided' = decided
               ELSE /\ policy' = [attempts |-> Append(kept, at), failures |-> known.failures + 1,
                                  suppressed |-> FALSE]
                    /\ pending' = TRUE /\ due' = at + BackOff(known.failures)
                    /\ decided' = Append(decided, at)
        /\ latest' = [at |-> at, when |-> now]

\* prog_info_t::reset_restart_policy; what it means for the history is that
\* counting starts again.
reset_restart_policy ==
  /\ policy' = NewPolicy /\ pending' = FALSE /\ due' = 0
  /\ decided' = <<>> /\ relaunched' = <<>>
  /\ UNCHANGED latest

-----------------------------------------------------------------------------
(* Launching and the pending task *)

\* real_spawn_prog with outcome o: the program is shown as failed if the
\* launch fails and as base if there is none.  A launch that got as far as
\* instance.begin() leaves the pending task to an old generation; clears says
\* that the call comes from execute_penddingtasks, which empties the list.
Launch(o, base, failed, clears, j) ==
  LET began == o \in {"ok", "late"}
  IN  /\ st' = CASE o = "ok" -> "STARTING" [] o = "held" -> base [] OTHER -> failed
      /\ root' = IF o = "ok" THEN "alive" ELSE "gone"
      /\ desc' = (desc /\ ~began)
      /\ job' = IF began THEN NewJob ELSE j
      /\ task' = IF began \/ clears THEN NoTask ELSE task
      /\ stale' = (~clears /\ (stale \/ (began /\ task # NoTask)))
      /\ launched' = IF o = "ok" THEN now ELSE launched
      /\ action_due' = IF o = "ok" THEN 0 ELSE action_due
      /\ UNCHANGED tick

\* The task is done and the list of tasks is empty.
TasksDone(state, j) ==
  /\ st' = state /\ root' = "gone" /\ job' = j
  /\ task' = NoTask /\ stale' = FALSE
  /\ UNCHANGED <<desc, stamp_vars>>

\* execute_penddingtasks of a program shown as base.  A restart whose client
\* has gone launches nothing.
execute_penddingtasks(base, j) ==
  CASE task.kind \in {"none", "stop"} ->
         TasksDone(base, j) /\ UNCHANGED <<policy_vars, relaunched>>
    [] task.kind = "restart" ->
         /\ \E o \in Outcomes : Launch(o, base, base, TRUE, j)
         /\ UNCHANGED <<policy_vars, relaunched>>
    [] task.kind = "auto" ->
         /\ plan_automatic_restart(task.at, task.life)
         /\ TasksDone(IF pending' THEN "WAITING_START" ELSE "STOPED", j)
         /\ UNCHANGED relaunched
    [] task.kind = "timeout" ->
         /\ plan_automatic_restart(now, now - launched)
         /\ TasksDone(IF pending' THEN "WAITING_START" ELSE "STARTUP_FAIL", j)
         /\ UNCHANGED relaunched

\* async_kill_prog and enqueue_after_termination
async_kill_prog(kind) ==
  /\ st' = "REQUEST_STOP"
  /\ job' = request(job, Gen, now, config.kill_timeout).job
  /\ task' = Task(kind)
  /\ UNCHANGED <<root, desc, stale>>

-----------------------------------------------------------------------------
(* Commands, handled between passes *)

Command == pc = "idle" /\ UNCHANGED <<clock_vars, pc>>

Stop ==
  /\ Command /\ task = NoTask /\ ~stale
  /\ reset_restart_policy
  /\ IF Has_process THEN async_kill_prog("stop")
     ELSE st' = "STOPED" /\ UNCHANGED <<root, desc, job, task, stale>>
  /\ UNCHANGED stamp_vars

\* The policy is reset even if the command is then refused.
Restart ==
  /\ Command /\ reset_restart_policy
  /\ IF task # NoTask \/ stale THEN UNCHANGED <<proc_vars, stamp_vars>>
     ELSE IF Has_process THEN async_kill_prog("restart") /\ UNCHANGED stamp_vars
     ELSE \E o \in Outcomes : Launch(o, st, st, FALSE, job)

Start ==
  /\ Command /\ ~Has_process /\ reset_restart_policy
  /\ \E o \in Outcomes : Launch(o, st, "STARTUP_FAIL", FALSE, job)

\* A heartbeat command from a process of the tree: its tick, if the program
\* is shown as state, counts from now.
Heartbeat(state) ==
  /\ Command /\ Has_process /\ ~is_tree_empty /\ st = state
  /\ st' = "RUNING" /\ tick' = now /\ action_due' = 0
  /\ UNCHANGED <<root, desc, job, task, stale, policy_vars, launched, relaunched>>

AppReady == Heartbeat("STARTING")
AppTick == Heartbeat("RUNING")

-----------------------------------------------------------------------------
(* The maintenance pass *)

Pass(from, to) == pc = from /\ pc' = to /\ UNCHANGED config

\* The root has been waited for: close_fds, then the tree.
Reap ==
  /\ Pass("idle", "plan") /\ root = "zombie"
  /\ \/ /\ desc
        /\ st' = "REQUEST_STOP" /\ root' = "gone"
        /\ job' = mark_tree_draining(job, Gen, now, config.kill_timeout).job
        /\ task' = IF st = "REQUEST_STOP" THEN task
                   ELSE [kind |-> "auto", at |-> now, life |-> now - launched]
        /\ UNCHANGED <<desc, stale, policy_vars, stamp_vars, relaunched>>
     \/ /\ ~desc /\ st = "REQUEST_STOP"
        /\ execute_penddingtasks("STOPED", job)
     \/ /\ ~desc /\ st # "REQUEST_STOP"
        /\ plan_automatic_restart(now, now - launched)
        /\ st' = IF pending' THEN "WAITING_START" ELSE "STOPED"
        /\ root' = "gone"
        /\ UNCHANGED <<desc, job, task, stale, stamp_vars, relaunched>>
  /\ UNCHANGED <<now, wake>>

NothingToReap ==
  /\ Pass("idle", "plan") /\ root # "zombie"
  /\ UNCHANGED <<now, wake, proc_vars, policy_vars, stamp_vars, relaunched>>

Starting == Has_process /\ st = "STARTING" /\ config.start_timeout >= 0
Watched == Has_process /\ st = "RUNING" /\ config.heartbeat > 0
Terminating == st = "REQUEST_STOP" /\ job.phase \in {"term_requested", "tree_draining"}
RestartPlanned == ~Has_process /\ pending

start_due == launched + config.start_timeout
heartbeat_due == Max2(tick + config.heartbeat, action_due)

TimedOut == \/ Starting /\ start_due <= now
            \/ Watched /\ heartbeat_due <= now

\* A restart that is due is carried out; whatever comes of it, it is no
\* longer planned.
DueRestart ==
  /\ Pass("plan", "poll")
  /\ RestartPlanned /\ due <= now /\ is_tree_empty
  /\ \E o \in Outcomes \ {"held"} :
       /\ Launch(o, st, "STARTUP_FAIL", FALSE, job)
       /\ relaunched' = IF o = "ok" THEN Append(relaunched, now) ELSE relaunched
  /\ pending' = FALSE /\ due' = 0
  /\ UNCHANGED <<now, wake, policy, decided, latest>>

\* decide_lifecycle_timeout and the loop over the timeouts.  A reboot that the
\* machine survives changes nothing.
Timeout ==
  /\ Pass("plan", "poll") /\ TimedOut
  /\ CASE config.action = "skip" /\ st = "STARTING" ->
            /\ st' = "RUNING" /\ tick' = now /\ action_due' = 0
            /\ UNCHANGED <<root, desc, job, task, stale>>
       [] config.action = "skip" /\ st # "STARTING" ->
            action_due' = now + Max2(1, config.heartbeat) /\ UNCHANGED <<proc_vars, tick>>
       [] config.action = "restart" -> async_kill_prog("timeout") /\ UNCHANGED <<tick, action_due>>
       [] OTHER -> UNCHANGED <<proc_vars, tick, action_due>>
  /\ UNCHANGED <<now, wake, launched, policy_vars, relaunched>>

NothingDue ==
  /\ Pass("plan", "poll")
  /\ ~(RestartPlanned /\ due <= now /\ is_tree_empty) /\ ~TimedOut
  /\ UNCHANGED <<now, wake, proc_vars, policy_vars, stamp_vars, relaunched>>

\* The poll loop: a drained program runs its task, one whose kill timeout has
\* passed is killed.
Poll ==
  LET r == poll(job, Gen, now, is_tree_empty)
      forced == force(r.job, Gen)
  IN  /\ Pass("poll", "arm")
      /\ CASE st # "REQUEST_STOP" -> UNCHANGED <<proc_vars, policy_vars, stamp_vars, relaunched>>
           [] st = "REQUEST_STOP" /\ ~Has_process /\ is_tree_empty ->
                execute_penddingtasks("REQUEST_STOP", r.job)
           [] st = "REQUEST_STOP" /\ (Has_process \/ ~is_tree_empty) ->
                /\ IF r.action = "send_kill"
                   THEN /\ job' = forced.job /\ desc' = FALSE
                        /\ root' = IF root = "alive" THEN "zombie" ELSE root
                   ELSE job' = r.job /\ UNCHANGED <<root, desc>>
                /\ UNCHANGED <<st, task, stale, policy_vars, stamp_vars, relaunched>>
      /\ UNCHANGED <<now, wake>>

\* The deadlines plan_lifecycle_tick considers.  A tree that drains without
\* its root is not one of them.
Deadlines ==
  {d \in {due, deadline(job), start_due, heartbeat_due} :
     \/ RestartPlanned /\ d = due
     \/ Has_process /\ Terminating /\ d = deadline(job)
     \/ Starting /\ d = start_due
     \/ Watched /\ d = heartbeat_due}

Draining == Has_process /\ st = "REQUEST_STOP" /\ job.phase \in {"tree_draining", "force_kill_requested"}

Overdue == (RestartPlanned /\ due <= now) \/ TimedOut

\* Mutant: the later of the default wait and the next deadline.
Mut_next_wait(busy) ==
  CASE root = "zombie" -> {1}
    [] OTHER -> {w \in {DefaultWait} \cup {d - now : d \in Deadlines} :
                   \A d \in Deadlines : w >= d - now}

\* next_maintenance_delay_ms with plan_lifecycle_tick's next_wait_ms: a pending
\* signal, the worker, something overdue, a draining tree, the next deadline.
next_wait(busy) ==
  CASE root = "zombie" -> {1}
    [] root # "zombie" /\ busy -> {BusyWait}
    [] root # "zombie" /\ ~busy /\ Overdue -> {1}
    [] root # "zombie" /\ ~busy /\ ~Overdue /\ Draining -> {DrainingWait}
    [] OTHER -> {w \in {DefaultWait} \cup {Max2(1, d - now) : d \in Deadlines} :
                   w <= DefaultWait /\ \A d \in Deadlines : w <= Max2(1, d - now)}

Arm ==
  /\ Pass("arm", "idle")
  /\ \E busy \in BOOLEAN : \E w \in next_wait(busy) : wake' = now + w
  /\ UNCHANGED <<now, proc_vars, policy_vars, stamp_vars, relaunched>>

-----------------------------------------------------------------------------
(* The processes and the clock *)

RootExit ==
  /\ root = "alive" /\ (task.kind \in {"stop", "restart"} \/ Len(decided) < MaxExits)
  /\ root' = "zombie"
  /\ UNCHANGED <<clock_vars, pc, st, desc, job, task, stale, policy_vars, stamp_vars, relaunched>>

Fork ==
  /\ root = "alive" /\ ~desc /\ desc' = TRUE
  /\ UNCHANGED <<clock_vars, pc, st, root, job, task, stale, policy_vars, stamp_vars, relaunched>>

DescendantsExit ==
  /\ desc /\ desc' = FALSE
  /\ UNCHANGED <<clock_vars, pc, st, root, job, task, stale, policy_vars, stamp_vars, relaunched>>

Advance ==
  /\ pc = "idle" /\ now < wake /\ now < MaxTime
  /\ now' = now + 1
  /\ UNCHANGED <<config, wake, pc, proc_vars, policy_vars, stamp_vars, relaunched>>

\* spawn() has launched the program, and the loop runs its first pass.
Init ==
  /\ config \in Configs
  /\ now = 1 /\ wake = 1 /\ pc = "idle"
  /\ st = "STARTING" /\ root = "alive" /\ desc = FALSE
  /\ job = NewJob /\ task = NoTask /\ stale = FALSE
  /\ policy = NewPolicy /\ pending = FALSE /\ due = 0
  /\ launched = 1 /\ tick = 0 /\ action_due = 0
  /\ decided = <<>> /\ relaunched = <<>> /\ latest = [at |-> 0, when |-> 0]

Commands == Stop \/ Restart \/ Start \/ AppReady \/ AppTick
Maintenance == Reap \/ NothingToReap \/ DueRestart \/ Timeout \/ NothingDue \/ Poll \/ Arm
Processes == RootExit \/ Fork \/ DescendantsExit

Next == Commands \/ Maintenance \/ Processes \/ Advance

Spec == Init /\ [][Next]_vars

-----------------------------------------------------------------------------
(* Properties *)

TypeOK ==
  /\ config \in Configs
  /\ now \in Nat /\ wake \in Nat /\ due \in Int
  /\ pc \in {"idle", "plan", "poll", "arm"}
  /\ st \in {"STARTING", "RUNING", "REQUEST_STOP", "STOPED", "WAITING_START", "STARTUP_FAIL"}
  /\ root \in {"alive", "zombie", "gone"} /\ desc \in BOOLEAN
  /\ job \in Jobs({0, Gen}, Nat, Nat)
  /\ task \in [kind : {"none", "stop", "restart", "auto", "timeout"}, at : Nat, life : Int]
  /\ stale \in BOOLEAN
  /\ policy \in [attempts : Seq(Nat), failures : Nat, suppressed : BOOLEAN]
  /\ pending \in BOOLEAN
  /\ launched \in Nat /\ tick \in Nat /\ action_due \in Int
  /\ decided \in Seq(Nat) /\ relaunched \in Seq(Nat)
  /\ latest \in [at : Nat, when : Nat]

\* A program that lives long enough to have its policy reset is by design
\* restarted without limit, unless that takes a whole window.
Limited ==
  config.max_attempts > 0 /\ (config.reset_after = 0 \/ config.reset_after >= config.window)

\* The policy plans at most max_attempts automatic restarts in any window that
\* no user command interrupts, also when it is asked late and with the stamp of
\* an earlier time (plan_automatic_restart, the task of a draining tree).
RestartsBounded ==
  Limited => \A i \in DOMAIN decided :
               i + config.max_attempts \in DOMAIN decided
                 => decided[i + config.max_attempts] - decided[i] >= config.window

\* What the user sees of it: back-off and late passes never bunch the launches
\* together, so that at most max_attempts + 1 of them fall into one window.
LaunchesBounded ==
  Limited => \A i \in DOMAIN relaunched :
               i + config.max_attempts + 1 \in DOMAIN relaunched
                 => relaunched[i + config.max_attempts + 1] - relaunched[i] >= config.window

\* The timer is never armed past a deadline the daemon knows of, but for the
\* fixed waits of a draining tree and a busy worker (plan_lifecycle_tick,
\* arm_timer).
ArmedInTime ==
  [][pc = "arm" /\ pc' = "idle"
       => \A d \in Deadlines : wake' <= Max2(d, now + Max2(BusyWait, DrainingWait))]_vars

\* Every deadline is acted on at most one default wait late, however it came
\* about: a command starts the kill clock or the heartbeat without arming the
\* timer, a root leaves a tree behind that the planner does not look at, a
\* restart is planned from an old stamp.
NeverLate ==
  pc = "idle" =>
    /\ Terminating => wake <= deadline(job) + DefaultWait
    /\ Starting /\ config.action # "reboot" => wake <= start_due + DefaultWait
    /\ Watched /\ config.action # "reboot" => wake <= heartbeat_due + DefaultWait
    /\ RestartPlanned => wake <= Max2(due, latest.when) + DefaultWait

=============================================================================
