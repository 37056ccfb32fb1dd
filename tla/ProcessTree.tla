---------------------------- MODULE ProcessTree ----------------------------
(***************************************************************************)
(* One generation of one managed program: the real processes of its tree,  *)
(* the two Linux tree backends (cgroup v2, process group) and the daemon's *)
(* maintenance pass that reaps the root, polls the termination job and     *)
(* kills what is left.                                                     *)
(*                                                                         *)
(* The daemon is one thread: "reap" -> "poll" -> "polled" [-> "killing"]   *)
(* -> "reap".  Processes fork, exit and leave the group between any two of *)
(* its steps; in particular between reading cgroup.procs and signalling    *)
(* the pids that were read.                                                *)
(***************************************************************************)
EXTENDS TerminationJob

CONSTANTS
  Backends,  \* the backends process_tree_controller may have chosen
  ReadFails, \* whether a read of cgroup.procs may fail or break off
  Timeout,   \* kill_timeout_sec of the program, in clock units
  MaxProc,   \* bound: processes the tree ever has
  MaxTime    \* bound: the clock stops here

ASSUME BackendAssumption == Backends \subseteq {"cgroup", "process_group"}
ASSUME ReadAssumption == ReadFails \in BOOLEAN
ASSUME TimeAssumption == Timeout \in Nat /\ MaxTime \in Nat
ASSUME ProcAssumption == MaxProc \in Nat /\ MaxProc >= 1

VARIABLES
  backend,   \* process_tree_controller's choice, for the life of the daemon
  now,       \* the monotonic clock
  life,      \* life[p]: what the kernel says of process p
  group,     \* processes in the generation's cgroup (or process group)
  pid,       \* instance.pid # -1: the root has not been reaped
  state,     \* the program's state, as far as the termination path reads it
  job,       \* instance.job
  pc,        \* where the daemon thread is
  action,    \* what poll_termination returned
  left,      \* pids of the running SIGKILL pass not signalled yet
  released,  \* the generation is over: its pending tasks ran
  sent,      \* history: when SIGTERM and SIGKILL first went out
  missed,    \* history: the SIGKILL pass ended with members still alive
  unseen     \* history: the read that released the tree missed living members

vars == <<backend, now, life, group, pid, state, job, pc, action, left, released,
          sent, missed, unseen>>

daemon_vars == <<backend, pid, state, job, pc, action, left, released, sent, missed, unseen>>

Proc == 1 .. MaxProc
Root == 1
Gen == 1
Never == -1

TypeOK ==
  /\ backend \in Backends
  /\ now \in 0 .. MaxTime
  /\ life \in [Proc -> {"unborn", "alive", "zombie", "gone"}]
  /\ group \subseteq Proc
  /\ pid \in BOOLEAN
  /\ state \in {"RUNING", "REQUEST_STOP", "STOPED"}
  /\ job \in Jobs({0, Gen}, 0 .. MaxTime, {0, Timeout})
  /\ pc \in {"reap", "poll", "polled", "killing"}
  /\ action \in Actions
  /\ left \subseteq Proc
  /\ released \in BOOLEAN
  /\ sent \in [term : {Never} \cup 0 .. MaxTime, kill : {Never} \cup 0 .. MaxTime]
  /\ missed \in BOOLEAN
  /\ unseen \in BOOLEAN

\* real_spawn_prog has attached the root to a fresh tree and it runs.
Init ==
  /\ backend \in Backends
  /\ now = 0
  /\ life = [p \in Proc |-> IF p = Root THEN "alive" ELSE "unborn"]
  /\ group = {Root}
  /\ pid = TRUE
  /\ state = "RUNING"
  /\ job = NewJob
  /\ pc = "reap"
  /\ action = "none"
  /\ left = {}
  /\ released = FALSE
  /\ sent = [term |-> Never, kill |-> Never]
  /\ missed = FALSE
  /\ unseen = FALSE

-----------------------------------------------------------------------------
(* The backends.  cgroup.procs lists living processes only; a process      *)
(* group also holds a zombie until it is reaped.                           *)

Alive(lf) == {p \in Proc : lf[p] = "alive"}

Members(lf) ==
  IF backend = "cgroup"
  THEN group \cap Alive(lf)
  ELSE group \cap (Alive(lf) \cup {p \in Proc : lf[p] = "zombie"})

\* What collect_pids returns when a file or directory cannot be opened; no pid
\* is 0.
Unreadable == {0}

\* What collect_pids may return.  A stream that breaks off after the open ends
\* the list as if it were complete, and a process that moves between the
\* sub-cgroups, which are read one after another, may be in none of those read;
\* kill(-pgid, 0) does not fail.
Readings(lf) ==
  IF ReadFails /\ backend = "cgroup" THEN {Unreadable} \cup SUBSET Members(lf) ELSE {Members(lf)}

\* Mutant: an unreadable tree counts as empty.
Mut_empty(pids) == pids = {} \/ pids = Unreadable

\* cgroup_v2_backend::empty / process_group_backend::empty: a tree that
\* cannot be read counts as not empty.
empty(pids) == pids = {}

\* Nothing was read although members live.
Overlooked(lf, pids) == pids = {} /\ group \cap Alive(lf) # {}

\* Only the root is a child the daemon waits for by pid; the rest of the
\* tree is reaped by the child subreaper without further effect.
Dead(p) == IF p = Root THEN "zombie" ELSE "gone"

Killed(lf, S) == [p \in Proc |-> IF p \in S /\ lf[p] = "alive" THEN Dead(p) ELSE lf[p]]

-----------------------------------------------------------------------------
(* The daemon. *)

\* The bookkeeping of a SIGTERM to the whole tree.
TermSent(act) ==
  IF act = "send_term" /\ sent.term = Never THEN [sent EXCEPT !.term = now] ELSE sent

\* prog_info_t::async_kill_prog, called by stop, delete, restart, quit and
\* the timeouts.  Handlers run between maintenance passes.
async_kill_prog ==
  /\ pc = "reap" /\ pid
  /\ LET r == request(job, Gen, now, Timeout) IN
       /\ job' = r.job
       /\ sent' = TermSent(r.action)
  /\ state' = "REQUEST_STOP"
  /\ UNCHANGED <<backend, now, life, group, pid, pc, action, left, released, missed, unseen>>

\* The reap part of check_delayed_chld_sig.  The root's exit raised SIGCHLD,
\* so a zombie root is found by the first pass that starts after its death.
check_delayed_chld_sig ==
  /\ pc = "reap"
  /\ pc' = "poll"
  /\ IF ~pid \/ life[Root] # "zombie"
     THEN UNCHANGED <<life, pid, state, job, released, sent, unseen>>
     ELSE /\ life' = [life EXCEPT ![Root] = "gone"]
          /\ pid' = FALSE
          /\ \E pids \in Readings(life') :
               IF empty(pids)
               THEN /\ released' = TRUE
                    /\ unseen' = Overlooked(life', pids)
                    /\ state' = "STOPED"
                    /\ UNCHANGED <<job, sent>>
               ELSE LET r == mark_tree_draining(job, Gen, now, Timeout) IN
                    /\ job' = r.job
                    /\ sent' = TermSent(r.action)
                    /\ state' = "REQUEST_STOP"
                    /\ UNCHANGED <<released, unseen>>
  /\ UNCHANGED <<backend, now, group, action, left, missed>>

\* prog_info_t::poll_termination, for a program being stopped.
poll_termination ==
  /\ pc = "poll"
  /\ IF state = "REQUEST_STOP" /\ ~released
     THEN \E pids \in Readings(life) :
            LET r == poll(job, Gen, now, empty(pids)) IN
            /\ job' = r.job
            /\ action' = r.action
            /\ pc' = "polled"
     ELSE /\ pc' = "reap"
          /\ UNCHANGED <<job, action>>
  /\ UNCHANGED <<backend, now, life, group, pid, state, left, released, sent, missed, unseen>>

\* The rest of the poll loop: the tree is read a second time; pending tasks
\* run when the root is reaped and the tree is empty, otherwise an expired
\* deadline starts the SIGKILL pass of async_force_kill.
finish_or_force ==
  /\ pc = "polled"
  /\ action' = "none"
  /\ \E pids \in Readings(life) :
       IF ~pid /\ empty(pids)
       THEN /\ released' = TRUE
            /\ unseen' = Overlooked(life, pids)
            /\ pc' = "reap"
            /\ UNCHANGED <<job, left, sent>>
       ELSE /\ UNCHANGED <<released, unseen>>
            /\ LET r == force(job, Gen) IN
                 IF action = "send_kill" /\ r.action = "send_kill"
                 THEN /\ job' = r.job
                      /\ sent' = [sent EXCEPT !.kill = now]
                      /\ pc' = "killing"
                      /\ \E collected \in Readings(life) : left' = collected \cap Proc
                 ELSE /\ pc' = "reap"
                      /\ UNCHANGED <<job, left, sent>>
  /\ UNCHANGED <<backend, now, life, group, pid, state, missed>>

\* cgroup_v2_backend::signal goes through the pids it collected one by one;
\* process_group_backend::signal is one kill(-pgid).
signal_tree ==
  /\ pc = "killing" /\ left # {}
  /\ IF backend = "cgroup"
     THEN \E p \in left : life' = Killed(life, {p}) /\ left' = left \ {p}
     ELSE life' = Killed(life, Members(life)) /\ left' = {}
  /\ UNCHANGED <<backend, now, group, pid, state, job, pc, action, released, sent, missed, unseen>>

signal_tree_done ==
  /\ pc = "killing" /\ left = {}
  /\ pc' = "reap"
  /\ missed' = (group \cap Alive(life) # {})
  /\ UNCHANGED <<backend, now, life, group, pid, state, job, action, left, released, sent, unseen>>

-----------------------------------------------------------------------------
(* The processes and the clock. *)

Fork(p) ==
  /\ life[p] = "alive"
  /\ \E c \in Proc :
       /\ life[c] = "unborn"
       /\ \A q \in Proc : q < c => life[q] # "unborn"
       /\ life' = [life EXCEPT ![c] = "alive"]
       /\ group' = IF p \in group THEN group \cup {c} ELSE group
  /\ UNCHANGED <<now, daemon_vars>>

\* setsid(), or a move to another cgroup.
LeaveGroup(p) ==
  /\ p # Root /\ life[p] = "alive" /\ p \in group
  /\ group' = group \ {p}
  /\ UNCHANGED <<now, life, daemon_vars>>

Exit(p) ==
  /\ life[p] = "alive"
  /\ life' = [life EXCEPT ![p] = Dead(p)]
  /\ UNCHANGED <<now, group, daemon_vars>>

\* Time before the first SIGTERM stops early enough for its deadline to
\* come before the clock's bound.
Tick ==
  /\ now < MaxTime
  /\ sent.term = Never => now + Timeout < MaxTime
  /\ now' = now + 1
  /\ UNCHANGED <<life, group, daemon_vars>>

Maintenance ==
  \/ check_delayed_chld_sig
  \/ poll_termination
  \/ finish_or_force
  \/ signal_tree
  \/ signal_tree_done

Next ==
  \/ async_kill_prog
  \/ Maintenance
  \/ \E p \in Proc : Fork(p) \/ LeaveGroup(p) \/ Exit(p)
  \/ Tick

\* The event loop runs maintenance again and again (its timer never waits
\* longer than a second) and the clock advances.  Nothing is assumed of the
\* processes: they may ignore SIGTERM and never exit by themselves.  A read of
\* cgroup.procs may fail, but an empty tree is not found unreadable for ever.
Fairness ==
  /\ WF_vars(Maintenance)
  /\ WF_vars(Tick)
  /\ SF_vars(finish_or_force /\ released' /\ ~unseen')

Spec == Init /\ [][Next]_vars /\ Fairness

-----------------------------------------------------------------------------
(* Properties. *)

\* Pending stop, delete, restart, reload and quit continuations run only once
\* the root has been waited for and no process is left in the tree, and the
\* tree stays empty from then on (check_delayed_chld_sig, both release paths;
\* backends' empty()).  The one exception is a cgroup read that overlooked the
\* living members without an error (collect_recursive).
ReleasedMeansGone ==
  released => ~pid /\ (group \cap Alive(life) = {} \/ (backend = "cgroup" /\ unseen))

\* SIGKILL goes out no earlier than the full kill timeout after the tree's
\* first SIGTERM, whichever of stop and root exit came first
\* (termination_job::poll, mark_tree_draining keeping a running clock).
GracePeriod ==
  sent.kill # Never => sent.term # Never /\ sent.kill >= sent.term + Timeout

\* A read that overlooked the living members has completed the job, which is
\* final: no deadline of it starts a SIGKILL pass any more.
CompletedEarly == job.phase = "completed" /\ group \cap Alive(life) # {}

\* A program being stopped is eventually released, even if its processes
\* ignore SIGTERM, provided that the one SIGKILL pass of the cgroup backend
\* reached every member and no read of it completed the job early; the one
\* kill(2) of a process group always does its work.
StopTerminates ==
  state = "REQUEST_STOP" ~> released \/ (backend = "cgroup" /\ (missed \/ CompletedEarly))
=============================================================================
