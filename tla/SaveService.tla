----------------------------- MODULE SaveService -----------------------------
(***************************************************************************)
(* Saving as a client sees it: the save and reload commands of the Linux   *)
(* daemon, the persistence worker that runs one save at a time on a thread *)
(* of its own while the event loop goes on, and the pass that answers the  *)
(* clients and lets a quit or a reload go through.  The steps of the save  *)
(* and of the recovery, system call by system call, are SaveTransaction's. *)
(***************************************************************************)
EXTENDS SaveTransaction

VARIABLES
  up,         \* the daemon has started and its event loop runs
  running,    \* running_ of the worker
  completed,  \* completed_
  outcome,    \* result_
  waiting,    \* wait_save_sessions: the save each of them asked for
  exiting,    \* server_exit, and whether reload_config is set: "no", "quit", "reload"
  acked       \* history: the last save that a client was told has succeeded

service == <<up, running, completed, outcome, waiting, exiting, acked>>
allvars == <<vars, service>>

\* Mutant: only a save that has ended is seen.
Mut_busy == completed

busy == running \/ completed

\* The loop is not inside a handler: a reload loads the files on its thread.
Listening == up /\ ~(caller = "load" /\ pc # "ready")

-----------------------------------------------------------------------------
(* The worker *)

\* The new thread begins with recover_prog_cfg_save, wherever another thread is.
submit ==
  /\ ~busy /\ running' = TRUE /\ outcome' = "fail" /\ UNCHANGED completed
  /\ Save

\* Its last statements, under the lock.
ThreadEnds ==
  /\ running /\ caller = "save" /\ pc = "ready"
  /\ running' = FALSE /\ completed' = TRUE /\ outcome' = result
  /\ UNCHANGED <<vars, up, waiting, exiting, acked>>

-----------------------------------------------------------------------------
(* The event loop *)

\* Mutant: the worker is not asked before the command is taken.
Mut_SaveCommand ==
  /\ Listening /\ exiting # "reload" /\ waiting' = waiting \cup {ver + 1}
  /\ \/ submit
     \/ busy /\ UNCHANGED <<vars, running, completed, outcome>>
  /\ UNCHANGED <<up, exiting, acked>>

\* A refused save leaves everything as it is.
SaveCommand ==
  /\ Listening /\ exiting # "reload" /\ ~busy
  /\ submit
  /\ waiting' = waiting \cup {ver + 1}
  /\ UNCHANGED <<up, exiting, acked>>

\* parse_cfg2 runs before the handler returns.
ReloadCommand ==
  /\ Listening /\ exiting = "no" /\ ~busy
  /\ load_prog_cfg /\ UNCHANGED service

\* The quit command and SIGTERM; a second request changes nothing.
QuitCommand ==
  /\ Listening /\ exiting = "no" /\ exiting' = "quit"
  /\ UNCHANGED <<vars, up, running, completed, outcome, waiting, acked>>

\* A daemon that cannot recover its configuration does not start, a reload that
\* cannot recover or use it is answered with an error, a save fails.
Loaded ==
  \/ /\ Return("recovered", "load", "ready") /\ up' = TRUE
     /\ exiting' \in IF up THEN {"no", "reload"} ELSE {"no"}
     /\ UNCHANGED <<result, running, completed, outcome, waiting, acked>>
  \/ /\ Return("unrecovered", "load", IF up THEN "ready" ELSE "boot")
     /\ UNCHANGED <<result, service>>
  \/ Return("unrecovered", "save", "ready") /\ result' = "fail" /\ UNCHANGED service

\* Mutant: a quit does not wait for the worker.
Mut_Leave ==
  \/ exiting = "quit" /\ up' = FALSE /\ pc' = "boot" /\ exiting' = "no"
  \/ exiting = "reload" /\ exiting' = "no" /\ UNCHANGED <<pc, up>>
  \/ UNCHANGED <<pc, up, exiting>>

\* The programs may all be gone: a quit ends the daemon, which then is started
\* anew, and a reload goes through.
Leave ==
  \/ exiting = "quit" /\ ~busy' /\ up' = FALSE /\ pc' = "boot" /\ exiting' = "no"
  \/ exiting = "reload" /\ ~busy' /\ exiting' = "no" /\ UNCHANGED <<pc, up>>
  \/ UNCHANGED <<pc, up, exiting>>

\* Mutant: the clients that were answered stay on the list.
Mut_poll ==
  \/ /\ completed /\ completed' = FALSE
     /\ acked' \in IF outcome = "ok" /\ waiting # {} THEN waiting ELSE {acked}
     /\ UNCHANGED waiting
  \/ ~completed /\ UNCHANGED <<completed, waiting, acked>>

poll ==
  \/ /\ completed /\ completed' = FALSE
     /\ acked' \in IF outcome = "ok" /\ waiting # {} THEN waiting ELSE {acked}
     /\ waiting' = {}
  \/ ~completed /\ UNCHANGED <<completed, waiting, acked>>

check_quit_or_reload ==
  /\ Listening /\ poll /\ UNCHANGED <<running, outcome>>
  /\ Leave
  /\ UNCHANGED <<caller, disk, had, ok, ver, base, result, kept, mishaps>>

-----------------------------------------------------------------------------
(* The service *)

\* The process is gone with both threads, and the clients' connections.
Dies ==
  /\ Kill \/ PowerFailure
  /\ up' = FALSE /\ running' = FALSE /\ completed' = FALSE /\ outcome' = "fail"
  /\ waiting' = {} /\ exiting' = "no" /\ UNCHANGED acked

Start == pc = "boot" /\ load_prog_cfg /\ UNCHANGED service

Transaction == (recover_prog_cfg_save \/ save_prog_cfg) /\ UNCHANGED service

ServiceInit ==
  /\ Init
  /\ up = FALSE /\ running = FALSE /\ completed = FALSE /\ outcome = "fail"
  /\ waiting = {} /\ exiting = "no" /\ acked = 0

ServiceNext ==
  \/ Start \/ Transaction \/ Loaded \/ ThreadEnds
  \/ SaveCommand \/ ReloadCommand \/ QuitCommand \/ check_quit_or_reload
  \/ Dies

\* The daemon is started again, its threads run, and while a save is under way
\* the loop's timer is armed 10 ms ahead.
ServiceFairness ==
  /\ WF_allvars(Start)
  /\ WF_allvars(Transaction \/ Loaded)
  /\ WF_allvars(ThreadEnds)
  /\ WF_allvars(completed /\ check_quit_or_reload)

ServiceSpec == ServiceInit /\ [][ServiceNext]_allvars /\ ServiceFairness

-----------------------------------------------------------------------------
(* Properties. *)

ServiceTypeOK ==
  /\ TypeOK
  /\ {up, running, completed} \subseteq BOOLEAN
  /\ outcome \in {"ok", "fail"} /\ exiting \in {"no", "quit", "reload"}
  /\ waiting \subseteq 1 .. MaxSave /\ acked \in 0 .. MaxSave

\* Whenever the loop may take the next command and the worker says it is not
\* busy, no thread is anywhere in the files: a save or a reload taken then has
\* them to itself (persistence_worker::busy, submit, and the handlers that ask).
FreeMeansAlone == Listening /\ ~busy => pc = "ready"

\* A client is on the list exactly while the one save it asked for is under way
\* or to be reported: no answer is left over for the next save, none is given
\* for a save that another client asked for (wait_save_sessions).
OneSaveOneClient ==
  /\ waiting # {} <=> busy
  /\ \A c, d \in waiting : c = d

\* Every save that was taken is answered, unless the daemon dies: a quit or a
\* reload that comes in between does not leave the client without an answer
\* (check_quit_or_reload polls the worker before it looks at the exit).
SaveIsAnswered == waiting # {} ~> waiting = {}

\* The version that the two contents are; what existed at first is version 0.
Version(p) ==
  CASE p[1] = p[2] /\ p[1] > 0 -> p[1]
    [] {p[1], p[2]} \subseteq {Absent, 0} -> 0
    [] OTHER -> MaxSave + 1

Recovering == {"boot", "ready", "recover", "restore_cfg", "rename_cfg", "check_cfg",
  "not_restored_cfg", "restore_env", "rename_env", "check_env", "not_restored_env",
  "drop_cfg_backup", "drop_env_backup", "recover_temp", "recover_stage", "recover_sync",
  "recover_journal", "recover_journal_sync", "recovered", "unrecovered"}

Store == INSTANCE AtomicStore WITH
  lasting <- {Version(Recovered(p)) : p \in Possible},
  last <- ver,
  old <- Version(base),
  saving <- pc \notin Recovering,
  done <- result = "ok" /\ busy,
  excused <- kept

\* The two files, the journal, their renames and syncs, the recovery, the
\* worker's flags and the clients' list together implement one store that is
\* replaced atomically and keeps what was acknowledged.
StoreIsAtomic == Store!Spec
=============================================================================
