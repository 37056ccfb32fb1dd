--------------------------- MODULE TerminationJob ---------------------------
(***************************************************************************)
(* The termination state machine of one process generation                 *)
(* (core/termination_job.cpp): ask politely, wait for the kill timeout,    *)
(* force, and report completion once the process tree is empty.            *)
(*                                                                         *)
(* A job is a record; every member function of the class is an operator    *)
(* from a job to a pair of the job it leaves behind and the action it asks *)
(* the caller to perform.                                                  *)
(***************************************************************************)
EXTENDS Integers

Phases == {"none", "term_requested", "force_kill_requested",
           "tree_draining", "completed"}

Actions == {"none", "send_term", "send_kill", "complete"}

\* A default-constructed termination_job.
NewJob == [generation |-> 0, phase |-> "none", started |-> 0, timeout |-> 0]

Jobs(Gens, Times, Timeouts) ==
  [generation : Gens, phase : Phases, started : Times, timeout : Timeouts]

deadline(job) == job.started + job.timeout

Result(job, action) == [job |-> job, action |-> action]

\* termination_job::request
request(job, g, now, timeout) ==
  IF job.phase # "none" /\ job.generation = g
  THEN Result(job, "none")
  ELSE Result([generation |-> g, phase |-> "term_requested",
               started |-> now, timeout |-> timeout], "send_term")

\* termination_job::force
force(job, g) ==
  IF job.generation # g \/ job.phase = "completed"
  THEN Result(job, "none")
  ELSE Result([job EXCEPT !.phase = "force_kill_requested"], "send_kill")

\* Mutant: a job that only starts draining inherits an old start time.
Mut_mark_tree_draining(job, g, now, timeout) ==
  Result([job EXCEPT !.generation = g, !.timeout = timeout, !.phase = "tree_draining"],
         "send_term")

\* termination_job::mark_tree_draining: a job that already runs for this
\* generation keeps its deadline, a new one starts its clock here.
mark_tree_draining(job, g, now, timeout) ==
  LET clocked == IF job.phase = "none" \/ job.generation # g
                 THEN [job EXCEPT !.generation = g, !.started = now,
                                  !.timeout = timeout]
                 ELSE job
  IN  IF clocked.phase \in {"completed", "force_kill_requested"}
      THEN Result(clocked, "none")
      ELSE Result([clocked EXCEPT !.phase = "tree_draining"], "send_term")

\* Mutant: a draining tree is never escalated.
Mut_poll(job, g, now, tree_empty) ==
  IF job.generation = g /\ ~tree_empty /\ job.phase = "term_requested" /\ now >= deadline(job)
  THEN Result([job EXCEPT !.phase = "force_kill_requested"], "send_kill")
  ELSE Result(job, "none")

\* termination_job::poll
poll(job, g, now, tree_empty) ==
  CASE job.generation # g -> Result(job, "none")
    [] job.generation = g /\ tree_empty ->
         IF job.phase \in {"none", "completed"}
         THEN Result(job, "none")
         ELSE Result([job EXCEPT !.phase = "completed"], "complete")
    [] job.generation = g /\ ~tree_empty ->
         IF /\ job.phase \in {"term_requested", "tree_draining"}
            /\ now >= deadline(job)
         THEN Result([job EXCEPT !.phase = "force_kill_requested"], "send_kill")
         ELSE Result(job, "none")

=============================================================================
