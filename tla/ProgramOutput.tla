--------------------------- MODULE ProgramOutput ---------------------------
(***************************************************************************)
(* The way of a program's output from its pipe to the clients that follow  *)
(* it: the pipe watches of daemon/asio_daemon_loop.cpp, read_pipe and the  *)
(* session lists of daemon/prog.cpp, the sessions of core/session.cpp, the *)
(* bounded_log_tail of core/program_log.cpp, and what the commands start,  *)
(* restart, stop and log of daemon/pm_tiny_funcs.cpp do to them.           *)
(*                                                                         *)
(* One program with one pipe; its tree dies with its root, except for a    *)
(* descendant that has left the tree and still holds the pipe.  Its        *)
(* dependencies are satisfied.  A unit of output is what fits in one       *)
(* frame; the units of a generation are numbered from 1.  The daemon is    *)
(* single-threaded: d is all of its state, an action one handler, and the  *)
(* functions below are its methods.  Descriptor numbers are reused.        *)
(***************************************************************************)
EXTENDS Naturals, Sequences, FiniteSets, SequencesExt

CONSTANTS
  Clients,   \* connections that follow the log
  Nobody,    \* the client of a command that does not ask for the log
  Fds,       \* descriptor numbers a pipe may get: natural numbers above 0
  Capacity,  \* units the tail holds
  Chunk,     \* most units one read takes (64 KiB)
  Limit,     \* session_queue_limit
  MaxGen,    \* bound: launches
  MaxOut     \* bound: units of output per generation

ASSUME OutputAssumption ==
  /\ Nobody \notin Clients /\ Fds \subseteq Nat \ {0}
  /\ {Capacity, Chunk, Limit, MaxGen} \subseteq Nat \ {0} /\ MaxOut \in Nat

VARIABLES
  d,        \* the daemon, see TypeOK
  root,     \* the root of the current generation runs
  written, taken, \* units written to the last pipe, and read from it
  held,     \* a descendant holds the last pipe, its root has ended
  quiet,    \* the older pipes that are watched, still held and empty
  final,    \* history: what had been written when the root ended
  slow      \* per client: it does not read, its socket is full

vars == <<d, root, written, taken, held, quiet, final, slow>>

NoFd == 0
Min2(a, b) == IF a <= b THEN a ELSE b

-----------------------------------------------------------------------------
(* bounded_log_tail *)

EmptyTail == [storage |-> [i \in 0 .. Capacity - 1 |-> 0], begin |-> 0, size |-> 0]

append(t, data) ==
  LET n == Len(data)
      over == IF t.size + n > Capacity THEN t.size + n - Capacity ELSE 0
      begin == (t.begin + over) % Capacity
      kept == t.size - over
  IN  IF n >= Capacity
      THEN [storage |-> [i \in 0 .. Capacity - 1 |-> data[n - Capacity + 1 + i]],
            begin |-> 0, size |-> Capacity]
      ELSE [storage |-> [i \in 0 .. Capacity - 1 |->
                           IF \E k \in 1 .. n : i = (begin + kept + k - 1) % Capacity
                           THEN data[CHOOSE k \in 1 .. n : i = (begin + kept + k - 1) % Capacity]
                           ELSE t.storage[i]],
            begin |-> begin, size |-> kept + n]

snapshot(t) == [i \in 1 .. t.size |-> t.storage[(t.begin + i - 1) % Capacity]]

-----------------------------------------------------------------------------
(* Sessions *)

\* A client without a connection, and a new connection.  The second line is
\* history: it was sent something, the output it was sent as a follower, and
\* what has happened to it (see the properties).
Gone == [conn |-> FALSE, open |-> FALSE, marked |-> FALSE, queued |-> 0, gen |-> 0,
         told |-> FALSE, seen |-> <<>>, cut |-> FALSE, shaken |-> FALSE, stranded |-> FALSE]
Fresh == [Gone EXCEPT !.conn = TRUE, !.open = TRUE]

\* prog_info_t::remove_session: the list is a vector, its first count slots
\* are in use; the slots behind them keep what they held.
erase(s, c) ==
  LET rest == SelectSeq(SubSeq(s.list, 1, s.count), LAMBDA x : x # c)
  IN  [s EXCEPT !.list = [i \in 1 .. Len(@) |-> IF i <= Len(rest) THEN rest[i] ELSE @[i]],
                !.count = Len(rest)]

\* session_t::close: only a session that follows the program is in its list.
close(s, c) == [erase(s, c) EXCEPT !.sess[c] = [Gone EXCEPT !.conn = s.sess[c].conn]]

\* A frame that is not output
Message == 0

\* write_frame and write_stream_frame: a full queue closes the session;
\* otherwise the frame is queued and the queue written, as far as the socket
\* takes it.
write(s, c, unit) ==
  IF ~s.sess[c].open THEN s
  ELSE IF s.sess[c].queued + 1 > Limit THEN close(s, c)
  ELSE [s EXCEPT !.sess[c].queued = IF slow[c] THEN @ + 1 ELSE 0,
                 !.sess[c].seen = IF unit = Message THEN @ ELSE Append(@, unit),
                 !.sess[c].told = TRUE, !.sess[c].stranded = FALSE]

\* The part of the list that is in use
trim(s) == [s EXCEPT !.list = SubSeq(@, 1, s.count)]

\* When the session in slot i leaves the list during the loop below, those
\* behind it move up: the next one is passed over, and the last one is met
\* again in the slot it has left.  With one session behind they are the same.
Shifted(s, i) == IF i + 1 < s.count THEN {s.list[i + 1], s.list[s.count]} ELSE {}

\* One frame for every session of the list.  The loop goes over the slots that
\* were in use when it began, also when a session leaves the list meanwhile.
to_sessions(s, unit) ==
  LET Step(t, i) ==
        LET u == write(t, t.list[i], unit)
        IN  IF u.count = t.count THEN u
            ELSE [u EXCEPT !.sess = [c \in Clients |->
                    IF c \in Shifted(t, i) THEN [@[c] EXCEPT !.shaken = TRUE] ELSE @[c]]]
  IN  trim(FoldLeft(Step, s, [i \in 1 .. s.count |-> i]))

add_session(s, c) == [s EXCEPT !.list = Append(@, c), !.count = @ + 1, !.sess[c].gen = s.gen]

\* asio_daemon_loop::remove_session.  Who only knew the session by a weak
\* pointer will not find it: those that wait for a launch, and a restart.
remove_session(s, c) ==
  [trim(close(s, c)) EXCEPT !.sess[c] = Gone, !.pending = Remove(@, c),
                            !.task = IF @ = c THEN "stop" ELSE @]

-----------------------------------------------------------------------------
(* prog_info_t *)

write_msg_to_sessions(s, units) ==
  FoldLeft(LAMBDA t, u : to_sessions(t, u), [s EXCEPT !.tail = append(@, units)], units)

write_cache_log_to_session(s, c) ==
  FoldLeft(LAMBDA t, u : write(t, c, u), s, snapshot(s.tail))

\* Mutant: those who wait are forgotten, not answered.
Mut_activate_pending_log_sessions(s) == [s EXCEPT !.pending = <<>>]

activate_pending_log_sessions(s) ==
  [trim(FoldLeft(LAMBDA t, c : write(add_session(t, c), c, Message), s, s.pending))
     EXCEPT !.pending = <<>>]

fail_pending_log_sessions(s) ==
  [FoldLeft(LAMBDA t, c : write(t, c, Message), s, s.pending) EXCEPT !.pending = <<>>]

\* History: a start or restart command has failed to launch, and those who wait
\* for the launch that it took the place of are not answered.
strand(s) == [s EXCEPT !.sess = [c \in Clients |->
                IF c \in ToSet(s.pending) THEN [@[c] EXCEPT !.stranded = TRUE] ELSE @[c]]]

\* The units that are in the last pipe
Unread == [i \in 1 .. written - taken |-> taken + i]

\* read_pipe(i): one read, or the end of the pipe
read_pipe(s) ==
  LET u == Unread
  IN  IF u = <<>> THEN [s EXCEPT !.fd = NoFd]
      ELSE write_msg_to_sessions(s, SubSeq(u, 1, Min2(Len(u), Chunk)))

\* read_pipe(i, 1): reads until the pipe is empty.
read_rest(s) ==
  LET u == Unread
      n == (Len(u) + Chunk - 1) \div Chunk
      part(k) == SubSeq(u, (k - 1) * Chunk + 1, Min2(k * Chunk, Len(u)))
  IN  [FoldLeft(LAMBDA t, k : write_msg_to_sessions(t, part(k)), s, [k \in 1 .. n |-> k])
         EXCEPT !.fd = NoFd]

\* write_prog_exit_message with detach_sessions: the last frame, then the
\* sessions end once it is sent.  History: one that has not been Shifted has
\* not got all of the output.
Ended(s) == [s EXCEPT !.marked = TRUE, !.gen = 0, !.seen = <<>>, !.shaken = FALSE,
                      !.cut = ~(s.shaken \/ final = 0 \/ (s.seen # <<>> /\ Last(s.seen) >= final))]
write_prog_exit_message(s) ==
  LET t == to_sessions(s, Message)
      all == {t.list[i] : i \in 1 .. t.count}
  IN  fail_pending_log_sessions(
        [t EXCEPT !.list = <<>>, !.count = 0,
                  !.sess = [c \in Clients |-> IF c \in all THEN Ended(@[c]) ELSE @[c]]])

\* Mutant: the sessions get the exit event before the rest of the output.
Mut_close_fds(s) ==
  LET t == write_prog_exit_message(s)
  IN  [(IF t.fd = NoFd THEN t ELSE read_rest(t)) EXCEPT !.fd = NoFd, !.pid = FALSE]

close_fds(s) ==
  [write_prog_exit_message(IF s.fd = NoFd THEN s ELSE read_rest(s))
     EXCEPT !.fd = NoFd, !.pid = FALSE]

\* spawn_prog and init_prog_log: "ok", or it fails before or after the fork.
spawn(s, how, f) ==
  CASE how = "ok"    -> [s EXCEPT !.gen = @ + 1, !.pid = TRUE, !.fd = f, !.tail = EmptyTail]
    [] how = "late"  -> [s EXCEPT !.gen = @ + 1]
    [] how = "early" -> s

start_prog(s, how, f) ==
  IF how = "ok" THEN activate_pending_log_sessions(spawn(s, how, f)) ELSE spawn(s, how, f)

\* The task of a restart command by client c
start_task(s, c, how, f) ==
  LET t == IF how = "ok" THEN start_prog(s, how, f) ELSE strand(start_prog(s, how, f))
  IN  IF c = Nobody THEN t
      ELSE trim(write(IF how = "ok" THEN add_session(t, c) ELSE t, c, Message))

-----------------------------------------------------------------------------
(* The event loop: the watches pipes_[f], each on the pipe of one generation *)

NoWatch == [gen |-> 0, armed |-> FALSE]

\* A watch for a number that has none; away with those whose number is closed.
refresh_pipes(s) ==
  [s EXCEPT !.pipes = [f \in Fds |->
     IF f # s.fd THEN NoWatch
     ELSE IF @[f] = NoWatch THEN [gen |-> s.gen, armed |-> TRUE] ELSE @[f]]]

\* The pipe of generation g has data or no writer.
Event(g) == IF g = d.gen THEN written > taken \/ ~(held \/ root) ELSE g \notin quiet

\* Mutant: a watch is good for one read.
Mut_watch_handler(s, f) ==
  IF s.pipes[f].gen # s.gen THEN [s EXCEPT !.pipes[f] = NoWatch]
  ELSE [(IF s.fd # NoFd THEN read_pipe(s) ELSE s) EXCEPT !.pipes[f].armed = FALSE]

\* The handler of arm_pipe: the watch of an old generation goes; otherwise one
\* read, and the watch is armed again if the pipe is still there.
watch_handler(s, f) ==
  IF s.pipes[f].gen # s.gen THEN [s EXCEPT !.pipes[f] = NoWatch]
  ELSE LET t == IF s.fd # NoFd THEN read_pipe(s) ELSE s
       IN  [t EXCEPT !.pipes[f].armed = (t.fd = f)]

\* The older pipes after a step: one that is watched no more does not count.
Quiet == LET old == IF d'.gen # d.gen /\ held THEN quiet \union {d.gen} ELSE quiet
         IN  {g \in old : \E f \in Fds : d'.pipes[f].gen = g}

\* A launch makes a new pipe.
Launch ==
  LET new == d'.pid /\ d'.gen # d.gen
  IN  /\ root' = (root \/ new) /\ written' = (IF new THEN 0 ELSE written)
      /\ held' = (held /\ d'.gen = d.gen) /\ final' = (IF new THEN 0 ELSE final)
      /\ quiet' = Quiet

PipeEvent(f) ==
  /\ d.pipes[f].armed /\ Event(d.pipes[f].gen)
  /\ d' = watch_handler(d, f) /\ quiet' = Quiet
  /\ taken' = IF d.pipes[f].gen = d.gen /\ d.fd # NoFd THEN taken + Min2(written - taken, Chunk) ELSE taken
  /\ UNCHANGED <<root, written, held, final, slow>>

\* run_maintenance: sessions that are closed, or marked and sent, are removed.
expired(s) == {c \in Clients : s.sess[c].conn /\ (~s.sess[c].open \/ (s.sess[c].marked /\ s.sess[c].queued = 0))}
remove_expired(s) == FoldLeft(remove_session, s, SetToSeq(expired(s)))

\* The restart that is due
restart_due(s, how, f) ==
  LET t == [start_prog(s, how, f) EXCEPT !.restart = FALSE]
  IN  IF how = "ok" THEN t ELSE fail_pending_log_sessions(t)

\* check_delayed_chld_sig for a root that has ended: the task of a restart
\* command starts it again if its client is still there; without a command a
\* restart is planned and may be due at once, or none is planned.
reap(s, plan, how, f) ==
  LET t == close_fds(s)
      c == s.task
      u == [t EXCEPT !.task = "none", !.last = TRUE, !.restart = (c = "none" /\ plan # "none")]
  IN  IF (c = Nobody /\ plan # "none") \/ (c \in Clients /\ t.sess[c].open) THEN start_task(u, c, how, f)
      ELSE IF u.restart /\ plan = "now" THEN restart_due(u, how, f) ELSE u

\* A maintenance pass tends the watches and the sessions, ...
tend(s) == remove_expired(refresh_pipes(s))

Tend ==
  /\ root \/ ~d.pid
  /\ d' = tend(d) /\ quiet' = Quiet
  /\ UNCHANGED <<root, written, taken, held, final, slow>>

\* ... reaps a root that has ended, ...
Reap(plan, how, f) ==
  /\ d.pid /\ ~root /\ (how # "early" => d.gen < MaxGen)
  /\ d' = reap(tend(d), plan, how, f)
  /\ taken' = IF d'.pid THEN 0 ELSE IF d.fd # NoFd THEN written ELSE taken
  /\ Launch /\ UNCHANGED slow

\* ... and starts a program whose restart is due.
Due(how, f) ==
  /\ d.restart /\ ~d.pid /\ (how # "early" => d.gen < MaxGen)
  /\ d' = restart_due(tend(d), how, f)
  /\ taken' = (IF d'.pid THEN 0 ELSE taken)
  /\ Launch /\ UNCHANGED slow

-----------------------------------------------------------------------------
(* Commands *)

\* A client connects for one command.
Commander(c) == c \in Clients => ~d.sess[c].conn

Asked(c) == IF c = Nobody THEN d ELSE [d EXCEPT !.sess[c] = Fresh]

reply(s, c) == IF c = Nobody THEN s ELSE trim(write(s, c, Message))

\* start: the client follows the log of what has been launched.
Start(c, how, f) ==
  /\ Commander(c) /\ (how # "early" => d.gen < MaxGen)
  /\ LET s == spawn([Asked(c) EXCEPT !.restart = FALSE], how, f)
     IN  d' = IF d.pid THEN reply(Asked(c), c)
              ELSE IF how # "ok" THEN reply(strand(s), c)
              ELSE reply(IF c # Nobody THEN add_session(s, c) ELSE s, c)
  /\ Launch /\ taken' = (IF d'.pid /\ ~d.pid THEN 0 ELSE taken) /\ UNCHANGED slow

Restart(c, how, f) ==
  /\ Commander(c) /\ (how # "early" => d.gen < MaxGen)
  /\ LET s == [Asked(c) EXCEPT !.restart = FALSE]
     IN  d' = IF d.task # "none" THEN reply(s, c)
              ELSE IF d.pid THEN [s EXCEPT !.task = c]
              ELSE start_task(s, c, how, f)
  /\ Launch /\ taken' = (IF d'.pid /\ ~d.pid THEN 0 ELSE taken) /\ UNCHANGED slow

Stop ==
  /\ d.task = "none"
  /\ d' = [fail_pending_log_sessions([d EXCEPT !.restart = FALSE])
             EXCEPT !.task = IF d.pid THEN "stop" ELSE @]
  /\ UNCHANGED <<root, written, taken, held, quiet, final, slow>>


\* log: a running program is followed from its tail on; a client of one that
\* waits for its restart waits too.
Log(c) ==
  /\ Commander(c)
  /\ d' = IF d.pid THEN trim(write_cache_log_to_session(write(add_session(Asked(c), c), c, Message), c))
          ELSE IF d.restart THEN [Asked(c) EXCEPT !.pending = Append(@, c)]
          ELSE reply(Asked(c), c)
  /\ UNCHANGED <<root, written, taken, held, quiet, final, slow>>

\* log --history: the tail of a program that has ended
History(c) ==
  /\ Commander(c)
  /\ d' = IF d.pid \/ ~d.last THEN reply(Asked(c), c)
          ELSE reply(write_cache_log_to_session(reply(Asked(c), c), c), c)
  /\ UNCHANGED <<root, written, taken, held, quiet, final, slow>>

-----------------------------------------------------------------------------
(* Clients and processes *)

\* arm_session_write: the socket takes the queue.
Writable(c) ==
  /\ d.sess[c].open /\ d.sess[c].queued > 0 /\ ~slow[c]
  /\ LET s == [d EXCEPT !.sess[c].queued = 0]
     IN  d' = IF s.sess[c].marked THEN remove_session(s, c) ELSE s
  /\ UNCHANGED <<root, written, taken, held, quiet, final, slow>>

\* The client closes its end.
Quit(c) ==
  /\ d.sess[c].conn /\ d' = remove_session(d, c) /\ slow' = [slow EXCEPT ![c] = FALSE]
  /\ UNCHANGED <<root, written, taken, held, quiet, final>>

\* A client that follows stops to read; one that has stopped reads again.
Turn(c) ==
  /\ slow[c] \/ \E i \in DOMAIN d.list : d.list[i] = c
  /\ slow' = [slow EXCEPT ![c] = ~@]
  /\ UNCHANGED <<d, root, written, taken, held, quiet, final>>

\* The root, or a descendant that holds the pipe, writes a unit to the pipe
\* that the daemon reads.
Emit ==
  /\ root \/ (held /\ d.fd # NoFd)
  /\ written < MaxOut /\ written' = written + 1
  /\ UNCHANGED <<d, root, taken, held, quiet, final, slow>>

\* The root ends; a descendant may keep the pipe.
RootExit ==
  /\ root /\ root' = FALSE /\ final' = written /\ held' \in BOOLEAN
  /\ UNCHANGED <<d, written, taken, quiet, slow>>

\* It lets go of the pipe.
LetGo ==
  /\ held /\ held' = FALSE
  /\ UNCHANGED <<d, root, written, taken, quiet, final, slow>>

\* A descendant of an older generation writes to its pipe or lets go of it.
Stir(g) ==
  /\ g \in quiet /\ quiet' = quiet \ {g}
  /\ UNCHANGED <<d, root, written, taken, held, final, slow>>

-----------------------------------------------------------------------------

Init ==
  /\ d = [gen |-> 0, pid |-> FALSE, fd |-> NoFd, restart |-> FALSE, task |-> "none", last |-> FALSE,
          pipes |-> [f \in Fds |-> NoWatch], list |-> <<>>, count |-> 0, pending |-> <<>>,
          tail |-> EmptyTail, sess |-> [c \in Clients |-> Gone]]
  /\ root = FALSE
  /\ written = 0 /\ taken = 0 /\ final = 0 /\ held = FALSE /\ quiet = {} /\ slow = [c \in Clients |-> FALSE]

How == {"ok", "early", "late"}

Commands ==
  \/ \E c \in Clients \union {Nobody}, how \in How, f \in Fds : Start(c, how, f) \/ Restart(c, how, f)
  \/ Stop \/ \E c \in Clients : Log(c) \/ History(c)

Loop ==
  \/ \E f \in Fds : PipeEvent(f)
  \/ Tend \/ \E how \in How, f \in Fds : Due(how, f) \/ \E plan \in {"none", "later", "now"} : Reap(plan, how, f)
  \/ \E c \in Clients : Writable(c)

Environment ==
  \/ \E c \in Clients : Quit(c) \/ Turn(c)
  \/ RootExit \/ Emit \/ LetGo \/ \E g \in 1 .. MaxGen : Stir(g)

Next == Commands \/ Loop \/ Environment

\* The timer of the loop is always armed, a planned restart becomes due, and
\* the loop serves every watch that has an event: neither an event nor work for
\* the pass waits forever.  A step that serves one is a step of PipeEvent(f), or
\* of Tend, Reap or Due; output and launches being bounded, this is weak
\* fairness of these actions.
Ready(f) == d.pipes[f].armed /\ Event(d.pipes[f].gen)
Work == d.pipes # refresh_pipes(d).pipes \/ expired(d) # {} \/ (d.pid /\ ~root) \/ d.restart
Fairness == (\A f \in Fds : []<>~Ready(f)) /\ []<>~Work

Spec == Init /\ [][Next]_vars /\ Fairness

-----------------------------------------------------------------------------
(* Properties *)

TypeOK ==
  /\ d.gen \in 0 .. MaxGen /\ d.pid \in BOOLEAN /\ d.fd \in Fds \union {NoFd}
  /\ d.restart \in BOOLEAN /\ d.last \in BOOLEAN /\ d.task \in {"none", "stop", Nobody} \union Clients
  /\ d.pipes \in [Fds -> [gen : 0 .. MaxGen, armed : BOOLEAN]]
  /\ d.count = Len(d.list) /\ ToSet(d.pending) \subseteq Clients
  /\ \A c \in Clients : d.sess[c].queued \in 0 .. Limit
  /\ root => d.pid


\* A client that got the exit event, and was never Shifted, got all the root
\* wrote before it: the pipe is emptied before the message (close_fds).
ExitComesLast == \A c \in Clients : ~d.sess[c].cut

\* Something that answers those who wait for the next generation is still to
\* come: a planned restart, or the end of the generation that a start command
\* launched meanwhile.
AnswerToCome == d.restart \/ d.pid

\* A client with a connection has been answered, follows the program, or waits
\* for something that is still to come: an answer to all who wait for the next
\* generation, or the end of the generation it restarts.  The one exception are
\* those who wait when a start or restart command fails to launch: it has
\* cancelled the planned restart and answers nobody but its own client
\* (pending_log_sessions, reset_restart_policy, enqueue_after_termination).
NobodyIsForgotten ==
  \A c \in Clients :
    d.sess[c].open => \/ d.sess[c].told
                      \/ c \in ToSet(d.pending) /\ (AnswerToCome \/ d.sess[c].stranded)
                      \/ d.task = c /\ d.pid

\* The number of the pipe is that of a watch on the pipe of an earlier
\* generation: unarmed since that was closed, or armed and waiting for it.
Deaf == d.fd # NoFd /\ d.pipes[d.fd] # NoWatch /\ d.pipes[d.fd].gen # d.gen

Waiting == d.fd # NoFd /\ written > taken

\* Output waits forever in its pipe for one reason only: an old watch has the
\* pipe's number (refresh_pipes, arm_pipe).
OnlyDeafnessBlocks == <>[]Waiting => <>[]Deaf

=============================================================================
