----------------------------- MODULE SdkClient -----------------------------
(***************************************************************************)
(* The application side of ready and tick: the SDK client with its worker  *)
(* thread (sdk/pm_tiny_sdk.cpp), the cancellable transport under it        *)
(* (sdk/client_transport_posix.cpp), and the daemon's sessions that decode *)
(* and dispatch what it sends (core/protocol_v3.cpp, core/session.cpp,     *)
(* daemon/asio_daemon_loop.cpp).                                           *)
(*                                                                         *)
(* Threads: the application's callers, one of whom may close the client;   *)
(* the worker; the daemon.  An action is what a thread does under one      *)
(* acquisition of a mutex, or one system call with the checks before it.   *)
(*                                                                         *)
(* A frame is cut into Parts pieces, so that it can be written and read in *)
(* part.  Left out: names, error texts, what only status() reports         *)
(* (running_, connected_, the counters) and the length of the back-off.    *)
(***************************************************************************)
EXTENDS Naturals, Sequences, FiniteSets

CONSTANTS
  Kinds,       \* {"ready", "tick"}
  Flushers,    \* threads that call flush
  Parts,       \* pieces of a frame
  Capacity,    \* pieces a socket buffer holds
  Limit,       \* max_messages_per_dispatch
  MaxCalls,    \* bound: calls of ready and tick
  MaxConns,    \* bound: connections the daemon accepts
  MaxDrops     \* bound: connections the daemon closes

ASSUME KindsAssumption == Kinds = {"ready", "tick"}
ASSUME SizeAssumption == /\ Parts \in Nat \ {0} /\ Capacity \in Nat \ {0} /\ Limit \in Nat \ {0}
                         /\ MaxCalls \in Nat /\ MaxConns \in Nat /\ MaxDrops \in Nat

VARIABLES
  stopped, sending, \* stopped_ and sending_ of client::impl
  pending,   \* pending_ready_, pending_tick_
  sequence,  \* ready_sequence_, tick_sequence_
  wpc,       \* where the worker is
  event,     \* what it sends: the kind, the sequence it has seen, and in place of the
             \* request id, which is new for every attempt, the number of the frame
  offset,    \* the pieces of it that are written
  sock,      \* the worker's local descriptor
  cancelled, \* transport: cancelled_
  fd,        \* transport: fd_
  cpc,       \* where the thread that closes the client is
  flush,     \* the flush calls
  conn,      \* the connections, in the order they were made
  listening, \* the daemon accepts connections
  drops,     \* connections the daemon has closed
  covered,   \* history: the last sequence whose frame was written completely
  handled    \* history: per connection, the messages the daemon has handled

flags == <<stopped, sending>>
slots == <<pending, sequence>>
worker == <<wpc, event, offset, sock>>
daemon_vars == <<listening, drops, handled>>
vars == <<flags, slots, worker, cancelled, fd, cpc, flush, conn, daemon_vars, covered>>

None == 0

\* A connection: its two ends, what is in the socket, and the session's
\* decoder buffer, decoded messages and dispatch_posted.
NewConn == [client |-> TRUE, daemon |-> TRUE, wire |-> <<>>, buffer |-> <<>>,
            inbox |-> <<>>, posted |-> FALSE]

Piece(id, i) == [id |-> id, part |-> i]

NoFlush == [pc |-> "idle", asked |-> [k \in Kinds |-> 0]]

-----------------------------------------------------------------------------
(* The calls of the application *)

\* client::impl::enqueue
Enqueue(k) ==
  /\ ~stopped /\ sequence["ready"] + sequence["tick"] < MaxCalls
  /\ sequence' = [sequence EXCEPT ![k] = @ + 1]
  /\ pending' = [pending EXCEPT ![k] = TRUE]
  /\ UNCHANGED <<flags, worker, cancelled, fd, cpc, flush, conn, daemon_vars, covered>>

\* Mutant: only the send in progress counts.
Mut_Empty == ~sending

Empty == ~sending /\ \A k \in Kinds : ~pending[k]

\* client::impl::flush, up to its wait; asked keeps what had been enqueued.  A
\* call that returns false leaves nothing behind.
FlushCall(f) ==
  /\ flush[f].pc = "idle" /\ (stopped => Empty)
  /\ flush' = [flush EXCEPT ![f] = [pc |-> IF stopped THEN "true" ELSE "waiting", asked |-> sequence]]
  /\ UNCHANGED <<flags, slots, worker, cancelled, fd, cpc, conn, daemon_vars, covered>>

\* The wait ends with the predicate, or with the timeout.
FlushReturn(f) ==
  /\ flush[f].pc = "waiting"
  /\ \/ Empty /\ flush' = [flush EXCEPT ![f].pc = "true"]
     \/ ~Empty /\ flush' = [flush EXCEPT ![f] = NoFlush]
  /\ UNCHANGED <<flags, slots, worker, cancelled, fd, cpc, conn, daemon_vars, covered>>

\* client::impl::close, under its mutex
Close ==
  /\ cpc = "open" /\ cpc' = "cancel"
  /\ stopped' = TRUE
  /\ pending' = [k \in Kinds |-> FALSE]
  /\ UNCHANGED <<sending, sequence, worker, cancelled, fd, flush, conn, daemon_vars, covered>>

\* posix_client_transport::cancel: the flag, then disconnect.
Cancel ==
  /\ cpc = "cancel" /\ cpc' = "hang_up"
  /\ cancelled' = TRUE
  /\ UNCHANGED <<flags, slots, worker, fd, flush, conn, daemon_vars, covered>>

\* posix_client_transport::disconnect
disconnect ==
  /\ fd' = None
  /\ conn' = [c \in DOMAIN conn |-> IF c = fd THEN [conn[c] EXCEPT !.client = FALSE] ELSE conn[c]]

HangUp ==
  /\ cpc = "hang_up" /\ cpc' = "join"
  /\ disconnect
  /\ UNCHANGED <<flags, slots, worker, cancelled, flush, daemon_vars, covered>>

Join ==
  /\ cpc = "join" /\ wpc = "done" /\ cpc' = "closed"
  /\ UNCHANGED <<flags, slots, worker, cancelled, fd, flush, conn, daemon_vars, covered>>

-----------------------------------------------------------------------------
(* The worker *)

Goto(from, to) == wpc = from /\ wpc' = to

\* The top of worker_loop: wait for an event, remember its sequence.
Take ==
  /\ Goto("wait", "connect") /\ ~stopped
  /\ \E k \in Kinds :
       /\ pending[k] /\ (pending["ready"] => k = "ready")
       /\ event' = [kind |-> k, sequence |-> sequence[k], id |-> event.id]
  /\ sending' = TRUE /\ offset' = 0
  /\ UNCHANGED <<stopped, slots, sock, cancelled, fd, cpc, flush, conn,
                 daemon_vars, covered>>

\* Mutant: the wait is for events only.
Mut_Exit ==
  /\ Goto("wait", "done") /\ stopped /\ \E k \in Kinds : pending[k]
  /\ sending' = FALSE
  /\ UNCHANGED <<stopped, slots, event, offset, sock, cancelled, fd, cpc, flush, conn,
                 daemon_vars, covered>>

Exit ==
  /\ Goto("wait", "done") /\ stopped
  /\ sending' = FALSE
  /\ UNCHANGED <<stopped, slots, event, offset, sock, cancelled, fd, cpc, flush, conn,
                 daemon_vars, covered>>

\* The checks of posix_client_transport::connect
Connect ==
  /\ wpc = "connect"
  /\ wpc' = IF fd # None THEN "send" ELSE IF cancelled THEN "failed" ELSE "dial"
  /\ UNCHANGED <<flags, slots, event, offset, sock, cancelled, fd, cpc, flush, conn,
                 daemon_vars, covered>>

\* socket and connect.  A local socket is connected at once or refused.
Dial ==
  /\ wpc = "dial"
  /\ \/ /\ listening /\ Len(conn) < MaxConns
        /\ conn' = Append(conn, NewConn) /\ handled' = Append(handled, <<>>)
        /\ sock' = Len(conn) + 1 /\ wpc' = "set_fd"
     \/ wpc' = "failed" /\ UNCHANGED <<conn, handled, sock>>
  /\ UNCHANGED <<flags, slots, event, offset, cancelled, fd, cpc, flush, listening, drops, covered>>

SetFd ==
  /\ Goto("set_fd", "send") /\ fd' = sock
  /\ UNCHANGED <<flags, slots, event, offset, sock, cancelled, cpc, flush, conn, daemon_vars, covered>>

\* The start of posix_client_transport::send
Send ==
  /\ wpc = "send"
  /\ sock' = fd /\ wpc' = IF fd = None THEN "failed" ELSE "check"
  /\ UNCHANGED <<flags, slots, event, offset, cancelled, fd, cpc, flush, conn, daemon_vars, covered>>

\* Mutant: a cancelled transport writes on.
Mut_Check ==
  /\ Goto("check", "write")
  /\ UNCHANGED <<flags, slots, event, offset, sock, cancelled, fd, cpc, flush, conn,
                 daemon_vars, covered>>

\* The check before every system call, in send and in wait_ready
Check ==
  /\ wpc = "check" /\ wpc' = IF cancelled THEN "failed" ELSE "write"
  /\ UNCHANGED <<flags, slots, event, offset, sock, cancelled, fd, cpc, flush, conn,
                 daemon_vars, covered>>

\* The pieces n of the event that go into the socket together
Written(n) == [i \in 1 .. n |-> Piece(event.id, offset + i)]

\* Mutant: a short write counts as a whole one.
Mut_AfterWrite(done) == "sent"

\* The loop of send goes on until everything is written.
AfterWrite(done) == IF done < Parts THEN "check" ELSE "sent"

\* ::send writes a part, finds the buffer full, or fails since one end is gone.
\* After cancel() the worker still holds the number of the closed descriptor;
\* it is assumed that the application opens no other one under it meanwhile.
Write ==
  /\ wpc = "write"
  /\ LET c == conn[sock]
         free == Capacity - Len(c.wire)
     IN  \/ /\ c.client /\ c.daemon
            /\ \E n \in 1 .. free :
                 /\ offset + n <= Parts /\ offset' = offset + n
                 /\ conn' = [conn EXCEPT ![sock].wire = @ \o Written(n)]
                 /\ wpc' = AfterWrite(offset + n)
         \/ /\ c.client /\ c.daemon /\ free = 0
            /\ wpc' = "check" /\ UNCHANGED <<offset, conn>>
         \/ /\ ~(c.client /\ c.daemon)
            /\ wpc' = "failed" /\ UNCHANGED <<offset, conn>>
  /\ UNCHANGED <<flags, slots, event, sock, cancelled, fd, cpc, flush, daemon_vars, covered>>

\* Mutant: the slot is cleared whatever has been enqueued meanwhile.
Mut_Sent ==
  /\ Goto("sent", "wait")
  /\ sending' = FALSE
  /\ pending' = [pending EXCEPT ![event.kind] = FALSE]
  /\ covered' = [covered EXCEPT ![event.kind] = event.sequence]
  /\ event' = [event EXCEPT !.id = @ + 1]
  /\ UNCHANGED <<stopped, sequence, offset, sock, cancelled, fd, cpc, flush, conn,
                 daemon_vars>>

\* A frame has been written: its slot is cleared unless there is a newer event.
Sent ==
  /\ Goto("sent", "wait")
  /\ sending' = FALSE
  /\ pending' = [pending EXCEPT ![event.kind] = @ /\ sequence[event.kind] # event.sequence]
  /\ covered' = [covered EXCEPT ![event.kind] = event.sequence]
  /\ event' = [event EXCEPT !.id = @ + 1]
  /\ UNCHANGED <<stopped, sequence, offset, sock, cancelled, fd, cpc, flush, conn,
                 daemon_vars>>

\* The exception handler: disconnect, then the flags under the mutex.
Fail ==
  /\ Goto("failed", "apologise") /\ disconnect
  /\ UNCHANGED <<flags, slots, event, offset, sock, cancelled, cpc, flush, daemon_vars, covered>>

Apologise ==
  /\ Goto("apologise", "back_off")
  /\ sending' = FALSE
  /\ UNCHANGED <<stopped, slots, event, offset, sock, cancelled, fd, cpc, flush, conn,
                 daemon_vars, covered>>

\* Mutant: only close() ends the wait.
Mut_Retry ==
  /\ Goto("back_off", "wait") /\ stopped
  /\ UNCHANGED <<flags, slots, event, offset, sock, cancelled, fd, cpc, flush, conn, daemon_vars,
                 covered>>

\* The delay passes, or close() cuts it short.
Retry ==
  /\ Goto("back_off", "wait")
  /\ UNCHANGED <<flags, slots, event, offset, sock, cancelled, fd, cpc, flush, conn, daemon_vars,
                 covered>>

-----------------------------------------------------------------------------
(* The daemon's sessions *)

Min2(a, b) == IF a <= b THEN a ELSE b

\* protocol_decoder::feed: whole frames become messages, the rest is kept.
Messages(b) == [i \in 1 .. Len(b) \div Parts |-> SubSeq(b, (i - 1) * Parts + 1, i * Parts)]

Rest(b) == SubSeq(b, (Len(b) \div Parts) * Parts + 1, Len(b))

\* Mutant: what is left after a full batch waits for the next read.
Mut_dispatch_messages(c, s) ==
  \E n \in 0 .. Min2(Limit, Len(s.inbox)) :
    /\ n = Min2(Limit, Len(s.inbox))
    /\ conn' = [conn EXCEPT ![c] = [s EXCEPT !.inbox = SubSeq(@, n + 1, Len(@))]]
    /\ handled' = [handled EXCEPT ![c] = @ \o SubSeq(s.inbox, 1, n)]
    /\ UNCHANGED drops

\* dispatch_messages of connection c in state s: up to Limit messages are
\* handled, the others later; a handler that rejects its peer closes the
\* session with what is left of it.
dispatch_messages(c, s) ==
  \E n \in 0 .. Min2(Limit, Len(s.inbox)) :
    /\ handled' = [handled EXCEPT ![c] = @ \o SubSeq(s.inbox, 1, n)]
    /\ \/ /\ n = Min2(Limit, Len(s.inbox))
          /\ conn' = [conn EXCEPT ![c] = [s EXCEPT !.inbox = SubSeq(@, n + 1, Len(@)),
                                                   !.posted = n < Len(s.inbox)]]
          /\ UNCHANGED drops
       \/ /\ n < Min2(Limit, Len(s.inbox)) /\ drops < MaxDrops
          /\ conn' = [conn EXCEPT ![c] = [s EXCEPT !.daemon = FALSE, !.inbox = <<>>]]
          /\ drops' = drops + 1

\* The socket is readable: session_t::read, then dispatch_messages.
Read(c) ==
  /\ c \in DOMAIN conn /\ conn[c].daemon /\ conn[c].wire # <<>>
  /\ LET b == conn[c].buffer \o conn[c].wire
     IN  dispatch_messages(c, [conn[c] EXCEPT !.wire = <<>>, !.buffer = Rest(b),
                                              !.inbox = @ \o Messages(b)])
  /\ UNCHANGED <<flags, slots, worker, cancelled, fd, cpc, flush, listening, covered>>

\* The posted continuation of dispatch_messages
Dispatch(c) ==
  /\ c \in DOMAIN conn /\ conn[c].daemon /\ conn[c].posted
  /\ dispatch_messages(c, [conn[c] EXCEPT !.posted = FALSE])
  /\ UNCHANGED <<flags, slots, worker, cancelled, fd, cpc, flush, listening, covered>>

\* The client has gone and the socket is drained: remove_session.
Eof(c) ==
  /\ c \in DOMAIN conn /\ conn[c].daemon /\ conn[c].wire = <<>> /\ ~conn[c].client
  /\ conn' = [conn EXCEPT ![c].daemon = FALSE, ![c].inbox = <<>>, ![c].posted = FALSE]
  /\ UNCHANGED <<flags, slots, worker, cancelled, fd, cpc, flush, daemon_vars, covered>>

\* The daemon goes down with all its sessions, and comes back.
Down ==
  /\ listening /\ drops < MaxDrops /\ listening' = FALSE /\ drops' = drops + 1
  /\ conn' = [c \in DOMAIN conn |-> [conn[c] EXCEPT !.daemon = FALSE, !.inbox = <<>>, !.posted = FALSE]]
  /\ UNCHANGED <<flags, slots, worker, cancelled, fd, cpc, flush, handled, covered>>

Up ==
  /\ ~listening /\ listening' = TRUE
  /\ UNCHANGED <<flags, slots, worker, cancelled, fd, cpc, flush, conn, drops, handled, covered>>

-----------------------------------------------------------------------------

Init ==
  /\ stopped = FALSE /\ sending = FALSE
  /\ pending = [k \in Kinds |-> FALSE] /\ sequence = [k \in Kinds |-> 0]
  /\ wpc = "wait" /\ event = [kind |-> "tick", sequence |-> 0, id |-> 1] /\ offset = 0 /\ sock = None
  /\ cancelled = FALSE /\ fd = None /\ cpc = "open"
  /\ flush = [f \in Flushers |-> NoFlush]
  /\ conn = <<>> /\ handled = <<>> /\ listening = TRUE /\ drops = 0
  /\ covered = [k \in Kinds |-> 0]

Application ==
  \/ \E k \in Kinds : Enqueue(k)
  \/ \E f \in Flushers : FlushCall(f) \/ FlushReturn(f)
  \/ Close

Closing == Cancel \/ HangUp \/ Join

Worker == \/ Take \/ Exit \/ Connect \/ Dial \/ SetFd \/ Send \/ Check \/ Write
          \/ Sent \/ Fail \/ Apologise \/ Retry

Session(c) == Read(c) \/ Dispatch(c) \/ Eof(c)

Next == \/ Application \/ Closing \/ Worker \/ Down \/ Up
        \/ \E c \in 1 .. MaxConns : Session(c)

\* Both threads of the client and the daemon's loop keep running; the daemon
\* comes back, and a connect that is possible again and again succeeds.
Fairness ==
  /\ WF_vars(Closing) /\ WF_vars(Worker) /\ WF_vars(Up)
  /\ SF_vars(Dial /\ wpc' = "set_fd")
  /\ WF_vars(\E c \in 1 .. MaxConns : Session(c))

Spec == Init /\ [][Next]_vars /\ Fairness

-----------------------------------------------------------------------------
(* Properties *)

TypeOK ==
  /\ stopped \in BOOLEAN /\ sending \in BOOLEAN
  /\ pending \in [Kinds -> BOOLEAN] /\ sequence \in [Kinds -> Nat] /\ covered \in [Kinds -> Nat]
  /\ wpc \in {"wait", "connect", "dial", "set_fd", "send", "check", "write", "sent", "failed",
              "apologise", "back_off", "done"}
  /\ event \in [kind : Kinds, sequence : Nat, id : Nat] /\ offset \in 0 .. Parts
  /\ sock \in 0 .. Len(conn) /\ fd \in 0 .. Len(conn) /\ cancelled \in BOOLEAN
  /\ cpc \in {"open", "cancel", "hang_up", "join", "closed"}
  /\ flush \in [Flushers -> [pc : {"idle", "waiting", "true"}, asked : [Kinds -> Nat]]]
  /\ \A c \in DOMAIN conn : Len(conn[c].wire) <= Capacity /\ Len(conn[c].buffer) < Parts

\* A slot is pending exactly if the last call has not been covered by a frame
\* whose sending began after it: no call is forgotten because an older frame
\* got through, and none is sent for ever (worker_loop, the sequence check).
SlotsTrackCalls ==
  ~stopped => \A k \in Kinds : pending[k] <=> covered[k] < sequence[k]

\* flush() returns true only when all that was enqueued before has been written,
\* or when the client is closed.
FlushMeansWritten ==
  \A f \in Flushers : flush[f].pc = "true"
    => stopped \/ \A k \in Kinds : flush[f].asked[k] <= covered[k]

\* A frame that was cut off by an error or a close is never completed by the
\* pieces of another, and a session handles frames in the order of sending
\* (send, disconnect, protocol_decoder::feed, dispatch_messages).
HandledWhole ==
  \A c \in DOMAIN handled : \A i \in DOMAIN handled[c] :
    /\ \A p \in 1 .. Parts : handled[c][i][p] = Piece(handled[c][i][1].id, p)
    /\ i > 1 => handled[c][i - 1][1].id < handled[c][i][1].id

\* When close() returns, the worker is gone and has left no socket behind, at
\* whatever point of connecting or sending it was caught.
ClosedIsClean ==
  cpc = "closed" => /\ wpc = "done" /\ ~sending /\ fd = None
                    /\ \A c \in DOMAIN conn : ~conn[c].client

\* close() returns: no step of the worker waits for the daemon only.
CloseReturns == cpc = "cancel" ~> cpc = "closed"

\* Every event is written in the end, through refused connections, partial
\* writes and daemon restarts, unless the client is closed first.
EventIsWritten == \A k \in Kinds : pending[k] ~> ~pending[k]

\* Messages are not left lying in a session, however few are handled at once
\* (dispatch_messages and its posted continuation).
Backlog(c) ==
  c \in DOMAIN conn /\ conn[c].daemon /\ (conn[c].wire # <<>> \/ conn[c].inbox # <<>>)
BacklogIsHandled == \A c \in 1 .. MaxConns : Backlog(c) ~> ~Backlog(c)

=============================================================================
