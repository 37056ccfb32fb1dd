-------------------------- MODULE SdkClientProofs --------------------------
(***************************************************************************)
(* Proofs about SdkClient for any number of callers, calls, connections    *)
(* and any sizes: what the pending slots and flush() say, and what close() *)
(* leaves behind.  The last section holds the lemmas on frames in a stream *)
(* of pieces that SdkFrameProofs goes on from.                             *)
(***************************************************************************)
EXTENDS SdkClient, WellFoundedInduction, TLAPS

\* What a socket and a session hold: pieces of frames.
Pieces == Seq([id : Nat, part : Nat])
ConnType == [client : BOOLEAN, daemon : BOOLEAN, wire : Pieces, buffer : Pieces,
             inbox : Seq(Pieces), posted : BOOLEAN]

Types ==
  /\ stopped \in BOOLEAN /\ sending \in BOOLEAN
  /\ pending \in [Kinds -> BOOLEAN] /\ sequence \in [Kinds -> Nat] /\ covered \in [Kinds -> Nat]
  /\ wpc \in {"wait", "connect", "dial", "set_fd", "send", "check", "write", "sent", "failed",
              "apologise", "back_off", "done"}
  /\ event \in [kind : Kinds, sequence : Nat, id : Nat] /\ offset \in Nat
  /\ fd \in Nat /\ sock \in Nat /\ cancelled \in BOOLEAN
  /\ cpc \in {"open", "cancel", "hang_up", "join", "closed"}
  /\ flush \in [Flushers -> [pc : {"idle", "waiting", "true"}, asked : [Kinds -> Nat]]]

\* The worker is between taking an event and the end of its attempt.
Busy == wpc \in {"connect", "dial", "set_fd", "send", "check", "write", "sent", "failed", "apologise"}

\* The event in hand is no older than the last frame and no newer than the last call.
InHand ==
  /\ \A k \in Kinds : covered[k] <= sequence[k]
  /\ Busy => covered[event.kind] <= event.sequence /\ event.sequence <= sequence[event.kind]

\* A flush asks for calls that have been made.
Asked == \A f \in Flushers : \A k \in Kinds : flush[f].asked[k] <= sequence[k]

SlotInv == Types /\ InHand /\ Asked /\ SlotsTrackCalls /\ FlushMeansWritten

-----------------------------------------------------------------------------
(* The slots and flush() *)

\* Before the first call nothing is pending and nothing asked for.
LEMMA SlotInit == Init => SlotInv
<1> SUFFICES ASSUME Init PROVE SlotInv
    OBVIOUS
<1> USE KindsAssumption
<1>1. Types
  BY ZenonT(40) DEF Init, Types, NoFlush, None
<1>2. InHand /\ Asked
  BY DEF Init, InHand, Busy, Asked, NoFlush
<1>3. SlotsTrackCalls
  BY DEF Init, SlotsTrackCalls
<1>4. FlushMeansWritten
  BY DEF Init, FlushMeansWritten, NoFlush
<1> QED
  BY <1>1, <1>2, <1>3, <1>4 DEF SlotInv

\* What a step must leave alone for the slots to stay true to the calls.
SlotVars == <<stopped, pending, sequence, covered, flush>>

\* A step that touches none of the slots, the flags and the flush calls, and
\* after which the worker is busy only with the event it was busy with.
LEMMA SlotFrame ==
  ASSUME SlotInv, UNCHANGED SlotVars, Types',
         Busy' => Busy /\ event' = event
  PROVE  SlotInv'
<1>1. InHand'
  BY DEF SlotInv, InHand, SlotVars, Busy
<1>2. Asked' /\ SlotsTrackCalls' /\ FlushMeansWritten'
  BY DEF SlotInv, Asked, SlotsTrackCalls, FlushMeansWritten, SlotVars
<1> QED
  BY <1>1, <1>2 DEF SlotInv

\* Every step keeps SlotInv: enqueue raises a sequence and sets its slot, a
\* frame that got through covers the calls before its sending began, and flush()
\* returns true with both slots empty.
LEMMA SlotStep == ASSUME SlotInv, [Next]_vars PROVE SlotInv'
<1> USE KindsAssumption
<1>t. Types
  BY DEF SlotInv
<1>1. ASSUME NEW k \in Kinds, Enqueue(k) PROVE SlotInv'
  <2>1. Types'
    BY <1>1, <1>t DEF Enqueue, Types, flags, worker, daemon_vars
  <2>2. sequence[k] \in Nat /\ covered[k] <= sequence[k] /\ covered[k] \in Nat
    BY <1>t DEF SlotInv, InHand, Types
  <2>3. /\ \A j \in Kinds : sequence'[j] = IF j = k THEN sequence[j] + 1 ELSE sequence[j]
        /\ \A j \in Kinds : sequence[j] \in Nat /\ covered[j] \in Nat
        /\ UNCHANGED <<covered, flush, stopped, event, wpc>>
    BY <1>1, <1>t DEF Enqueue, Types, flags, worker
  <2>4. InHand'
    BY <2>3, <1>t DEF SlotInv, InHand, Busy, Types
  <2>5. Asked'
    BY <2>3, <1>t DEF SlotInv, Asked, Types
  <2>6. SlotsTrackCalls'
    <3>1. \A j \in Kinds : pending'[j] = IF j = k THEN TRUE ELSE pending[j]
      BY ZenonT(40), <1>1, <1>t DEF Enqueue, Types
    <3>2. covered'[k] < sequence'[k]
      BY <2>2, <2>3
    <3> QED
      BY ZenonT(40), <3>1, <3>2, <2>3 DEF SlotInv, SlotsTrackCalls
  <2>7. FlushMeansWritten'
    BY <2>3 DEF SlotInv, FlushMeansWritten
  <2> QED
    BY <2>1, <2>4, <2>5, <2>6, <2>7 DEF SlotInv
<1>2. ASSUME NEW f \in Flushers, FlushCall(f) PROVE SlotInv'
  <2>0. \A j \in Kinds : sequence[j] \in Nat
    BY <1>t DEF Types
  <2>1. Types'
    BY <1>2, <1>t DEF FlushCall, Types, flags, slots, worker, daemon_vars
  <2>2. InHand' /\ SlotsTrackCalls'
    BY <1>2 DEF FlushCall, SlotInv, InHand, SlotsTrackCalls, Busy, flags, slots, worker
  <2>3. Asked'
    <3>1. flush'[f].asked = sequence /\ \A g \in Flushers \ {f} : flush'[g] = flush[g]
      BY <1>2, <1>t DEF FlushCall, Types
    <3> QED
      BY <3>1, <2>0, <1>2 DEF SlotInv, Asked, FlushCall, slots
  <2>4. FlushMeansWritten'
    <3>1. /\ flush'[f].pc = "true" => stopped
          /\ \A g \in Flushers \ {f} : flush'[g] = flush[g]
          /\ UNCHANGED <<stopped, covered>>
      BY <1>2, <1>t DEF FlushCall, Types, flags
    <3> QED
      BY <3>1 DEF SlotInv, FlushMeansWritten
  <2> QED
    BY <2>1, <2>2, <2>3, <2>4 DEF SlotInv
<1>3. ASSUME NEW f \in Flushers, FlushReturn(f) PROVE SlotInv'
  <2>1. Types'
    BY SMTT(40), SMTT(41), <1>3, <1>t DEF FlushReturn, Types, flags, slots, worker, daemon_vars, NoFlush
  <2>2. InHand' /\ SlotsTrackCalls'
    BY <1>3 DEF FlushReturn, SlotInv, InHand, SlotsTrackCalls, Busy, flags, slots, worker
  <2>3. /\ \A g \in Flushers \ {f} : flush'[g] = flush[g]
        /\ UNCHANGED <<stopped, covered, sequence>>
    BY <1>3, <1>t DEF FlushReturn, Types, flags, slots
  <2>4. flush'[f].asked = flush[f].asked \/ flush'[f] = NoFlush
    BY <1>3, <1>t DEF FlushReturn, Types
  <2>5. Asked'
    BY <2>3, <2>4, <1>t DEF SlotInv, Asked, Types, NoFlush
  <2>6. ASSUME flush'[f].pc = "true", ~stopped, NEW k \in Kinds PROVE flush'[f].asked[k] <= covered[k]
    <3>1. Empty /\ flush'[f].asked = flush[f].asked
      BY <1>3, <1>t, <2>6 DEF FlushReturn, Types, NoFlush
    <3>2. ~(covered[k] < sequence[k])
      BY <3>1, <2>6 DEF SlotInv, SlotsTrackCalls, Empty
    <3> QED
      BY <3>1, <3>2, <1>t DEF SlotInv, Asked, Types
  <2>7. FlushMeansWritten'
    BY <2>3, <2>6 DEF SlotInv, FlushMeansWritten
  <2> QED
    BY <2>1, <2>2, <2>5, <2>7 DEF SlotInv
<1>4. CASE Close
  <2>1. Types'
    BY <1>4, <1>t DEF Close, Types, worker, daemon_vars
  <2>2. stopped' /\ UNCHANGED <<sequence, covered, flush, event, wpc>>
    BY <1>4 DEF Close, worker
  <2>3. InHand' /\ Asked'
    BY <2>2 DEF SlotInv, InHand, Asked, Busy
  <2>4. SlotsTrackCalls' /\ FlushMeansWritten'
    BY <2>2 DEF SlotsTrackCalls, FlushMeansWritten
  <2> QED
    BY <2>1, <2>3, <2>4 DEF SlotInv
<1>5. CASE Closing
  <2>0. fd' \in Nat
    BY <1>5, <1>t DEF Closing, Cancel, HangUp, Join, disconnect, Types, None
  <2>1. Types'
    <3>1. CASE Cancel
      BY <3>1, <1>t DEF Cancel, Types, flags, slots, worker
    <3>2. CASE HangUp
      BY <3>2, <1>t, <2>0 DEF HangUp, Types, flags, slots, worker
    <3>3. CASE Join
      BY <3>3, <1>t DEF Join, Types, flags, slots, worker
    <3> QED
      BY <1>5, <3>1, <3>2, <3>3 DEF Closing
  <2>2. UNCHANGED SlotVars /\ UNCHANGED <<wpc, event>>
    BY <1>5 DEF Closing, Cancel, HangUp, Join, SlotVars, flags, slots, worker
  <2> QED
    BY <2>1, <2>2, SlotFrame DEF Busy
<1>6. CASE Take
  <2>1. PICK k \in Kinds : event' = [kind |-> k, sequence |-> sequence[k], id |-> event.id]
    BY <1>6 DEF Take
  <2>2. Types'
    BY <1>6, <2>1, <1>t DEF Take, Goto, Types, slots, daemon_vars
  <2>3. UNCHANGED SlotVars
    BY <1>6 DEF Take, SlotVars, slots
  <2>4. InHand'
    BY <2>1, <2>3, <1>t DEF SlotInv, InHand, SlotVars, Types
  <2>5. Asked' /\ SlotsTrackCalls' /\ FlushMeansWritten'
    BY <2>3 DEF SlotInv, Asked, SlotsTrackCalls, FlushMeansWritten, SlotVars
  <2> QED
    BY <2>2, <2>4, <2>5 DEF SlotInv
<1>7. CASE Sent
  <2> DEFINE k == event.kind
  <2>0. k \in Kinds /\ event.sequence \in Nat /\ event.id \in Nat
    BY <1>t DEF Types
  <2>1. Types'
    <3>1. pending' \in [Kinds -> BOOLEAN]
      BY Zenon, <1>7, <1>t DEF Sent, Types
    <3>2. event' \in [kind : Kinds, sequence : Nat, id : Nat]
      BY <1>7, <1>t, <2>0 DEF Sent, Types
    <3>3. covered' \in [Kinds -> Nat]
      BY <1>7, <1>t, <2>0 DEF Sent, Types
    <3>4. wpc' = "wait" /\ sending' = FALSE /\ UNCHANGED <<stopped, sequence, offset, sock, cancelled, fd, cpc, flush>>
      BY <1>7 DEF Sent, Goto
    <3> QED
      BY ZenonT(40), <1>t, <3>1, <3>2, <3>3, <3>4 DEF Types
  <2>2. /\ \A j \in Kinds : covered'[j] = IF j = k THEN event.sequence ELSE covered[j]
        /\ UNCHANGED <<stopped, sequence, flush>> /\ wpc = "sent" /\ wpc' = "wait"
    BY <1>7, <1>t DEF Sent, Goto, Types
  <2>3. covered[k] <= event.sequence /\ event.sequence <= sequence[k]
    BY <2>2 DEF SlotInv, InHand, Busy
  <2>4. InHand'
    BY <2>2, <2>3 DEF SlotInv, InHand, Busy
  <2>5. Asked'
    BY <2>2 DEF SlotInv, Asked
  <2>6. ASSUME ~stopped', NEW j \in Kinds PROVE pending'[j] <=> covered'[j] < sequence'[j]
    <3>1. pending'[j] = IF j = k THEN pending[j] /\ sequence[k] # event.sequence ELSE pending[j]
      BY <1>7, <1>t DEF Sent, Types
    <3>2. pending[j] <=> covered[j] < sequence[j]
      BY <2>6, <2>2 DEF SlotInv, SlotsTrackCalls
    <3>3. CASE j # k
      BY <3>1, <3>2, <3>3, <2>2
    <3>4. CASE j = k /\ sequence[k] = event.sequence
      <4>1. ~pending'[j]
        BY ZenonT(40), <3>1, <3>4
      <4>2. ~(covered'[j] < sequence'[j])
        BY <3>4, <2>2, <2>0
      <4> QED
        BY <4>1, <4>2
    <3>5. CASE j = k /\ sequence[k] # event.sequence
      <4>0. covered[j] \in Nat /\ sequence[j] \in Nat
        BY <1>t DEF Types
      <4>1. covered[j] < sequence[j] /\ covered'[j] < sequence'[j]
        BY <3>5, <2>2, <2>3, <2>0, <4>0
      <4>2. pending'[j] = pending[j]
        BY Zenon, <3>1, <3>5, <1>t DEF Types
      <4> QED
        BY <4>1, <4>2, <3>2
    <3> QED
      BY <3>3, <3>4, <3>5
  <2>7. SlotsTrackCalls'
    BY <2>6 DEF SlotsTrackCalls
  <2>8. FlushMeansWritten'
    BY <2>2, <2>3, <2>0, <1>t DEF SlotInv, FlushMeansWritten, Types
  <2> QED
    BY <2>1, <2>4, <2>5, <2>7, <2>8 DEF SlotInv
<1>8. CASE Exit \/ Connect \/ SetFd \/ Send \/ Check \/ Fail \/ Apologise \/ Retry
  <2>1. Types'
    <3>1. CASE Exit \/ Apologise
      BY ZenonT(40), <3>1, <1>t DEF Exit, Apologise, Goto, Types, slots
    <3>2. CASE Connect \/ Check \/ Retry
      BY <3>2, <1>t DEF Connect, Check, Retry, Goto, Types, flags, slots
    <3>3. CASE SetFd \/ Send
      BY <3>3, <1>t DEF SetFd, Send, Goto, Types, flags, slots
    <3>4. CASE Fail
      <4>1. fd' \in Nat
        BY <3>4 DEF Fail, disconnect, None
      <4> QED
        BY <3>4, <4>1, <1>t DEF Fail, Goto, Types, flags, slots
    <3> QED
      BY <1>8, <3>1, <3>2, <3>3, <3>4
  <2>2. UNCHANGED SlotVars /\ UNCHANGED event
    BY <1>8 DEF Exit, Connect, SetFd, Send, Check, Fail, Apologise, Retry, SlotVars, flags, slots
  <2>3. Busy' => Busy
    BY <1>8 DEF Exit, Connect, SetFd, Send, Check, Fail, Apologise, Retry, Goto, Busy
  <2> QED
    BY <2>1, <2>2, <2>3, SlotFrame
<1>9. CASE Dial
  <2>1. Types'
    <3>1. sock' \in Nat
      BY <1>9, <1>t DEF Dial, Types
    <3> QED
      BY <1>9, <1>t, <3>1 DEF Dial, Types, flags, slots
  <2>2. UNCHANGED SlotVars /\ UNCHANGED event /\ Busy
    BY <1>9 DEF Dial, SlotVars, flags, slots, Busy
  <2> QED
    BY <2>1, <2>2, SlotFrame
<1>10. CASE Write
  <2>1. UNCHANGED SlotVars /\ UNCHANGED <<event, sending, sock, cancelled, fd, cpc>> /\ Busy
    BY <1>10 DEF Write, SlotVars, flags, slots, Busy
  <2>2. offset' \in Nat /\ wpc' \in {"check", "sent", "failed"}
    <3>1. ASSUME NEW n \in 1 .. (Capacity - Len(conn[sock].wire)), offset' = offset + n, offset + n <= Parts,
                 wpc' = AfterWrite(offset + n)
          PROVE  offset' \in Nat /\ wpc' \in {"check", "sent"}
      <4>1. n \in Nat
        OBVIOUS
      <4> QED
        BY <3>1, <4>1, <1>t DEF Types, AfterWrite
    <3> QED
      BY <1>10, <3>1, <1>t DEF Write, Types
  <2>3. Types'
    BY <1>t, <2>1, <2>2 DEF Types, SlotVars
  <2> QED
    BY <2>1, <2>3, SlotFrame
<1>11. CASE Down \/ Up \/ \E c \in 1 .. MaxConns : Session(c)
  <2>1. UNCHANGED SlotVars /\ UNCHANGED <<event, wpc, offset, sending, sock, cancelled, fd, cpc>>
    BY ZenonT(40), <1>11 DEF Down, Up, Session, Read, Dispatch, Eof, SlotVars, flags, slots, worker
  <2>2. Types'
    BY <1>t, <2>1 DEF Types, SlotVars
  <2> QED
    BY SMTT(40), <2>1, <2>2, SlotFrame DEF Busy
<1>12. CASE UNCHANGED vars
  <2>1. UNCHANGED SlotVars /\ UNCHANGED <<event, wpc, offset, sending, sock, cancelled, fd, cpc>>
    BY <1>12 DEF vars, SlotVars, flags, slots, worker
  <2>2. Types'
    BY <1>t, <2>1 DEF Types, SlotVars
  <2> QED
    BY <2>1, <2>2, SlotFrame DEF Busy
<1> QED
  BY <1>1, <1>2, <1>3, <1>4, <1>5, <1>6, <1>7, <1>8, <1>9, <1>10, <1>11, <1>12
     DEF Next, Application, Worker

\* At any time a slot is pending exactly if its last call is not covered by a
\* frame whose sending began after it (worker_loop's sequence check).
THEOREM SlotsAreExact == Spec => []SlotsTrackCalls
<1>1. SlotInv /\ [Next]_vars => SlotInv'
  BY SlotStep
<1>2. SlotInv => SlotsTrackCalls
  BY DEF SlotInv
<1> QED
  BY SlotInit, <1>1, <1>2, PTL DEF Spec

\* flush() of an open client returns true only when everything enqueued before
\* it has been written.
THEOREM FlushIsExact == Spec => []FlushMeansWritten
<1>1. SlotInv /\ [Next]_vars => SlotInv'
  BY SlotStep
<1>2. SlotInv => FlushMeansWritten
  BY DEF SlotInv
<1> QED
  BY SlotInit, <1>1, <1>2, PTL DEF Spec

-----------------------------------------------------------------------------
(* The types, those of the sockets and the sessions included *)

\* Whole frames and a rest: division as protocol_decoder::feed uses it.
LEMMA Division ==
  ASSUME NEW n \in Nat, NEW p \in Nat \ {0}
  PROVE  /\ n \div p \in Nat /\ (n \div p) * p \in Nat
         /\ (n \div p) * p <= n /\ n < (n \div p) * p + p
<1> QED
  BY SMT

\* The i-th frame lies within the q frames.
LEMMA FrameBounds ==
  ASSUME NEW q \in Nat, NEW i \in 1 .. q, NEW p \in Nat \ {0}
  PROVE  /\ (i - 1) * p \in Nat /\ i * p \in Nat
         /\ (i - 1) * p + p = i * p /\ i * p <= q * p
<1>1. i \in Nat /\ i - 1 \in Nat /\ q - i \in Nat
  OBVIOUS
<1>2. (i - 1) * p \in Nat /\ i * p \in Nat /\ (q - i) * p \in Nat
  BY <1>1, SMT
<1>3. (i - 1) * p + p = i * p
  BY <1>1, SMT
<1>4. q * p = i * p + (q - i) * p
  BY <1>1, SMT
<1> QED
  BY <1>2, <1>3, <1>4

\* A cut-out of pieces is pieces again.
LEMMA CutOut ==
  ASSUME NEW S, NEW b \in Seq(S), NEW m \in Nat, NEW n \in Nat, m <= n + 1, 1 <= m, n <= Len(b)
  PROVE  SubSeq(b, m, n) \in Seq(S) /\ Len(SubSeq(b, m, n)) = n - m + 1
<1> QED
  BY SMT

\* feed turns a buffer into whole frames and less than a frame.
LEMMA Decoding ==
  ASSUME NEW b \in Pieces
  PROVE  Messages(b) \in Seq(Pieces) /\ Rest(b) \in Pieces /\ Len(Rest(b)) < Parts
<1> DEFINE q == Len(b) \div Parts
<1>0. Len(b) \in Nat /\ Parts \in Nat \ {0}
  BY SizeAssumption DEF Pieces
<1>1. q \in Nat /\ q * Parts \in Nat /\ q * Parts <= Len(b) /\ Len(b) < q * Parts + Parts
  BY <1>0, Division
<1> HIDE DEF q
<1>2. ASSUME NEW i \in 1 .. q PROVE SubSeq(b, (i - 1) * Parts + 1, i * Parts) \in Pieces
  <2> DEFINE x == (i - 1) * Parts
             y == i * Parts
  <2>1. x \in Nat /\ y \in Nat /\ x + Parts = y /\ y <= q * Parts
    BY <1>0, <1>1, FrameBounds
  <2> HIDE DEF x, y
  <2>2. x + 1 \in Nat /\ x + 1 <= y + 1 /\ 1 <= x + 1 /\ y <= Len(b)
    BY <2>1, <1>0, <1>1
  <2>3. SubSeq(b, x + 1, y) \in Seq([id : Nat, part : Nat])
    BY ZenonT(40), <2>1, <2>2, CutOut DEF Pieces
  <2> QED
    BY <2>3 DEF x, y, Pieces
<1>3. Messages(b) \in Seq(Pieces)
  <2>1. Messages(b) = [i \in 1 .. q |-> SubSeq(b, (i - 1) * Parts + 1, i * Parts)]
    BY DEF Messages, q
  <2> QED
    BY <2>1, <1>1, <1>2
<1>4. Rest(b) \in Pieces /\ Len(Rest(b)) < Parts
  <2> DEFINE x == q * Parts
  <2>1. x \in Nat /\ x <= Len(b) /\ Len(b) < x + Parts
    BY <1>1
  <2>2. Rest(b) = SubSeq(b, x + 1, Len(b))
    BY DEF Rest, q
  <2> HIDE DEF x
  <2>3. x + 1 \in Nat /\ x + 1 <= Len(b) + 1 /\ 1 <= x + 1
    BY <2>1, <1>0
  <2>4. Rest(b) \in Seq([id : Nat, part : Nat]) /\ Len(Rest(b)) = Len(b) - (x + 1) + 1
    <3> DEFINE S == [id : Nat, part : Nat]
               m == x + 1
               n == Len(b)
    <3>1. b \in Seq(S) /\ m \in Nat /\ n \in Nat /\ m <= n + 1 /\ 1 <= m /\ n <= Len(b)
      BY <1>0, <2>3 DEF Pieces
    <3> HIDE DEF S, m, n
    <3>2. SubSeq(b, m, n) \in Seq(S) /\ Len(SubSeq(b, m, n)) = n - m + 1
      BY <3>1, CutOut
    <3> QED
      BY <2>2, <3>2 DEF S, m, n
  <2> QED
    BY <2>1, <2>4, <1>0 DEF Pieces
<1> QED
  BY <1>3, <1>4


\* A connection within its bounds
Fits(r) == r \in ConnType /\ Len(r.wire) <= Capacity /\ Len(r.buffer) < Parts

\* The sockets and the sessions: every descriptor is one of a connection.
SockTypes ==
  /\ conn \in Seq(ConnType) /\ \A c \in DOMAIN conn : Fits(conn[c])
  /\ fd \in 0 .. Len(conn) /\ sock \in 0 .. Len(conn) /\ offset \in 0 .. Parts
  /\ wpc \in {"set_fd", "check", "write"} => sock # None

\* The connections are as many, each within its bounds and no socket reopened.
SameEnds ==
  /\ conn' \in Seq(ConnType) /\ Len(conn') = Len(conn)
  /\ \A c \in DOMAIN conn : Fits(conn'[c]) /\ (conn'[c].client => conn[c].client)

\* A new connection fits.
LEMMA NewFits == Fits(NewConn)
<1>1. NewConn \in ConnType
  BY DEF NewConn, ConnType, Pieces
<1> QED
  BY <1>1, SizeAssumption DEF NewConn, Fits

\* What is written behind the pieces of a socket.
LEMMA Joined ==
  ASSUME NEW S, NEW a \in Seq(S), NEW b \in Seq(S)
  PROVE  a \o b \in Seq(S) /\ Len(a \o b) = Len(a) + Len(b) /\ Len(a) \in Nat /\ Len(b) \in Nat
<1> QED
  BY SMT

\* A session that is removed.
LEMMA Removed ==
  ASSUME NEW r, Fits(r)
  PROVE  /\ Fits([r EXCEPT !.daemon = FALSE, !.inbox = <<>>, !.posted = FALSE])
         /\ [r EXCEPT !.daemon = FALSE, !.inbox = <<>>, !.posted = FALSE].client = r.client
<1>1. r \in ConnType /\ Len(r.wire) <= Capacity /\ Len(r.buffer) < Parts
  BY DEF Fits
<1>2. ASSUME NEW m \in Seq(Pieces), NEW d \in BOOLEAN, NEW p \in BOOLEAN
      PROVE  LET x == [r EXCEPT !.daemon = d, !.inbox = m, !.posted = p]
             IN  x \in ConnType /\ x.wire = r.wire /\ x.buffer = r.buffer /\ x.client = r.client
  BY ZenonT(40), <1>1 DEF ConnType
<1>3. <<>> \in Seq(Pieces)
  OBVIOUS
<1> QED
  BY ZenonT(40), <1>1, <1>2, <1>3 DEF Fits

\* Replacing one connection by a fitting one whose socket is not reopened.
LEMMA Replace ==
  ASSUME SockTypes, NEW c \in DOMAIN conn, NEW r, Fits(r), r.client => conn[c].client,
         conn' = [conn EXCEPT ![c] = r]
  PROVE  SameEnds
<1>1. r \in ConnType /\ conn \in Seq(ConnType)
  BY DEF Fits, SockTypes
<1>2. conn' \in Seq(ConnType) /\ Len(conn') = Len(conn) /\ conn'[c] = r
      /\ \A d \in DOMAIN conn : d # c => conn'[d] = conn[d]
  BY <1>1
<1> QED
  BY <1>2 DEF SameEnds, SockTypes

\* disconnect closes the one socket the transport knows.
LEMMA DisconnectEnds ==
  ASSUME SockTypes, disconnect
  PROVE  /\ SameEnds /\ fd' = None
         /\ \A c \in DOMAIN conn : c = fd => ~conn'[c].client
<1>0. conn \in Seq(ConnType) /\ \A c \in DOMAIN conn : Fits(conn[c])
  BY DEF SockTypes
<1>1. conn' = [c \in DOMAIN conn |-> IF c = fd THEN [conn[c] EXCEPT !.client = FALSE] ELSE conn[c]]
  BY DEF disconnect
<1>2. ASSUME NEW r, Fits(r) PROVE Fits([r EXCEPT !.client = FALSE]) /\ ~[r EXCEPT !.client = FALSE].client
  BY ZenonT(40), <1>2 DEF Fits, ConnType
<1>3. \A c \in DOMAIN conn : Fits(conn'[c]) /\ (conn'[c].client => conn[c].client)
                             /\ (c = fd => ~conn'[c].client)
  BY <1>0, <1>1, <1>2
<1>4. conn' \in Seq(ConnType) /\ Len(conn') = Len(conn)
  <2>1. \A c \in DOMAIN conn : conn'[c] \in ConnType
    BY <1>3 DEF Fits
  <2> QED
    BY <2>1, <1>0, <1>1
<1> QED
  BY ZenonT(40), <1>3, <1>4 DEF disconnect, SameEnds

\* A batch of messages leaves a connection that fits.
LEMMA DispatchEnds ==
  ASSUME SockTypes, NEW c \in DOMAIN conn, NEW s, Fits(s), s.client => conn[c].client,
         dispatch_messages(c, s)
  PROVE  SameEnds
<1>0. s \in ConnType /\ s.inbox \in Seq(Pieces)
  BY DEF Fits, ConnType
<1>1. PICK n \in 0 .. Min2(Limit, Len(s.inbox)) :
        \/ n = Min2(Limit, Len(s.inbox))
           /\ conn' = [conn EXCEPT ![c] = [s EXCEPT !.inbox = SubSeq(@, n + 1, Len(@)),
                                                    !.posted = n < Len(s.inbox)]]
        \/ conn' = [conn EXCEPT ![c] = [s EXCEPT !.daemon = FALSE, !.inbox = <<>>]]
  BY ZenonT(40) DEF dispatch_messages
<1>2. n \in Nat /\ n <= Len(s.inbox)
  BY <1>0, SizeAssumption DEF Min2
<1>3. SubSeq(s.inbox, n + 1, Len(s.inbox)) \in Seq(Pieces)
  BY <1>0, <1>2, CutOut
<1>4. ASSUME NEW m \in Seq(Pieces), NEW p \in BOOLEAN, NEW d \in BOOLEAN
      PROVE  Fits([s EXCEPT !.inbox = m, !.posted = p]) /\ Fits([s EXCEPT !.daemon = d, !.inbox = m])
             /\ [s EXCEPT !.inbox = m, !.posted = p].client = s.client
             /\ [s EXCEPT !.daemon = d, !.inbox = m].client = s.client
  BY ZenonT(40), <1>0 DEF Fits, ConnType
<1>5. CASE conn' = [conn EXCEPT ![c] = [s EXCEPT !.daemon = FALSE, !.inbox = <<>>]]
  <2>1. <<>> \in Seq(Pieces)
    OBVIOUS
  <2> DEFINE r == [s EXCEPT !.daemon = FALSE, !.inbox = <<>>]
  <2>2. Fits(r) /\ r.client = s.client
    BY ZenonT(40), <1>4, <2>1
  <2> HIDE DEF r
  <2> QED
    BY ZenonT(40), <2>2, <1>5, Replace DEF r
<1>6. CASE conn' = [conn EXCEPT ![c] = [s EXCEPT !.inbox = SubSeq(@, n + 1, Len(@)),
                                                 !.posted = n < Len(s.inbox)]]
  <2> DEFINE m == SubSeq(s.inbox, n + 1, Len(s.inbox))
             p == n < Len(s.inbox)
             r == [s EXCEPT !.inbox = m, !.posted = p]
  <2>1. m \in Seq(Pieces) /\ p \in BOOLEAN
    BY <1>3
  <2>2. conn' = [conn EXCEPT ![c] = r]
    BY <1>6
  <2> HIDE DEF m, p
  <2>3. Fits(r) /\ r.client = s.client
    BY ZenonT(40), <1>4, <2>1
  <2> HIDE DEF r
  <2> QED
    BY ZenonT(40), <2>2, <2>3, Replace
<1> QED
  BY <1>1, <1>5, <1>6


\* The daemon's steps change no end of the client's.
LEMMA DaemonEnds ==
  ASSUME SockTypes, Down \/ Up \/ \E c \in 1 .. MaxConns : Session(c)
  PROVE  SameEnds
<1>0. conn \in Seq(ConnType) /\ \A c \in DOMAIN conn : Fits(conn[c])
  BY DEF SockTypes
<1>1. CASE Down
  <2>1. conn' = [c \in DOMAIN conn |-> [conn[c] EXCEPT !.daemon = FALSE, !.inbox = <<>>, !.posted = FALSE]]
    BY ZenonT(40), <1>1 DEF Down
  <2>2. ASSUME NEW r, Fits(r)
        PROVE  /\ Fits([r EXCEPT !.daemon = FALSE, !.inbox = <<>>, !.posted = FALSE])
               /\ [r EXCEPT !.daemon = FALSE, !.inbox = <<>>, !.posted = FALSE].client = r.client
    BY ZenonT(40), <2>2, Removed
  <2>3. \A c \in DOMAIN conn : Fits(conn'[c]) /\ conn'[c].client = conn[c].client
    BY ZenonT(40), <1>0, <2>1, <2>2
  <2>4. conn' \in Seq(ConnType) /\ Len(conn') = Len(conn)
    <3>1. \A c \in DOMAIN conn : conn'[c] \in ConnType
      BY <2>3 DEF Fits
    <3>2. DOMAIN conn = 1 .. Len(conn) /\ Len(conn) \in Nat
      BY <1>0
    <3>3. conn' \in [1 .. Len(conn) -> ConnType]
      <4> DEFINE e(c) == [conn[c] EXCEPT !.daemon = FALSE, !.inbox = <<>>, !.posted = FALSE]
      <4>1. conn' = [c \in DOMAIN conn |-> e(c)]
        BY ZenonT(40), <2>1
      <4> HIDE DEF e
      <4> QED
        BY SMTT(40), <3>1, <3>2, <4>1
    <3> QED
      BY <3>2, <3>3
  <2> QED
    BY SMTT(40), <2>3, <2>4 DEF SameEnds
<1>2. CASE Up
  BY <1>2, <1>0 DEF Up, SameEnds
<1>3. ASSUME NEW c \in 1 .. MaxConns, Read(c) PROVE SameEnds
  <2> DEFINE b == conn[c].buffer \o conn[c].wire
             s == [conn[c] EXCEPT !.wire = <<>>, !.buffer = Rest(b), !.inbox = @ \o Messages(b)]
  <2>1. c \in DOMAIN conn /\ dispatch_messages(c, s)
    BY <1>3 DEF Read
  <2>2. conn[c] \in ConnType /\ conn[c].buffer \in Pieces /\ conn[c].wire \in Pieces
        /\ conn[c].inbox \in Seq(Pieces)
    BY <1>0, <2>1 DEF Fits, ConnType
  <2>3. b \in Pieces
    BY <2>2 DEF Pieces
  <2>4. Messages(b) \in Seq(Pieces) /\ Rest(b) \in Pieces /\ Len(Rest(b)) < Parts
    BY <2>3, Decoding
  <2>5. Fits(s) /\ s.client = conn[c].client
    <3> DEFINE m == conn[c].inbox \o Messages(b)
    <3>1. m \in Seq(Pieces) /\ <<>> \in Pieces /\ Len(<<>>) <= Capacity
      BY <2>2, <2>4, SizeAssumption DEF Pieces
    <3>2. s = [conn[c] EXCEPT !.wire = <<>>, !.buffer = Rest(b), !.inbox = m]
      OBVIOUS
    <3> HIDE DEF m, b
    <3> QED
      BY ZenonT(40), <2>2, <2>4, <3>1, <3>2 DEF Fits, ConnType
  <2> HIDE DEF s
  <2> QED
    BY <2>1, <2>5, DispatchEnds
<1>4. ASSUME NEW c \in 1 .. MaxConns, Dispatch(c) PROVE SameEnds
  <2> DEFINE s == [conn[c] EXCEPT !.posted = FALSE]
  <2>1. c \in DOMAIN conn /\ dispatch_messages(c, s)
    BY <1>4 DEF Dispatch
  <2>2. Fits(s) /\ s.client = conn[c].client
    BY ZenonT(40), <1>0, <2>1 DEF Fits, ConnType
  <2> HIDE DEF s
  <2> QED
    BY <2>1, <2>2, DispatchEnds
<1>5. ASSUME NEW c \in 1 .. MaxConns, Eof(c) PROVE SameEnds
  <2> DEFINE r == [conn[c] EXCEPT !.daemon = FALSE, !.inbox = <<>>, !.posted = FALSE]
  <2>1. c \in DOMAIN conn
    BY <1>5 DEF Eof
  <2>2. conn' = [conn EXCEPT ![c] = r]
    BY ZenonT(40), <1>5, <1>0, <2>1 DEF Eof, Fits, ConnType
  <2>3. Fits(r) /\ r.client = conn[c].client
    BY ZenonT(40), <1>0, <2>1, Removed
  <2> HIDE DEF r
  <2> QED
    BY ZenonT(40), <2>1, <2>2, <2>3, Replace
<1> QED
  BY <1>1, <1>2, <1>3, <1>4, <1>5 DEF Session

\* A write puts no more into the socket than it holds.
LEMMA WriteEnds ==
  ASSUME Types, SockTypes, Write
  PROVE  SameEnds /\ offset' \in 0 .. Parts
<1>0. conn \in Seq(ConnType) /\ sock \in DOMAIN conn /\ wpc = "write" /\ Fits(conn[sock])
  BY DEF SockTypes, Write, None
<1>1. CASE UNCHANGED <<offset, conn>>
  BY <1>1, <1>0 DEF SockTypes, SameEnds
<1>2. ASSUME NEW n \in 1 .. (Capacity - Len(conn[sock].wire)), offset + n <= Parts, offset' = offset + n,
             conn' = [conn EXCEPT ![sock].wire = @ \o Written(n)]
      PROVE  SameEnds /\ offset' \in 0 .. Parts
  <2> DEFINE w == conn[sock].wire \o Written(n)
             r == [conn[sock] EXCEPT !.wire = w]
  <2>1. n \in Nat /\ offset \in Nat /\ offset' \in Nat /\ event.id \in Nat
    BY SMTT(40), SMTT(41), <1>2, SizeAssumption DEF SockTypes, Types
  <2>2. Written(n) \in Pieces /\ Len(Written(n)) = n
    BY <2>1 DEF Written, Piece, Pieces
  <2>3. conn[sock] \in ConnType /\ conn[sock].wire \in Pieces
    BY <1>0 DEF Fits, ConnType
  <2>4. w \in Pieces /\ Len(w) = Len(conn[sock].wire) + n /\ Len(conn[sock].wire) \in Nat
    BY ZenonT(40), <2>2, <2>3, Joined DEF Pieces
  <2>5. Len(w) <= Capacity
    BY SMTT(40), SMTT(41), <2>4, <1>2, SizeAssumption
  <2>6. conn' = [conn EXCEPT ![sock] = r]
    BY <1>2
  <2> HIDE DEF w
  <2>7. Fits(r) /\ r.client = conn[sock].client
    BY ZenonT(40), <1>0, <2>3, <2>4, <2>5 DEF Fits, ConnType
  <2> HIDE DEF r
  <2>8. SameEnds
    BY ZenonT(40), <1>0, <2>6, <2>7, Replace
  <2> QED
    BY <2>1, <2>8, <1>2, SizeAssumption
<1> QED
  BY <1>1, <1>2 DEF Write


-----------------------------------------------------------------------------
(* close() *)

\* The flags follow the closing thread.  A socket that is still open is the one
\* the transport knows, or the one the worker has just connected; and a worker
\* that connects while the client is being closed meets the cancellation check
\* with that socket in hand, and so closes it.
CloseInv ==
  /\ stopped <=> cpc # "open"
  /\ cancelled <=> cpc \in {"hang_up", "join", "closed"}
  /\ wpc \in {"dial", "set_fd"} => fd = None
  /\ cpc \in {"join", "closed"} /\ fd # None => wpc \in {"send", "check", "failed"}
  /\ wpc = "done" => ~sending
  /\ cpc = "closed" => wpc = "done"
  /\ \A c \in DOMAIN conn : conn[c].client => c = fd \/ (wpc = "set_fd" /\ c = sock)

FullInv == SlotInv /\ SockTypes /\ CloseInv

\* Before the first call there is no socket.
LEMMA FullInit == Init => FullInv
<1> SUFFICES ASSUME Init PROVE FullInv
    OBVIOUS
<1>1. SockTypes
  BY SizeAssumption DEF Init, SockTypes, None
<1>2. CloseInv
  BY DEF Init, CloseInv, None
<1> QED
  BY <1>1, <1>2, SlotInit DEF FullInv

\* Steps that open no socket and leave the descriptors and the worker alone.
LEMMA EndsFrame ==
  ASSUME SockTypes, SameEnds, UNCHANGED <<fd, sock>>, offset' \in 0 .. Parts,
         wpc' \in {"set_fd", "check", "write"} => wpc \in {"set_fd", "check", "write"}
  PROVE  SockTypes'
<1>1. DOMAIN conn' = DOMAIN conn
  BY DEF SameEnds, SockTypes
<1> QED
  BY <1>1 DEF SameEnds, SockTypes

\* Every step keeps the descriptors and the connections in their types.
LEMMA SockStep == ASSUME Types, SockTypes, [Next]_vars PROVE SockTypes'
<1>0. /\ conn \in Seq(ConnType) /\ \A c \in DOMAIN conn : Fits(conn[c])
      /\ fd \in 0 .. Len(conn) /\ sock \in 0 .. Len(conn) /\ offset \in 0 .. Parts
      /\ Len(conn) \in Nat
  BY DEF SockTypes
<1>s. conn' = conn => SameEnds
  BY <1>0 DEF SameEnds
<1>1. CASE Application \/ Cancel \/ Join \/ Retry \/ Exit \/ Apologise \/ Sent
  BY <1>1, <1>0, <1>s, EndsFrame DEF Application, Enqueue, FlushCall, FlushReturn, Close, Cancel, Join, Retry,
     Exit, Apologise, Sent, Goto, worker
<1>2. CASE HangUp \/ Fail
  <2>1. disconnect /\ UNCHANGED <<sock, offset>>
        /\ (wpc' \in {"set_fd", "check", "write"} => wpc \in {"set_fd", "check", "write"})
    BY <1>2 DEF HangUp, Fail, Goto, worker
  <2>2. SameEnds /\ fd' = None
    BY <2>1, DisconnectEnds
  <2>3. DOMAIN conn' = DOMAIN conn
    BY <2>2, <1>0 DEF SameEnds
  <2> QED
    BY <2>1, <2>2, <2>3, <1>0 DEF SockTypes, SameEnds, None
<1>3. CASE Take \/ Connect
  <2>1. offset' \in 0 .. Parts
    BY <1>3, <1>0, SizeAssumption DEF Take, Connect
  <2>2. UNCHANGED <<fd, sock, conn>> /\ wpc' \notin {"set_fd", "check", "write"}
    BY <1>3 DEF Take, Connect, Goto
  <2> QED
    BY <2>1, <2>2, <1>s, EndsFrame
<1>4. CASE Dial
  <2>1. CASE wpc' = "failed" /\ UNCHANGED <<conn, handled, sock>>
    BY <2>1, <1>4, <1>0, <1>s, EndsFrame DEF Dial
  <2>2. CASE conn' = Append(conn, NewConn) /\ sock' = Len(conn) + 1
    <3>1. NewConn \in ConnType /\ Fits(NewConn)
      BY NewFits DEF Fits
    <3>2. conn' \in Seq(ConnType) /\ Len(conn') = Len(conn) + 1
      BY <2>2, <3>1, <1>0
    <3>3. \A c \in DOMAIN conn' : Fits(conn'[c])
      <4>1. ASSUME NEW c \in DOMAIN conn' PROVE conn'[c] = NewConn \/ (c \in DOMAIN conn /\ conn'[c] = conn[c])
        BY <2>2, <3>1, <1>0
      <4> QED
        BY <4>1, <3>1, <1>0
    <3>4. UNCHANGED <<fd, offset>>
      BY <1>4 DEF Dial
    <3>5. fd' \in 0 .. Len(conn') /\ sock' \in 0 .. Len(conn') /\ sock' # None
      BY <2>2, <3>2, <3>4, <1>0 DEF None
    <3> QED
      BY <3>2, <3>3, <3>4, <3>5, <1>0 DEF SockTypes
  <2> QED
    BY <1>4, <2>1, <2>2 DEF Dial
<1>5. CASE SetFd \/ Send \/ Check
  BY <1>5 DEF SetFd, Send, Check, Goto, SockTypes
<1>6. CASE Write
  <2>1. wpc = "write" /\ UNCHANGED <<fd, sock>>
    BY <1>6 DEF Write
  <2> QED
    BY <1>6, <2>1, WriteEnds, EndsFrame
<1>7. CASE Down \/ Up \/ \E c \in 1 .. MaxConns : Session(c)
  <2>1. UNCHANGED <<fd, sock, offset, wpc>>
    BY ZenonT(40), <1>7 DEF Down, Up, Session, Read, Dispatch, Eof, worker
  <2> QED
    BY SMTT(40), <1>7, <2>1, <1>0, DaemonEnds, EndsFrame
<1>8. CASE UNCHANGED vars
  BY <1>8 DEF vars, worker, SockTypes
<1> QED
  BY <1>1, <1>2, <1>3, <1>4, <1>5, <1>6, <1>7, <1>8 DEF Next, Closing, Worker

\* Steps that open no socket and leave the flags, the descriptors and both
\* threads alone, or let the worker go on where no descriptor is known.
LEMMA CloseFrame ==
  ASSUME SockTypes, CloseInv, SameEnds,
         UNCHANGED <<stopped, sending, cpc, cancelled, fd, sock, wpc>>
  PROVE  CloseInv'
<1>1. DOMAIN conn' = DOMAIN conn
  BY DEF SockTypes, SameEnds
<1> QED
  BY <1>1 DEF CloseInv, SameEnds

\* Every step keeps CloseInv.
LEMMA CloseStep == ASSUME Types, SockTypes, CloseInv, [Next]_vars PROVE CloseInv'
<1>0. conn \in Seq(ConnType) /\ \A c \in DOMAIN conn : Fits(conn[c])
  BY DEF SockTypes
<1>s. conn' = conn => SameEnds
  BY <1>0 DEF SameEnds
<1>1. CASE (\E k \in Kinds : Enqueue(k)) \/ (\E f \in Flushers : FlushCall(f) \/ FlushReturn(f))
  BY <1>1, <1>s, CloseFrame DEF Enqueue, FlushCall, FlushReturn, flags, worker
<1>2. CASE Close \/ Cancel \/ Join
  <2>1. CASE Close
    BY <2>1 DEF Close, worker, CloseInv
  <2>2. CASE Cancel
    BY <2>2 DEF Cancel, flags, worker, CloseInv
  <2>3. CASE Join
    BY <2>3 DEF Join, flags, worker, CloseInv
  <2> QED
    BY <1>2, <2>1, <2>2, <2>3
<1>3. CASE HangUp
  <2>1. disconnect /\ UNCHANGED <<stopped, sending, cancelled, wpc, sock>> /\ cpc = "hang_up" /\ cpc' = "join"
    BY <1>3 DEF HangUp, flags, worker
  <2>2. SameEnds /\ fd' = None /\ \A c \in DOMAIN conn : c = fd => ~conn'[c].client
    BY <2>1, DisconnectEnds
  <2>3. DOMAIN conn' = DOMAIN conn
    BY <2>2, <1>0 DEF SameEnds
  <2>4. \A c \in DOMAIN conn' : conn'[c].client => wpc' = "set_fd" /\ c = sock'
    BY <2>1, <2>2, <2>3 DEF CloseInv, SameEnds
  <2> QED
    BY <2>1, <2>2, <2>4 DEF CloseInv
<1>4. CASE Fail
  <2>1. disconnect /\ UNCHANGED <<stopped, sending, cancelled, cpc, sock>> /\ wpc = "failed" /\ wpc' = "apologise"
    BY <1>4 DEF Fail, Goto, flags
  <2>2. SameEnds /\ fd' = None /\ \A c \in DOMAIN conn : c = fd => ~conn'[c].client
    BY <2>1, DisconnectEnds
  <2>3. DOMAIN conn' = DOMAIN conn
    BY <2>2, <1>0 DEF SameEnds
  <2>4. \A c \in DOMAIN conn' : ~conn'[c].client
    BY <2>1, <2>2, <2>3 DEF CloseInv, SameEnds
  <2> QED
    BY <2>1, <2>2, <2>4 DEF CloseInv
<1>5. CASE Dial
  <2>0. wpc = "dial" /\ fd = None /\ UNCHANGED <<stopped, sending, cancelled, cpc, fd>>
    BY <1>5 DEF Dial, CloseInv, flags
  <2>1. CASE wpc' = "failed" /\ UNCHANGED <<conn, handled, sock>>
    BY <2>0, <2>1 DEF CloseInv
  <2>2. CASE conn' = Append(conn, NewConn) /\ sock' = Len(conn) + 1 /\ wpc' = "set_fd"
    <3>1. NewConn \in ConnType
      BY NewFits DEF Fits
    <3>2. ASSUME NEW c \in DOMAIN conn', conn'[c].client PROVE c = sock'
      <4>1. c = Len(conn) + 1 \/ (c \in DOMAIN conn /\ conn'[c] = conn[c])
        BY <2>2, <3>1, <1>0
      <4>2. c \in DOMAIN conn => c # fd
        BY <2>0, <1>0 DEF None
      <4> QED
        BY <4>1, <4>2, <3>2, <2>0, <2>2 DEF CloseInv
    <3> QED
      BY <2>0, <2>2, <3>2 DEF CloseInv
  <2> QED
    BY <1>5, <2>1, <2>2 DEF Dial
<1>6. CASE SetFd
  <2>1. /\ UNCHANGED <<stopped, sending, cancelled, cpc, conn, sock>>
        /\ wpc = "set_fd" /\ wpc' = "send" /\ fd' = sock
    BY <1>6 DEF SetFd, Goto, flags
  <2>2. fd = None /\ \A c \in DOMAIN conn : c # None
    BY <1>0, <2>1 DEF CloseInv, None
  <2>3. \A c \in DOMAIN conn' : conn'[c].client => c = fd'
    BY <2>1, <2>2 DEF CloseInv
  <2> QED
    BY <2>1, <2>3 DEF CloseInv
<1>7. CASE Take \/ Exit \/ Connect \/ Send \/ Check \/ Sent \/ Apologise \/ Retry
  <2>1. UNCHANGED <<stopped, cancelled, cpc, fd, conn>> /\ wpc # "set_fd"
    BY <1>7 DEF Take, Exit, Connect, Send, Check, Sent, Apologise, Retry, Goto, flags
  <2>2. \A c \in DOMAIN conn' : conn'[c].client => c = fd'
    BY <2>1 DEF CloseInv
  <2>3. CASE Take \/ Connect
    BY <2>1, <2>2, <2>3 DEF Take, Connect, Goto, flags, CloseInv
  <2>4. CASE Exit \/ Sent \/ Apologise \/ Retry
    BY <2>1, <2>2, <2>4 DEF Exit, Sent, Apologise, Retry, Goto, flags, CloseInv
  <2>5. CASE Send \/ Check
    BY <2>1, <2>2, <2>5 DEF Send, Check, flags, CloseInv
  <2> QED
    BY <1>7, <2>3, <2>4, <2>5
<1>8. CASE Write
  <2>1. wpc = "write" /\ wpc' \in {"check", "sent", "failed"} /\ UNCHANGED <<stopped, sending, cancelled, cpc, fd, sock>>
    BY <1>8 DEF Write, AfterWrite, flags
  <2>2. SameEnds
    BY <1>8, WriteEnds
  <2>3. DOMAIN conn' = DOMAIN conn
    BY <2>2, <1>0 DEF SameEnds
  <2>4. \A c \in DOMAIN conn' : conn'[c].client => c = fd'
    BY <2>1, <2>2, <2>3 DEF CloseInv, SameEnds
  <2> QED
    BY <2>1, <2>4 DEF CloseInv
<1>9. CASE Down \/ Up \/ \E c \in 1 .. MaxConns : Session(c)
  <2>1. UNCHANGED <<stopped, sending, cpc, cancelled, fd, sock, wpc>>
    BY ZenonT(40), <1>9 DEF Down, Up, Session, Read, Dispatch, Eof, flags, worker
  <2> QED
    BY SMTT(40), <1>9, <2>1, DaemonEnds, CloseFrame
<1>10. CASE UNCHANGED vars
  BY <1>10, <1>s, CloseFrame DEF vars, flags, worker
<1> QED
  BY <1>1, <1>2, <1>3, <1>4, <1>5, <1>6, <1>7, <1>8, <1>9, <1>10 DEF Next, Application, Closing, Worker

\* The three invariants are inductive together.
LEMMA FullStep == FullInv /\ [Next]_vars => FullInv'
<1> QED
  BY SlotStep, SockStep, CloseStep DEF FullInv, SlotInv

\* The state stays in its types: the transport's descriptors are those of
\* connections, a socket never holds more than it can, and what a decoder keeps
\* is less than a frame.
THEOREM TypeCorrect == Spec => []TypeOK
<1>1. FullInv => TypeOK
  <2> SUFFICES ASSUME FullInv PROVE TypeOK
      OBVIOUS
  <2>1. Types /\ SockTypes
    BY DEF FullInv, SlotInv
  <2> QED
    BY <2>1 DEF TypeOK, Types, SockTypes, Fits
<1> QED
  BY FullInit, FullStep, <1>1, PTL DEF Spec

\* When close() returns, the worker has ended and no socket is open, at whatever
\* point of connecting or sending the cancellation caught it.
THEOREM CloseIsClean == Spec => []ClosedIsClean
<1>1. FullInv => ClosedIsClean
  <2> SUFFICES ASSUME FullInv, cpc = "closed"
               PROVE  wpc = "done" /\ ~sending /\ fd = None /\ \A c \in DOMAIN conn : ~conn[c].client
      BY DEF ClosedIsClean
  <2>1. wpc = "done" /\ ~sending /\ fd = None
    BY DEF FullInv, CloseInv
  <2>2. \A c \in DOMAIN conn : c # None
    BY DEF FullInv, SockTypes, None
  <2> QED
    BY <2>1, <2>2 DEF FullInv, CloseInv
<1> QED
  BY FullInit, FullStep, <1>1, PTL DEF Spec

-----------------------------------------------------------------------------
(* Frames in a stream of pieces, and what a decoder takes from it. *)

WholeFrame(m) == \A p \in 1 .. Parts : m[p] = Piece(m[1].id, p)

\* Messages as HandledWhole wants them
Chain(h) == \A i \in DOMAIN h : WholeFrame(h[i]) /\ (i > 1 => h[i - 1][1].id < h[i][1].id)

\* Piece y comes after x: in the same frame, or as the first of a newer one.
Follows(x, y) ==
  \/ x.part < Parts /\ y = Piece(x.id, x.part + 1)
  \/ x.part = Parts /\ y.part = 1 /\ x.id < y.id

\* The pieces b are frames, of which the last may be cut off.
Framed(b) ==
  /\ b # <<>> => b[1].part = 1
  /\ \A k \in 1 .. Len(b) : b[k].part \in 1 .. Parts /\ (k > 1 => Follows(b[k - 1], b[k]))

\* Messages h are older than the pieces b.
Joint(h, b) == h # <<>> /\ b # <<>> => h[Len(h)][1].id < b[1].id

\* A set of natural numbers has a least one.
LEMMA Least == ASSUME NEW S \in SUBSET Nat, S # {} PROVE \E m \in S : \A k \in S : m <= k
<1>1. PICK m \in S : \A k \in S : ~(<<k, m>> \in OpToRel(<, Nat))
  BY ZenonT(40), NatLessThanWellFounded, WFMin
<1>2. ASSUME NEW k \in S PROVE m <= k
  <2>1. m \in Nat /\ k \in Nat
    OBVIOUS
  <2>2. k < m => <<k, m>> \in OpToRel(<, Nat)
    BY <2>1 DEF OpToRel
  <2>3. ~(k < m)
    BY ZenonT(40), <1>1, <2>2
  <2> QED
    BY <2>1, <2>3
<1> QED
  BY <1>2

\* m frames, and one more
LEMMA FrameStep ==
  ASSUME NEW m \in Nat
  PROVE  m * Parts \in Nat /\ (m + 1) * Parts = m * Parts + Parts /\ 0 * Parts = 0
<1>1. Parts \in Nat
  BY SizeAssumption
<1> QED
  BY <1>1, SMT

\* A place in the stream is one place in one frame.
LEMMA SamePlace ==
  ASSUME NEW m \in Nat, NEW n \in Nat, NEW p \in 1 .. Parts, NEW r \in 1 .. Parts, m * Parts + p = n * Parts + r
  PROVE  m = n /\ p = r
<1>0. Parts \in Nat \ {0} /\ p \in Nat /\ r \in Nat
  BY SizeAssumption
<1>1. ASSUME NEW x \in Nat, NEW y \in Nat, x < y PROVE x * Parts \in Nat /\ y * Parts \in Nat /\ x * Parts + Parts <= y * Parts
  <2>1. y - (x + 1) \in Nat
    BY <1>1
  <2>2. (y - (x + 1)) * Parts \in Nat /\ x * Parts \in Nat /\ y * Parts \in Nat
    BY <1>0, <2>1, SMT
  <2>3. y * Parts = x * Parts + Parts + (y - (x + 1)) * Parts
    BY <1>0, <2>1, SMT
  <2> DEFINE a == x * Parts
             b == y * Parts
             c == (y - (x + 1)) * Parts
  <2>4. a \in Nat /\ b \in Nat /\ c \in Nat /\ b = a + Parts + c
    BY <2>2, <2>3
  <2> HIDE DEF a, b, c
  <2>5. a + Parts <= b
    BY <1>0, <2>4
  <2> QED
    BY <2>2, <2>5 DEF a, b
<1>2. ASSUME NEW x \in Nat, NEW y \in Nat, NEW s \in 1 .. Parts, NEW t \in 1 .. Parts, x * Parts + s = y * Parts + t
      PROVE  ~(x < y)
  <2> SUFFICES ASSUME x < y PROVE FALSE
      OBVIOUS
  <2> DEFINE a == x * Parts
             b == y * Parts
  <2>1. a \in Nat /\ b \in Nat /\ a + Parts <= b /\ a + s = b + t
    BY <1>1, <1>2
  <2> HIDE DEF a, b
  <2> QED
    BY <1>0, <2>1
<1>3. ~(m < n) /\ ~(n < m)
  BY <1>2
<1>4. m = n
  BY <1>3
<1>5. m * Parts \in Nat
  BY FrameStep
<1> DEFINE a == m * Parts
<1>6. a \in Nat /\ a + p = a + r
  BY <1>4, <1>5
<1> HIDE DEF a
<1> QED
  BY <1>0, <1>4, <1>6

\* An element of a sequence
LEMMA Element == ASSUME NEW S, NEW b \in Seq(S) PROVE Len(b) \in Nat /\ DOMAIN b = 1 .. Len(b) /\ \A k \in 1 .. Len(b) : b[k] \in S
  OBVIOUS

\* A piece has a number and a place.
LEMMA PieceAt ==
  ASSUME NEW b \in Pieces
  PROVE  /\ Len(b) \in Nat /\ DOMAIN b = 1 .. Len(b)
         /\ \A k \in 1 .. Len(b) : b[k] \in [id : Nat, part : Nat]
         /\ \A k \in 1 .. Len(b) : b[k].id \in Nat /\ b[k].part \in Nat /\ b[k] = Piece(b[k].id, b[k].part)
<1>1. /\ Len(b) \in Nat /\ DOMAIN b = 1 .. Len(b)
      /\ \A k \in 1 .. Len(b) : b[k] \in [id : Nat, part : Nat]
  BY Zenon, Element DEF Pieces
<1>2. ASSUME NEW x \in [id : Nat, part : Nat] PROVE x.id \in Nat /\ x.part \in Nat /\ x = Piece(x.id, x.part)
  BY DEF Piece
<1> QED
  BY <1>1, <1>2

\* Piece k of frames lies in one of them, behind its first piece.
LEMMA Places ==
  ASSUME NEW b \in Pieces, Framed(b), NEW k \in 1 .. Len(b)
  PROVE  \E m \in Nat : k = m * Parts + b[k].part /\ m * Parts + 1 \in 1 .. Len(b) /\ b[m * Parts + 1].id = b[k].id
<1> DEFINE Placed(i) == \E m \in Nat : i = m * Parts + b[i].part /\ m * Parts + 1 \in 1 .. Len(b)
                                       /\ b[m * Parts + 1].id = b[i].id
           Bad == {i \in 1 .. Len(b) : ~Placed(i)}
<1>0. Len(b) \in Nat /\ Parts \in Nat \ {0} /\ \A i \in 1 .. Len(b) : b[i] \in [id : Nat, part : Nat]
  BY SizeAssumption, PieceAt
<1>1. SUFFICES ASSUME Bad # {} PROVE FALSE
  OBVIOUS
<1>2. Bad \in SUBSET Nat
  BY <1>0
<1>3. PICK i \in Bad : \A j \in Bad : i <= j
  BY ZenonT(40), <1>1, <1>2, Least
<1>4. i \in 1 .. Len(b) /\ i \in Nat /\ ~Placed(i)
  BY <1>0, <1>3
<1>5. CASE i = 1
  <2>1. 0 * Parts = 0
    BY ZenonT(40), FrameStep
  <2>2. b # <<>>
    BY <1>0, <1>4
  <2>3. b[1].part = 1
    BY <2>2 DEF Framed
  <2>4. 0 * Parts + 1 = 1
    BY <2>1
  <2> QED
    BY <1>4, <1>5, <2>3, <2>4
<1>6. CASE i # 1
  <2>1. i - 1 \in 1 .. Len(b) /\ i > 1 /\ i - 1 < i /\ i - 1 \in Nat
    BY <1>0, <1>4, <1>6
  <2>2. Placed(i - 1)
    BY <1>3, <1>4, <2>1
  <2>3. PICK m \in Nat : i - 1 = m * Parts + b[i - 1].part /\ m * Parts + 1 \in 1 .. Len(b)
                         /\ b[m * Parts + 1].id = b[i - 1].id
    BY <2>2
  <2>4. Follows(b[i - 1], b[i]) /\ b[i - 1] \in [id : Nat, part : Nat] /\ b[i - 1].part \in Nat
    BY <1>0, <1>4, <2>1 DEF Framed
  <2>5. m * Parts \in Nat /\ (m + 1) * Parts = m * Parts + Parts /\ m + 1 \in Nat
    <3>1. m \in Nat /\ m + 1 \in Nat
      BY <2>3
    <3> QED
      BY Zenon, <3>1, FrameStep
  <2> DEFINE a == m * Parts
             x == b[i - 1].part
  <2>6. CASE x < Parts /\ b[i] = Piece(b[i - 1].id, x + 1)
    <3>1. b[i].part = x + 1 /\ b[i].id = b[i - 1].id
      BY <2>6 DEF Piece
    <3>2. a \in Nat /\ x \in Nat /\ i - 1 = a + x
      BY <2>3, <2>4, <2>5
    <3> HIDE DEF a, x
    <3>3. i = a + (x + 1)
      BY <1>4, <3>2
    <3> QED
      BY <1>4, <2>3, <3>1, <3>3 DEF a, x
  <2>7. CASE x = Parts /\ b[i].part = 1
    <3>1. a \in Nat /\ i - 1 = a + Parts
      BY <2>3, <2>5, <2>7
    <3>2. i = (a + Parts) + 1
      BY <1>0, <1>4, <3>1
    <3>3. i = (m + 1) * Parts + 1
      BY <2>5, <3>2
    <3> QED
      BY <1>4, <2>5, <2>7, <3>3
  <2> QED
    BY ZenonT(40), <2>4, <2>6, <2>7 DEF Follows
<1> QED
  BY <1>5, <1>6

\* The pieces of a frame
LEMMA InFrame ==
  ASSUME NEW b \in Pieces, Framed(b), NEW m \in Nat, NEW p \in 1 .. Parts, m * Parts + p \in 1 .. Len(b)
  PROVE  b[m * Parts + p] = Piece(b[m * Parts + 1].id, p)
<1> DEFINE k == m * Parts + p
<1>1. PICK n \in Nat : k = n * Parts + b[k].part /\ b[n * Parts + 1].id = b[k].id
  BY ZenonT(40), Places
<1>2. b[k].part \in 1 .. Parts /\ b[k] \in [id : Nat, part : Nat]
  BY PieceAt DEF Framed
<1>3. m = n /\ p = b[k].part
  <2> DEFINE r == b[k].part
  <2>1. r \in 1 .. Parts /\ m * Parts + p = n * Parts + r
    BY <1>1, <1>2
  <2> HIDE DEF r
  <2>2. m = n /\ p = r
    BY <2>1, SamePlace
  <2> QED
    BY <2>2 DEF r
<1> HIDE DEF k
<1>4. b[k] = [id |-> b[k].id, part |-> b[k].part]
  BY <1>2
<1> QED
  BY <1>1, <1>3, <1>4 DEF Piece, k


\* The elements of a cut-out
LEMMA CutOutAt ==
  ASSUME NEW S, NEW b \in Seq(S), NEW x \in Nat, NEW n \in Nat, x <= n, n <= Len(b), NEW c, c = SubSeq(b, x + 1, n)
  PROVE  c \in Seq(S) /\ Len(c) = n - x /\ \A k \in 1 .. n - x : c[k] = b[x + k]
<1> DEFINE m == x + 1
<1>1. m \in Nat /\ m <= n + 1 /\ 1 <= m /\ n - m + 1 = n - x /\ c = SubSeq(b, m, n)
  OBVIOUS
<1>2. \A k \in 1 .. n - x : m + k - 1 = x + k
  OBVIOUS
<1> HIDE DEF m
<1>3. c \in Seq(S) /\ Len(c) = n - m + 1
  BY <1>1, CutOut
<1>4. \A k \in 1 .. n - x : c[k] = b[m + k - 1]
  BY <1>1
<1> QED
  BY ZenonT(40), <1>1, <1>2, <1>3, <1>4

\* protocol_decoder::feed: frame i becomes message i, what is left stays.
LEMMA FeedAt ==
  ASSUME NEW b \in Pieces
  PROVE  \E q \in Nat :
           /\ q * Parts \in Nat /\ q * Parts <= Len(b) /\ Len(b) < q * Parts + Parts
           /\ Messages(b) \in Seq(Pieces) /\ Len(Messages(b)) = q
           /\ \A i \in 1 .. q : \A p \in 1 .. Parts : Messages(b)[i][p] = b[(i - 1) * Parts + p]
           /\ Rest(b) \in Pieces /\ Len(Rest(b)) = Len(b) - q * Parts
           /\ \A k \in 1 .. Len(b) - q * Parts : Rest(b)[k] = b[q * Parts + k]
<1> DEFINE q == Len(b) \div Parts
<1>0. Len(b) \in Nat /\ Parts \in Nat \ {0} /\ b \in Seq([id : Nat, part : Nat])
  BY SizeAssumption DEF Pieces
<1>1. q \in Nat /\ q * Parts \in Nat /\ q * Parts <= Len(b) /\ Len(b) < q * Parts + Parts
  BY ZenonT(40), <1>0, Division
<1>2. Messages(b) = [i \in 1 .. q |-> SubSeq(b, (i - 1) * Parts + 1, i * Parts)]
  BY DEF Messages
<1>3. Rest(b) = SubSeq(b, q * Parts + 1, Len(b))
  BY DEF Rest
<1> HIDE DEF q
<1>4. Messages(b) \in Seq(Pieces) /\ Len(Messages(b)) = q
  <2>1. Messages(b) \in Seq(Pieces) /\ DOMAIN Messages(b) = 1 .. q
    BY ZenonT(40), <1>2, Decoding
  <2> DEFINE s == Messages(b)
  <2>2. s \in Seq(Pieces) /\ DOMAIN s = 1 .. q
    BY <2>1
  <2> HIDE DEF s
  <2>3. Len(s) = q
    BY <1>1, <2>2
  <2> QED
    BY <2>2, <2>3 DEF s
<1>5. ASSUME NEW i \in 1 .. q, NEW p \in 1 .. Parts PROVE Messages(b)[i][p] = b[(i - 1) * Parts + p]
  <2> DEFINE x == (i - 1) * Parts
             y == i * Parts
  <2>1. x \in Nat /\ y \in Nat /\ x + Parts = y /\ y <= q * Parts
    BY <1>0, <1>1, FrameBounds
  <2>2. Messages(b)[i] = SubSeq(b, x + 1, y)
    BY ZenonT(40), <1>2
  <2> HIDE DEF x, y
  <2>3. x <= y /\ y <= Len(b) /\ y - x = Parts
    BY <1>0, <1>1, <2>1
  <2>4. \A k \in 1 .. y - x : Messages(b)[i][k] = b[x + k]
    BY <1>0, <2>1, <2>2, <2>3, CutOutAt
  <2>5. Messages(b)[i][p] = b[x + p]
    BY <2>3, <2>4
  <2> QED
    BY <2>5 DEF x
<1>6. /\ Rest(b) \in Pieces /\ Len(Rest(b)) = Len(b) - q * Parts
      /\ \A k \in 1 .. Len(b) - q * Parts : Rest(b)[k] = b[q * Parts + k]
  <2> DEFINE x == q * Parts
             n == Len(b)
  <2>1. x \in Nat /\ n \in Nat /\ x <= n /\ n <= Len(b) /\ Rest(b) = SubSeq(b, x + 1, n)
    BY <1>0, <1>1, <1>3
  <2> HIDE DEF x, n
  <2>2. Len(Rest(b)) = n - x
    BY <1>0, <2>1, CutOutAt
  <2>3. \A k \in 1 .. n - x : Rest(b)[k] = b[x + k]
    BY SMTT(40), SMTT(41), <1>0, <2>1, CutOutAt
  <2> QED
    BY <2>2, <2>3, Decoding DEF x, n
<1> QED
  BY <1>1, <1>4, <1>5, <1>6

\* What feed makes of frames that come one after the other
LEMMA FeedFrames ==
  ASSUME NEW b \in Pieces, Framed(b)
  PROVE  LET M == Messages(b)
             R == Rest(b)
         IN  /\ M \in Seq(Pieces) /\ R \in Pieces /\ Chain(M) /\ Framed(R) /\ Joint(M, R)
             /\ M # <<>> => b # <<>> /\ M[1][1].id = b[1].id
             /\ M = <<>> => R = b
             /\ R # <<>> => b # <<>> /\ R[Len(R)] = b[Len(b)]
             /\ R = <<>> /\ b # <<>> =>
                  b[Len(b)].part = Parts /\ M # <<>> /\ M[Len(M)][1].id = b[Len(b)].id
<1> DEFINE M == Messages(b)
           R == Rest(b)
<1>1. PICK q \in Nat :
        /\ q * Parts \in Nat /\ q * Parts <= Len(b) /\ Len(b) < q * Parts + Parts
        /\ M \in Seq(Pieces) /\ Len(M) = q
        /\ \A i \in 1 .. q : \A p \in 1 .. Parts : M[i][p] = b[(i - 1) * Parts + p]
        /\ R \in Pieces /\ Len(R) = Len(b) - q * Parts
        /\ \A k \in 1 .. Len(b) - q * Parts : R[k] = b[q * Parts + k]
  BY ZenonT(40), FeedAt
<1> DEFINE z == q * Parts
<1> HIDE DEF M, R
<1>2. Len(b) \in Nat /\ Parts \in Nat \ {0} /\ 1 \in 1 .. Parts /\ Parts \in 1 .. Parts
  BY SizeAssumption, PieceAt
<1>3. ASSUME NEW i \in 1 .. q
      PROVE  /\ i - 1 \in Nat /\ (i - 1) * Parts \in Nat /\ (i - 1) * Parts + Parts = i * Parts /\ i * Parts <= z
             /\ i * Parts \in Nat
             /\ \A p \in 1 .. Parts : (i - 1) * Parts + p \in 1 .. Len(b)
  <2> DEFINE x == (i - 1) * Parts
             y == i * Parts
  <2>1. x \in Nat /\ y \in Nat /\ x + Parts = y /\ y <= z
    BY <1>2, FrameBounds
  <2>2. z \in Nat /\ z <= Len(b)
    BY <1>1
  <2> HIDE DEF x, y, z
  <2>3. \A p \in 1 .. Parts : x + p \in 1 .. Len(b)
    BY <1>2, <2>1, <2>2
  <2> QED
    BY <2>1, <2>3 DEF x, y
<1>4. ASSUME NEW i \in 1 .. q, NEW p \in 1 .. Parts
      PROVE  M[i][p] = Piece(M[i][1].id, p) /\ M[i][p] = b[(i - 1) * Parts + p]
  <2>1. i - 1 \in Nat /\ (i - 1) * Parts + p \in 1 .. Len(b)
    BY ZenonT(40), <1>3
  <2>2. b[(i - 1) * Parts + p] = Piece(b[(i - 1) * Parts + 1].id, p)
    BY Zenon, <2>1, InFrame
  <2>3. M[i][p] = b[(i - 1) * Parts + p] /\ M[i][1] = b[(i - 1) * Parts + 1]
    BY ZenonT(40), <1>1, <1>2
  <2> QED
    BY <2>2, <2>3
\* The piece before a frame ends the frame before it.
<1>5. ASSUME NEW i \in 1 .. q, i * Parts + 1 \in 1 .. Len(b)
      PROVE  /\ b[i * Parts + 1].part = 1 /\ M[i][1].id < b[i * Parts + 1].id
  <2> DEFINE y == i * Parts
  <2>1. y \in Nat /\ (i - 1) * Parts + Parts = y
    BY <1>3
  <2>2. M[i][Parts] = Piece(M[i][1].id, Parts) /\ M[i][Parts] = b[y]
    BY <1>2, <1>4, <2>1
  <2>3. b[y].part = Parts /\ b[y].id = M[i][1].id
    BY <2>2 DEF Piece
  <2>4. y + 1 \in 1 .. Len(b)
    BY <1>5
  <2> HIDE DEF y
  <2>5. y >= 1
    <3>1. i * Parts \in Nat /\ (i - 1) * Parts \in Nat /\ (i - 1) * Parts + Parts = i * Parts
      BY <1>3
    <3> QED
      BY <1>2, <3>1 DEF y
  <2>6. y + 1 > 1 /\ (y + 1) - 1 = y
    BY <2>1, <2>5
  <2>7. Follows(b[y], b[y + 1])
    BY <2>4, <2>6 DEF Framed
  <2>8. b[y + 1].part = 1 /\ b[y].id < b[y + 1].id
    BY <1>2, <2>3, <2>7 DEF Follows
  <2> QED
    BY <2>3, <2>8 DEF y
<1>6. Chain(M)
  <2>1. DOMAIN M = 1 .. q
    BY <1>1
  <2>2. ASSUME NEW i \in 1 .. q, i > 1 PROVE M[i - 1][1].id < M[i][1].id
    <3>1. i - 1 \in 1 .. q
      BY <2>2
    <3>2. M[i][1] = b[(i - 1) * Parts + 1] /\ (i - 1) * Parts + 1 \in 1 .. Len(b)
      BY <1>2, <1>3, <1>4
    <3> QED
      BY <1>5, <3>1, <3>2
  <2> QED
    BY <1>4, <2>1, <2>2 DEF Chain, WholeFrame
<1>7. /\ Len(R) \in Nat /\ Len(R) = Len(b) - z /\ z \in Nat /\ z <= Len(b)
      /\ \A k \in 1 .. Len(R) : R[k] = b[z + k] /\ z + k \in 1 .. Len(b)
  <2>1. z \in Nat /\ z <= Len(b) /\ Len(R) = Len(b) - z /\ \A k \in 1 .. Len(R) : R[k] = b[z + k]
    BY <1>1
  <2> HIDE DEF z
  <2>2. Len(R) \in Nat /\ \A k \in 1 .. Len(R) : z + k \in 1 .. Len(b)
    BY <1>2, <2>1
  <2> QED
    BY <2>1, <2>2
<1>8. /\ M = <<>> <=> q = 0
      /\ R = <<>> <=> Len(R) = 0
      /\ b = <<>> <=> Len(b) = 0
      /\ q = 0 => z = 0
  <2>1. 0 * Parts = 0
    BY FrameStep
  <2> QED
    BY SMTT(40), SMTT(41), <1>1, <2>1 DEF Pieces
<1> HIDE DEF z
\* What the first piece of the rest follows
<1>9. ASSUME R # <<>>
      PROVE  /\ 1 \in 1 .. Len(R) /\ R[1] = b[z + 1] /\ z + 1 \in 1 .. Len(b) /\ R[1].part = 1
             /\ M # <<>> => M[q][1].id < R[1].id
  <2>1. 1 \in 1 .. Len(R)
    BY <1>7, <1>8, <1>9
  <2>2. R[1] = b[z + 1] /\ z + 1 \in 1 .. Len(b)
    BY <1>7, <2>1
  <2>3. CASE q = 0
    <3>1. z + 1 = 1 /\ b # <<>>
      BY <1>2, <1>8, <2>2, <2>3
    <3> QED
      BY <1>8, <2>1, <2>2, <2>3, <3>1 DEF Framed
  <2>4. CASE q # 0
    <3>1. q \in 1 .. q
      BY <2>4
    <3>2. b[z + 1].part = 1 /\ M[q][1].id < b[z + 1].id
      BY <1>5, <2>2, <3>1 DEF z
    <3> QED
      BY <2>1, <2>2, <3>2
  <2> QED
    BY <2>3, <2>4
<1>10. Framed(R)
  <2>1. ASSUME NEW k \in 1 .. Len(R)
        PROVE  R[k].part \in 1 .. Parts /\ (k > 1 => Follows(R[k - 1], R[k]))
    <3>1. R[k] = b[z + k] /\ z + k \in 1 .. Len(b) /\ k \in Nat
      BY <1>7
    <3>2. b[z + k].part \in 1 .. Parts
      BY <3>1 DEF Framed
    <3>3. ASSUME k > 1 PROVE Follows(R[k - 1], R[k])
      <4>1. k - 1 \in 1 .. Len(R) /\ z + k > 1 /\ z + (k - 1) = (z + k) - 1
        BY <1>7, <3>1, <3>3
      <4>2. R[k - 1] = b[(z + k) - 1]
        BY <1>7, <4>1
      <4>3. Follows(b[(z + k) - 1], b[z + k])
        BY <3>1, <4>1 DEF Framed
      <4> QED
        BY <3>1, <4>2, <4>3
    <3> QED
      BY <3>1, <3>2, <3>3
  <2> QED
    BY <1>9, <2>1 DEF Framed
<1>11. Joint(M, R)
  BY <1>1, <1>9 DEF Joint
<1>12. M # <<>> => b # <<>> /\ M[1][1].id = b[1].id
  <2> SUFFICES ASSUME M # <<>> PROVE b # <<>> /\ M[1][1].id = b[1].id
      OBVIOUS
  <2>1. 1 \in 1 .. q
    BY <1>8
  <2>2. M[1][1] = b[(1 - 1) * Parts + 1] /\ (1 - 1) * Parts + 1 \in 1 .. Len(b)
    BY ZenonT(40), <1>2, <1>3, <1>4, <2>1
  <2>3. (1 - 1) * Parts + 1 = 1
    BY <1>2, FrameStep
  <2>4. Len(b) # 0
    BY <1>2, <2>2, <2>3
  <2> QED
    BY <1>8, <2>2, <2>3, <2>4
<1>13. M = <<>> => R = b
  <2> SUFFICES ASSUME M = <<>> PROVE R = b
      OBVIOUS
  <2>1. z = 0 /\ Len(R) = Len(b)
    BY <1>2, <1>7, <1>8
  <2>2. ASSUME NEW k \in 1 .. Len(R) PROVE R[k] = b[k]
    <3>1. z + k = k
      BY <1>7, <2>1
    <3> QED
      BY <1>7, <3>1
  <2> DEFINE S == [id : Nat, part : Nat]
  <2>3. R \in Seq(S) /\ b \in Seq(S)
    BY <1>1 DEF Pieces
  <2> HIDE DEF S
  <2> QED
    BY <2>1, <2>2, <2>3
<1>14. R # <<>> => b # <<>> /\ R[Len(R)] = b[Len(b)]
  <2> SUFFICES ASSUME R # <<>> PROVE b # <<>> /\ R[Len(R)] = b[Len(b)]
      OBVIOUS
  <2>1. Len(R) \in 1 .. Len(R) /\ Len(b) # 0
    BY <1>2, <1>7, <1>8
  <2>2. z + Len(R) = Len(b)
    BY <1>2, <1>7
  <2> QED
    BY <1>7, <1>8, <2>1, <2>2
<1>15. R = <<>> /\ b # <<>> =>
         b[Len(b)].part = Parts /\ M # <<>> /\ M[Len(M)][1].id = b[Len(b)].id
  <2> SUFFICES ASSUME R = <<>>, b # <<>>
               PROVE  b[Len(b)].part = Parts /\ M # <<>> /\ M[Len(M)][1].id = b[Len(b)].id
      OBVIOUS
  <2>1. Len(b) = z /\ q # 0
    BY <1>2, <1>7, <1>8
  <2>2. q \in 1 .. q
    BY <2>1
  <2>3. (q - 1) * Parts + Parts = z
    BY <1>3, <2>2 DEF z
  <2>4. M[q][Parts] = Piece(M[q][1].id, Parts) /\ M[q][Parts] = b[z]
    BY ZenonT(40), <1>2, <1>4, <2>2, <2>3
  <2>5. b[z].part = Parts /\ b[z].id = M[q][1].id
    BY <2>4 DEF Piece
  <2> QED
    BY <1>1, <1>8, <2>1, <2>5
<1> QED
  BY <1>1, <1>6, <1>10, <1>11, <1>12, <1>13, <1>14, <1>15 DEF M, R


\* The elements of what is put together
LEMMA JoinedAt ==
  ASSUME NEW S, NEW a \in Seq(S), NEW b \in Seq(S), NEW c, c = a \o b
  PROVE  /\ c \in Seq(S) /\ Len(c) = Len(a) + Len(b) /\ Len(a) \in Nat /\ Len(b) \in Nat
         /\ \A k \in 1 .. Len(a) : c[k] = a[k]
         /\ \A k \in 1 .. Len(b) : c[Len(a) + k] = b[k]
<1> QED
  BY SMT

\* Sequences with the same elements are the same.
LEMMA SameElements ==
  ASSUME NEW S, NEW a \in Seq(S), NEW b \in Seq(S), Len(a) = Len(b), \A k \in 1 .. Len(a) : a[k] = b[k]
  PROVE  a = b
<1> QED
  BY SMT

\* Putting together is associative.
LEMMA Associative ==
  ASSUME NEW S, NEW a \in Seq(S), NEW b \in Seq(S), NEW c \in Seq(S)
  PROVE  (a \o b) \o c = a \o (b \o c)
<1> DEFINE ab == a \o b
           bc == b \o c
           x == ab \o c
           y == a \o bc
<1>1. /\ ab \in Seq(S) /\ Len(ab) = Len(a) + Len(b) /\ Len(a) \in Nat /\ Len(b) \in Nat
      /\ \A k \in 1 .. Len(a) : ab[k] = a[k]
      /\ \A k \in 1 .. Len(b) : ab[Len(a) + k] = b[k]
  BY JoinedAt
<1>2. /\ bc \in Seq(S) /\ Len(bc) = Len(b) + Len(c) /\ Len(c) \in Nat
      /\ \A k \in 1 .. Len(b) : bc[k] = b[k]
      /\ \A k \in 1 .. Len(c) : bc[Len(b) + k] = c[k]
  BY JoinedAt
<1> HIDE DEF ab, bc
<1>e. ab \in Seq(S) /\ bc \in Seq(S) /\ x = ab \o c /\ y = a \o bc
  BY <1>1, <1>2
<1> HIDE DEF x, y
<1>3. /\ x \in Seq(S) /\ Len(x) = Len(ab) + Len(c)
      /\ \A k \in 1 .. Len(ab) : x[k] = ab[k]
      /\ \A k \in 1 .. Len(c) : x[Len(ab) + k] = c[k]
  BY <1>e, JoinedAt
<1>4. /\ y \in Seq(S) /\ Len(y) = Len(a) + Len(bc)
      /\ \A k \in 1 .. Len(a) : y[k] = a[k]
      /\ \A k \in 1 .. Len(bc) : y[Len(a) + k] = bc[k]
  BY <1>e, JoinedAt
<1>5. Len(x) = Len(y)
  BY <1>1, <1>2, <1>3, <1>4
<1>6. ASSUME NEW k \in 1 .. Len(x) PROVE x[k] = y[k]
  <2>1. CASE k <= Len(a)
    BY <2>1, <1>1, <1>3, <1>4
  <2>2. CASE Len(a) < k /\ k <= Len(a) + Len(b)
    <3>1. PICK j \in 1 .. Len(b) : k = Len(a) + j
      <4>1. k - Len(a) \in 1 .. Len(b) /\ k = Len(a) + (k - Len(a))
        BY <2>2, <1>1
      <4> QED
        BY ZenonT(40), <4>1
    <3>2. k \in 1 .. Len(ab) /\ j \in 1 .. Len(bc)
      BY <3>1, <1>1, <1>2
    <3>3. x[k] = b[j] /\ y[k] = b[j]
      BY <3>1, <3>2, <1>1, <1>2, <1>3, <1>4
    <3> QED
      BY <3>3
  <2>3. CASE Len(a) + Len(b) < k
    <3>1. PICK j \in 1 .. Len(c) : k = Len(ab) + j
      <4>1. k - Len(ab) \in 1 .. Len(c) /\ k = Len(ab) + (k - Len(ab))
        BY <2>3, <1>1, <1>2, <1>3
      <4> QED
        BY ZenonT(40), <4>1
    <3>2. Len(b) + j \in 1 .. Len(bc) /\ k = Len(a) + (Len(b) + j)
      BY <3>1, <1>1, <1>2
    <3>3. x[k] = c[j] /\ y[k] = c[j]
      BY <3>1, <3>2, <1>2, <1>3, <1>4
    <3> QED
      BY <3>3
  <2> QED
    BY <2>1, <2>2, <2>3, <1>1, <1>3
<1>7. x = y
  BY <1>3, <1>4, <1>5, <1>6, SameElements
<1> QED
  BY <1>7 DEF x, y, ab, bc

\* Two pieces of a sequence that meet
LEMMA Meet ==
  ASSUME NEW S, NEW s \in Seq(S), NEW n \in Nat, n <= Len(s), NEW a \in Seq(S), NEW b \in Seq(S),
         Len(a) = n, Len(b) = Len(s) - n,
         \A k \in 1 .. n : a[k] = s[k], \A k \in 1 .. Len(b) : b[k] = s[n + k]
  PROVE  a \o b = s
<1> DEFINE c == a \o b
<1>1. c = a \o b /\ Len(s) \in Nat
  OBVIOUS
<1> HIDE DEF c
<1>3. /\ c \in Seq(S) /\ Len(c) = Len(a) + Len(b) /\ Len(s) \in Nat
      /\ \A k \in 1 .. Len(a) : c[k] = a[k]
      /\ \A k \in 1 .. Len(b) : c[Len(a) + k] = b[k]
  BY <1>1, JoinedAt
<1>4. Len(c) = Len(s)
  BY <1>3
<1>5. ASSUME NEW k \in 1 .. Len(c) PROVE c[k] = s[k]
  <2>1. CASE k <= n
    BY <2>1, <1>3, <1>4
  <2>2. CASE n < k
    <3>1. k - n \in 1 .. Len(b) /\ k = n + (k - n)
      BY <2>2, <1>3, <1>4
    <3>2. c[n + (k - n)] = b[k - n]
      BY <3>1, <1>3
    <3>3. b[k - n] = s[n + (k - n)]
      BY <3>1
    <3> QED
      BY <3>1, <3>2, <3>3
  <2> QED
    BY <2>1, <2>2, <1>3, <1>4
<1>6. c = s
  BY <1>3, <1>4, <1>5, SameElements
<1> QED
  BY <1>6 DEF c

\* A batch and what is left of it
LEMMA Batch ==
  ASSUME NEW S, NEW s \in Seq(S), NEW n \in Nat, n <= Len(s)
  PROVE  /\ SubSeq(s, 1, n) \in Seq(S) /\ SubSeq(s, n + 1, Len(s)) \in Seq(S)
         /\ SubSeq(s, 1, n) \o SubSeq(s, n + 1, Len(s)) = s
<1> DEFINE a == SubSeq(s, 1, n)
           b == SubSeq(s, n + 1, Len(s))
<1>e. a = SubSeq(s, 1, n) /\ b = SubSeq(s, n + 1, Len(s))
  OBVIOUS
<1> HIDE DEF a, b
<1>0. Len(s) \in Nat /\ 0 \in Nat /\ 0 <= n /\ a = SubSeq(s, 0 + 1, n) /\ Len(s) <= Len(s)
  BY <1>e
<1>1. a \in Seq(S) /\ Len(a) = n - 0 /\ \A k \in 1 .. n - 0 : a[k] = s[0 + k]
  BY <1>0, CutOutAt
<1>2. b \in Seq(S) /\ Len(b) = Len(s) - n /\ \A k \in 1 .. Len(s) - n : b[k] = s[n + k]
  BY <1>0, <1>e, CutOutAt
<1>3. Len(a) = n /\ \A k \in 1 .. n : a[k] = s[k]
  <2>1. n - 0 = n /\ \A k \in 1 .. n : 0 + k = k
    OBVIOUS
  <2> QED
    BY <1>1, <2>1
<1>4. \A k \in 1 .. Len(b) : b[k] = s[n + k]
  BY <1>2
<1>5. a \o b = s
  BY ZenonT(40), <1>1, <1>2, <1>3, <1>4, Meet
<1> QED
  BY ZenonT(40), <1>1, <1>2, <1>5 DEF a, b

=============================================================================
