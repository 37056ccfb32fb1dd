--------------------------- MODULE SdkFrameProofs ---------------------------
(***************************************************************************)
(* What the daemon handles are whole frames: proofs about SdkClient for    *)
(* frames, socket buffers and batches of any size and any number of calls  *)
(* and connections.  The streams of pieces are followed from the worker's  *)
(* partial writes through the socket and the session's decoder to the      *)
(* messages that are dispatched.                                           *)
(***************************************************************************)
EXTENDS SdkClientProofs

\* The pieces end with x.
Cut(b, x) == b # <<>> /\ b[Len(b)] = x

\* The pieces end with a whole frame, and a frame of number n may follow.
Complete(h, b, n) ==
  /\ b # <<>> => b[Len(b)].part = Parts /\ b[Len(b)].id < n
  /\ b = <<>> /\ h # <<>> => h[Len(h)][1].id < n

\* What the session of connection c has not decoded, and what it has.
Unread(c) == conn[c].buffer \o conn[c].wire
Decoded(c) == handled[c] \o conn[c].inbox

\* What may come next on a connection that the worker can write to.
Continues(c) ==
  IF wpc \in {"check", "write"} /\ offset > 0 THEN Cut(Unread(c), Piece(event.id, offset))
  ELSE Complete(Decoded(c), Unread(c), IF wpc = "sent" THEN event.id + 1 ELSE event.id)

\* What a session has decoded are whole frames in order, and so is what it will read.
Orderly(c) ==
  /\ Chain(Decoded(c))
  /\ conn[c].daemon => Framed(Unread(c)) /\ Joint(Decoded(c), Unread(c))

\* A frame is cut off only where the connection will not be written to again.
FrameInv ==
  /\ handled \in Seq(Seq(Pieces)) /\ Len(handled) = Len(conn)
  /\ wpc \in {"connect", "dial", "set_fd", "send"} => offset = 0
  /\ wpc \in {"check", "write"} => offset < Parts /\ (fd # None => fd = sock)
  /\ \A c \in DOMAIN conn :
       /\ Orderly(c)
       /\ conn[c].daemon /\ conn[c].client /\ wpc # "failed" => Continues(c)

\* An empty sequence has no elements, any other a first and a last one.
LEMMA Ends ==
  ASSUME NEW S, NEW a \in Seq(S)
  PROVE  /\ Len(a) \in Nat /\ DOMAIN a = 1 .. Len(a) /\ (a = <<>> <=> Len(a) = 0)
         /\ a # <<>> => 1 \in 1 .. Len(a) /\ Len(a) \in 1 .. Len(a)
         /\ a \o <<>> = a /\ <<>> \o a = a
<1> QED
  BY SMT

\* The ends of what is put together
LEMMA JoinedEnds ==
  ASSUME NEW S, NEW a \in Seq(S), NEW b \in Seq(S), NEW c, c = a \o b
  PROVE  /\ c \in Seq(S) /\ (c = <<>> <=> a = <<>> /\ b = <<>>)
         /\ a # <<>> => c[1] = a[1]
         /\ b # <<>> => c[Len(c)] = b[Len(b)]
         /\ a = <<>> => c = b
         /\ b = <<>> => c = a
<1>1. /\ c \in Seq(S) /\ Len(c) = Len(a) + Len(b) /\ Len(a) \in Nat /\ Len(b) \in Nat
      /\ \A k \in 1 .. Len(a) : c[k] = a[k]
      /\ \A k \in 1 .. Len(b) : c[Len(a) + k] = b[k]
  BY JoinedAt
<1>2. /\ (a = <<>> <=> Len(a) = 0) /\ (b = <<>> <=> Len(b) = 0) /\ (c = <<>> <=> Len(c) = 0)
      /\ a # <<>> => 1 \in 1 .. Len(a)
      /\ b # <<>> => Len(b) \in 1 .. Len(b)
      /\ a \o <<>> = a /\ <<>> \o b = b
  BY <1>1, Ends
<1> QED
  BY <1>1, <1>2

\* Messages that follow older ones
LEMMA ChainJoin ==
  ASSUME NEW h \in Seq(Pieces), NEW m \in Seq(Pieces), Chain(h), Chain(m),
         h # <<>> /\ m # <<>> => h[Len(h)][1].id < m[1][1].id
  PROVE  Chain(h \o m)
<1> DEFINE c == h \o m
<1>0. c = h \o m
  OBVIOUS
<1> HIDE DEF c
<1>1. /\ c \in Seq(Pieces) /\ Len(c) = Len(h) + Len(m) /\ Len(h) \in Nat /\ Len(m) \in Nat
      /\ \A k \in 1 .. Len(h) : c[k] = h[k]
      /\ \A k \in 1 .. Len(m) : c[Len(h) + k] = m[k]
  BY <1>0, JoinedAt
<1>2. DOMAIN c = 1 .. Len(c) /\ DOMAIN h = 1 .. Len(h) /\ DOMAIN m = 1 .. Len(m)
      /\ (h = <<>> <=> Len(h) = 0) /\ (m = <<>> <=> Len(m) = 0)
  BY <1>1, Ends
<1>3. ASSUME NEW i \in DOMAIN c PROVE WholeFrame(c[i]) /\ (i > 1 => c[i - 1][1].id < c[i][1].id)
  <2>1. CASE i <= Len(h)
    <3>1. i \in 1 .. Len(h) /\ (i > 1 => i - 1 \in 1 .. Len(h))
      BY <2>1, <1>1, <1>2
    <3>2. c[i] = h[i] /\ (i > 1 => c[i - 1] = h[i - 1])
      BY <3>1, <1>1
    <3> QED
      BY <1>2, <3>1, <3>2 DEF Chain
  <2>2. CASE i > Len(h)
    <3>1. PICK j \in 1 .. Len(m) : i = Len(h) + j
      <4>1. i - Len(h) \in 1 .. Len(m) /\ i = Len(h) + (i - Len(h))
        BY <2>2, <1>1, <1>2
      <4> QED
        BY <4>1
    <3>2. c[i] = m[j] /\ WholeFrame(m[j])
      BY <3>1, <1>1, <1>2 DEF Chain
    <3>3. CASE j > 1
      <4>1. j - 1 \in 1 .. Len(m) /\ i - 1 = Len(h) + (j - 1)
        BY <3>1, <3>3, <1>1
      <4>2. c[i - 1] = m[j - 1]
        BY ZenonT(40), <4>1, <1>1
      <4>3. m[j - 1][1].id < m[j][1].id
        BY <3>1, <3>3, <1>2 DEF Chain
      <4> QED
        BY <3>2, <4>2, <4>3
    <3>4. CASE j = 1
      <4>1. m # <<>> /\ i - 1 = Len(h)
        BY <3>1, <3>4, <1>1, <1>2
      <4>2. i > 1 => h # <<>> /\ i - 1 \in 1 .. Len(h)
        BY <4>1, <1>1, <1>2
      <4>3. i > 1 => c[i - 1] = h[Len(h)]
        BY <4>1, <4>2, <1>1
      <4> QED
        BY <3>2, <3>4, <4>1, <4>2, <4>3
    <3> QED
      BY <3>1, <3>3, <3>4
  <2> QED
    BY <2>1, <2>2, <1>1, <1>2
<1> QED
  BY ZenonT(40), <1>0, <1>3 DEF Chain

\* The messages before some others
LEMMA ChainPrefix ==
  ASSUME NEW h \in Seq(Pieces), NEW m \in Seq(Pieces), Chain(h \o m)
  PROVE  Chain(h)
<1> DEFINE c == h \o m
<1>0. c = h \o m /\ Chain(c)
  OBVIOUS
<1> HIDE DEF c
<1>1. /\ c \in Seq(Pieces) /\ Len(c) = Len(h) + Len(m) /\ Len(h) \in Nat /\ Len(m) \in Nat
      /\ \A k \in 1 .. Len(h) : c[k] = h[k]
  BY <1>0, JoinedAt
<1>2. DOMAIN c = 1 .. Len(c) /\ DOMAIN h = 1 .. Len(h)
  BY <1>1, Ends
<1>3. ASSUME NEW i \in DOMAIN h PROVE WholeFrame(h[i]) /\ (i > 1 => h[i - 1][1].id < h[i][1].id)
  <2>1. i \in 1 .. Len(h) /\ i \in DOMAIN c /\ (i > 1 => i - 1 \in 1 .. Len(h))
    BY <1>1, <1>2
  <2>2. c[i] = h[i] /\ (i > 1 => c[i - 1] = h[i - 1])
    BY <2>1, <1>1
  <2> QED
    BY <2>1, <2>2, <1>0 DEF Chain
<1> QED
  BY <1>3 DEF Chain


\* A session reads all that is in the socket: what it has decoded then stays a
\* chain, and what may be written next is what might have been before.
LEMMA FeedStream ==
  ASSUME NEW h \in Seq(Pieces), NEW b \in Pieces, Chain(h), Framed(b), Joint(h, b),
         NEW M, M = Messages(b), NEW R, R = Rest(b), NEW g, g = h \o M
  PROVE  /\ g \in Seq(Pieces) /\ R \in Pieces /\ Chain(g) /\ Framed(R) /\ Joint(g, R)
         /\ \A n \in Nat : Complete(h, b, n) => Complete(g, R, n)
         /\ \A x \in [id : Nat, part : Nat] : x.part # Parts /\ Cut(b, x) => Cut(R, x)
<1>1. /\ M \in Seq(Pieces) /\ R \in Pieces /\ Chain(M) /\ Framed(R) /\ Joint(M, R)
      /\ M # <<>> => b # <<>> /\ M[1][1].id = b[1].id
      /\ M = <<>> => R = b
      /\ R # <<>> => b # <<>> /\ R[Len(R)] = b[Len(b)]
      /\ R = <<>> /\ b # <<>> => b[Len(b)].part = Parts /\ M # <<>> /\ M[Len(M)][1].id = b[Len(b)].id
  BY FeedFrames
<1>2. /\ g \in Seq(Pieces) /\ (g = <<>> <=> h = <<>> /\ M = <<>>)
      /\ M # <<>> => g[Len(g)] = M[Len(M)]
      /\ M = <<>> => g = h
  <2>1. M \in Seq(Pieces)
    BY <1>1
  <2> QED
    BY <2>1, JoinedEnds
<1>3. Chain(g)
  <2>1. h # <<>> /\ M # <<>> => h[Len(h)][1].id < M[1][1].id
    BY <1>1 DEF Joint
  <2> QED
    BY <1>1, <2>1, ChainJoin
<1>4. Joint(g, R)
  <2>1. CASE M = <<>>
    BY <2>1, <1>1, <1>2
  <2>2. CASE M # <<>>
    BY <2>2, <1>1, <1>2 DEF Joint
  <2> QED
    BY <2>1, <2>2
<1>5. ASSUME NEW n \in Nat, Complete(h, b, n) PROVE Complete(g, R, n)
  <2>1. CASE M = <<>>
    BY <2>1, <1>1, <1>2, <1>5
  <2>2. CASE M # <<>>
    BY <2>2, <1>1, <1>2, <1>5 DEF Complete
  <2> QED
    BY <2>1, <2>2
<1>6. ASSUME NEW x \in [id : Nat, part : Nat], x.part # Parts, Cut(b, x) PROVE Cut(R, x)
  BY <1>1, <1>6 DEF Cut
<1> QED
  BY <1>1, <1>2, <1>3, <1>4, <1>5, <1>6

\* The worker writes the next pieces of its frame, which it has begun on this
\* connection, or begins behind whole ones.
LEMMA WriteStream ==
  ASSUME NEW h \in Seq(Pieces), NEW b \in Pieces, Framed(b), Joint(h, b),
         NEW id \in Nat, NEW o \in Nat, NEW n \in Nat, n # 0, o + n <= Parts,
         (o > 0 /\ Cut(b, Piece(id, o))) \/ (o = 0 /\ Complete(h, b, id)),
         NEW w, w = [i \in 1 .. n |-> Piece(id, o + i)], NEW d, d = b \o w
  PROVE  d \in Pieces /\ Framed(d) /\ Joint(h, d) /\ Cut(d, Piece(id, o + n))
<1> DEFINE S == [id : Nat, part : Nat]
<1>0. Parts \in Nat \ {0} /\ b \in Seq(S) /\ \A k \in 1 .. Len(b) : b[k].id \in Nat /\ b[k].part \in Nat
  BY SizeAssumption, PieceAt DEF Pieces
<1>1. w \in Seq(S) /\ Len(w) = n /\ \A k \in 1 .. n : w[k] = Piece(id, o + k)
  BY DEF Piece
<1> HIDE DEF S
<1>2. /\ d \in Seq(S) /\ Len(d) = Len(b) + Len(w) /\ Len(b) \in Nat
      /\ \A k \in 1 .. Len(b) : d[k] = b[k]
      /\ \A k \in 1 .. Len(w) : d[Len(b) + k] = w[k]
  <2>1. w \in Seq(S)
    BY <1>1
  <2> QED
    BY <2>1, <1>0, JoinedAt
<1>3. /\ (b = <<>> <=> Len(b) = 0) /\ (d = <<>> <=> Len(d) = 0)
      /\ b # <<>> => 1 \in 1 .. Len(b) /\ Len(b) \in 1 .. Len(b)
  BY ZenonT(40), <1>0, <1>2, Ends
<1>4. d # <<>> /\ Len(d) = Len(b) + n
  <2>1. Len(w) = n /\ Len(d) = Len(b) + Len(w) /\ Len(b) \in Nat /\ (d = <<>> <=> Len(d) = 0)
    BY ZenonT(40), <1>1, <1>2, <1>3
  <2>2. ASSUME NEW x \in Nat, NEW y \in Nat, y # 0 PROVE x + y # 0
    BY <2>2
  <2>3. Len(b) + n # 0
    BY Zenon, <2>1, <2>2
  <2> QED
    BY Zenon, <2>1, <2>3
<1>5. d[Len(b) + n] = Piece(id, o + n) /\ d[Len(b) + 1] = Piece(id, o + 1)
  <2>1. n \in 1 .. n /\ 1 \in 1 .. n
    OBVIOUS
  <2> QED
    BY SMTT(40), <2>1, <1>1, <1>2
<1>6. Cut(d, Piece(id, o + n))
  BY ZenonT(40), <1>4, <1>5 DEF Cut
<1>7. Piece(id, o + 1).id = id /\ Piece(id, o + 1).part = o + 1
  BY DEF Piece
<1>8. d[1].part = 1 /\ Joint(h, d)
  <2>1. CASE b # <<>>
    <3>1. d[1] = b[1]
      BY <2>1, <1>2, <1>3
    <3> QED
      BY <2>1, <3>1 DEF Framed, Joint
  <2>2. CASE b = <<>>
    <3>1. o = 0 /\ Complete(h, b, id)
      BY <2>2 DEF Cut
    <3>2. d[1] = Piece(id, o + 1) /\ o + 1 = 1
      BY SMTT(40), <1>3, <1>5, <2>2, <3>1
    <3> QED
      BY <1>7, <2>2, <3>1, <3>2 DEF Complete, Joint
  <2> QED
    BY <2>1, <2>2
<1>9. ASSUME NEW k \in 1 .. Len(d) PROVE d[k].part \in 1 .. Parts /\ (k > 1 => Follows(d[k - 1], d[k]))
  <2>1. CASE k <= Len(b)
    <3>1. k \in 1 .. Len(b) /\ (k > 1 => k - 1 \in 1 .. Len(b))
      BY <2>1, <1>2
    <3>2. d[k] = b[k] /\ (k > 1 => d[k - 1] = b[k - 1])
      BY <3>1, <1>2
    <3> QED
      BY <3>1, <3>2 DEF Framed
  <2>2. CASE k > Len(b)
    <3>1. PICK j \in 1 .. n : k = Len(b) + j
      <4>1. k - Len(b) \in 1 .. n /\ k = Len(b) + (k - Len(b))
        BY <2>2, <1>2, <1>4
      <4> QED
        BY ZenonT(40), <4>1
    <3>2. d[k] = Piece(id, o + j)
      BY <3>1, <1>1, <1>2
    <3>3. Piece(id, o + j).part = o + j /\ o + j \in 1 .. Parts
      BY <1>0, <3>1 DEF Piece
    <3>4. CASE j > 1
      <4>1. j - 1 \in 1 .. n /\ k - 1 = Len(b) + (j - 1)
        BY SMTT(40), SMTT(41), <3>1, <3>4, <1>2
      <4>2. d[k - 1] = Piece(id, o + (j - 1))
        BY <4>1, <1>1, <1>2
      <4>3. o + (j - 1) < Parts /\ o + j = (o + (j - 1)) + 1
        BY SizeAssumption, <3>4
      <4>4. Follows(Piece(id, o + (j - 1)), Piece(id, o + j))
        BY <4>3 DEF Follows, Piece
      <4> QED
        BY ZenonT(40), <3>2, <3>3, <4>2, <4>4
    <3>5. CASE j = 1
      <4>1. k - 1 = Len(b) /\ d[k] = Piece(id, o + 1)
        BY <3>1, <3>2, <3>5, <1>2
      <4>2. ASSUME k > 1 PROVE Follows(d[k - 1], d[k])
        <5>1. b # <<>> /\ d[k - 1] = b[Len(b)]
          BY <4>1, <4>2, <1>2, <1>3
        <5>2. CASE o > 0
          <6>1. b[Len(b)] = Piece(id, o) /\ o < Parts
            BY SMTT(40), <1>0, <3>1, <3>3, <3>5, <5>2 DEF Cut
          <6>2. Follows(Piece(id, o), Piece(id, o + 1))
            BY SMTT(40), <6>1 DEF Follows, Piece
          <6> QED
            BY SMTT(40), <4>1, <5>1, <6>1, <6>2
        <5>3. CASE o = 0
          <6>1. b[Len(b)].part = Parts /\ b[Len(b)].id < id
            BY <5>1, <5>3 DEF Complete
          <6> QED
            BY SMTT(40), <1>7, <4>1, <5>1, <5>3, <6>1 DEF Follows
        <5> QED
          BY ZenonT(40), <5>2, <5>3
      <4> QED
        BY ZenonT(40), <3>2, <3>3, <4>2
    <3> QED
      BY SMTT(40), SMTT(41), <3>1, <3>4, <3>5
  <2> QED
    BY <2>1, <2>2, <1>2
<1>10. Framed(d)
  BY ZenonT(40), <1>8, <1>9 DEF Framed
<1> QED
  BY <1>2, <1>6, <1>8, <1>10 DEF S, Pieces


\* The parts of a connection
LEMMA StreamTypes ==
  ASSUME SockTypes, FrameInv, NEW c \in DOMAIN conn
  PROVE  /\ DOMAIN handled = DOMAIN conn /\ conn[c] \in ConnType
         /\ handled[c] \in Seq(Pieces) /\ conn[c].inbox \in Seq(Pieces)
         /\ conn[c].buffer \in Pieces /\ conn[c].wire \in Pieces
         /\ Decoded(c) \in Seq(Pieces) /\ Unread(c) \in Pieces
<1>1. conn \in Seq(ConnType) /\ handled \in Seq(Seq(Pieces)) /\ Len(handled) = Len(conn)
  BY DEF SockTypes, FrameInv
<1>2. /\ DOMAIN conn = 1 .. Len(conn) /\ DOMAIN handled = 1 .. Len(handled)
      /\ \A k \in 1 .. Len(conn) : conn[k] \in ConnType
      /\ \A k \in 1 .. Len(handled) : handled[k] \in Seq(Pieces)
  BY <1>1, Element
<1>3. conn[c] \in ConnType /\ handled[c] \in Seq(Pieces)
  BY <1>1, <1>2
<1>4. conn[c].inbox \in Seq(Pieces) /\ conn[c].buffer \in Pieces /\ conn[c].wire \in Pieces
  BY <1>3 DEF ConnType
<1>5. Decoded(c) \in Seq(Pieces)
  BY <1>3, <1>4, Joined DEF Decoded
<1>6. Unread(c) \in Pieces
  BY <1>4, Joined DEF Unread, Pieces
<1> QED
  BY <1>1, <1>2, <1>3, <1>4, <1>5, <1>6

\* The worker goes on without touching a connection.
LEMMA WorkerFrame ==
  ASSUME FrameInv, UNCHANGED <<conn, handled>>,
         wpc' \in {"connect", "dial", "set_fd", "send"} => offset' = 0,
         wpc' \in {"check", "write"} => offset' < Parts /\ (fd' # None => fd' = sock'),
         \A c \in DOMAIN conn : conn[c].daemon /\ conn[c].client /\ wpc' # "failed" => Continues(c)'
  PROVE  FrameInv'
<1>1. \A c \in DOMAIN conn : Orderly(c)'
  BY DEF FrameInv, Orderly, Decoded, Unread
<1> QED
  BY <1>1 DEF FrameInv

\* What may come next depends on the worker's place, the offset and the frame's number.
LEMMA NextFrame ==
  ASSUME UNCHANGED <<conn, handled>>, NEW c \in DOMAIN conn, Continues(c),
         \/ wpc \in {"check", "write"} /\ wpc' \in {"check", "write"} /\ UNCHANGED <<offset, event>>
         \/ /\ wpc \notin {"check", "write"} \/ ~(offset > 0)
            /\ wpc' \notin {"check", "write"} \/ ~(offset' > 0)
            /\ (IF wpc' = "sent" THEN event'.id + 1 ELSE event'.id) = (IF wpc = "sent" THEN event.id + 1 ELSE event.id)
  PROVE  Continues(c)'
<1>1. Unread(c)' = Unread(c) /\ Decoded(c)' = Decoded(c)
  BY DEF Unread, Decoded
<1>2. CASE wpc \in {"check", "write"} /\ wpc' \in {"check", "write"} /\ UNCHANGED <<offset, event>>
  <2>1. wpc # "sent" /\ wpc' # "sent"
    BY <1>2
  <2> QED
    BY <1>1, <1>2, <2>1 DEF Continues
<1>3. CASE /\ wpc \notin {"check", "write"} \/ ~(offset > 0)
           /\ wpc' \notin {"check", "write"} \/ ~(offset' > 0)
           /\ (IF wpc' = "sent" THEN event'.id + 1 ELSE event'.id) = (IF wpc = "sent" THEN event.id + 1 ELSE event.id)
  BY SMTT(40), <1>1, <1>3 DEF Continues
<1> QED
  BY <1>2, <1>3

\* One session changes, the worker and the descriptors do not.
LEMMA SessionFrame ==
  ASSUME Types, SockTypes, FrameInv, NEW c \in DOMAIN conn, UNCHANGED <<wpc, event, offset, fd, sock>>,
         NEW h \in Seq(Pieces), NEW r \in ConnType,
         handled' = [handled EXCEPT ![c] = h], conn' = [conn EXCEPT ![c] = r],
         r.client => conn[c].client, r.daemon => conn[c].daemon,
         NEW g, g = h \o r.inbox, NEW u, u = r.buffer \o r.wire,
         Chain(g), r.daemon => Framed(u) /\ Joint(g, u),
         r.daemon => \A n \in Nat : Complete(Decoded(c), Unread(c), n) => Complete(g, u, n),
         r.daemon => \A x \in [id : Nat, part : Nat] : x.part # Parts /\ Cut(Unread(c), x) => Cut(u, x)
  PROVE  FrameInv'
<1>1. /\ conn \in Seq(ConnType) /\ handled \in Seq(Seq(Pieces)) /\ Len(handled) = Len(conn)
      /\ DOMAIN handled = DOMAIN conn
  BY StreamTypes DEF SockTypes, FrameInv
<1>2. /\ handled' \in Seq(Seq(Pieces)) /\ Len(handled') = Len(handled) /\ handled'[c] = h
      /\ \A d \in DOMAIN conn : d # c => handled'[d] = handled[d]
  BY <1>1
<1>3. /\ Len(conn') = Len(conn) /\ conn'[c] = r /\ DOMAIN conn' = DOMAIN conn
      /\ \A d \in DOMAIN conn : d # c => conn'[d] = conn[d]
  BY <1>1
<1>4. Decoded(c)' = g /\ Unread(c)' = u
  BY ZenonT(40), <1>2, <1>3 DEF Decoded, Unread
<1>5. \A d \in DOMAIN conn : d # c => Decoded(d)' = Decoded(d) /\ Unread(d)' = Unread(d)
  BY ZenonT(40), <1>2, <1>3 DEF Decoded, Unread
<1>6. \A d \in DOMAIN conn : Orderly(d)'
  <2>1. Orderly(c)'
    BY <1>3, <1>4 DEF Orderly
  <2>2. ASSUME NEW d \in DOMAIN conn, d # c PROVE Orderly(d)'
    <3>1. Orderly(d)
      BY DEF FrameInv
    <3> QED
      BY SMTT(40), <2>2, <3>1, <1>3, <1>5 DEF Orderly
  <2> QED
    BY <2>1, <2>2
<1>7. ASSUME NEW d \in DOMAIN conn, conn'[d].daemon, conn'[d].client, wpc' # "failed" PROVE Continues(d)'
  <2>1. CASE d # c
    <3>1. Continues(d)
      BY <1>3, <1>7, <2>1 DEF FrameInv
    <3> QED
      BY SMTT(40), <2>1, <3>1, <1>5 DEF Continues
  <2>2. CASE d = c
    <3>1. Continues(c) /\ r.daemon
      BY SMTT(40), <1>3, <1>7, <2>2 DEF FrameInv
    <3>2. event.id \in Nat /\ event.id + 1 \in Nat /\ offset \in Nat
      BY DEF Types
    <3>3. CASE wpc \in {"check", "write"} /\ offset > 0
      <4> DEFINE x == Piece(event.id, offset)
      <4>1. x \in [id : Nat, part : Nat] /\ x.part = offset
        BY <3>2 DEF Piece
      <4>2. offset # Parts
        BY <3>2, <3>3, SizeAssumption DEF FrameInv
      <4>3. Cut(Unread(c), x)
        BY <3>1, <3>3 DEF Continues
      <4> HIDE DEF x
      <4>4. Cut(u, x)
        BY SMTT(40), <3>1, <4>1, <4>2, <4>3
      <4> QED
        BY SMTT(40), <2>2, <3>3, <4>4, <1>4 DEF Continues, x
    <3>4. CASE ~(wpc \in {"check", "write"} /\ offset > 0)
      <4> DEFINE n == IF wpc = "sent" THEN event.id + 1 ELSE event.id
      <4>1. n \in Nat
        BY <3>2
      <4>2. Complete(Decoded(c), Unread(c), n)
        BY <3>1, <3>4 DEF Continues
      <4> HIDE DEF n
      <4>3. Complete(g, u, n)
        BY <3>1, <4>1, <4>2
      <4> QED
        BY <2>2, <3>4, <4>3, <1>4 DEF Continues, n
    <3> QED
      BY <3>3, <3>4
  <2> QED
    BY <2>1, <2>2
<1> QED
  BY ZenonT(40), <1>1, <1>2, <1>3, <1>6, <1>7 DEF FrameInv


\* The facts about sequences, for pieces and for messages
LEMMA MessageSequences ==
  /\ \A a, b, c \in Pieces : (a \o b) \o c = a \o (b \o c)
  /\ \A a, b, c \in Seq(Pieces) : (a \o b) \o c = a \o (b \o c)
  /\ \A s \in Seq(Pieces) : \A n \in Nat : n <= Len(s) =>
       /\ SubSeq(s, 1, n) \in Seq(Pieces) /\ SubSeq(s, n + 1, Len(s)) \in Seq(Pieces)
       /\ SubSeq(s, 1, n) \o SubSeq(s, n + 1, Len(s)) = s
<1>1. ASSUME NEW a \in Seq(Pieces), NEW b \in Seq(Pieces), NEW c \in Seq(Pieces)
      PROVE  (a \o b) \o c = a \o (b \o c)
  BY Associative
<1>3. ASSUME NEW a \in Pieces, NEW b \in Pieces, NEW c \in Pieces
      PROVE  (a \o b) \o c = a \o (b \o c)
  <2> DEFINE S == [id : Nat, part : Nat]
  <2>1. a \in Seq(S) /\ b \in Seq(S) /\ c \in Seq(S)
    BY DEF Pieces
  <2> HIDE DEF S
  <2> QED
    BY SMTT(40), SMTT(41), <2>1, Associative
<1>2. ASSUME NEW s \in Seq(Pieces), NEW n \in Nat, n <= Len(s)
      PROVE  /\ SubSeq(s, 1, n) \in Seq(Pieces) /\ SubSeq(s, n + 1, Len(s)) \in Seq(Pieces)
             /\ SubSeq(s, 1, n) \o SubSeq(s, n + 1, Len(s)) = s
  BY ZenonT(40), <1>2, Batch
<1> QED
  BY ZenonT(40), <1>1, <1>2, <1>3

\* dispatch_messages moves messages on, or ends the session with what it has handled.
LEMMA DispatchFrame ==
  ASSUME Types, SockTypes, FrameInv, NEW c \in DOMAIN conn, UNCHANGED <<wpc, event, offset, fd, sock>>,
         NEW s \in ConnType, dispatch_messages(c, s), conn[c].daemon, s.client => conn[c].client,
         NEW g, g = handled[c] \o s.inbox, NEW u, u = s.buffer \o s.wire,
         Chain(g), Framed(u), Joint(g, u),
         \A n \in Nat : Complete(Decoded(c), Unread(c), n) => Complete(g, u, n),
         \A x \in [id : Nat, part : Nat] : x.part # Parts /\ Cut(Unread(c), x) => Cut(u, x)
  PROVE  FrameInv'
<1>0. s.inbox \in Seq(Pieces) /\ handled[c] \in Seq(Pieces)
  BY StreamTypes DEF ConnType
<1>1. PICK n \in 0 .. Min2(Limit, Len(s.inbox)) :
        /\ handled' = [handled EXCEPT ![c] = @ \o SubSeq(s.inbox, 1, n)]
        /\ \/ conn' = [conn EXCEPT ![c] = [s EXCEPT !.inbox = SubSeq(@, n + 1, Len(@)),
                                                    !.posted = n < Len(s.inbox)]]
           \/ conn' = [conn EXCEPT ![c] = [s EXCEPT !.daemon = FALSE, !.inbox = <<>>]]
  BY ZenonT(40) DEF dispatch_messages
<1>2. n \in Nat /\ n <= Len(s.inbox)
  BY <1>0, SizeAssumption DEF Min2
<1> DEFINE a == SubSeq(s.inbox, 1, n)
           b == SubSeq(s.inbox, n + 1, Len(s.inbox))
           h == handled[c] \o a
           p == n < Len(s.inbox)
<1>e. a = SubSeq(s.inbox, 1, n) /\ b = SubSeq(s.inbox, n + 1, Len(s.inbox))
  OBVIOUS
<1>4. handled' = [handled EXCEPT ![c] = h]
  BY <1>1
<1>5. \/ conn' = [conn EXCEPT ![c] = [s EXCEPT !.inbox = b, !.posted = p]]
      \/ conn' = [conn EXCEPT ![c] = [s EXCEPT !.daemon = FALSE, !.inbox = <<>>]]
  BY <1>1
<1>6. p \in BOOLEAN
  OBVIOUS
<1> HIDE DEF a, b, p
<1>3. a \in Seq(Pieces) /\ b \in Seq(Pieces) /\ a \o b = s.inbox
  BY ZenonT(40), <1>0, <1>2, <1>e, MessageSequences
<1>7. h \in Seq(Pieces) /\ h \o b = g
  <2>1. (handled[c] \o a) \o b = handled[c] \o (a \o b)
    <3>1. handled[c] \in Seq(Pieces) /\ a \in Seq(Pieces) /\ b \in Seq(Pieces)
      BY ZenonT(40), <1>0, <1>3
    <3> QED
      BY ZenonT(40), <3>1, MessageSequences
  <2>2. h \in Seq(Pieces)
    BY SMTT(40), <1>0, <1>3, Joined
  <2> QED
    BY <1>3, <2>1, <2>2
<1> HIDE DEF h
<1>8. CASE conn' = [conn EXCEPT ![c] = [s EXCEPT !.inbox = b, !.posted = p]]
  <2> DEFINE r == [s EXCEPT !.inbox = b, !.posted = p]
  <2>1. r \in ConnType /\ r.client = s.client /\ r.inbox = b /\ r.buffer = s.buffer /\ r.wire = s.wire
    BY ZenonT(40), <1>3, <1>6 DEF ConnType
  <2>2. conn' = [conn EXCEPT ![c] = r]
    BY <1>8
  <2> HIDE DEF r
  <2>3. g = h \o r.inbox /\ u = r.buffer \o r.wire
    BY ZenonT(40), <1>7, <2>1
  <2> QED
    BY ZenonT(40), <1>4, <1>7, <2>1, <2>2, <2>3, SessionFrame
<1>9. CASE conn' = [conn EXCEPT ![c] = [s EXCEPT !.daemon = FALSE, !.inbox = <<>>]]
  <2> DEFINE r == [s EXCEPT !.daemon = FALSE, !.inbox = <<>>]
  <2>0. <<>> \in Seq(Pieces)
    OBVIOUS
  <2>1. r \in ConnType /\ r.client = s.client /\ ~r.daemon /\ r.inbox = <<>>
    BY ZenonT(40), <2>0 DEF ConnType
  <2>2. conn' = [conn EXCEPT ![c] = r]
    BY <1>9
  <2> HIDE DEF r
  <2>3. Chain(h)
    <3>1. Chain(h \o b)
      BY <1>7
    <3> QED
      BY Zenon, <1>3, <1>7, <3>1, ChainPrefix
  <2>4. h = h \o r.inbox
    BY <1>7, <2>1, Ends
  <2> QED
    BY ZenonT(40), <1>4, <1>7, <2>1, <2>2, <2>3, <2>4, SessionFrame
<1> QED
  BY <1>5, <1>8, <1>9

\* What a session does keeps the streams orderly.
LEMMA SessionStep ==
  ASSUME Types, SockTypes, FrameInv, NEW c \in 1 .. MaxConns, Session(c)
  PROVE  FrameInv'
<1>0. UNCHANGED <<wpc, event, offset, fd, sock>> /\ c \in DOMAIN conn /\ conn[c].daemon
  BY DEF Session, Read, Dispatch, Eof, worker
<1>1. /\ DOMAIN handled = DOMAIN conn /\ conn[c] \in ConnType
      /\ handled[c] \in Seq(Pieces) /\ conn[c].inbox \in Seq(Pieces)
      /\ conn[c].buffer \in Pieces /\ conn[c].wire \in Pieces
      /\ Decoded(c) \in Seq(Pieces) /\ Unread(c) \in Pieces
  BY <1>0, StreamTypes
<1>2. Chain(Decoded(c)) /\ Framed(Unread(c)) /\ Joint(Decoded(c), Unread(c))
  BY SMTT(40), <1>0 DEF FrameInv, Orderly
<1>3. CASE Read(c)
  <2> DEFINE b == Unread(c)
             M == Messages(b)
             R == Rest(b)
             m == conn[c].inbox \o M
             s == [conn[c] EXCEPT !.wire = <<>>, !.buffer = R, !.inbox = m]
             g == Decoded(c) \o M
  <2>1. dispatch_messages(c, s)
    BY <1>3 DEF Read, Unread
  <2>2. M \in Seq(Pieces)
    BY <1>1, Decoding
  <2>3. /\ g \in Seq(Pieces) /\ R \in Pieces /\ Chain(g) /\ Framed(R) /\ Joint(g, R)
        /\ \A n \in Nat : Complete(Decoded(c), b, n) => Complete(g, R, n)
        /\ \A x \in [id : Nat, part : Nat] : x.part # Parts /\ Cut(b, x) => Cut(R, x)
    BY ZenonT(40), <1>1, <1>2, FeedStream
  <2> HIDE DEF b, M, R
  <2>4. m \in Seq(Pieces) /\ handled[c] \o m = g
    <3>1. m \in Seq(Pieces)
      BY <1>1, <2>2, Joined
    <3>2. (handled[c] \o conn[c].inbox) \o M = handled[c] \o (conn[c].inbox \o M)
      BY ZenonT(40), <1>1, <2>2, MessageSequences
    <3> QED
      BY <3>1, <3>2 DEF Decoded
  <2> HIDE DEF m, g
  <2>5. <<>> \in Pieces /\ R \o <<>> = R
    BY <2>3, Ends DEF Pieces
  <2>6. s \in ConnType /\ s.client = conn[c].client /\ s.inbox = m /\ s.buffer = R /\ s.wire = <<>>
    BY ZenonT(40), <1>1, <2>3, <2>4, <2>5 DEF ConnType
  <2> HIDE DEF s
  <2>7. g = handled[c] \o s.inbox /\ R = s.buffer \o s.wire
    BY <2>4, <2>5, <2>6
  <2>8. /\ \A n \in Nat : Complete(Decoded(c), Unread(c), n) => Complete(g, R, n)
        /\ \A x \in [id : Nat, part : Nat] : x.part # Parts /\ Cut(Unread(c), x) => Cut(R, x)
    BY <2>3 DEF b
  <2> QED
    BY ZenonT(40), <1>0, <2>1, <2>3, <2>6, <2>7, <2>8, DispatchFrame
<1>4. CASE Dispatch(c)
  <2> DEFINE s == [conn[c] EXCEPT !.posted = FALSE]
  <2>1. dispatch_messages(c, s)
    BY <1>4 DEF Dispatch
  <2>2. /\ s \in ConnType /\ s.client = conn[c].client
        /\ s.inbox = conn[c].inbox /\ s.buffer = conn[c].buffer /\ s.wire = conn[c].wire
    BY ZenonT(40), <1>1 DEF ConnType
  <2> HIDE DEF s
  <2>3. Decoded(c) = handled[c] \o s.inbox /\ Unread(c) = s.buffer \o s.wire
    BY <2>2 DEF Decoded, Unread
  <2> QED
    BY ZenonT(40), <1>0, <1>2, <2>1, <2>2, <2>3, DispatchFrame
<1>5. CASE Eof(c)
  <2> DEFINE r == [conn[c] EXCEPT !.daemon = FALSE, !.inbox = <<>>, !.posted = FALSE]
             h == handled[c]
  <2>1. conn' = [conn EXCEPT ![c] = r] /\ handled' = handled
    BY ZenonT(40), <1>5, <1>1 DEF Eof, ConnType, daemon_vars
  <2>2. handled' = [handled EXCEPT ![c] = h] /\ h \in Seq(Pieces)
    BY <1>0, <1>1, <2>1 DEF FrameInv
  <2>3. <<>> \in Seq(Pieces)
    OBVIOUS
  <2>4. r \in ConnType /\ r.client = conn[c].client /\ ~r.daemon /\ r.inbox = <<>>
    BY ZenonT(40), <1>1, <2>3 DEF ConnType
  <2>5. Chain(h)
    BY <1>1, <1>2, ChainPrefix DEF Decoded
  <2> HIDE DEF r, h
  <2>6. h = h \o r.inbox
    BY <2>2, <2>4, Ends
  <2> QED
    BY ZenonT(40), <1>0, <2>1, <2>2, <2>4, <2>5, <2>6, SessionFrame
<1> QED
  BY <1>3, <1>4, <1>5 DEF Session


\* In the loop of send only the worker's own connection can be open.
LEMMA OnlyOpen ==
  ASSUME SockTypes, CloseInv, FrameInv, wpc \in {"check", "write"}, NEW c \in DOMAIN conn, conn[c].client
  PROVE  c = sock
<1>1. c = fd /\ c # None
  BY DEF CloseInv, SockTypes, None
<1> QED
  BY <1>1 DEF FrameInv

\* The loop of send: the stream goes on with the next pieces of the same frame.
LEMMA WriteStep ==
  ASSUME Types, SockTypes, CloseInv, FrameInv, Write
  PROVE  FrameInv'
<1>0. /\ wpc = "write" /\ UNCHANGED <<event, sock, fd, handled>> /\ sock \in DOMAIN conn
      /\ offset \in Nat /\ event.id \in Nat /\ offset < Parts
  BY DEF Write, SockTypes, None, Types, FrameInv, daemon_vars
<1>1. CASE UNCHANGED <<offset, conn>> /\ wpc' \in {"check", "failed"}
  <2>1. ASSUME NEW c \in DOMAIN conn, conn[c].daemon, conn[c].client, wpc' # "failed" PROVE Continues(c)'
    <3>1. Continues(c)
      BY <1>0, <2>1 DEF FrameInv
    <3> QED
      BY SMTT(40), <1>0, <1>1, <2>1, <3>1, NextFrame
  <2>2. offset' < Parts /\ (fd' # None => fd' = sock')
    BY SMTT(40), <1>0, <1>1 DEF FrameInv
  <2> QED
    BY SMTT(40), <1>0, <1>1, <2>1, <2>2, WorkerFrame
<1>2. ASSUME NEW n \in 1 .. (Capacity - Len(conn[sock].wire)), offset + n <= Parts, offset' = offset + n,
             conn[sock].client, conn[sock].daemon,
             conn' = [conn EXCEPT ![sock].wire = @ \o Written(n)], wpc' = AfterWrite(offset + n)
      PROVE  FrameInv'
  <2> DEFINE w == Written(n)
             v == conn[sock].wire \o w
             r == [conn[sock] EXCEPT !.wire = v]
             b == Unread(sock)
             h == Decoded(sock)
             d == b \o w
  <2>1. n \in Nat /\ n # 0
    <3>1. Len(conn[sock].wire) \in Nat
      BY SMTT(40), <1>0, StreamTypes, PieceAt
    <3> QED
      BY SMTT(40), <3>1, SizeAssumption
  <2>2. /\ DOMAIN handled = DOMAIN conn /\ conn[sock] \in ConnType
        /\ conn[sock].buffer \in Pieces /\ conn[sock].wire \in Pieces
        /\ h \in Seq(Pieces) /\ b \in Pieces
    BY <1>0, StreamTypes
  <2>3. Framed(b) /\ Joint(h, b) /\ Continues(sock) /\ Chain(h)
    BY <1>0, <1>2 DEF FrameInv, Orderly
  <2>4. w = [i \in 1 .. n |-> Piece(event.id, offset + i)]
    BY DEF Written
  <2>5. (offset > 0 /\ Cut(b, Piece(event.id, offset))) \/ (offset = 0 /\ Complete(h, b, event.id))
    BY <1>0, <2>3 DEF Continues
  <2>6. w \in Pieces
    BY <1>0, <2>1, <2>4 DEF Piece, Pieces
  <2>e. d = b \o w
    OBVIOUS
  <2> HIDE DEF w, b, h, d
  <2>7. d \in Pieces /\ Framed(d) /\ Joint(h, d) /\ Cut(d, Piece(event.id, offset + n))
    BY ZenonT(40), <1>0, <1>2, <2>1, <2>2, <2>3, <2>4, <2>5, <2>e, WriteStream
  <2>8. conn' = [conn EXCEPT ![sock] = r] /\ v \in Pieces
    BY ZenonT(40), <1>2, <2>2, <2>6, Joined DEF w, Pieces
  <2>9. conn[sock].buffer \o v = d
    <3>1. (conn[sock].buffer \o conn[sock].wire) \o w = conn[sock].buffer \o (conn[sock].wire \o w)
      BY Zenon, <2>2, <2>6, MessageSequences
    <3> QED
      BY <2>e, <3>1 DEF b, Unread
  <2> HIDE DEF v
  <2>10. r \in ConnType /\ r.buffer = conn[sock].buffer /\ r.wire = v /\ r.inbox = conn[sock].inbox
    BY ZenonT(40), <2>2, <2>8 DEF ConnType
  <2> HIDE DEF r
  <2>11. /\ DOMAIN conn' = DOMAIN conn /\ Len(conn') = Len(conn) /\ conn'[sock] = r
         /\ \A c \in DOMAIN conn : c # sock => conn'[c] = conn[c]
    BY <1>0, <2>8, <2>10 DEF SockTypes
  <2>12. Decoded(sock)' = h /\ Unread(sock)' = d
    BY ZenonT(40), <1>0, <2>9, <2>10, <2>11 DEF Decoded, Unread, h
  <2>13. ASSUME NEW c \in DOMAIN conn PROVE Orderly(c)'
    <3>1. CASE c = sock
      BY ZenonT(40), <1>0, <2>3, <2>7, <2>12, <3>1 DEF Orderly
    <3>2. CASE c # sock
      <4>1. Decoded(c)' = Decoded(c) /\ Unread(c)' = Unread(c) /\ conn'[c] = conn[c]
        BY ZenonT(40), <1>0, <2>11, <3>2 DEF Decoded, Unread
      <4> QED
        BY <4>1 DEF FrameInv, Orderly
    <3> QED
      BY ZenonT(40), <3>1, <3>2
  <2>14. ASSUME NEW c \in DOMAIN conn, conn'[c].client PROVE Continues(c)'
    <3>1. c = sock
      <4>1. c # sock => conn[c].client
        BY <2>11, <2>14
      <4> QED
        BY <1>0, <4>1, OnlyOpen
    <3>2. CASE offset + n < Parts
      <4>1. wpc' = "check" /\ offset' > 0
        BY <1>0, <1>2, <2>1, <3>2 DEF AfterWrite
      <4> QED
        BY <1>0, <1>2, <2>7, <2>12, <3>1, <4>1 DEF Continues
    <3>3. CASE ~(offset + n < Parts)
      <4>1. wpc' = "sent" /\ offset + n = Parts
        BY <1>0, <1>2, <2>1, <3>3, SizeAssumption DEF AfterWrite
      <4>2. d # <<>> /\ d[Len(d)].part = Parts /\ d[Len(d)].id = event.id
        BY <2>7, <4>1 DEF Cut, Piece
      <4>3. Complete(h, d, event.id + 1)
        BY <1>0, <4>2 DEF Complete
      <4> QED
        BY <1>0, <2>12, <3>1, <4>1, <4>3 DEF Continues
    <3> QED
      BY <3>2, <3>3
  <2>15. /\ wpc' \in {"check", "sent"} /\ (wpc' = "check" => offset' < Parts)
         /\ (fd' # None => fd' = sock')
    BY <1>0, <1>2 DEF AfterWrite, FrameInv
  <2>16. handled' \in Seq(Seq(Pieces)) /\ Len(handled') = Len(conn')
    BY SMTT(40), <1>0, <2>11 DEF FrameInv
  <2> QED
    BY SMTT(40), <2>11, <2>13, <2>14, <2>15, <2>16 DEF FrameInv
<1> QED
  BY SMTT(40), <1>1, <1>2 DEF Write


\* Steps that leave the streams of all connections as they are and open no socket.
LEMMA StreamFrame ==
  ASSUME FrameInv, UNCHANGED handled, DOMAIN conn' = DOMAIN conn, Len(conn') = Len(conn),
         \A c \in DOMAIN conn :
           /\ conn'[c].inbox = conn[c].inbox /\ conn'[c].buffer = conn[c].buffer
           /\ conn'[c].wire = conn[c].wire /\ conn'[c].daemon = conn[c].daemon
           /\ conn'[c].client => conn[c].client,
         wpc' \in {"connect", "dial", "set_fd", "send"} => offset' = 0,
         wpc' \in {"check", "write"} => offset' < Parts /\ (fd' # None => fd' = sock'),
         UNCHANGED <<wpc, event, offset>> \/ \A c \in DOMAIN conn : ~conn'[c].client
  PROVE  FrameInv'
<1>1. \A c \in DOMAIN conn : Decoded(c)' = Decoded(c) /\ Unread(c)' = Unread(c)
  BY ZenonT(40) DEF Decoded, Unread
<1>2. \A c \in DOMAIN conn : Orderly(c)'
  BY <1>1 DEF FrameInv, Orderly
<1>3. ASSUME NEW c \in DOMAIN conn, conn'[c].daemon, conn'[c].client, wpc' # "failed" PROVE Continues(c)'
  <2>1. Continues(c) /\ UNCHANGED <<wpc, event, offset>>
    BY ZenonT(40), <1>3 DEF FrameInv
  <2> QED
    BY <1>1, <2>1 DEF Continues
<1> QED
  BY SMTT(40), <1>2, <1>3 DEF FrameInv

\* disconnect ends the stream of the one socket the transport knows.
LEMMA DisconnectStep ==
  ASSUME Types, SockTypes, CloseInv, FrameInv, HangUp \/ Fail
  PROVE  FrameInv'
<1>1. disconnect /\ UNCHANGED <<handled, event, offset, sock>>
  BY DEF HangUp, Fail, worker, daemon_vars
<1>2. conn \in Seq(ConnType) /\ \A c \in DOMAIN conn : conn[c] \in ConnType
  BY DEF SockTypes, Fits
<1>3. SameEnds /\ fd' = None /\ \A c \in DOMAIN conn : c = fd => ~conn'[c].client
  BY <1>1, DisconnectEnds
<1>4. DOMAIN conn' = DOMAIN conn /\ Len(conn') = Len(conn)
  BY <1>2, <1>3 DEF SameEnds
<1>5. ASSUME NEW c \in DOMAIN conn
      PROVE  /\ conn'[c].inbox = conn[c].inbox /\ conn'[c].buffer = conn[c].buffer
             /\ conn'[c].wire = conn[c].wire /\ conn'[c].daemon = conn[c].daemon
             /\ conn'[c].client => conn[c].client
  <2>1. conn'[c] = conn[c] \/ conn'[c] = [conn[c] EXCEPT !.client = FALSE]
    BY SMTT(40), <1>1 DEF disconnect
  <2> QED
    BY <1>2, <1>3, <2>1 DEF ConnType, SameEnds
<1>6. CASE HangUp
  <2>1. UNCHANGED wpc
    BY <1>6 DEF HangUp, worker
  <2>2. wpc' \in {"connect", "dial", "set_fd", "send"} => offset' = 0
    BY <1>1, <2>1 DEF FrameInv
  <2>3. wpc' \in {"check", "write"} => offset' < Parts /\ (fd' # None => fd' = sock')
    BY <1>1, <1>3, <2>1 DEF FrameInv
  <2> QED
    BY <1>1, <1>4, <1>5, <2>1, <2>2, <2>3, StreamFrame
<1>7. CASE Fail
  <2>1. wpc = "failed" /\ wpc' = "apologise"
    BY <1>7 DEF Fail, Goto
  <2>2. \A c \in DOMAIN conn : ~conn'[c].client
    BY <1>3, <1>5, <2>1 DEF CloseInv
  <2> QED
    BY <1>1, <1>4, <1>5, <2>1, <2>2, StreamFrame
<1> QED
  BY <1>6, <1>7

\* A new connection begins with an empty stream.
LEMMA DialStep ==
  ASSUME Types, SockTypes, CloseInv, FrameInv, Dial
  PROVE  FrameInv'
<1>0. /\ wpc = "dial" /\ fd = None /\ offset = 0 /\ UNCHANGED <<event, offset, fd>>
      /\ \A c \in DOMAIN conn : ~conn[c].client
  BY DEF Dial, CloseInv, FrameInv, SockTypes, None
<1>1. CASE wpc' = "failed" /\ UNCHANGED <<conn, handled>>
  BY <1>1, WorkerFrame
<1>2. CASE /\ conn' = Append(conn, NewConn) /\ handled' = Append(handled, <<>>)
           /\ wpc' = "set_fd"
  <2>1. conn \in Seq(ConnType) /\ handled \in Seq(Seq(Pieces)) /\ Len(handled) = Len(conn)
    BY DEF SockTypes, FrameInv
  <2>2. NewConn \in ConnType /\ <<>> \in Seq(Pieces)
    BY NewFits DEF Fits
  <2>3. handled' \in Seq(Seq(Pieces)) /\ Len(handled') = Len(conn')
    BY <1>2, <2>1, <2>2
  <2>4. ASSUME NEW c \in DOMAIN conn'
        PROVE  \/ conn'[c] = NewConn /\ handled'[c] = <<>>
               \/ c \in DOMAIN conn /\ conn'[c] = conn[c] /\ handled'[c] = handled[c]
    BY <1>2, <2>1, <2>2
  <2>5. <<>> \o <<>> = <<>> /\ <<>> = <<>>
    OBVIOUS
  <2>6. Chain(<<>>) /\ Framed(<<>>) /\ Joint(<<>>, <<>>) /\ Complete(<<>>, <<>>, event.id)
    BY DEF Chain, Framed, Joint, Complete
  <2>7. ASSUME NEW c \in DOMAIN conn'
        PROVE  Orderly(c)' /\ (conn'[c].client => Continues(c)')
    <3>1. CASE conn'[c] = NewConn /\ handled'[c] = <<>>
      <4>1. Decoded(c)' = <<>> /\ Unread(c)' = <<>>
        BY SMTT(40), SMTT(41), <2>5, <3>1 DEF Decoded, Unread, NewConn
      <4> QED
        BY ZenonT(40), <1>0, <1>2, <2>6, <4>1 DEF Orderly, Continues
    <3>2. CASE c \in DOMAIN conn /\ conn'[c] = conn[c] /\ handled'[c] = handled[c]
      <4>1. Decoded(c)' = Decoded(c) /\ Unread(c)' = Unread(c) /\ ~conn'[c].client
        BY SMTT(40), <1>0, <3>2 DEF Decoded, Unread
      <4> QED
        BY <3>2, <4>1 DEF FrameInv, Orderly
    <3> QED
      BY <2>4, <3>1, <3>2
  <2> QED
    BY <1>0, <1>2, <2>3, <2>7 DEF FrameInv
<1> QED
  BY <1>1, <1>2 DEF Dial

\* The daemon goes down: what its sessions have handled stays.
LEMMA DownStep ==
  ASSUME Types, SockTypes, FrameInv, Down
  PROVE  FrameInv'
<1>1. /\ conn' = [c \in DOMAIN conn |-> [conn[c] EXCEPT !.daemon = FALSE, !.inbox = <<>>, !.posted = FALSE]]
      /\ UNCHANGED <<handled, wpc, event, offset, sock, fd>>
  BY ZenonT(40) DEF Down, worker
<1>2. DOMAIN conn' = DOMAIN conn /\ Len(conn') = Len(conn)
  BY DaemonEnds DEF SameEnds, SockTypes
<1>3. ASSUME NEW c \in DOMAIN conn PROVE Orderly(c)' /\ ~conn'[c].daemon
  <2>1. /\ conn[c] \in ConnType /\ handled[c] \in Seq(Pieces) /\ conn[c].inbox \in Seq(Pieces)
    BY SMTT(40), StreamTypes
  <2>2. ~conn'[c].daemon /\ conn'[c].inbox = <<>>
    BY ZenonT(40), <1>1, <2>1 DEF ConnType
  <2>3. Decoded(c)' = handled[c]
    <3>1. handled[c] \o <<>> = handled[c]
      BY <2>1, Ends
    <3> QED
      BY ZenonT(40), <1>1, <2>2, <3>1 DEF Decoded
  <2>4. Chain(handled[c] \o conn[c].inbox)
    BY DEF FrameInv, Orderly, Decoded
  <2>5. Chain(handled[c])
    BY Zenon, <2>1, <2>4, ChainPrefix
  <2> QED
    BY <2>2, <2>3, <2>5 DEF Orderly
<1> QED
  BY ZenonT(40), <1>1, <1>2, <1>3 DEF FrameInv


\* Every step keeps the streams orderly.
LEMMA WholeStep ==
  ASSUME Types, SockTypes, CloseInv, FrameInv, [Next]_vars
  PROVE  FrameInv'
<1>0. offset \in Nat /\ Parts \in Nat \ {0} /\ event \in [kind : Kinds, sequence : Nat, id : Nat]
  BY SizeAssumption DEF Types
<1>1. CASE UNCHANGED <<conn, handled, fd, worker>>
  <2>1. ASSUME NEW c \in DOMAIN conn, conn[c].daemon, conn[c].client, wpc' # "failed" PROVE Continues(c)'
    <3>1. Continues(c)
      BY <1>1, <2>1 DEF FrameInv, worker
    <3> QED
      BY <1>1, <2>1, <3>1 DEF worker, Continues, Decoded, Unread
  <2>2. /\ wpc' \in {"connect", "dial", "set_fd", "send"} => offset' = 0
        /\ wpc' \in {"check", "write"} => offset' < Parts /\ (fd' # None => fd' = sock')
    BY <1>1 DEF FrameInv, worker
  <2> QED
    BY <1>1, <2>1, <2>2, WorkerFrame
<1>2. CASE Take \/ Exit \/ Connect \/ SetFd \/ Send \/ Check \/ Sent \/ Apologise \/ Retry
  <2>1. UNCHANGED <<conn, handled>>
    BY <1>2 DEF Take, Exit, Connect, SetFd, Send, Check, Sent, Apologise, Retry, daemon_vars
  <2>2. wpc' \in {"connect", "dial", "set_fd", "send"} => offset' = 0
    <3>1. CASE Take \/ Connect \/ SetFd
      BY <3>1 DEF Take, Connect, SetFd, Goto, FrameInv
    <3>2. CASE Exit \/ Send \/ Check \/ Sent \/ Apologise \/ Retry
      BY <3>2 DEF Exit, Send, Check, Sent, Apologise, Retry, Goto
    <3> QED
      BY ZenonT(40), <1>2, <3>1, <3>2
  <2>3. wpc' \in {"check", "write"} => offset' < Parts /\ (fd' # None => fd' = sock')
    <3>1. CASE Send
      BY <1>0, <3>1 DEF Send, FrameInv
    <3>2. CASE Check
      BY <3>2 DEF Check, FrameInv
    <3>3. CASE Take \/ Exit \/ Connect \/ SetFd \/ Sent \/ Apologise \/ Retry
      BY <3>3 DEF Take, Exit, Connect, SetFd, Sent, Apologise, Retry, Goto
    <3> QED
      BY <1>2, <3>1, <3>2, <3>3
  <2>4. ASSUME NEW c \in DOMAIN conn, conn[c].daemon, conn[c].client, wpc' # "failed" PROVE Continues(c)'
    <3>1. Continues(c)
      BY <1>2, <2>4 DEF FrameInv, Take, Exit, Connect, SetFd, Send, Check, Sent, Apologise, Retry, Goto
    <3>2. CASE Check
      BY <2>1, <2>4, <3>1, <3>2, NextFrame DEF Check
    <3>3. CASE Sent
      <4>1. wpc = "sent" /\ wpc' = "wait" /\ event'.id = event.id + 1
        BY <1>0, <3>3 DEF Sent, Goto
      <4> QED
        BY <2>1, <3>1, <4>1, NextFrame
    <3>4. CASE Send
      <4>1. wpc = "send" /\ wpc' = "check" /\ offset' = 0 /\ event' = event
        BY <2>4, <3>4 DEF Send, FrameInv
      <4> QED
        BY <2>1, <3>1, <4>1, NextFrame
    <3>5. CASE Take \/ Exit \/ Connect \/ SetFd \/ Apologise \/ Retry
      <4>1. event'.id = event.id
        BY SMTT(40), SMTT(41), <1>0, <3>5 DEF Take, Exit, Connect, SetFd, Apologise, Retry
      <4>2. /\ wpc \notin {"check", "write", "sent"} /\ wpc' \notin {"check", "write", "sent"}
        BY <3>5 DEF Take, Exit, Connect, SetFd, Apologise, Retry, Goto
      <4> QED
        BY ZenonT(40), <2>1, <3>1, <4>1, <4>2, NextFrame
    <3> QED
      BY ZenonT(40), <1>2, <3>2, <3>3, <3>4, <3>5
  <2> QED
    BY ZenonT(40), <2>1, <2>2, <2>3, <2>4, WorkerFrame
<1>3. CASE HangUp \/ Fail
  BY <1>3, DisconnectStep
<1>4. CASE Dial
  BY <1>4, DialStep
<1>5. CASE Write
  BY <1>5, WriteStep
<1>6. CASE Down
  BY <1>6, DownStep
<1>7. CASE \E c \in 1 .. MaxConns : Session(c)
  BY <1>7, SessionStep
<1>8. CASE Application \/ Cancel \/ Join \/ Up \/ UNCHANGED vars
  <2>1. UNCHANGED <<conn, handled, fd, worker>>
    BY <1>8 DEF Application, Enqueue, FlushCall, FlushReturn, Close, Cancel, Join, Up, vars, daemon_vars, worker
  <2> QED
    BY <1>1, <2>1
<1> QED
  BY ZenonT(40), <1>2, <1>3, <1>4, <1>5, <1>6, <1>7, <1>8 DEF Next, Closing, Worker

\* A frame that was cut off by an error or a close is never completed by the
\* pieces of another, and a session handles frames whole and in the order of
\* sending, whatever the sizes of frames, socket buffers and batches and wherever
\* writes, reads, closes and restarts of the daemon fall.
THEOREM HandledAreWhole == Spec => []HandledWhole
<1>1. Init => FrameInv
  <2> SUFFICES ASSUME Init PROVE FrameInv
      OBVIOUS
  <2>1. conn = <<>> /\ handled = <<>> /\ wpc = "wait"
    BY DEF Init
  <2>2. <<>> \in Seq(Seq(Pieces))
    OBVIOUS
  <2>3. DOMAIN conn = {} /\ Len(conn) = 0 /\ Len(handled) = 0
    BY <2>1
  <2> QED
    BY <2>1, <2>2, <2>3 DEF FrameInv
<1>2. FullInv /\ FrameInv /\ [Next]_vars => FrameInv'
  BY ZenonT(40), WholeStep DEF FullInv, SlotInv
<1>3. FullInv /\ FrameInv => HandledWhole
  <2> SUFFICES ASSUME FullInv, FrameInv, NEW c \in DOMAIN handled, NEW i \in DOMAIN handled[c]
               PROVE  /\ \A p \in 1 .. Parts : handled[c][i][p] = Piece(handled[c][i][1].id, p)
                      /\ i > 1 => handled[c][i - 1][1].id < handled[c][i][1].id
      BY DEF HandledWhole
  <2>1. SockTypes
    BY DEF FullInv
  <2>2. c \in DOMAIN conn
    <3>1. conn \in Seq(ConnType) /\ handled \in Seq(Seq(Pieces)) /\ Len(handled) = Len(conn)
      BY <2>1 DEF SockTypes, FrameInv
    <3>2. DOMAIN conn = 1 .. Len(conn) /\ DOMAIN handled = 1 .. Len(handled)
      BY <3>1, Element
    <3> QED
      BY <3>1, <3>2
  <2>3. handled[c] \in Seq(Pieces) /\ conn[c].inbox \in Seq(Pieces)
    BY <2>1, <2>2, StreamTypes
  <2>4. Chain(handled[c] \o conn[c].inbox)
    BY <2>2 DEF FrameInv, Orderly, Decoded
  <2>5. Chain(handled[c])
    BY Zenon, <2>3, <2>4, ChainPrefix
  <2> QED
    BY <2>5 DEF Chain, WholeFrame
<1> QED
  BY FullInit, FullStep, <1>1, <1>2, <1>3, PTL DEF Spec

=============================================================================
