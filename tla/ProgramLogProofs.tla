-------------------------- MODULE ProgramLogProofs --------------------------
(***************************************************************************)
(* Proofs about ProgramLog for any number of streams and archives, any     *)
(* sizes, and any failures: what the health record says and counts, and    *)
(* which part of the output the files hold.                                *)
(***************************************************************************)
EXTENDS ProgramLog, TLAPS

\* The types; the counters of bounds and history are natural numbers.
Types ==
  /\ running \in BOOLEAN /\ degraded \in BOOLEAN /\ waiting \in BOOLEAN /\ dropped \in Nat
  /\ open \in [Streams -> BOOLEAN] /\ size \in [Streams -> Nat]
  /\ pc \in {"idle", "open", "siblings", "append", "rotate"} /\ stream \in Streams
  /\ text \in Seq(Nat) /\ asked \in Nat /\ index \in 0 .. Archives
  /\ next \in Nat /\ mishaps \in Nat /\ ends \in Nat /\ arrived \in Nat /\ kept \in Nat
  /\ files \in [Streams -> [0 .. Archives -> Seq(Nat)]]

\* Outside a call, and at every system call of one, how the writers and the
\* health record go together: while its stream is being opened or rotated a
\* writer is closed without being a failure yet.
Health ==
  running =>
    /\ pc \in {"idle", "open"} => (degraded <=> \E s \in Streams : ~open[s])
    /\ pc = "open" => ~open[stream]
    /\ pc = "siblings" => open[stream] /\ degraded
    /\ pc = "append" => open[stream] /\ (degraded <=> \E s \in Streams : ~open[s])
    /\ pc = "rotate" => ~open[stream] /\ (degraded <=> \E s \in Streams \ {stream} : ~open[s])

\* What has arrived was written, is counted as dropped, or is in hand.
Counted ==
  /\ arrived <= kept + dropped + Len(text) /\ Len(text) <= asked
  /\ pc = "idle" => text = <<>>

\* A call is only made for a program that runs.
CallInv == pc # "idle" => running

\* The writer knows the size of its file, and no file is longer than allowed.
Sizes ==
  /\ \A s \in Streams : IF open[s] THEN size[s] = Len(files[s][0]) ELSE size[s] = 0
  /\ \A s \in Streams : \A i \in 0 .. Archives : Len(files[s][i]) <= MaxSize

IInv == Types /\ Health /\ Counted /\ CallInv /\ Sizes

\* Nothing runs at first.
LEMMA InitOK == Init => IInv
<1> SUFFICES ASSUME Init PROVE IInv
    OBVIOUS
<1> USE LogAssumption DEF Init
<1>1. Types
  <2>1. files \in [Streams -> [0 .. Archives -> Seq(Nat)]]
    OBVIOUS
  <2>2. open \in [Streams -> BOOLEAN] /\ size \in [Streams -> Nat] /\ text \in Seq(Nat)
    OBVIOUS
  <2>3. index \in 0 .. Archives
    OBVIOUS
  <2> QED
    BY ZenonT(40), <2>1, <2>2, <2>3 DEF Types
<1>2. Health
  BY DEF Health
<1>3. Counted /\ CallInv
  BY DEF Counted, CallInv
<1>4. Sizes
  BY DEF Sizes
<1> QED
  BY <1>1, <1>2, <1>3, <1>4 DEF IInv

\* A failed call closes the writer of its stream and counts the whole text.
LEMMA FailOK ==
  ASSUME IInv, fail, pc # "idle", UNCHANGED <<running, stream, asked, next, ends, arrived, kept, files>>,
         index' \in 0 .. Archives
  PROVE  IInv'
<1>0. Types /\ Health /\ Counted /\ CallInv /\ Sizes
  BY DEF IInv
<1>1. /\ open' = [open EXCEPT ![stream] = FALSE] /\ size' = [size EXCEPT ![stream] = 0]
      /\ pc' = "idle" /\ text' = <<>> /\ degraded' = TRUE /\ dropped' = dropped + asked /\ waiting' = TRUE
      /\ mishaps' = mishaps + 1
  BY DEF fail, Mishap, record_failure
<1>2. Types'
  BY <1>0, <1>1 DEF Types
<1>3. Health'
  <2>1. ~open'[stream] /\ stream \in Streams
    BY <1>0, <1>1 DEF Types
  <2> QED
    BY <1>1, <2>1 DEF Health
<1>4. Counted'
  <2>1. Len(text) \in Nat /\ asked \in Nat /\ arrived \in Nat /\ kept \in Nat /\ dropped \in Nat
    BY <1>0 DEF Types
  <2>2. arrived <= kept + dropped + Len(text) /\ Len(text) <= asked
    BY <1>0 DEF Counted
  <2>3. arrived' <= kept' + dropped' + 0
    BY <1>1, <2>1, <2>2
  <2>4. Len(text') = 0
    BY <1>1
  <2> QED
    BY <1>1, <2>1, <2>3, <2>4 DEF Counted
<1>5. CallInv'
  BY <1>1 DEF CallInv
<1>6. Sizes'
  BY <1>0, <1>1 DEF Sizes, Types
<1> QED
  BY <1>2, <1>3, <1>4, <1>5, <1>6 DEF IInv


\* Every step keeps the invariant.
LEMMA StepOK == ASSUME IInv, [Next]_vars PROVE IInv'
<1>0. Types /\ Health /\ Counted /\ CallInv /\ Sizes
  BY DEF IInv
<1>a. Archives \in Nat /\ MaxSize \in Nat /\ MaxText \in Nat
  BY LogAssumption
<1>1. CASE init_prog_log
  <2>1. PICK broken \in SUBSET Streams :
          /\ CannotOpen(broken)
          /\ open' = [s \in Streams |-> s \notin broken]
          /\ size' = [s \in Streams |-> IF s \in broken THEN 0 ELSE Len(files[s][0])]
          /\ degraded' = (broken # {}) /\ waiting' = (broken # {}) /\ dropped' = 0
    BY <1>1 DEF init_prog_log
  <2>2. mishaps' \in Nat
    BY <1>0, <2>1 DEF CannotOpen, Mishap, Types
  <2>3. pc = "idle" /\ pc' = "idle" /\ running' = TRUE /\ arrived' = 0 /\ kept' = 0
        /\ UNCHANGED <<files, stream, text, asked, index, next, ends>>
    BY <1>1 DEF init_prog_log, call
  <2>4. Types'
    <3>1. open' \in [Streams -> BOOLEAN] /\ degraded' \in BOOLEAN /\ waiting' \in BOOLEAN
      BY <2>1
    <3>2. size' \in [Streams -> Nat]
      <4>1. ASSUME NEW s \in Streams PROVE Len(files[s][0]) \in Nat
        BY <1>0, <1>a DEF Types
      <4> QED
        BY <2>1, <4>1
    <3>3. mishaps' \in Nat /\ dropped' \in Nat
      BY <1>0, <2>1, <2>2 DEF Types
    <3> QED
      BY <1>0, <2>3, <3>1, <3>2, <3>3 DEF Types
  <2>5. Health'
    <3>1. \A s \in Streams : open'[s] <=> s \notin broken
      BY ZenonT(40), <2>1
    <3>2. degraded' <=> \E s \in Streams : ~open'[s]
      BY ZenonT(40), <2>1, <3>1
    <3> QED
      BY <2>3, <3>2 DEF Health
  <2>6. Counted' /\ CallInv'
    BY <1>0, <2>1, <2>3 DEF Counted, CallInv, Types
  <2>7. Sizes'
    BY ZenonT(40), <1>0, <2>1, <2>3 DEF Sizes
  <2> QED
    BY <2>4, <2>5, <2>6, <2>7 DEF IInv
<1>2. CASE close_logfds
  <2>1. /\ running' = FALSE /\ ends' = ends + 1 /\ pc = "idle"
        /\ open' = [s \in Streams |-> FALSE] /\ size' = [s \in Streams |-> 0]
        /\ UNCHANGED <<files, degraded, dropped, waiting, pc, stream, text, asked, index, next, mishaps, arrived, kept>>
    BY <1>2 DEF close_logfds, health, call, history
  <2>2. Types'
    <3>1. open' \in [Streams -> BOOLEAN] /\ size' \in [Streams -> Nat]
      BY <2>1
    <3>2. ends' \in Nat /\ text' \in Seq(Nat)
      BY <1>0, <2>1 DEF Types
    <3> QED
      BY ZenonT(40), <1>0, <2>1, <3>1, <3>2 DEF Types
  <2>3. Health' /\ Counted' /\ CallInv' /\ Sizes'
    BY <1>0, <2>1 DEF Health, Counted, CallInv, Sizes
  <2> QED
    BY <2>2, <2>3 DEF IInv
<1>3. CASE Crash
  <2>1. /\ running' = FALSE /\ ends' = ends + 1 /\ pc' = "idle" /\ text' = <<>>
        /\ open' = [s \in Streams |-> FALSE] /\ size' = [s \in Streams |-> 0]
        /\ degraded' = FALSE /\ waiting' = FALSE /\ dropped' = 0 /\ arrived' = 0 /\ kept' = 0
        /\ UNCHANGED <<files, stream, asked, index, next, mishaps>>
    BY <1>3 DEF Crash
  <2>2. Types'
    <3>1. open' \in [Streams -> BOOLEAN] /\ size' \in [Streams -> Nat]
      BY <2>1
    <3>2. ends' \in Nat /\ text' \in Seq(Nat)
      BY <1>0, <2>1 DEF Types
    <3> QED
      BY ZenonT(40), <1>0, <2>1, <3>1, <3>2 DEF Types
  <2>3. Counted'
    BY <1>0, <2>1 DEF Counted, Types
  <2>4. Health' /\ CallInv' /\ Sizes'
    BY <1>0, <2>1 DEF Health, CallInv, Sizes
  <2> QED
    BY <2>2, <2>3, <2>4 DEF IInv
<1>4. CASE RetryDue
  <2>1. waiting' = FALSE
        /\ UNCHANGED <<running, files, open, size, degraded, dropped, pc, stream, text, asked, index, next, mishaps, ends, arrived, kept>>
    BY <1>4 DEF RetryDue, call, bounds, history
  <2>2. Types'
    BY ZenonT(40), <1>0, <2>1 DEF Types
  <2>3. Health' /\ Counted' /\ CallInv' /\ Sizes'
    BY <1>0, <2>1 DEF Health, Counted, CallInv, Sizes
  <2> QED
    BY <2>2, <2>3 DEF IInv
<1>5. ASSUME NEW s \in Streams, NEW n \in 1 .. MaxText, Output(s, n) PROVE IInv'
  <2>0. n \in Nat
    OBVIOUS
  <2>1. /\ pc = "idle" /\ running /\ next' = next + n /\ arrived' = arrived + n /\ stream' = s /\ asked' = n
        /\ pc' = IF open[s] THEN "append" ELSE IF degraded /\ waiting THEN "idle" ELSE "open"
        /\ text' = IF pc' = "idle" THEN <<>> ELSE [i \in 1 .. n |-> next + i]
        /\ dropped' = IF pc' = "idle" THEN dropped + n ELSE dropped
        /\ UNCHANGED <<running, files, open, size, degraded, waiting, index, mishaps, ends, kept>>
    BY <1>5 DEF Output
  <2>2. text' \in Seq(Nat) /\ Len(text') = IF pc' = "idle" THEN 0 ELSE n
    <3>1. next \in Nat
      BY <1>0 DEF Types
    <3>2. CASE pc' = "idle"
      BY <2>1, <3>2
    <3>3. CASE pc' # "idle"
      <4>1. text' = [i \in 1 .. n |-> next + i]
        BY <2>1, <3>3
      <4>2. [i \in 1 .. n |-> next + i] \in Seq(Nat)
        BY <2>0, <3>1
      <4>3. Len([i \in 1 .. n |-> next + i]) = n
        BY <2>0, <3>1
      <4> QED
        BY <3>3, <4>1, <4>2, <4>3
    <3> QED
      BY <3>2, <3>3
  <2>3. Types'
    <3>1. dropped' \in Nat /\ next' \in Nat /\ arrived' \in Nat
      BY <1>0, <2>0, <2>1 DEF Types
    <3>2. pc' \in {"idle", "open", "siblings", "append", "rotate"}
      BY <2>1
    <3> QED
      BY <1>0, <2>0, <2>1, <2>2, <3>1, <3>2 DEF Types
  <2>4. Health'
    BY <1>0, <2>1 DEF Health
  <2>5. Counted'
    <3>1. arrived <= kept + dropped
      BY <1>0, <2>1 DEF Counted, Types
    <3>2. arrived \in Nat /\ kept \in Nat /\ dropped \in Nat
      BY <1>0 DEF Types
    <3>3. pc' = "idle" => text' = <<>>
      BY <2>1
    <3>4. arrived' <= kept' + dropped' + Len(text') /\ Len(text') <= asked'
      BY <2>0, <2>1, <2>2, <3>1, <3>2
    <3> QED
      BY <3>3, <3>4 DEF Counted
  <2>6. CallInv' /\ Sizes'
    BY <1>0, <2>1 DEF CallInv, Sizes
  <2> QED
    BY <2>3, <2>4, <2>5, <2>6 DEF IInv
<1>6. CASE Reopen
  <2>0. pc = "open" /\ running /\ UNCHANGED <<running, files, stream, asked, index, next, ends, arrived, kept>>
    BY <1>0, <1>6 DEF Reopen, history, CallInv
  <2>1. CASE /\ open' = [open EXCEPT ![stream] = TRUE]
             /\ size' = [size EXCEPT ![stream] = Len(files[stream][0])]
             /\ pc' = "siblings" /\ UNCHANGED <<health, text, mishaps>>
    <3>1. Types'
      BY <1>0, <2>0, <2>1 DEF Types, health
    <3>2. Health'
      <4>1. degraded' /\ stream' \in Streams
        BY <1>0, <2>0, <2>1 DEF Health, health, Types
      <4>2. open'[stream']
        BY <1>0, <2>0, <2>1 DEF Types
      <4> QED
        BY <2>0, <2>1, <4>1, <4>2 DEF Health
    <3>3. Counted' /\ CallInv'
      BY <1>0, <2>0, <2>1 DEF Counted, CallInv, health
    <3>4. Sizes'
      BY <1>0, <2>0, <2>1 DEF Sizes, Types
    <3> QED
      BY <3>1, <3>2, <3>3, <3>4 DEF IInv
  <2>2. CASE /\ Mishap /\ record_failure(asked)
             /\ pc' = "idle" /\ text' = <<>> /\ UNCHANGED <<open, size>>
    <3>1. degraded' = TRUE /\ dropped' = dropped + asked /\ waiting' = TRUE /\ mishaps' = mishaps + 1
      BY <2>2 DEF Mishap, record_failure
    <3>2. Types'
      BY <1>0, <2>0, <2>2, <3>1 DEF Types
    <3>3. Health'
      BY <1>0, <2>0, <2>2, <3>1 DEF Health, Types
    <3>4. Counted'
      <4>1. Len(text) \in Nat /\ asked \in Nat /\ arrived \in Nat /\ kept \in Nat /\ dropped \in Nat
        BY <1>0 DEF Types
      <4>2. arrived <= kept + dropped + Len(text) /\ Len(text) <= asked
        BY <1>0 DEF Counted
      <4>3. arrived' <= kept' + dropped' + 0
        BY <2>0, <3>1, <4>1, <4>2
      <4>4. Len(text') = 0
        BY <2>2
      <4> QED
        BY <2>0, <2>2, <4>1, <4>3, <4>4 DEF Counted
    <3>5. CallInv' /\ Sizes'
      BY <1>0, <2>0, <2>2 DEF CallInv, Sizes
    <3> QED
      BY <3>2, <3>3, <3>4, <3>5 DEF IInv
  <2> QED
    BY <1>6, <2>1, <2>2 DEF Reopen
<1>7. CASE Siblings
  <2>1. PICK broken \in SUBSET {s \in Streams : ~open[s]} :
          /\ CannotOpen(broken)
          /\ open' = [s \in Streams |-> s \notin broken]
          /\ size' = [s \in Streams |-> IF s \in broken \/ open[s] THEN size[s] ELSE Len(files[s][0])]
          /\ IF broken # {} THEN record_failure(0)
             ELSE IF degraded THEN record_recovery ELSE UNCHANGED health
    BY <1>7 DEF Siblings
  <2>2. mishaps' \in Nat
    BY <1>0, <2>1 DEF CannotOpen, Mishap, Types
  <2>3. /\ pc = "siblings" /\ pc' = "append" /\ running
        /\ UNCHANGED <<running, files, stream, text, asked, index, next, ends, arrived, kept>>
    BY <1>0, <1>7 DEF Siblings, history, CallInv
  <2>4. open[stream] /\ degraded /\ stream \in Streams
    BY <1>0, <2>3 DEF Health, Types
  <2>5. dropped' = dropped /\ degraded' = (broken # {}) /\ waiting' \in BOOLEAN
    <3>1. dropped + 0 = dropped
      BY <1>0 DEF Types
    <3> QED
      BY ZenonT(40), <2>1, <2>4, <3>1 DEF record_failure, record_recovery
  <2>6. Types'
    <3>1. open' \in [Streams -> BOOLEAN] /\ degraded' \in BOOLEAN
      BY <2>1, <2>5
    <3>2. size' \in [Streams -> Nat]
      <4>1. ASSUME NEW s \in Streams PROVE Len(files[s][0]) \in Nat /\ size[s] \in Nat
        BY <1>0, <1>a DEF Types
      <4> QED
        BY <2>1, <4>1
    <3>3. mishaps' \in Nat
      BY <2>2
    <3> QED
      BY <1>0, <2>3, <2>5, <3>1, <3>2, <3>3 DEF Types
  <2>7. Health'
    <3>1. \A s \in Streams : open'[s] <=> s \notin broken
      BY ZenonT(40), <2>1
    <3>2. degraded' <=> \E s \in Streams : ~open'[s]
      BY ZenonT(40), <2>5, <3>1
    <3>3. open'[stream']
      BY <2>3, <2>4, <3>1
    <3> QED
      BY <2>3, <3>2, <3>3 DEF Health
  <2>8. Counted' /\ CallInv'
    BY <1>0, <2>3, <2>5 DEF Counted, CallInv
  <2>9. Sizes'
    BY ZenonT(40), <1>0, <2>1, <2>3 DEF Sizes
  <2> QED
    BY <2>6, <2>7, <2>8, <2>9 DEF IInv
<1>8. CASE Write
  <2>1. CASE fail /\ UNCHANGED <<files, kept, wrote>>
    <3>1. pc # "idle" /\ UNCHANGED <<running, stream, asked, index, next, ends, arrived>>
      BY <1>8 DEF Write
    <3>2. index' \in 0 .. Archives
      BY <3>1, <1>0 DEF Types
    <3> QED
      BY <2>1, <3>1, <3>2, FailOK
  <2>2. ASSUME NEW n \in 1 .. Min2(Len(text), Room),
               files' = [files EXCEPT ![stream][0] = @ \o SubSeq(text, 1, n)],
               kept' = kept + n, size' = [size EXCEPT ![stream] = @ + n],
               text' = SubSeq(text, n + 1, Len(text)),
               pc' = IF n = Len(text) THEN "idle" ELSE "append",
               UNCHANGED <<open, health, mishaps>>
        PROVE  IInv'
    <3>0. pc = "append" /\ running /\ UNCHANGED <<running, stream, asked, index, next, ends, arrived>>
      BY <1>0, <1>8 DEF Write, CallInv
    <3>1. /\ text \in Seq(Nat) /\ Len(text) \in Nat /\ stream \in Streams /\ open[stream] /\ size[stream] \in Nat
          /\ kept \in Nat /\ arrived \in Nat /\ dropped \in Nat /\ asked \in Nat
      BY <1>0, <3>0 DEF Types, Health
    <3>2. n \in Nat /\ 1 <= n /\ n <= Len(text) /\ size[stream] + n <= MaxSize
      <4>1. size[stream] <= MaxSize
        <5>1. size[stream] = Len(files[stream][0]) /\ 0 \in 0 .. Archives
          BY <1>0, <1>a, <3>1 DEF Sizes
        <5> QED
          BY <1>0, <3>1, <5>1 DEF Sizes
      <4>2. Room = MaxSize - size[stream] /\ Room \in Nat
        BY <1>a, <3>1, <4>1 DEF Room, Min2
      <4>3. n \in 1 .. Room /\ n \in 1 .. Len(text)
        BY <3>1, <4>2 DEF Min2
      <4> QED
        BY <1>a, <3>1, <4>2, <4>3
    <3>3. SubSeq(text, 1, n) \in Seq(Nat) /\ Len(SubSeq(text, 1, n)) = n
      BY <3>1, <3>2
    <3>4. text' \in Seq(Nat) /\ Len(text') = Len(text) - n
      <4>1. SubSeq(text, n + 1, Len(text)) \in Seq(Nat)
        BY <3>1, <3>2
      <4>2. Len(SubSeq(text, n + 1, Len(text))) = Len(text) - n
        BY <3>1, <3>2
      <4>3. text' = SubSeq(text, n + 1, Len(text))
        BY <2>2
      <4> QED
        BY <4>1, <4>2, <4>3
    <3> DEFINE part == SubSeq(text, 1, n)
    <3>5. part \in Seq(Nat) /\ Len(part) = n /\ files' = [files EXCEPT ![stream][0] = @ \o part]
      BY <2>2, <3>3
    <3> HIDE DEF part
    <3>6. files[stream][0] \in Seq(Nat) /\ files[stream] \in [0 .. Archives -> Seq(Nat)]
      <4>1. 0 \in 0 .. Archives
        BY <1>a
      <4> QED
        BY ZenonT(40), <1>0, <3>1, <4>1 DEF Types
    <3>7. /\ files' \in [Streams -> [0 .. Archives -> Seq(Nat)]]
          /\ files'[stream][0] = files[stream][0] \o part
          /\ \A s \in Streams : \A i \in 0 .. Archives : s # stream \/ i # 0 => files'[s][i] = files[s][i]
      <4>1. files[stream][0] \o part \in Seq(Nat)
        BY <3>5, <3>6
      <4>2. 0 \in 0 .. Archives
        BY <1>a
      <4> QED
        BY ZenonT(40), <1>0, <3>1, <3>5, <3>6, <4>1, <4>2 DEF Types
    <3>a. /\ kept' = kept + n /\ size' = [size EXCEPT ![stream] = @ + n]
          /\ pc' = (IF n = Len(text) THEN "idle" ELSE "append")
          /\ UNCHANGED <<open, degraded, dropped, waiting, mishaps>>
      BY <2>2 DEF health
    <3>8. Types'
      <4>1. kept' \in Nat
        BY <3>1, <3>2, <3>a
      <4>2. size' \in [Streams -> Nat]
        BY <1>0, <3>1, <3>2, <3>a DEF Types
      <4>3. pc' \in {"idle", "open", "siblings", "append", "rotate"}
        BY <3>a
      <4> QED
        BY ZenonT(40), <1>0, <3>0, <3>a, <3>4, <3>7, <4>1, <4>2, <4>3 DEF Types
    <3>9. Health'
      BY <1>0, <3>0, <3>a DEF Health
    <3>10. Counted'
      <4>1. arrived <= kept + dropped + Len(text) /\ Len(text) <= asked
        BY <1>0 DEF Counted
      <4>2. arrived' <= kept' + dropped' + Len(text') /\ Len(text') <= asked'
        BY SMTT(40), SMTT(41), <3>0, <3>1, <3>2, <3>4, <3>a, <4>1
      <4>3. pc' = "idle" => text' = <<>>
        <5>1. pc' = "idle" => Len(text') = 0
          BY <3>1, <3>4, <3>a
        <5> QED
          BY <3>4, <5>1
      <4> QED
        BY <4>2, <4>3 DEF Counted
    <3>11. CallInv'
      BY <3>0 DEF CallInv
    <3>12. Sizes'
      <4>1. Len(files'[stream][0]) = Len(files[stream][0]) + n
        <5>1. files'[stream][0] = files[stream][0] \o part
          BY <3>7
        <5>2. Len(files[stream][0] \o part) = Len(files[stream][0]) + Len(part)
          BY <3>5, <3>6
        <5> QED
          BY <3>5, <5>1, <5>2
      <4>2. size[stream] = Len(files[stream][0])
        BY <1>0, <3>1 DEF Sizes
      <4>3. size'[stream] = size[stream] + n /\ \A s \in Streams : s # stream => size'[s] = size[s]
        BY <1>0, <3>1, <3>a DEF Types
      <4>4. \A s \in Streams : IF open'[s] THEN size'[s] = Len(files'[s][0]) ELSE size'[s] = 0
        <5>1. 0 \in 0 .. Archives
          BY <1>a
        <5> QED
          BY ZenonT(40), <1>0, <3>1, <3>7, <3>a, <4>1, <4>2, <4>3, <5>1 DEF Sizes
      <4>5. Len(files'[stream][0]) <= MaxSize
        BY <3>1, <3>2, <4>1, <4>2
      <4>6. \A s \in Streams : \A i \in 0 .. Archives : Len(files'[s][i]) <= MaxSize
        BY ZenonT(40), <1>0, <3>7, <4>5 DEF Sizes
      <4> QED
        BY <4>4, <4>6 DEF Sizes
    <3> QED
      BY <3>8, <3>9, <3>10, <3>11, <3>12 DEF IInv
  <2> QED
    BY ZenonT(40), <1>8, <2>1, <2>2 DEF Write
<1>9. CASE Full
  <2>1. /\ pc = "append" /\ running /\ pc' = "rotate" /\ index' = Archives
        /\ open' = [open EXCEPT ![stream] = FALSE] /\ size' = [size EXCEPT ![stream] = 0]
        /\ UNCHANGED <<running, files, degraded, dropped, waiting, stream, text, asked, next, mishaps, ends, arrived, kept>>
    BY <1>0, <1>9 DEF Full, CallInv, health, bounds, history
  <2>2. Types'
    <3>1. open' \in [Streams -> BOOLEAN] /\ size' \in [Streams -> Nat]
      BY <1>0, <2>1 DEF Types
    <3>2. index' \in 0 .. Archives
      BY <1>a, <2>1
    <3> QED
      BY <1>0, <2>1, <3>1, <3>2 DEF Types
  <2>3. Health'
    <3>1. stream \in Streams /\ open[stream] /\ ~open'[stream] /\ \A s \in Streams : s # stream => open'[s] = open[s]
      BY <1>0, <2>1 DEF Types, Health
    <3>2. degraded <=> \E s \in Streams : ~open[s]
      BY <1>0, <2>1 DEF Health
    <3>3. degraded' <=> \E s \in Streams \ {stream} : ~open'[s]
      BY <2>1, <3>1, <3>2
    <3> QED
      BY <2>1, <3>1, <3>3 DEF Health
  <2>4. Counted' /\ CallInv'
    BY <1>0, <2>1 DEF Counted, CallInv
  <2>5. Sizes'
    BY <1>0, <2>1 DEF Sizes, Types
  <2> QED
    BY <2>2, <2>3, <2>4, <2>5 DEF IInv
<1>10. CASE Rename
  <2>0. pc = "rotate" /\ running /\ index > 0
        /\ UNCHANGED <<running, stream, asked, next, ends, arrived, kept>>
    BY <1>0, <1>10 DEF Rename, CallInv, history
  <2>1. CASE fail /\ UNCHANGED <<files, index>>
    <3>1. index' \in 0 .. Archives
      BY <2>1, <1>0 DEF Types
    <3> QED
      BY <2>0, <2>1, <3>1, FailOK
  <2>2. CASE /\ files' = [files EXCEPT ![stream] = renamed(@, index)]
             /\ index' = index - 1 /\ UNCHANGED <<open, size, health, pc, text, mishaps>>
    <3> DEFINE f == files[stream]
               g == renamed(f, index)
    <3>0. /\ f \in [0 .. Archives -> Seq(Nat)] /\ index \in 1 .. Archives /\ index - 1 \in 0 .. Archives
          /\ stream \in Streams /\ ~open[stream] /\ \A i \in 0 .. Archives : Len(f[i]) <= MaxSize
      <4>1. index \in 0 .. Archives /\ stream \in Streams
        BY <1>0 DEF Types
      <4>2. index \in 1 .. Archives /\ index - 1 \in 0 .. Archives
        BY <1>a, <2>0, <4>1
      <4> QED
        BY <1>0, <2>0, <4>1, <4>2 DEF Types, Health, Sizes
    <3>1. g \in [0 .. Archives -> Seq(Nat)] /\ \A i \in 0 .. Archives : Len(g[i]) <= MaxSize
      <4> HIDE DEF f
      <4>1. CASE f[index - 1] = <<>>
        BY <3>0, <4>1 DEF renamed
      <4>2. CASE f[index - 1] # <<>>
        <5>1. g = [f EXCEPT ![index] = f[index - 1], ![index - 1] = <<>>]
          BY <4>2 DEF renamed
        <5>2. index \in 0 .. Archives /\ f[index - 1] \in Seq(Nat) /\ <<>> \in Seq(Nat) /\ Len(<<>>) <= MaxSize
          BY <1>a, <3>0
        <5> QED
          BY <3>0, <5>1, <5>2
      <4> QED
        BY <4>1, <4>2
    <3>2. files' = [files EXCEPT ![stream] = g]
      BY <2>2
    <3> HIDE DEF g
    <3>3. Types'
      BY <1>0, <2>0, <2>2, <3>0, <3>1, <3>2 DEF Types, health
    <3>4. Health' /\ Counted' /\ CallInv'
      BY <1>0, <2>0, <2>2 DEF Health, Counted, CallInv, health
    <3>5. Sizes'
      <4>1. files'[stream] = g /\ \A s \in Streams : s # stream => files'[s] = files[s]
        BY <1>0, <3>0, <3>2 DEF Types
      <4> QED
        BY ZenonT(40), <1>0, <2>2, <3>0, <3>1, <4>1 DEF Sizes
    <3> QED
      BY <3>3, <3>4, <3>5 DEF IInv
  <2> QED
    BY <1>10, <2>1, <2>2 DEF Rename
<1>11. CASE Create
  <2>0. pc = "rotate" /\ running /\ UNCHANGED <<running, stream, asked, index, next, ends, arrived, kept>>
    BY <1>0, <1>11 DEF Create, CallInv, history
  <2>1. CASE fail /\ UNCHANGED files
    <3>1. index' \in 0 .. Archives
      BY <2>0, <1>0 DEF Types
    <3> QED
      BY <2>0, <2>1, <3>1, FailOK
  <2>2. CASE /\ files' = IF Archives = 0 THEN [files EXCEPT ![stream][0] = <<>>] ELSE files
             /\ open' = [open EXCEPT ![stream] = TRUE]
             /\ size' = [size EXCEPT ![stream] = IF Archives = 0 THEN 0 ELSE Len(files[stream][0])]
             /\ pc' = "append" /\ UNCHANGED <<health, text, mishaps>>
    <3>0. stream \in Streams /\ files[stream] \in [0 .. Archives -> Seq(Nat)] /\ 0 \in 0 .. Archives
          /\ <<>> \in Seq(Nat) /\ Len(<<>>) = 0
      BY <1>0, <1>a DEF Types
    <3>1. /\ files' \in [Streams -> [0 .. Archives -> Seq(Nat)]]
          /\ files'[stream][0] = IF Archives = 0 THEN <<>> ELSE files[stream][0]
          /\ \A s \in Streams : \A i \in 0 .. Archives : s # stream \/ i # 0 => files'[s][i] = files[s][i]
      BY <1>0, <2>2, <3>0 DEF Types
    <3>2. size'[stream] = Len(files'[stream][0]) /\ \A s \in Streams : s # stream => size'[s] = size[s]
      BY <1>0, <2>2, <3>0, <3>1 DEF Types
    <3>3. open'[stream] /\ \A s \in Streams : s # stream => open'[s] = open[s]
      BY <1>0, <2>2, <3>0 DEF Types
    <3>4. Types'
      <4>1. size' \in [Streams -> Nat] /\ open' \in [Streams -> BOOLEAN]
        BY <1>0, <2>2, <3>0 DEF Types
      <4> QED
        BY <1>0, <2>0, <2>2, <3>1, <4>1 DEF Types, health
    <3>5. Health'
      <4>1. degraded <=> \E s \in Streams \ {stream} : ~open[s]
        BY <1>0, <2>0 DEF Health
      <4>2. degraded' <=> \E s \in Streams : ~open'[s]
        BY <2>2, <3>3, <4>1 DEF health
      <4> QED
        BY <2>0, <2>2, <3>3, <4>2 DEF Health
    <3>6. Counted' /\ CallInv'
      BY <1>0, <2>0, <2>2 DEF Counted, CallInv, health
    <3>7. Sizes'
      <4>1. \A s \in Streams : IF open'[s] THEN size'[s] = Len(files'[s][0]) ELSE size'[s] = 0
        BY ZenonT(40), <1>0, <3>0, <3>1, <3>2, <3>3 DEF Sizes
      <4>2. \A s \in Streams : \A i \in 0 .. Archives : Len(files'[s][i]) <= MaxSize
        <5>1. \A s \in Streams : \A i \in 0 .. Archives : files'[s][i] = files[s][i] \/ files'[s][i] = <<>>
          BY ZenonT(40), <3>0, <3>1
        <5>2. Len(<<>>) <= MaxSize
          BY <1>a, <3>0
        <5> QED
          BY <1>0, <5>1, <5>2 DEF Sizes
      <4> QED
        BY <4>1, <4>2 DEF Sizes
    <3> QED
      BY <3>4, <3>5, <3>6, <3>7 DEF IInv
  <2> QED
    BY <1>11, <2>1, <2>2 DEF Create
<1>12. CASE UNCHANGED vars
  <2>1. UNCHANGED <<running, files, open, size, degraded, dropped, waiting, pc, stream, text, asked, index, next, mishaps, ends, arrived, kept>>
    BY <1>12 DEF vars, health, call, bounds, history
  <2>2. Types'
    BY <1>0, <2>1 DEF Types
  <2>3. Health' /\ Counted' /\ CallInv' /\ Sizes'
    BY <1>0, <2>1 DEF Health, Counted, CallInv, Sizes
  <2> QED
    BY <2>2, <2>3 DEF IInv
<1> QED
  BY <1>1, <1>2, <1>3, <1>4, <1>5, <1>6, <1>7, <1>8, <1>9, <1>10, <1>11, <1>12 DEF Next

\* No file is longer than its limit and no counter negative: a size remembered
\* across short writes, failures and rotations is that of the file.
THEOREM TypeCorrect == Spec => []TypeOK
<1>1. IInv => TypeOK
  <2> SUFFICES ASSUME IInv PROVE TypeOK
      OBVIOUS
  <2>1. Types /\ Sizes /\ Counted
    BY DEF IInv
  <2>2. \A s \in Streams : size[s] \in 0 .. MaxSize
    <3>1. ASSUME NEW s \in Streams PROVE size[s] \in 0 .. MaxSize
      <4>1. Len(files[s][0]) <= MaxSize /\ size[s] \in Nat /\ (size[s] = 0 \/ size[s] = Len(files[s][0]))
        <5>1. 0 \in 0 .. Archives
          BY LogAssumption
        <5>2. files[s][0] \in Seq(Nat)
          BY ZenonT(40), <2>1, <5>1 DEF Types
        <5> QED
          BY <2>1, <5>1, <5>2 DEF Sizes, Types
      <4>2. MaxSize \in Nat
        BY LogAssumption
      <4> QED
        BY <4>1, <4>2
    <3> QED
      BY ZenonT(40), <3>1
  <2>3. size \in [Streams -> 0 .. MaxSize]
    BY <2>1, <2>2 DEF Types
  <2> QED
    BY <2>1, <2>3 DEF TypeOK, Types, Counted, Sizes
<1> QED
  BY InitOK, StepOK, <1>1, PTL DEF Spec

\* While the program runs its log is degraded exactly if a writer is closed.
THEOREM HealthIsExact == Spec => []HealthIsTruthful
<1>1. IInv => HealthIsTruthful
  BY DEF IInv, Health, HealthIsTruthful
<1> QED
  BY InitOK, StepOK, <1>1, PTL DEF Spec

\* Every byte of output was written or counted as dropped.
THEOREM LossIsCounted == Spec => []NothingLostSilently
<1>1. IInv => NothingLostSilently
  <2> SUFFICES ASSUME IInv, pc = "idle" PROVE arrived <= kept + dropped
      BY DEF NothingLostSilently
  <2>1. Len(text) = 0
    BY DEF IInv, Counted
  <2> QED
    BY <2>1 DEF IInv, Counted, Types
<1> QED
  BY InitOK, StepOK, <1>1, PTL DEF Spec

-----------------------------------------------------------------------------
(* Which part of the output the files hold.                                *)
(*                                                                         *)
(* The files of a stream are laid out along what was written: at[i] bytes  *)
(* are older than the end of file i, so that file i holds the bytes        *)
(* at[i + 1] + 1 .. at[i] and the bytes up to at[Archives + 1] are lost.   *)

\* The size of n full files
Bytes(n) == n * MaxSize

\* Every byte of the output w is lost or lies in one of the files.
Covers(w, at) ==
  \A q \in 1 .. Len(w) : q <= at[Archives + 1] \/ \E i \in 0 .. Archives : at[i + 1] < q /\ q <= at[i]

\* Files f lie along the output w as at says, and an archive is full or missing.
Laid(f, w, at) ==
  /\ at \in [0 .. Archives + 1 -> 0 .. Len(w)] /\ at[0] = Len(w)
  /\ \A i, k \in 0 .. Archives + 1 : i <= k => at[k] <= at[i]
  /\ \A i \in 0 .. Archives : /\ Len(f[i]) = at[i] - at[i + 1]
                              /\ \A j \in 1 .. Len(f[i]) : f[i][j] = w[at[i + 1] + j]
  /\ \A i \in 1 .. Archives : f[i] = <<>> \/ Len(f[i]) = MaxSize
  /\ Covers(w, at)

\* Output is lost only when the oldest archive and, if there are several
\* archives, the newest or the file itself are full.
TwoFull(f, at) ==
  at[Archives + 1] > 0 =>
    Archives = 0 \/ (f[Archives] # <<>> /\ (Archives = 1 \/ Len(f[0]) = MaxSize \/ f[1] # <<>>))

\* No archive is missing before older output.
Regular(at) == \A i \in 1 .. Archives + 1 : at[i] = 0 \/ at[i] + Bytes(i - 1) <= at[1]

\* In a rotation: the archives behind idx have moved on, the others have not.
Shifted(at, idx) ==
  \A i \in 1 .. Archives + 1 :
    at[i] = 0 \/ at[i] + Bytes(IF idx = Archives \/ i <= idx THEN i ELSE i - 1) <= at[0]

Ordered(w) == \A p, q \in DOMAIN w : p < q => w[p] < w[q]

Turning(s) == pc = "rotate" /\ stream = s

\* The bytes have the numbers of their order, those in hand the newest.
Numbered ==
  /\ wrote \in [Streams -> Seq(Nat)]
  /\ \A s \in Streams : Ordered(wrote[s]) /\ \A p \in DOMAIN wrote[s] : wrote[s][p] <= next
  /\ Ordered(text)
  /\ \A j \in DOMAIN text : text[j] <= next /\ \A p \in DOMAIN wrote[stream] : wrote[stream][p] < text[j]

\* What is being rotated: the file is full until it is renamed, and the place
\* the next rename moves a file to is free, but for the last one.
Turned(s) ==
  Turning(s) => /\ index > 0 => Len(files[s][0]) = MaxSize
                /\ index < Archives => files[s][index] = <<>>

Placed(s) ==
  \E at \in [0 .. Archives + 1 -> 0 .. Len(wrote[s])] :
    /\ Laid(files[s], wrote[s], at) /\ TwoFull(files[s], at)
    /\ s \notin torn => IF Turning(s) THEN Shifted(at, index) ELSE Regular(at)

NewestInv == IInv /\ Numbered /\ \A s \in Streams : Turned(s) /\ Placed(s)

\* One more full file
LEMMA BytesStep ==
  ASSUME NEW n \in Nat
  PROVE  Bytes(n) \in Nat /\ Bytes(n + 1) = Bytes(n) + MaxSize /\ Bytes(0) = 0
<1>1. MaxSize \in Nat
  BY LogAssumption
<1> QED
  BY <1>1, SMT DEF Bytes

\* Byte b is in one of the files f.
Held(f, b) == \E i \in 0 .. Archives : \E j \in 1 .. Len(f[i]) : f[i][j] = b

\* Every byte behind the lost ones is in a file.
LEMMA Covered ==
  ASSUME NEW f, NEW w \in Seq(Nat), NEW at, Laid(f, w, at),
         NEW q \in 1 .. Len(w), at[Archives + 1] < q
  PROVE  Held(f, w[q])
<1>0. Archives \in Nat /\ Len(w) \in Nat
  BY LogAssumption
<1>1. /\ at \in [0 .. Archives + 1 -> 0 .. Len(w)] /\ at[0] = Len(w)
      /\ \A i \in 0 .. Archives : /\ Len(f[i]) = at[i] - at[i + 1]
                                  /\ \A j \in 1 .. Len(f[i]) : f[i][j] = w[at[i + 1] + j]
  BY DEF Laid
<1>2. at[Archives + 1] \in Nat
  BY <1>0, <1>1
<1>3. PICK i \in 0 .. Archives : at[i + 1] < q /\ q <= at[i]
  <2>1. ~(q <= at[Archives + 1])
    BY <1>2
  <2> QED
    BY <2>1 DEF Laid, Covers
<1> DEFINE x == at[i]
           y == at[i + 1]
           j == q - y
<1>4. x \in Nat /\ y \in Nat /\ q \in Nat /\ y < q /\ q <= x
  BY SMTT(40), SMTT(41), <1>0, <1>1, <1>3
<1>5. Len(f[i]) = x - y /\ \A l \in 1 .. Len(f[i]) : f[i][l] = w[y + l]
  BY <1>1
<1> HIDE DEF x, y
<1>6. j \in 1 .. x - y /\ y + j = q
  BY <1>4
<1> HIDE DEF j
<1> QED
  BY ZenonT(40), <1>5, <1>6 DEF Held

\* Where a byte of a file lies in the output
LEMMA InRange ==
  ASSUME NEW f, NEW w \in Seq(Nat), NEW at, Laid(f, w, at), NEW i \in 0 .. Archives, NEW j \in 1 .. Len(f[i])
  PROVE  at[i + 1] + j \in 1 .. at[i] /\ f[i][j] = w[at[i + 1] + j] /\ at[i] <= Len(w)
<1>0. Archives \in Nat /\ i \in 0 .. Archives + 1 /\ i + 1 \in 0 .. Archives + 1 /\ Len(w) \in Nat
  BY LogAssumption
<1>1. at[i] \in 0 .. Len(w) /\ at[i + 1] \in 0 .. Len(w)
  BY <1>0 DEF Laid
<1>2. Len(f[i]) = at[i] - at[i + 1] /\ f[i][j] = w[at[i + 1] + j]
  BY ZenonT(40) DEF Laid
<1>3. at[i + 1] + j \in 1 .. at[i] /\ at[i] <= Len(w)
  <2> DEFINE x == at[i]
             y == at[i + 1]
  <2>1. x \in Nat /\ y \in Nat /\ x <= Len(w) /\ j \in 1 .. x - y
    BY SMTT(40), SMTT(41), <1>0, <1>1, <1>2
  <2> HIDE DEF x, y
  <2>2. y + j \in 1 .. x
    BY <2>1
  <2> QED
    BY <2>1, <2>2 DEF x, y
<1> QED
  BY <1>2, <1>3

\* In an ordered output it lies nowhere else.
LEMMA HeldIsBehind ==
  ASSUME NEW f, NEW w \in Seq(Nat), NEW at, Laid(f, w, at), Ordered(w),
         NEW i \in 0 .. Archives, NEW j \in 1 .. Len(f[i]), NEW p \in 1 .. Len(w), w[p] = f[i][j]
  PROVE  p = at[i + 1] + j
<1> DEFINE q == at[i + 1] + j
<1>1. q \in 1 .. at[i] /\ f[i][j] = w[q] /\ at[i] <= Len(w)
  BY InRange
<1>2. at[i] \in Nat /\ Len(w) \in Nat
  BY LogAssumption DEF Laid
<1> HIDE DEF q
<1>3. q \in 1 .. Len(w) /\ w[q] = w[p]
  BY <1>1, <1>2
<1>4. w[p] \in Nat /\ w[q] \in Nat /\ p \in DOMAIN w /\ q \in DOMAIN w
  BY <1>3
<1>5. ~(p < q) /\ ~(q < p)
  BY SMTT(40), SMTT(41), <1>3, <1>4 DEF Ordered
<1> QED
  BY <1>3, <1>5 DEF q

\* What a layout says of the files, in the words of FilesKeepTheNewest
LEMMA LaidIsNewest ==
  ASSUME NEW f, NEW w \in Seq(Nat), NEW at, Laid(f, w, at), Ordered(w)
  PROVE  /\ \A i, k \in 0 .. Archives : \A j \in 1 .. Len(f[i]), l \in 1 .. Len(f[k]) :
              i > k \/ (i = k /\ j < l) => f[i][j] < f[k][l]
         /\ \A i \in 0 .. Archives : \A j \in 1 .. Len(f[i]) : \E p \in 1 .. Len(w) : w[p] = f[i][j]
         /\ \A p \in 1 .. Len(w) : Held(f, w[p]) <=> at[Archives + 1] < p
<1>0. Archives \in Nat /\ Len(w) \in Nat
  BY LogAssumption
<1>1. ASSUME NEW i \in 0 .. Archives, NEW k \in 0 .. Archives, NEW j \in 1 .. Len(f[i]), NEW l \in 1 .. Len(f[k]),
             i > k \/ (i = k /\ j < l)
      PROVE  f[i][j] < f[k][l]
  <2> DEFINE p == at[i + 1] + j
             q == at[k + 1] + l
  <2>1. p \in 1 .. at[i] /\ f[i][j] = w[p] /\ at[i] <= Len(w) /\ q \in 1 .. at[k] /\ f[k][l] = w[q] /\ at[k] <= Len(w)
    BY InRange
  <2>2. at[i] \in Nat /\ at[k] \in Nat /\ at[i + 1] \in Nat /\ at[k + 1] \in Nat /\ (i > k => at[i] <= at[k + 1])
    <3>1. i \in 0 .. Archives + 1 /\ k \in 0 .. Archives + 1 /\ i + 1 \in 0 .. Archives + 1 /\ k + 1 \in 0 .. Archives + 1
      BY <1>0
    <3>2. at \in [0 .. Archives + 1 -> 0 .. Len(w)] /\ (k + 1 <= i => at[i] <= at[k + 1])
      BY <3>1 DEF Laid
    <3> QED
      BY SMTT(40), SMTT(41), <1>0, <3>1, <3>2
  <2>3. l \in Nat /\ 1 <= l
    <3>1. Len(f[k]) = at[k] - at[k + 1]
      BY DEF Laid
    <3> QED
      BY <2>2, <3>1
  <2>4. j \in Nat /\ at[k + 1] < q /\ (i = k /\ j < l => p < q)
    <3>1. Len(f[i]) = at[i] - at[i + 1]
      BY DEF Laid
    <3>2. j \in Nat
      BY <2>2, <3>1
    <3> QED
      BY SMTT(40), SMTT(41), <2>2, <2>3, <3>2
  <2> HIDE DEF p, q
  <2>5. p \in Nat /\ q \in Nat /\ p <= at[i] /\ q <= at[k] /\ 1 <= p /\ 1 <= q
    BY <2>1, <2>2
  <2>6. p < q
    BY SMTT(40), SMTT(41), <1>1, <2>2, <2>4, <2>5
  <2>7. p \in 1 .. Len(w) /\ q \in 1 .. Len(w)
    <3> DEFINE a == at[i]
               b == at[k]
               n == Len(w)
    <3>1. a <= n /\ b <= n /\ a \in Nat /\ b \in Nat /\ n \in Nat
      BY <1>0, <2>1, <2>2
    <3>2. p <= a /\ q <= b
      BY <2>5
    <3> HIDE DEF a, b, n
    <3>3. p \in 1 .. n /\ q \in 1 .. n
      BY <2>5, <3>1, <3>2
    <3> QED
      BY <3>3 DEF n
  <2>8. p \in DOMAIN w /\ q \in DOMAIN w
    BY <2>7
  <2> QED
    BY <2>1, <2>6, <2>8 DEF Ordered
<1>2. ASSUME NEW i \in 0 .. Archives, NEW j \in 1 .. Len(f[i]) PROVE \E p \in 1 .. Len(w) : w[p] = f[i][j]
  <2> DEFINE p == at[i + 1] + j
  <2>1. p \in 1 .. at[i] /\ f[i][j] = w[p] /\ at[i] <= Len(w)
    BY ZenonT(40), InRange
  <2>2. at[i] \in Nat
    <3>1. i \in 0 .. Archives + 1
      BY <1>0
    <3> QED
      BY <1>0, <3>1 DEF Laid
  <2>3. p \in 1 .. Len(w)
    BY <1>0, <2>1, <2>2
  <2> QED
    BY <2>1, <2>3
<1>3. ASSUME NEW p \in 1 .. Len(w), NEW i \in 0 .. Archives, NEW j \in 1 .. Len(f[i]), f[i][j] = w[p]
      PROVE  at[Archives + 1] < p
  <2>1. p = at[i + 1] + j
    BY <1>3, HeldIsBehind
  <2>2. at[Archives + 1] <= at[i + 1] /\ at[i + 1] \in Nat /\ at[Archives + 1] \in Nat /\ at[i] \in Nat
    <3>1. i \in 0 .. Archives + 1 /\ i + 1 \in 0 .. Archives + 1 /\ Archives + 1 \in 0 .. Archives + 1 /\ i + 1 <= Archives + 1
      BY <1>0
    <3>2. at \in [0 .. Archives + 1 -> 0 .. Len(w)] /\ at[Archives + 1] <= at[i + 1]
      BY <3>1 DEF Laid
    <3> QED
      BY <1>0, <3>1, <3>2
  <2>3. j \in Nat /\ 1 <= j
    <3>1. Len(f[i]) = at[i] - at[i + 1]
      BY DEF Laid
    <3> QED
      BY <2>2, <3>1
  <2> QED
    BY SMTT(40), SMTT(41), <2>1, <2>2, <2>3
<1>4. ASSUME NEW p \in 1 .. Len(w), at[Archives + 1] < p
      PROVE  Held(f, w[p])
  BY <1>4, Covered
<1>5. \A p \in 1 .. Len(w) : Held(f, w[p]) <=> at[Archives + 1] < p
  <2>1. ASSUME NEW p \in 1 .. Len(w), Held(f, w[p]) PROVE at[Archives + 1] < p
    BY <1>3, <2>1 DEF Held
  <2> QED
    BY <1>4, <2>1
<1> QED
  BY <1>1, <1>2, <1>5

\* Where output is lost, the files hold the assured amount.
LEMMA TwoFullSize ==
  ASSUME NEW f \in [0 .. Archives -> Seq(Nat)], NEW w \in Seq(Nat), NEW at, Laid(f, w, at), TwoFull(f, at),
         at[Archives + 1] > 0
  PROVE  at[Archives + 1] + MaxSize * Min2(Archives, 2) <= Len(w)
<1>0. Archives \in Nat /\ Len(w) \in Nat /\ MaxSize \in Nat \ {0}
  BY LogAssumption
<1>1. /\ \A i \in 0 .. Archives + 1 : at[i] \in Nat
      /\ \A i, k \in 0 .. Archives + 1 : i <= k => at[k] <= at[i]
      /\ \A i \in 0 .. Archives : Len(f[i]) = at[i] - at[i + 1]
      /\ \A i \in 1 .. Archives : f[i] = <<>> \/ Len(f[i]) = MaxSize
      /\ at[0] = Len(w)
  BY SMTT(40), SMTT(41), <1>0 DEF Laid
<1>2. CASE Archives = 0
  <2>1. MaxSize * Min2(Archives, 2) = 0
    BY <1>0, <1>2 DEF Min2
  <2>2. at[Archives + 1] <= at[0] /\ at[Archives + 1] \in Nat
    BY <1>0, <1>1
  <2> QED
    BY <1>0, <1>1, <2>1, <2>2
<1>3. CASE Archives # 0
  <2>0. Archives \in 1 .. Archives /\ Archives \in 0 .. Archives /\ 0 \in 0 .. Archives + 1 /\ Archives \in 0 .. Archives + 1
        /\ Archives + 1 \in 0 .. Archives + 1
    BY <1>0, <1>3
  <2>1. at[Archives] = at[Archives + 1] + MaxSize
    <3>1. f[Archives] # <<>>
      BY <1>3 DEF TwoFull
    <3>2. at[Archives] \in Nat /\ at[Archives + 1] \in Nat
      BY <1>1, <2>0
    <3>3. Len(f[Archives]) = MaxSize /\ Len(f[Archives]) = at[Archives] - at[Archives + 1]
      BY ZenonT(40), <1>1, <2>0, <3>1
    <3> QED
      BY <1>0, <3>2, <3>3
  <2>2. CASE Archives = 1
    <3>1. MaxSize * Min2(Archives, 2) = MaxSize
      BY <1>0, <2>2 DEF Min2
    <3>2. at[Archives] <= at[0] /\ at[Archives] \in Nat /\ at[Archives + 1] \in Nat
      BY <1>0, <1>1, <2>0
    <3> QED
      BY <1>0, <1>1, <2>1, <3>1, <3>2
  <2>3. CASE Archives # 1
    <3>0. 1 \in 1 .. Archives /\ 1 \in 0 .. Archives /\ 0 \in 0 .. Archives /\ 2 \in 0 .. Archives + 1
          /\ 1 \in 0 .. Archives + 1 /\ 1 <= Archives /\ 2 <= Archives
      BY <1>0, <1>3, <2>3
    <3>1. MaxSize * Min2(Archives, 2) = MaxSize + MaxSize
      <4>1. Min2(Archives, 2) = 2
        BY <1>0, <3>0 DEF Min2
      <4> QED
        BY <1>0, <4>1
    <3>2. /\ at[Archives] <= at[1] /\ at[1] <= at[0] /\ at[Archives] <= at[2]
          /\ at[0] \in Nat /\ at[1] \in Nat /\ at[2] \in Nat /\ at[Archives] \in Nat /\ at[Archives + 1] \in Nat
      BY SMTT(40), SMTT(41), <1>0, <1>1, <2>0, <3>0
    <3>3. at[Archives] + MaxSize <= at[0]
      <4>1. CASE Len(f[0]) = MaxSize
        <5>1. Len(f[0]) = at[0] - at[0 + 1]
          BY <1>1, <3>0
        <5>2. Len(f[0]) = at[0] - at[1]
          BY <5>1
        <5> QED
          BY SMTT(40), SMTT(41), <1>0, <3>2, <4>1, <5>2
      <4>2. CASE f[1] # <<>>
        <5>1. Len(f[1]) = at[1] - at[1 + 1] /\ Len(f[1]) = MaxSize
          BY <1>1, <3>0, <4>2
        <5>2. at[1] - at[2] = MaxSize
          BY <5>1
        <5> QED
          BY SMTT(40), SMTT(41), <1>0, <3>2, <5>2
      <4> QED
        BY <1>3, <2>3, <4>1, <4>2 DEF TwoFull
    <3> QED
      BY SMTT(40), SMTT(41), <1>0, <1>1, <2>1, <3>1, <3>2, <3>3
  <2> QED
    BY <2>2, <2>3
<1> QED
  BY <1>2, <1>3

\* The numbers of a layout
LEMMA LaidTypes ==
  ASSUME NEW f, NEW w \in Seq(Nat), NEW at, Laid(f, w, at)
  PROVE  /\ Archives \in Nat /\ Len(w) \in Nat /\ MaxSize \in Nat \ {0}
         /\ at \in [0 .. Archives + 1 -> Nat] /\ at[0] = Len(w)
         /\ \A i \in 0 .. Archives + 1 : at[i] \in Nat /\ at[i] <= Len(w)
         /\ \A i, k \in 0 .. Archives + 1 : i <= k => at[k] <= at[i]
         /\ \A i \in 0 .. Archives : Len(f[i]) = at[i] - at[i + 1] /\ at[i + 1] <= at[i]
                                     /\ at[i] \in Nat /\ at[i + 1] \in Nat /\ Len(f[i]) \in Nat
         /\ \A i \in 1 .. Archives : f[i] = <<>> \/ Len(f[i]) = MaxSize
<1>0. Archives \in Nat /\ Len(w) \in Nat /\ MaxSize \in Nat \ {0}
  BY LogAssumption
<1>1. \A i \in 0 .. Archives + 1 : at[i] \in Nat /\ at[i] <= Len(w)
  BY <1>0 DEF Laid
<1>2. ASSUME NEW i \in 0 .. Archives
      PROVE  Len(f[i]) = at[i] - at[i + 1] /\ at[i + 1] <= at[i] /\ at[i] \in Nat /\ at[i + 1] \in Nat /\ Len(f[i]) \in Nat
  <2>1. i \in 0 .. Archives + 1 /\ i + 1 \in 0 .. Archives + 1 /\ i <= i + 1
    BY <1>0
  <2>2. at[i] \in Nat /\ at[i + 1] \in Nat /\ at[i + 1] <= at[i]
    BY <1>1, <2>1 DEF Laid
  <2>3. Len(f[i]) = at[i] - at[i + 1]
    BY DEF Laid
  <2> QED
    BY <2>2, <2>3
<1>3. at \in [0 .. Archives + 1 -> Nat]
  BY <1>1 DEF Laid
<1> QED
  BY SMTT(40), <1>0, <1>1, <1>2, <1>3 DEF Laid

\* append: the new bytes go to the end of the file and of the output.
LEMMA LaidWrite ==
  ASSUME NEW f \in [0 .. Archives -> Seq(Nat)], NEW w \in Seq(Nat), NEW at, Laid(f, w, at), TwoFull(f, at),
         NEW part \in Seq(Nat), Len(f[0]) # MaxSize,
         NEW g \in [0 .. Archives -> Seq(Nat)], g[0] = f[0] \o part, \A i \in 1 .. Archives : g[i] = f[i]
  PROVE  \E bt \in [0 .. Archives + 1 -> 0 .. Len(w \o part)] :
           Laid(g, w \o part, bt) /\ TwoFull(g, bt) /\ (Regular(at) => Regular(bt))
<1> DEFINE v == w \o part
           bt == [at EXCEPT ![0] = Len(v)]
<1>0. /\ Archives \in Nat /\ Len(w) \in Nat /\ MaxSize \in Nat \ {0}
      /\ at \in [0 .. Archives + 1 -> Nat] /\ at[0] = Len(w)
      /\ \A i \in 0 .. Archives + 1 : at[i] \in Nat /\ at[i] <= Len(w)
      /\ \A i, k \in 0 .. Archives + 1 : i <= k => at[k] <= at[i]
      /\ \A i \in 0 .. Archives : Len(f[i]) = at[i] - at[i + 1] /\ at[i + 1] <= at[i]
                                  /\ at[i] \in Nat /\ at[i + 1] \in Nat /\ Len(f[i]) \in Nat
      /\ \A i \in 1 .. Archives : f[i] = <<>> \/ Len(f[i]) = MaxSize
  BY ZenonT(40), LaidTypes
<1>1. /\ v \in Seq(Nat) /\ Len(v) = Len(w) + Len(part) /\ Len(part) \in Nat
      /\ \A p \in 1 .. Len(w) : v[p] = w[p]
      /\ \A p \in 1 .. Len(part) : v[Len(w) + p] = part[p]
  OBVIOUS
<1> HIDE DEF v
<1>n. Archives \in Nat
  BY LogAssumption
<1>v. Len(v) \in Nat
  BY <1>1
<1>2. 0 \in 0 .. Archives + 1 /\ 0 \in 0 .. Archives /\ 1 \in 0 .. Archives + 1
  BY <1>0
<1>3. bt[0] = Len(v) /\ \A i \in 1 .. Archives + 1 : bt[i] = at[i]
  <2>1. \A i \in 1 .. Archives + 1 : i \in 0 .. Archives + 1 /\ i # 0
    BY <1>0
  <2> QED
    BY SMTT(40), <1>0, <1>2, <2>1
<1>4. bt \in [0 .. Archives + 1 -> 0 .. Len(v)]
  <2>1. ASSUME NEW i \in 0 .. Archives + 1 PROVE at[i] \in 0 .. Len(v)
    <3> DEFINE x == at[i]
               n == Len(w)
               m == Len(part)
    <3>1. x \in Nat /\ n \in Nat /\ m \in Nat /\ x <= n /\ Len(v) = n + m
      BY ZenonT(40), <1>0, <1>1
    <3> HIDE DEF x, n, m
    <3>2. x \in 0 .. Len(v)
      BY SMTT(40), SMTT(41), <3>1
    <3> QED
      BY <3>2 DEF x
  <2>2. Len(v) \in 0 .. Len(v)
    BY <1>0, <1>1
  <2> QED
    BY ZenonT(40), <1>0, <1>2, <2>1, <2>2
<1> HIDE DEF bt
<1>5. \A i, k \in 0 .. Archives + 1 : i <= k => bt[k] <= bt[i]
  <2> SUFFICES ASSUME NEW i \in 0 .. Archives + 1, NEW k \in 0 .. Archives + 1, i <= k PROVE bt[k] <= bt[i]
      BY ZenonT(40)
  <2>1. CASE i = 0
    <3>1. bt[k] \in 0 .. Len(v)
      BY ZenonT(40), <1>4
    <3> QED
      BY <1>0, <1>1, <1>3, <2>1, <3>1
  <2>2. CASE i # 0
    <3>1. i \in 1 .. Archives + 1 /\ k \in 1 .. Archives + 1
      BY SMTT(40), SMTT(41), <1>0, <2>2
    <3> QED
      BY <1>0, <1>3, <3>1
  <2> QED
    BY <2>1, <2>2
<1>6. ASSUME NEW i \in 1 .. Archives
      PROVE  Len(g[i]) = bt[i] - bt[i + 1] /\ \A j \in 1 .. Len(g[i]) : g[i][j] = v[bt[i + 1] + j]
  <2>1. i \in 0 .. Archives /\ i \in 1 .. Archives + 1 /\ i + 1 \in 1 .. Archives + 1 /\ g[i] = f[i]
        /\ i \in 0 .. Archives + 1
    BY SMTT(40), SMTT(41), <1>0
  <2>2. bt[i] = at[i] /\ bt[i + 1] = at[i + 1]
    BY SMTT(40), <1>3, <2>1
  <2>3. ASSUME NEW j \in 1 .. Len(f[i]) PROVE f[i][j] = v[at[i + 1] + j]
    <3>1. at[i + 1] + j \in 1 .. at[i] /\ f[i][j] = w[at[i + 1] + j] /\ at[i] <= Len(w)
      BY ZenonT(40), <2>1, InRange
    <3>2. at[i + 1] + j \in 1 .. Len(w)
      <4> DEFINE x == at[i + 1] + j
                 y == at[i]
                 n == Len(w)
      <4>1. x \in 1 .. y /\ y \in Nat /\ n \in Nat /\ y <= n
        BY <1>0, <2>1, <3>1
      <4> HIDE DEF x, y, n
      <4>2. x \in 1 .. n
        BY SMTT(40), <4>1
      <4> QED
        BY ZenonT(40), <4>2 DEF x, n
    <3> QED
      BY ZenonT(40), <1>1, <3>1, <3>2
  <2> QED
    BY ZenonT(40), <1>0, <2>1, <2>2, <2>3
<1>7. Len(g[0]) = bt[0] - bt[0 + 1] /\ \A j \in 1 .. Len(g[0]) : g[0][j] = v[bt[0 + 1] + j]
  <2> DEFINE m == Len(f[0])
             a == at[1]
  <2>1. m = Len(w) - a /\ a \in Nat /\ m \in Nat /\ a <= Len(w)
    <3>1. 0 + 1 = 1
      BY SMTT(40), SMTT(41)
    <3> QED
      BY ZenonT(40), <1>0, <1>2, <3>1
  <2>2. bt[0 + 1] = a /\ bt[0] = Len(v)
    <3>1. 0 + 1 = 1 /\ 1 \in 1 .. Archives + 1
      BY SMTT(40), SMTT(41), <1>0
    <3> QED
      BY ZenonT(40), <1>3, <3>1
  <2>3. f[0] \in Seq(Nat) /\ Len(g[0]) = m + Len(part)
        /\ (\A j \in 1 .. m : g[0][j] = f[0][j])
        /\ (\A j \in 1 .. Len(part) : g[0][m + j] = part[j])
    <3>1. f[0] \in Seq(Nat)
      BY SMTT(40), <1>2
    <3> QED
      BY <3>1
  <2> HIDE DEF a, m
  <2>4. ASSUME NEW j \in 1 .. m PROVE g[0][j] = v[a + j]
    <3>1. f[0][j] = w[at[0 + 1] + j]
      BY <1>2 DEF Laid, m
    <3>2. 0 + 1 = 1
      BY SMTT(40), SMTT(41)
    <3>3. f[0][j] = w[a + j]
      BY ZenonT(40), <3>1, <3>2 DEF a
    <3>4. a + j \in 1 .. Len(w)
      <4>1. j \in Nat /\ 1 <= j /\ j <= m
        BY SMTT(40), SMTT(41), <2>1
      <4> QED
        BY <1>0, <2>1, <4>1
    <3> QED
      BY ZenonT(40), <1>1, <2>3, <3>3, <3>4
  <2>5. ASSUME NEW j \in 1 .. m + Len(part), ~(j \in 1 .. m) PROVE g[0][j] = v[a + j]
    <3> DEFINE l == j - m
               n == Len(w)
               k == Len(part)
    <3>0. n \in Nat /\ k \in Nat /\ m \in Nat /\ a \in Nat /\ m = n - a /\ j \in 1 .. m + k /\ ~(j \in 1 .. m)
      BY <1>0, <1>1, <2>1, <2>5
    <3> HIDE DEF n, k
    <3>1. l \in 1 .. k /\ j = m + l /\ a + j = n + l
      BY SMTT(40), <3>0
    <3> HIDE DEF l
    <3>2. v[n + l] = part[l] /\ g[0][m + l] = part[l]
      BY ZenonT(40), <1>1, <2>3, <3>1 DEF n, k
    <3> QED
      BY ZenonT(40), <3>1, <3>2
  <2>6. Len(g[0]) = Len(v) - a
    BY <1>0, <1>1, <2>1, <2>3
  <2>7. \A j \in 1 .. Len(g[0]) : g[0][j] = v[a + j]
    BY ZenonT(40), <2>3, <2>4, <2>5
  <2> QED
    BY ZenonT(40), <2>2, <2>6, <2>7
<1>8. Laid(g, v, bt)
  <2>1. \A i \in 0 .. Archives : Len(g[i]) = bt[i] - bt[i + 1] /\ \A j \in 1 .. Len(g[i]) : g[i][j] = v[bt[i + 1] + j]
    <3>1. \A i \in 0 .. Archives : i = 0 \/ i \in 1 .. Archives
      BY <1>0
    <3> QED
      BY ZenonT(40), <1>6, <1>7, <3>1
  <2>2. ASSUME NEW q \in 1 .. Len(v)
        PROVE  q <= bt[Archives + 1] \/ \E i \in 0 .. Archives : bt[i + 1] < q /\ q <= bt[i]
    <3>0. /\ q \in Nat /\ q <= bt[0] /\ bt[Archives + 1] = at[Archives + 1] /\ bt[0 + 1] = at[1]
          /\ at[1] \in Nat /\ at[1] <= Len(w)
      <4>1. Archives + 1 \in 1 .. Archives + 1 /\ 1 \in 1 .. Archives + 1 /\ 0 + 1 = 1
        BY <1>n
      <4>2. q \in Nat /\ q <= Len(v)
        BY SMTT(40), SMTT(41), <1>v
      <4> QED
        BY ZenonT(40), <1>0, <1>2, <1>3, <4>1, <4>2
    <3>1. CASE q \in 1 .. Len(w)
      <4>1. CASE q <= at[Archives + 1]
        BY ZenonT(40), <3>0, <4>1
      <4>2. ASSUME NEW i \in 0 .. Archives, at[i + 1] < q, q <= at[i] PROVE bt[i + 1] < q /\ q <= bt[i]
        <5>1. i + 1 \in 1 .. Archives + 1 /\ (i # 0 => i \in 1 .. Archives + 1)
          BY SMTT(40), SMTT(41), <1>0
        <5>2. bt[i + 1] = at[i + 1] /\ (i # 0 => bt[i] = at[i])
          BY ZenonT(40), <1>3, <5>1
        <5> QED
          BY ZenonT(40), <3>0, <4>2, <5>2
      <4>3. Covers(w, at)
        BY DEF Laid
      <4> QED
        BY <3>1, <4>1, <4>2, <4>3 DEF Covers
    <3>2. CASE ~(q \in 1 .. Len(w))
      <4>1. bt[0 + 1] < q
        BY SMTT(40), SMTT(41), <1>0, <3>0, <3>2
      <4> QED
        BY ZenonT(40), <1>2, <3>0, <4>1
    <3> QED
      BY <3>1, <3>2
  <2>3. Covers(v, bt)
    BY <2>2 DEF Covers
  <2> QED
    BY ZenonT(40), <1>0, <1>3, <1>4, <1>5, <2>1, <2>3 DEF Laid
<1>9. TwoFull(g, bt)
  <2>1. Archives + 1 \in 1 .. Archives + 1 /\ (Archives # 0 => Archives \in 1 .. Archives /\ 1 \in 1 .. Archives)
    BY SMTT(40), SMTT(41), <1>0
  <2>2. bt[Archives + 1] = at[Archives + 1]
    BY SMTT(40), <1>3, <2>1
  <2>3. Archives # 0 => g[Archives] = f[Archives] /\ g[1] = f[1]
    BY <2>1
  <2> QED
    BY ZenonT(40), <2>2, <2>3 DEF TwoFull
<1>10. Regular(at) => Regular(bt)
  <2>1. 1 \in 1 .. Archives + 1
    BY SMTT(40), SMTT(41), <1>0
  <2> QED
    BY ZenonT(40), <1>3, <2>1 DEF Regular
<1> QED
  BY SMTT(40), <1>4, <1>8, <1>9, <1>10 DEF v

\* rotate, one rename: a file moves to the free place behind it, or over the
\* oldest archive.
LEMMA LaidRename ==
  ASSUME NEW f \in [0 .. Archives -> Seq(Nat)], NEW w \in Seq(Nat), NEW at, Laid(f, w, at), TwoFull(f, at),
         NEW idx \in 1 .. Archives, Len(f[0]) = MaxSize, idx < Archives => f[idx] = <<>>
  PROVE  \E bt \in [0 .. Archives + 1 -> 0 .. Len(w)] :
           /\ Laid(renamed(f, idx), w, bt) /\ TwoFull(renamed(f, idx), bt)
           /\ Shifted(at, idx) => Shifted(bt, idx - 1)
<1>0. /\ Archives \in Nat /\ Len(w) \in Nat /\ MaxSize \in Nat \ {0}
      /\ at \in [0 .. Archives + 1 -> Nat] /\ at[0] = Len(w)
      /\ \A i \in 0 .. Archives + 1 : at[i] \in Nat /\ at[i] <= Len(w)
      /\ \A i, k \in 0 .. Archives + 1 : i <= k => at[k] <= at[i]
      /\ \A i \in 0 .. Archives : Len(f[i]) = at[i] - at[i + 1] /\ at[i + 1] <= at[i]
                                  /\ at[i] \in Nat /\ at[i + 1] \in Nat /\ Len(f[i]) \in Nat
      /\ \A i \in 1 .. Archives : f[i] = <<>> \/ Len(f[i]) = MaxSize
  BY ZenonT(40), LaidTypes
<1>1. /\ idx \in Nat /\ idx - 1 \in 0 .. Archives /\ idx \in 0 .. Archives /\ idx + 1 \in 1 .. Archives + 1
      /\ idx - 1 \in Nat /\ idx - 1 # Archives
  BY <1>0
<1>n. Archives \in Nat
  BY <1>0
<1>2. CASE f[idx - 1] = <<>>
  <2>1. renamed(f, idx) = f
    BY <1>2 DEF renamed
  <2>2. at \in [0 .. Archives + 1 -> 0 .. Len(w)]
    BY DEF Laid
  <2>3. ASSUME Shifted(at, idx), NEW i \in 1 .. Archives + 1
        PROVE  at[i] = 0 \/ at[i] + Bytes(IF idx - 1 = Archives \/ i <= idx - 1 THEN i ELSE i - 1) <= at[0]
    <3>1. at[i] = 0 \/ at[i] + Bytes(IF idx = Archives \/ i <= idx THEN i ELSE i - 1) <= at[0]
      BY ZenonT(40), <2>3 DEF Shifted
    <3>2. i - 1 \in Nat /\ (i - 1) + 1 = i /\ i \in 0 .. Archives + 1 /\ i \in Nat
      BY <1>0
    <3>3. Bytes(i - 1) \in Nat /\ Bytes(i) = Bytes(i - 1) + MaxSize
      BY ZenonT(40), <3>2, BytesStep
    <3>4. at[i] \in Nat /\ at[0] \in Nat
      BY ZenonT(40), <1>0, <3>2
    <3>5. CASE i <= idx - 1
      <4>1. i <= idx
        BY <1>1, <3>2, <3>5
      <4> QED
        BY <3>1, <3>5, <4>1
    <3>6. CASE ~(i <= idx - 1)
      <4>1. at[i] = 0 \/ at[i] + Bytes(i) <= at[0] \/ at[i] + Bytes(i - 1) <= at[0]
        BY <3>1
      <4>2. at[i] = 0 \/ at[i] + Bytes(i - 1) <= at[0]
        <5> DEFINE x == at[i]
                   y == at[0]
                   m == Bytes(i - 1)
                   n == Bytes(i)
        <5>1. x \in Nat /\ y \in Nat /\ m \in Nat /\ n = m + MaxSize /\ MaxSize \in Nat
          BY <1>0, <3>3, <3>4
        <5>2. x = 0 \/ x + n <= y \/ x + m <= y
          BY <4>1
        <5> HIDE DEF x, y, m, n
        <5>3. x = 0 \/ x + m <= y
          BY SMTT(40), SMTT(41), <5>1, <5>2
        <5> QED
          BY ZenonT(40), <5>3 DEF x, y, m
      <4> QED
        BY SMTT(40), <1>1, <3>6, <4>2
    <3> QED
      BY <3>5, <3>6
  <2>4. Shifted(at, idx) => Shifted(at, idx - 1)
    BY ZenonT(40), <2>3 DEF Shifted
  <2> QED
    BY <2>1, <2>2, <2>4
<1>3. CASE f[idx - 1] # <<>>
  <2> DEFINE g == renamed(f, idx)
             sg(i) == IF i = idx \/ i = idx + 1 THEN i - 1 ELSE i
             bt == [i \in 0 .. Archives + 1 |-> at[sg(i)]]
  <2>1. /\ g[idx] = f[idx - 1] /\ g[idx - 1] = <<>>
        /\ \A i \in 0 .. Archives : i # idx /\ i # idx - 1 => g[i] = f[i]
    <3>1. g = [f EXCEPT ![idx] = f[idx - 1], ![idx - 1] = <<>>]
      BY <1>3 DEF renamed
    <3>2. idx # idx - 1
      BY <1>1
    <3> QED
      BY <1>1, <3>1, <3>2
  <2> HIDE DEF g
  <2>2. \A i \in 0 .. Archives + 1 : sg(i) \in 0 .. Archives + 1
    BY <1>1, <1>n
  <2>3. /\ bt \in [0 .. Archives + 1 -> 0 .. Len(w)]
        /\ \A i \in 0 .. Archives + 1 : bt[i] = at[sg(i)]
    <3>1. at \in [0 .. Archives + 1 -> 0 .. Len(w)]
      BY DEF Laid
    <3> QED
      BY <2>2, <3>1
  <2> HIDE DEF bt
  <2>4. \A i, k \in 0 .. Archives + 1 : i <= k => bt[k] <= bt[i]
    <3> SUFFICES ASSUME NEW i \in 0 .. Archives + 1, NEW k \in 0 .. Archives + 1, i <= k PROVE bt[k] <= bt[i]
        OBVIOUS
    <3>1. sg(i) <= sg(k)
      BY <1>1, <1>n
    <3>2. sg(i) \in 0 .. Archives + 1 /\ sg(k) \in 0 .. Archives + 1
      BY <2>2
    <3> HIDE DEF sg
    <3>3. at[sg(k)] <= at[sg(i)]
      BY ZenonT(40), <1>0, <3>1, <3>2
    <3> QED
      BY <2>3, <3>3
  <2>5. bt[0] = Len(w)
    <3>1. sg(0) = 0 /\ 0 \in 0 .. Archives + 1
      BY <1>1, <1>n
    <3> QED
      BY ZenonT(40), <1>0, <2>3, <3>1
  <2>6. bt[idx - 1] = at[idx - 1] /\ bt[idx] = at[idx - 1] /\ bt[idx + 1] = at[idx]
    <3>1. sg(idx - 1) = idx - 1 /\ sg(idx) = idx - 1 /\ sg(idx + 1) = idx
      BY SMTT(40), SMTT(41), <1>1
    <3>2. idx - 1 \in 0 .. Archives + 1 /\ idx \in 0 .. Archives + 1 /\ idx + 1 \in 0 .. Archives + 1
      BY <1>0, <1>1
    <3> HIDE DEF sg
    <3> QED
      BY <2>3, <3>1, <3>2
  <2>7. idx < Archives => at[idx + 1] = at[idx]
    <3> SUFFICES ASSUME idx < Archives PROVE at[idx + 1] = at[idx]
        OBVIOUS
    <3>1. Len(f[idx]) = 0
      OBVIOUS
    <3>2. Len(f[idx]) = at[idx] - at[idx + 1] /\ at[idx] \in Nat /\ at[idx + 1] \in Nat
      BY ZenonT(40), <1>0, <1>1
    <3> QED
      BY <3>1, <3>2
  <2>8. \A i \in 0 .. Archives + 1 : i # idx /\ i # idx + 1 => bt[i] = at[i]
    BY <2>3
  <2> HIDE DEF sg
  <2>9. ASSUME NEW i \in 0 .. Archives
        PROVE  Len(g[i]) = bt[i] - bt[i + 1] /\ \A j \in 1 .. Len(g[i]) : g[i][j] = w[bt[i + 1] + j]
    <3>0. i \in Nat /\ i \in 0 .. Archives + 1 /\ i + 1 \in 0 .. Archives + 1
      BY SMTT(40), <1>0
    <3>1. CASE i = idx
      <4>1. (idx - 1) + 1 = idx
        BY <1>1
      <4>2. Len(f[idx - 1]) = at[idx - 1] - at[idx] /\ \A j \in 1 .. Len(f[idx - 1]) : f[idx - 1][j] = w[at[idx] + j]
        BY ZenonT(40), <1>1, <4>1 DEF Laid
      <4> QED
        BY ZenonT(40), <2>1, <2>6, <3>1, <4>2
    <3>2. CASE i = idx - 1
      <4>0. at[idx - 1] \in Nat
        BY ZenonT(40), <1>0, <1>1
      <4>1. i + 1 = idx
        BY <1>1, <3>2
      <4>2. bt[i] - bt[i + 1] = 0
        BY SMTT(40), SMTT(41), <2>6, <3>2, <4>0, <4>1
      <4>3. g[i] = <<>> /\ Len(<<>>) = 0
        BY ZenonT(40), <2>1, <3>2
      <4> QED
        BY SMTT(40), <4>2, <4>3
    <3>3. CASE i # idx /\ i # idx - 1
      <4>1. g[i] = f[i]
        BY ZenonT(40), <2>1, <3>3
      <4>2. bt[i] = at[i]
        <5>1. CASE i = idx + 1
          <6>1. idx < Archives
            BY SMTT(40), <1>0, <1>1, <5>1
          <6> QED
            BY ZenonT(40), <2>6, <2>7, <5>1, <6>1
        <5>2. CASE i # idx + 1
          BY ZenonT(40), <2>8, <3>0, <3>3, <5>2
        <5> QED
          BY ZenonT(40), <5>1, <5>2
      <4>3. bt[i + 1] = at[i + 1]
        <5>1. i + 1 # idx /\ i + 1 # idx + 1
          BY SMTT(40), SMTT(41), <1>1, <3>0, <3>3
        <5> QED
          BY SMTT(40), <2>8, <3>0, <5>1
      <4>4. Len(f[i]) = at[i] - at[i + 1] /\ \A j \in 1 .. Len(f[i]) : f[i][j] = w[at[i + 1] + j]
        BY SMTT(40) DEF Laid
      <4> QED
        BY SMTT(40), <4>1, <4>2, <4>3, <4>4
    <3> QED
      BY ZenonT(40), <3>1, <3>2, <3>3
  <2>10. ASSUME NEW i \in 1 .. Archives PROVE g[i] = <<>> \/ Len(g[i]) = MaxSize
    <3>1. CASE i = idx
      <4>1. idx - 1 = 0 \/ idx - 1 \in 1 .. Archives
        BY <1>0, <1>1
      <4> QED
        BY ZenonT(40), <1>0, <1>3, <2>1, <3>1, <4>1
    <3>2. CASE i # idx
      <4>1. i \in 0 .. Archives
        BY <1>0
      <4> QED
        BY ZenonT(40), <1>0, <2>1, <3>2, <4>1
    <3> QED
      BY SMTT(40), <3>1, <3>2
  <2>c. ASSUME NEW q \in 1 .. Len(w), ~(q <= bt[Archives + 1])
        PROVE  \E i \in 0 .. Archives : bt[i + 1] < q /\ q <= bt[i]
    <3>0. q \in Nat /\ \A i \in 0 .. Archives + 1 : at[i] \in Nat /\ bt[i] \in Nat
      <4>1. Len(w) \in Nat /\ \A x \in 0 .. Len(w) : x \in Nat
        OBVIOUS
      <4>2. q \in Nat
        BY <4>1
      <4> QED
        BY ZenonT(40), <1>0, <2>3, <4>1, <4>2
    <3>1. ~(q <= at[Archives + 1])
      <4>1. Archives + 1 \in 0 .. Archives + 1 /\ Archives \in 0 .. Archives + 1 /\ Archives <= Archives + 1
        BY <1>n
      <4>2. CASE idx = Archives
        <5>1. bt[Archives + 1] = at[Archives] /\ at[Archives + 1] <= at[Archives]
          BY <1>0, <2>6, <4>1, <4>2
        <5> QED
          BY SMTT(40), SMTT(41), <2>c, <3>0, <4>1, <5>1
      <4>3. CASE idx # Archives
        <5>1. Archives + 1 # idx /\ Archives + 1 # idx + 1
          BY <1>1, <1>n, <4>3
        <5> QED
          BY ZenonT(40), <2>8, <2>c, <4>1, <5>1
      <4> QED
        BY <4>2, <4>3
    <3>2. PICK i \in 0 .. Archives : at[i + 1] < q /\ q <= at[i]
      BY <3>1 DEF Laid, Covers
    <3>3. i \in Nat /\ i \in 0 .. Archives + 1 /\ i + 1 \in 0 .. Archives + 1
      BY <1>n
    <3>4. CASE i = idx - 1
      <4>1. i + 1 = idx
        BY <1>1, <3>4
      <4> QED
        BY <1>1, <2>6, <3>2, <3>4, <4>1
    <3>5. CASE i = idx
      <4>1. CASE idx < Archives
        <5>1. at[idx + 1] = at[idx] /\ at[idx] \in Nat
          BY <2>7, <3>0, <3>3, <3>5, <4>1
        <5> QED
          BY <3>0, <3>2, <3>5, <5>1
      <4>2. CASE ~(idx < Archives)
        <5>1. idx = Archives
          BY <1>1, <1>n, <4>2
        <5> QED
          BY <2>6, <2>c, <3>2, <3>5, <5>1
      <4> QED
        BY <4>1, <4>2
    <3>6. CASE i # idx /\ i # idx - 1
      <4>1. i + 1 # idx /\ i + 1 # idx + 1
        BY <1>1, <3>3, <3>6
      <4>2. bt[i + 1] = at[i + 1]
        BY ZenonT(40), <2>8, <3>3, <4>1
      <4>3. CASE i = idx + 1
        <5>1. idx < Archives
          BY <1>1, <1>n, <4>3
        <5> QED
          BY <2>6, <2>7, <3>2, <4>2, <4>3, <5>1
      <4>4. CASE i # idx + 1
        BY ZenonT(40), <2>8, <3>2, <3>3, <3>6, <4>2, <4>4
      <4> QED
        BY <4>3, <4>4
    <3> QED
      BY <3>4, <3>5, <3>6
  <2>d. Covers(w, bt)
    BY ZenonT(40), <2>c DEF Covers
  <2>11. Laid(g, w, bt)
    BY ZenonT(40), <2>3, <2>4, <2>5, <2>9, <2>10, <2>d DEF Laid
  <2>12. TwoFull(g, bt)
    <3> SUFFICES ASSUME bt[Archives + 1] > 0
                 PROVE  g[Archives] # <<>> /\ (Archives = 1 \/ Len(g[0]) = MaxSize \/ g[1] # <<>>)
        BY ZenonT(40) DEF TwoFull
    <3>0. f[0] # <<>> /\ 0 \in 0 .. Archives /\ Archives \in 0 .. Archives /\ 0 # idx /\ Archives # 0
      <4>1. MaxSize # 0 /\ Len(<<>>) = 0
        BY LogAssumption
      <4>2. f[0] # <<>>
        BY ZenonT(40), <4>1
      <4>3. 0 \in 0 .. Archives /\ Archives \in 0 .. Archives /\ 0 # idx /\ Archives # 0
        BY <1>n
      <4> QED
        BY ZenonT(40), <4>2, <4>3
    <3>1. idx > 1 => g[0] = f[0]
      <4>1. idx > 1 => 0 # idx - 1
        BY <1>1
      <4> QED
        BY <2>1, <3>0, <4>1
    <3>2. idx = 1 => g[1] # <<>>
      BY <1>3, <2>1
    <3>3. Len(g[0]) = MaxSize \/ g[1] # <<>>
      <4>1. idx = 1 \/ idx > 1
        BY SMTT(40), <1>1
      <4> QED
        BY SMTT(40), <3>1, <3>2, <4>1
    <3>4. CASE idx = Archives
      BY SMTT(40), <1>3, <2>1, <3>3, <3>4
    <3>5. CASE idx < Archives
      <4>1. Archives # idx /\ Archives # idx - 1 /\ Archives + 1 # idx /\ Archives + 1 # idx + 1 /\ Archives + 1 \in 0 .. Archives + 1
        BY SMTT(40), SMTT(41), <1>0, <1>1, <3>5
      <4>2. bt[Archives + 1] = at[Archives + 1] /\ g[Archives] = f[Archives]
        BY ZenonT(40), <2>1, <2>8, <3>0, <4>1
      <4>3. f[Archives] # <<>>
        BY ZenonT(40), <3>0, <4>2 DEF TwoFull
      <4> QED
        BY ZenonT(40), <3>3, <4>2, <4>3
    <3> QED
      BY SMTT(40), SMTT(41), <1>0, <1>1, <3>4, <3>5
  <2>13. ASSUME Shifted(at, idx), NEW i \in 1 .. Archives + 1
         PROVE  bt[i] = 0 \/ bt[i] + Bytes(IF idx - 1 = Archives \/ i <= idx - 1 THEN i ELSE i - 1) <= bt[0]
    <3>0. \A k \in 1 .. Archives + 1 :
            at[k] = 0 \/ at[k] + Bytes(IF idx = Archives \/ k <= idx THEN k ELSE k - 1) <= at[0]
      BY <2>13 DEF Shifted
    <3>a. bt[0] = at[0] /\ i \in Nat /\ i \in 0 .. Archives + 1
      BY <1>0, <2>5
    <3>1. CASE i <= idx - 1
      <4>1. i <= idx /\ i # idx /\ i # idx + 1
        BY SMTT(40), <1>1, <3>a, <3>1
      <4>2. bt[i] = at[i]
        BY <2>8, <3>a, <4>1
      <4>3. at[i] = 0 \/ at[i] + Bytes(i) <= at[0]
        BY ZenonT(40), <3>0, <4>1
      <4> QED
        BY <3>a, <3>1, <4>2, <4>3
    <3>2. CASE i = idx
      <4>1. at[idx - 1] = 0 \/ at[idx - 1] + Bytes(idx - 1) <= at[0]
        <5>1. CASE idx - 1 = 0
          <6>1. Bytes(0) = 0 /\ at[0] \in Nat
            BY ZenonT(40), <1>0, BytesStep
          <6> QED
            BY SMTT(40), <5>1, <6>1
        <5>2. CASE idx - 1 # 0
          <6>1. idx - 1 \in 1 .. Archives + 1 /\ idx - 1 <= idx
            BY <1>0, <1>1, <5>2
          <6> QED
            BY ZenonT(40), <3>0, <6>1
        <5> QED
          BY <5>1, <5>2
      <4>2. ~(i <= idx - 1) /\ i - 1 = idx - 1
        BY SMTT(40), SMTT(41), <1>1, <3>2
      <4> QED
        BY SMTT(40), <1>1, <2>6, <3>a, <3>2, <4>1, <4>2
    <3>3. CASE i = idx + 1
      <4>1. idx \in 1 .. Archives + 1 /\ idx <= idx /\ i - 1 = idx /\ ~(i <= idx - 1)
        BY <1>0, <1>1, <3>3
      <4>2. at[idx] = 0 \/ at[idx] + Bytes(idx) <= at[0]
        BY SMTT(40), <3>0, <4>1
      <4> QED
        BY ZenonT(40), <1>1, <2>6, <3>a, <3>3, <4>1, <4>2
    <3>4. CASE i > idx + 1
      <4>1. idx # Archives /\ ~(i <= idx) /\ ~(i <= idx - 1) /\ i # idx /\ i # idx + 1
        BY SMTT(40), SMTT(41), <1>0, <1>1, <3>a, <3>4
      <4>2. bt[i] = at[i]
        BY SMTT(40), <2>8, <3>a, <4>1
      <4>3. at[i] = 0 \/ at[i] + Bytes(i - 1) <= at[0]
        BY SMTT(40), <3>0, <4>1
      <4> QED
        BY ZenonT(40), <1>1, <3>a, <4>1, <4>2, <4>3
    <3> QED
      BY SMTT(40), <1>1, <3>a, <3>1, <3>2, <3>3, <3>4
  <2>14. Shifted(at, idx) => Shifted(bt, idx - 1)
    BY <2>13 DEF Shifted
  <2> QED
    BY ZenonT(40), <2>3, <2>11, <2>12, <2>14 DEF g
<1> QED
  BY SMTT(40), <1>2, <1>3


\* rotate begins with a full file: every archive may move on by one.
LEMMA LaidFull ==
  ASSUME NEW f, NEW w \in Seq(Nat), NEW at, Laid(f, w, at), Len(f[0]) = MaxSize, Regular(at)
  PROVE  Shifted(at, Archives)
<1>1. Archives \in Nat /\ MaxSize \in Nat /\ 0 \in 0 .. Archives
  BY LogAssumption
<1>2. at[0] \in Nat /\ at[1] \in Nat /\ at[0] = at[1] + MaxSize
  <2>1. Len(f[0]) = at[0] - at[0 + 1] /\ at[0] \in Nat /\ at[0 + 1] \in Nat
    BY <1>1, LaidTypes
  <2>2. 0 + 1 = 1
    OBVIOUS
  <2> QED
    BY SMTT(40), SMTT(41), <1>1, <2>1, <2>2
<1>3. ASSUME NEW i \in 1 .. Archives + 1 PROVE at[i] = 0 \/ at[i] + Bytes(i) <= at[0]
  <2>1. i - 1 \in Nat /\ (i - 1) + 1 = i /\ i \in 0 .. Archives + 1
    BY <1>1
  <2>2. Bytes(i - 1) \in Nat /\ Bytes(i) = Bytes(i - 1) + MaxSize
    BY ZenonT(40), <2>1, BytesStep
  <2>3. at[i] \in Nat
    BY <2>1, LaidTypes
  <2>4. at[i] = 0 \/ at[i] + Bytes(i - 1) <= at[1]
    BY DEF Regular
  <2> DEFINE x == at[i]
             y == at[0]
             z == at[1]
             m == Bytes(i - 1)
             n == Bytes(i)
  <2>5. x \in Nat /\ y \in Nat /\ z \in Nat /\ y = z + MaxSize /\ m \in Nat /\ n = m + MaxSize
        /\ (x = 0 \/ x + m <= z)
    BY <1>2, <2>2, <2>3, <2>4
  <2> HIDE DEF x, y, z, m, n
  <2>6. x = 0 \/ x + n <= y
    BY SMTT(40), SMTT(41), <1>1, <2>5
  <2> QED
    BY <2>6 DEF x, y, n
<1> QED
  BY SMTT(40), <1>3 DEF Shifted

\* rotate has renamed everything: the new file is empty and the archives lie as
\* they did before the file was full.
LEMMA LaidFresh ==
  ASSUME NEW f, NEW w \in Seq(Nat), NEW at, Laid(f, w, at), f[0] = <<>>, Archives # 0, Shifted(at, 0)
  PROVE  Regular(at)
<1>1. Archives \in Nat /\ 0 \in 0 .. Archives
  BY SMTT(40), SMTT(41), LogAssumption
<1>2. at[0] = at[1]
  <2>1. Len(f[0]) = at[0] - at[0 + 1] /\ at[0] \in Nat /\ at[0 + 1] \in Nat
    BY SMTT(40), <1>1, LaidTypes
  <2>2. 0 + 1 = 1 /\ Len(<<>>) = 0
    OBVIOUS
  <2> QED
    BY SMTT(40), SMTT(41), <2>1, <2>2
<1>3. ASSUME NEW i \in 1 .. Archives + 1 PROVE at[i] = 0 \/ at[i] + Bytes(i - 1) <= at[1]
  <2>1. ~(0 = Archives \/ i <= 0)
    BY <1>1
  <2> QED
    BY <1>2, <2>1 DEF Shifted
<1> QED
  BY <1>3 DEF Regular

\* Without archives the file is cut to nothing, and everything before is lost.
LEMMA LaidCut ==
  ASSUME NEW g, NEW w \in Seq(Nat), Archives = 0, g[0] = <<>>
  PROVE  \E bt \in [0 .. Archives + 1 -> 0 .. Len(w)] : Laid(g, w, bt) /\ TwoFull(g, bt) /\ Regular(bt)
<1> DEFINE bt == [i \in 0 .. Archives + 1 |-> Len(w)]
<1>1. Len(w) \in Nat /\ Bytes(0) = 0
  BY BytesStep
<1>2. bt \in [0 .. Archives + 1 -> 0 .. Len(w)] /\ \A i \in 0 .. Archives + 1 : bt[i] = Len(w)
  BY <1>1
<1> HIDE DEF bt
<1>3. ASSUME NEW i \in 0 .. Archives
      PROVE  Len(g[i]) = bt[i] - bt[i + 1] /\ \A j \in 1 .. Len(g[i]) : g[i][j] = w[bt[i + 1] + j]
  <2>1. i = 0 /\ i + 1 \in 0 .. Archives + 1 /\ i \in 0 .. Archives + 1
    OBVIOUS
  <2>2. Len(g[i]) = 0
    BY <2>1
  <2>3. bt[i] - bt[i + 1] = 0
    BY <1>1, <1>2, <2>1
  <2>4. 1 .. Len(g[i]) = {}
    BY SMTT(40), SMTT(41), <2>2
  <2> QED
    BY <2>2, <2>3, <2>4
<1>4. Laid(g, w, bt)
  <2>1. 0 \in 0 .. Archives + 1
    OBVIOUS
  <2>2. \A i, k \in 0 .. Archives + 1 : i <= k => bt[k] <= bt[i]
    BY <1>1, <1>2
  <2>3. 1 .. Archives = {}
    OBVIOUS
  <2>4. Covers(w, bt)
    <3>1. Archives + 1 \in 0 .. Archives + 1
      OBVIOUS
    <3> QED
      BY <1>1, <1>2, <3>1 DEF Covers
  <2> QED
    BY <1>2, <1>3, <2>1, <2>2, <2>3, <2>4 DEF Laid
<1>5. Regular(bt)
  <2> SUFFICES ASSUME NEW i \in 1 .. Archives + 1 PROVE bt[i] + Bytes(i - 1) <= bt[1]
      BY DEF Regular
  <2>1. i = 1 /\ i - 1 = 0 /\ 1 \in 0 .. Archives + 1
    OBVIOUS
  <2> QED
    BY <1>1, <1>2, <2>1
<1> QED
  BY <1>2, <1>4, <1>5 DEF TwoFull

\* A step that leaves the files of a stream alone and does not end a rotation
\* of it, unless by breaking it off.
LEMMA StreamFrame ==
  ASSUME NEW s \in Streams, Placed(s), files'[s] = files[s], wrote'[s] = wrote[s], ~Turning(s)',
         s \notin torn' => s \notin torn /\ ~Turning(s)
  PROVE  Turned(s)' /\ Placed(s)'
<1>1. Turned(s)'
  BY SMTT(40) DEF Turned
<1>2. PICK at \in [0 .. Archives + 1 -> 0 .. Len(wrote[s])] :
        /\ Laid(files[s], wrote[s], at) /\ TwoFull(files[s], at)
        /\ s \notin torn => IF Turning(s) THEN Shifted(at, index) ELSE Regular(at)
  BY ZenonT(40) DEF Placed
<1>3. s \notin torn' => Regular(at)
  BY ZenonT(40), <1>2
<1>4. /\ at \in [0 .. Archives + 1 -> 0 .. Len(wrote'[s])]
      /\ Laid(files'[s], wrote'[s], at) /\ TwoFull(files'[s], at)
      /\ s \notin torn' => IF Turning(s)' THEN Shifted(at, index') ELSE Regular(at)
  BY ZenonT(40), <1>2, <1>3
<1> QED
  BY ZenonT(40), <1>1, <1>4 DEF Placed

\* Steps that write nothing, and keep or drop the text in hand.
LEMMA NumberedFrame ==
  ASSUME Numbered, UNCHANGED <<wrote, next, stream>>, text' = text \/ text' = <<>>
  PROVE  Numbered'
<1>1. CASE text' = text
  BY ZenonT(40), <1>1 DEF Numbered, Ordered
<1>2. CASE text' = <<>>
  <2>1. DOMAIN text' = {}
    BY SMTT(40), SMTT(41), <1>2
  <2> QED
    BY <2>1 DEF Numbered, Ordered
<1> QED
  BY ZenonT(40), <1>1, <1>2


\* n bytes have been read: they are newer than all that was written.
LEMMA NumberedOutput ==
  ASSUME Numbered, Types, NEW s \in Streams, NEW n \in Nat, Output(s, n)
  PROVE  Numbered'
<1>1. next' = next + n /\ wrote' = wrote /\ next \in Nat
      /\ (text' = <<>> \/ text' = [i \in 1 .. n |-> next + i])
  BY DEF Output, Types
<1>2. stream' \in Streams
  BY ZenonT(40) DEF Output
<1>3. ASSUME NEW r \in Streams, NEW p \in DOMAIN wrote[r]
      PROVE  wrote[r][p] \in Nat /\ wrote[r][p] <= next /\ wrote[r][p] <= next + n
  <2>1. wrote[r] \in Seq(Nat) /\ wrote[r][p] <= next
    BY ZenonT(40) DEF Numbered
  <2>2. wrote[r][p] \in Nat
    BY SMTT(40), SMTT(41), <2>1
  <2> QED
    BY SMTT(40), SMTT(41), <1>1, <2>1, <2>2
<1>4. Ordered(text') /\ \A j \in DOMAIN text' : text'[j] \in Nat /\ text'[j] <= next + n /\ next < text'[j]
  <2>1. CASE text' = <<>>
    BY <2>1 DEF Ordered
  <2>2. CASE text' = [i \in 1 .. n |-> next + i]
    BY SMTT(40), SMTT(41), <1>1, <2>2 DEF Ordered
  <2> QED
    BY <1>1, <2>1, <2>2
<1>5. ASSUME NEW j \in DOMAIN text', NEW p \in DOMAIN wrote[stream'] PROVE wrote[stream'][p] < text'[j]
  <2> DEFINE x == wrote[stream'][p]
             y == text'[j]
  <2>1. x \in Nat /\ x <= next /\ y \in Nat /\ next < y
    BY <1>2, <1>3, <1>4
  <2> HIDE DEF x, y
  <2>2. x < y
    BY SMTT(40), SMTT(41), <1>1, <2>1
  <2> QED
    BY ZenonT(40), <2>2 DEF x, y
<1> QED
  BY ZenonT(40), <1>1, <1>3, <1>4, <1>5 DEF Numbered, Ordered

\* Bytes behind bytes
LEMMA Behind ==
  ASSUME NEW a \in Seq(Nat), NEW b \in Seq(Nat)
  PROVE  /\ a \o b \in Seq(Nat) /\ Len(a \o b) = Len(a) + Len(b)
         /\ \A p \in 1 .. Len(a) : (a \o b)[p] = a[p]
         /\ \A j \in 1 .. Len(b) : (a \o b)[Len(a) + j] = b[j]
<1>1. Len(a) \in Nat /\ Len(b) \in Nat
  OBVIOUS
<1>2. a \o b \in Seq(Nat) /\ Len(a \o b) = Len(a) + Len(b)
  OBVIOUS
<1>3. ASSUME NEW p \in 1 .. Len(a) PROVE (a \o b)[p] = a[p]
  OBVIOUS
<1>4. ASSUME NEW j \in 1 .. Len(b) PROVE (a \o b)[Len(a) + j] = b[j]
  <2>1. Len(a) + j \in 1 .. Len(a) + Len(b) /\ ~(Len(a) + j <= Len(a)) /\ (Len(a) + j) - Len(a) = j
    BY SMTT(40), <1>1
  <2> QED
    BY <1>1, <2>1
<1> QED
  BY ZenonT(40), <1>2, <1>3, <1>4

\* The first n bytes in hand go behind those written.
LEMMA OrderedMove ==
  ASSUME NEW w \in Seq(Nat), NEW t \in Seq(Nat), NEW n \in 1 .. Len(t), NEW m \in Nat,
         Ordered(w), Ordered(t), \A p \in DOMAIN w : w[p] <= m,
         \A j \in DOMAIN t : t[j] <= m /\ \A p \in DOMAIN w : w[p] < t[j]
  PROVE  LET v == w \o SubSeq(t, 1, n)
             u == SubSeq(t, n + 1, Len(t))
         IN  /\ v \in Seq(Nat) /\ Ordered(v) /\ \A p \in DOMAIN v : v[p] <= m
             /\ Ordered(u) /\ \A j \in DOMAIN u : u[j] <= m /\ \A p \in DOMAIN v : v[p] < u[j]
<1> DEFINE part == SubSeq(t, 1, n)
           v == w \o part
           u == SubSeq(t, n + 1, Len(t))
<1>0. Len(t) \in Nat /\ n \in Nat /\ n <= Len(t) /\ Len(w) \in Nat /\ DOMAIN t = 1 .. Len(t) /\ DOMAIN w = 1 .. Len(w)
  BY SMTT(40), SMTT(41)
<1>1. part \in Seq(Nat) /\ Len(part) = n /\ \A j \in 1 .. n : part[j] = t[j]
  BY SMTT(40), <1>0
<1>2. u \in Seq(Nat) /\ Len(u) = Len(t) - n /\ \A j \in 1 .. Len(u) : u[j] = t[n + j]
  <2> DEFINE a == n + 1
             b == Len(t)
  <2>1. a \in Nat /\ b \in Nat /\ 1 <= a /\ a <= b + 1 /\ b = Len(t) /\ b - a + 1 = Len(t) - n
    BY <1>0
  <2>2. u = SubSeq(t, a, b)
    OBVIOUS
  <2> HIDE DEF a, b, u
  <2>3. u \in Seq(Nat) /\ Len(u) = b - a + 1
    BY SMTT(40), SMTT(41), <2>1, <2>2
  <2>4. \A j \in 1 .. Len(u) : u[j] = t[a + j - 1]
    BY <2>1, <2>2, <2>3
  <2>5. ASSUME NEW j \in 1 .. Len(u) PROVE a + j - 1 = n + j
    BY <1>0, <2>1, <2>3 DEF a
  <2> QED
    BY ZenonT(40), <2>1, <2>3, <2>4, <2>5
<1> HIDE DEF part, u
<1>3. /\ v \in Seq(Nat) /\ Len(v) = Len(w) + n
      /\ \A p \in 1 .. Len(w) : v[p] = w[p]
      /\ \A j \in 1 .. n : v[Len(w) + j] = part[j]
  BY ZenonT(40), <1>1, Behind
<1> HIDE DEF v
<1>4. ASSUME NEW p \in 1 .. Len(v)
      PROVE  \/ p \in 1 .. Len(w) /\ v[p] = w[p]
             \/ p - Len(w) \in 1 .. n /\ p - Len(w) \in 1 .. Len(t) /\ v[p] = t[p - Len(w)]
  <2>1. CASE p <= Len(w)
    BY SMTT(40), <1>0, <1>3, <2>1
  <2>2. CASE p > Len(w)
    <3>1. p - Len(w) \in 1 .. n /\ Len(w) + (p - Len(w)) = p /\ p - Len(w) \in 1 .. Len(t)
      BY SMTT(40), SMTT(41), <1>0, <1>3, <2>2
    <3> QED
      BY ZenonT(40), <1>1, <1>3, <3>1
  <2> QED
    BY SMTT(40), SMTT(41), <1>0, <1>3, <2>1, <2>2
<1>5. ASSUME NEW j \in 1 .. Len(u) PROVE n + j \in 1 .. Len(t) /\ u[j] = t[n + j] /\ j \in Nat
  BY <1>0, <1>2
<1>6. DOMAIN v = 1 .. Len(v) /\ DOMAIN u = 1 .. Len(u) /\ Len(v) \in Nat /\ Len(u) \in Nat
  BY <1>2, <1>3
<1>7. ASSUME NEW p \in 1 .. Len(v) PROVE v[p] <= m
  BY ZenonT(40), <1>0, <1>4
<1>8. ASSUME NEW p \in 1 .. Len(v), NEW q \in 1 .. Len(v), p < q PROVE v[p] < v[q]
  <2>1. CASE q \in 1 .. Len(w) /\ v[q] = w[q]
    <3>1. p \in 1 .. Len(w)
      BY <1>0, <1>6, <1>8, <2>1
    <3>2. v[p] = w[p]
      BY ZenonT(40), <1>3, <3>1
    <3> QED
      BY ZenonT(40), <1>0, <1>8, <2>1, <3>1, <3>2 DEF Ordered
  <2>2. CASE q - Len(w) \in 1 .. Len(t) /\ v[q] = t[q - Len(w)]
    <3>1. CASE p \in 1 .. Len(w) /\ v[p] = w[p]
      BY ZenonT(40), <1>0, <2>2, <3>1
    <3>2. CASE p - Len(w) \in 1 .. Len(t) /\ v[p] = t[p - Len(w)]
      <4>1. p - Len(w) < q - Len(w)
        BY <1>0, <1>6, <1>8
      <4> QED
        BY ZenonT(40), <1>0, <2>2, <3>2, <4>1 DEF Ordered
    <3> QED
      BY <1>4, <3>1, <3>2
  <2> QED
    BY ZenonT(40), <1>4, <2>1, <2>2
<1>9. ASSUME NEW j \in 1 .. Len(u), NEW k \in 1 .. Len(u), j < k PROVE u[j] < u[k]
  <2>1. n + j < n + k
    BY <1>0, <1>5, <1>9
  <2> QED
    BY ZenonT(40), <1>0, <1>5, <2>1 DEF Ordered
<1>10. ASSUME NEW j \in 1 .. Len(u) PROVE u[j] <= m
  BY ZenonT(40), <1>0, <1>5
<1>11. ASSUME NEW j \in 1 .. Len(u), NEW p \in 1 .. Len(v) PROVE v[p] < u[j]
  <2>1. CASE p \in 1 .. Len(w) /\ v[p] = w[p]
    BY ZenonT(40), <1>0, <1>5, <2>1
  <2>2. CASE p - Len(w) \in 1 .. n /\ p - Len(w) \in 1 .. Len(t) /\ v[p] = t[p - Len(w)]
    <3>1. p - Len(w) < n + j
      BY <1>0, <1>5, <2>2
    <3> QED
      BY ZenonT(40), <1>0, <1>5, <2>2, <3>1 DEF Ordered
  <2> QED
    BY <1>4, <2>1, <2>2
<1>12. Ordered(v) /\ Ordered(u)
  BY ZenonT(40), <1>6, <1>8, <1>9 DEF Ordered
<1> QED
  BY ZenonT(40), <1>3, <1>6, <1>7, <1>10, <1>11, <1>12 DEF v, u, part


\* A part of the bytes in hand
LEMMA Front ==
  ASSUME NEW t \in Seq(Nat), NEW n \in 1 .. Len(t)
  PROVE  SubSeq(t, 1, n) \in Seq(Nat)
<1>1. n \in Nat /\ n <= Len(t)
  OBVIOUS
<1> QED
  BY <1>1

\* A file with other contents
LEMMA Refilled ==
  ASSUME NEW f \in [0 .. Archives -> Seq(Nat)], NEW h \in Seq(Nat), NEW g, g = [f EXCEPT ![0] = h]
  PROVE  g \in [0 .. Archives -> Seq(Nat)] /\ g[0] = h /\ \A i \in 1 .. Archives : g[i] = f[i]
<1>1. Archives \in Nat /\ 0 \in 0 .. Archives
  BY LogAssumption
<1>2. \A i \in 1 .. Archives : i \in 0 .. Archives /\ i # 0
  BY SMTT(40), SMTT(41), <1>1
<1> QED
  BY ZenonT(40), <1>1, <1>2

\* What the invariant says of the stream in hand
LEMMA InHand ==
  ASSUME NewestInv
  PROVE  /\ stream \in Streams /\ files \in [Streams -> [0 .. Archives -> Seq(Nat)]]
         /\ wrote \in [Streams -> Seq(Nat)] /\ text \in Seq(Nat) /\ next \in Nat /\ index \in 0 .. Archives
         /\ files[stream] \in [0 .. Archives -> Seq(Nat)] /\ wrote[stream] \in Seq(Nat)
         /\ pc = "append" => size[stream] = Len(files[stream][0]) /\ Len(files[stream][0]) \in Nat
         /\ Len(files[stream][0]) <= MaxSize
         /\ Archives \in Nat /\ MaxSize \in Nat \ {0} /\ 0 \in 0 .. Archives
<1>1. Types /\ Health /\ CallInv /\ Sizes /\ Numbered
  BY DEF NewestInv, IInv
<1>2. /\ stream \in Streams /\ files \in [Streams -> [0 .. Archives -> Seq(Nat)]]
      /\ text \in Seq(Nat) /\ next \in Nat /\ index \in 0 .. Archives
      /\ pc \in {"idle", "open", "siblings", "append", "rotate"}
  BY <1>1 DEF Types
<1>3. wrote \in [Streams -> Seq(Nat)]
  BY ZenonT(40), <1>1 DEF Numbered
<1>4. Archives \in Nat /\ MaxSize \in Nat \ {0} /\ 0 \in 0 .. Archives
  BY LogAssumption
<1>5. files[stream] \in [0 .. Archives -> Seq(Nat)] /\ wrote[stream] \in Seq(Nat)
  BY SMTT(40), <1>2, <1>3
<1>6. Len(files[stream][0]) \in Nat
  BY <1>4, <1>5
<1>7. pc = "append" => open[stream]
  BY <1>1 DEF Health, CallInv
<1>8. (pc = "append" => size[stream] = Len(files[stream][0])) /\ Len(files[stream][0]) <= MaxSize
  BY ZenonT(40), <1>1, <1>2, <1>4, <1>7 DEF Sizes
<1> QED
  BY <1>2, <1>3, <1>4, <1>5, <1>6, <1>8

\* Another stream than the one in hand
LEMMA OtherStreams ==
  ASSUME NewestInv, UNCHANGED <<stream, torn>>, NEW s \in Streams, s # stream,
         files'[s] = files[s], wrote'[s] = wrote[s]
  PROVE  Turned(s)' /\ Placed(s)'
<1>1. Placed(s)
  BY ZenonT(40) DEF NewestInv
<1>2. ~Turning(s) /\ ~Turning(s)'
  BY DEF Turning
<1> QED
  BY ZenonT(40), <1>1, <1>2, StreamFrame

\* What the layout assures: all the archives take if no rotation was broken off,
\* two full files if one was.
LEMMA AssuredIsHeld ==
  ASSUME NewestInv, NEW s \in Streams, NEW at \in [0 .. Archives + 1 -> 0 .. Len(wrote[s])],
         Laid(files[s], wrote[s], at), TwoFull(files[s], at),
         s \notin torn => IF Turning(s) THEN Shifted(at, index) ELSE Regular(at)
  PROVE  /\ Assured(s) \in Nat /\ at[Archives + 1] \in Nat
         /\ at[Archives + 1] = 0 \/ at[Archives + 1] + Assured(s) <= Len(wrote[s])
<1> DEFINE lost == at[Archives + 1]
           n == Len(wrote[s])
<1>0. /\ Archives \in Nat /\ MaxSize \in Nat \ {0} /\ index \in 0 .. Archives
      /\ files[s] \in [0 .. Archives -> Seq(Nat)] /\ wrote[s] \in Seq(Nat)
  BY ZenonT(40), InHand
<1>1. /\ n \in Nat /\ lost \in Nat /\ at[1] \in Nat /\ at[1] <= n /\ at[0] = n
      /\ Archives + 1 \in 1 .. Archives + 1 /\ (Archives + 1) - 1 = Archives
  <2>1. Archives + 1 \in 0 .. Archives + 1 /\ 1 \in 0 .. Archives + 1
    BY SMTT(40), SMTT(41), <1>0
  <2>2. /\ at[0] = n /\ n \in Nat
        /\ \A i \in 0 .. Archives + 1 : at[i] \in Nat /\ at[i] <= n
    BY ZenonT(40), <1>0, LaidTypes
  <2> QED
    BY SMTT(40), SMTT(41), <1>0, <2>1, <2>2
<1>2. Min2(Archives, 2) \in Nat
  BY SMTT(40), <1>0 DEF Min2
<1>3. Assured(s) \in Nat
  <2>1. \A k \in Nat : MaxSize * k \in Nat
    BY SMTT(40), SMTT(41), <1>0
  <2> QED
    BY ZenonT(40), <1>0, <1>2, <2>1 DEF Assured
<1>4. CASE s \in torn
  <2>1. Assured(s) = MaxSize * Min2(Archives, 2)
    BY SMTT(40), <1>4 DEF Assured
  <2>2. lost > 0 => lost + MaxSize * Min2(Archives, 2) <= n
    BY ZenonT(40), <1>0, TwoFullSize
  <2>3. lost = 0 \/ lost > 0
    BY SMTT(40), SMTT(41), <1>1
  <2> QED
    BY ZenonT(40), <1>1, <1>3, <2>1, <2>2, <2>3
<1>5. CASE s \notin torn
  <2>1. Assured(s) = Bytes(Archives) /\ Bytes(Archives) \in Nat /\ Bytes(Archives + 1) = Bytes(Archives) + MaxSize
    <3>1. Bytes(Archives) \in Nat /\ Bytes(Archives + 1) = Bytes(Archives) + MaxSize
      BY ZenonT(40), <1>0, BytesStep
    <3>2. MaxSize * Archives = Archives * MaxSize
      BY SMTT(40), SMTT(41), <1>0
    <3> QED
      BY SMTT(40), <1>5, <3>1, <3>2 DEF Assured, Bytes
  <2>2. CASE Turning(s)
    <3>1. lost = 0 \/ lost + Bytes(IF index = Archives \/ Archives + 1 <= index THEN Archives + 1 ELSE (Archives + 1) - 1) <= at[0]
      BY ZenonT(40), <1>1, <1>5, <2>2 DEF Shifted
    <3>2. lost = 0 \/ lost + Bytes(Archives) <= n \/ lost + Bytes(Archives + 1) <= n
      BY SMTT(40), <1>1, <3>1
    <3> DEFINE a == Bytes(Archives)
               b == Bytes(Archives + 1)
    <3>3. a \in Nat /\ b = a + MaxSize /\ (lost = 0 \/ lost + a <= n \/ lost + b <= n)
      BY ZenonT(40), <2>1, <3>2
    <3> HIDE DEF a, b, lost, n
    <3>4. lost = 0 \/ lost + a <= n
      BY SMTT(40), SMTT(41), <1>0, <1>1, <3>3
    <3> QED
      BY ZenonT(40), <1>1, <1>3, <2>1, <3>4 DEF a, lost, n
  <2>3. CASE ~Turning(s)
    <3>1. lost = 0 \/ lost + Bytes((Archives + 1) - 1) <= at[1]
      BY ZenonT(40), <1>1, <1>5, <2>3 DEF Regular
    <3> DEFINE a == Bytes(Archives)
               x == at[1]
    <3>2. a \in Nat /\ x \in Nat /\ x <= n /\ (lost = 0 \/ lost + a <= x)
      BY ZenonT(40), <1>1, <2>1, <3>1
    <3> HIDE DEF a, x, lost, n
    <3>3. lost = 0 \/ lost + a <= n
      BY SMTT(40), SMTT(41), <1>1, <3>2
    <3> QED
      BY <1>1, <1>3, <2>1, <3>3 DEF a, lost, n
  <2> QED
    BY ZenonT(40), <2>2, <2>3
<1> QED
  BY ZenonT(40), <1>4, <1>5

\* append: one ::write
LEMMA NewestWrite ==
  ASSUME NewestInv, pc = "append", Room > 0, NEW n \in 1 .. Min2(Len(text), Room),
         files' = [files EXCEPT ![stream][0] = @ \o SubSeq(text, 1, n)],
         wrote' = [wrote EXCEPT ![stream] = @ \o SubSeq(text, 1, n)],
         text' = SubSeq(text, n + 1, Len(text)), pc' \in {"idle", "append"}, UNCHANGED <<stream, next, torn>>
  PROVE  Numbered' /\ \A s \in Streams : Turned(s)' /\ Placed(s)'
<1> DEFINE f == files[stream]
           w == wrote[stream]
           part == SubSeq(text, 1, n)
           h == f[0] \o part
           g == [f EXCEPT ![0] = h]
<1>0. /\ stream \in Streams /\ files \in [Streams -> [0 .. Archives -> Seq(Nat)]]
      /\ wrote \in [Streams -> Seq(Nat)] /\ text \in Seq(Nat) /\ next \in Nat
      /\ f \in [0 .. Archives -> Seq(Nat)] /\ w \in Seq(Nat)
      /\ size[stream] = Len(f[0]) /\ Len(f[0]) \in Nat /\ Len(f[0]) <= MaxSize
      /\ Archives \in Nat /\ MaxSize \in Nat \ {0} /\ 0 \in 0 .. Archives
  BY ZenonT(40), InHand
<1>1. Len(f[0]) # MaxSize /\ n \in 1 .. Len(text)
  <2>1. Len(text) \in Nat /\ Room = MaxSize - Len(f[0]) /\ Room \in Nat
    BY <1>0 DEF Room, Min2
  <2>2. n \in Nat /\ n <= Len(text) /\ n >= 1
    BY SMTT(40), SMTT(41), <2>1 DEF Min2
  <2> QED
    BY SMTT(40), SMTT(41), <1>0, <2>1, <2>2
<1>2. part \in Seq(Nat)
  BY Zenon, <1>0, <1>1, Front
<1>3. files' = [files EXCEPT ![stream] = g] /\ wrote' = [wrote EXCEPT ![stream] = w \o part]
  OBVIOUS
<1>4. g \in [0 .. Archives -> Seq(Nat)] /\ g[0] = f[0] \o part /\ \A i \in 1 .. Archives : g[i] = f[i]
  <2>1. f[0] \in Seq(Nat)
    BY <1>0
  <2>2. h \in Seq(Nat)
    BY <1>2, <2>1, Behind
  <2>3. g = [f EXCEPT ![0] = h]
    BY ZenonT(40)
  <2> HIDE DEF part, f, h, g
  <2>4. f \in [0 .. Archives -> Seq(Nat)] /\ Archives \in Nat /\ 0 \in 0 .. Archives
    BY ZenonT(40), <1>0
  <2>5. g \in [0 .. Archives -> Seq(Nat)] /\ g[0] = h /\ \A i \in 1 .. Archives : g[i] = f[i]
    BY SMTT(40), SMTT(41), <2>2, <2>3, <2>4, Refilled
  <2> QED
    BY ZenonT(40), <2>5 DEF h
<1>5. /\ Ordered(w) /\ \A p \in DOMAIN w : w[p] <= next
      /\ Ordered(text)
      /\ \A j \in DOMAIN text : text[j] <= next /\ \A p \in DOMAIN w : w[p] < text[j]
  BY ZenonT(40), <1>0 DEF NewestInv, Numbered
<1> DEFINE v == w \o part
           u == SubSeq(text, n + 1, Len(text))
<1>6. /\ v \in Seq(Nat) /\ Ordered(v) /\ \A p \in DOMAIN v : v[p] <= next
      /\ Ordered(u) /\ \A j \in DOMAIN u : u[j] <= next /\ \A p \in DOMAIN v : v[p] < u[j]
  <2> HIDE DEF w
  <2> QED
    BY Zenon, <1>0, <1>1, <1>5, OrderedMove
<1>7. /\ files'[stream] = g /\ wrote'[stream] = v /\ text' = u
      /\ \A s \in Streams : s # stream => files'[s] = files[s] /\ wrote'[s] = wrote[s]
  <2> HIDE DEF g, v
  <2> QED
    BY ZenonT(40), <1>0, <1>3 DEF v
<1>8. wrote' \in [Streams -> Seq(Nat)]
  <2> HIDE DEF v
  <2> QED
    BY ZenonT(40), <1>0, <1>3, <1>6 DEF v
<1> HIDE DEF g, v, u, f, w, part
<1>9. Numbered'
  <2>1. ASSUME NEW s \in Streams PROVE Ordered(wrote'[s]) /\ \A p \in DOMAIN wrote'[s] : wrote'[s][p] <= next
    <3>1. CASE s = stream
      BY ZenonT(40), <1>6, <1>7, <3>1
    <3>2. CASE s # stream
      BY <1>7, <3>2 DEF NewestInv, Numbered
    <3> QED
      BY ZenonT(40), <3>1, <3>2
  <2>2. Ordered(text') /\ \A j \in DOMAIN text' : text'[j] <= next /\ \A p \in DOMAIN wrote'[stream] : wrote'[stream][p] < text'[j]
    BY ZenonT(40), <1>6, <1>7
  <2> QED
    BY ZenonT(40), <1>8, <2>1, <2>2 DEF Numbered
<1>10. Turned(stream)' /\ Placed(stream)'
  <2>1. PICK at \in [0 .. Archives + 1 -> 0 .. Len(w)] :
          /\ Laid(f, w, at) /\ TwoFull(f, at)
          /\ stream \notin torn => IF Turning(stream) THEN Shifted(at, index) ELSE Regular(at)
    BY ZenonT(40), <1>0 DEF NewestInv, Placed, f, w
  <2>2. ~Turning(stream) /\ ~Turning(stream)'
    BY DEF Turning
  <2>3. PICK bt \in [0 .. Archives + 1 -> 0 .. Len(w \o part)] :
          Laid(g, w \o part, bt) /\ TwoFull(g, bt) /\ (Regular(at) => Regular(bt))
    BY ZenonT(40), <1>0, <1>1, <1>2, <1>4, <2>1, LaidWrite
  <2>4. /\ bt \in [0 .. Archives + 1 -> 0 .. Len(wrote'[stream])]
        /\ Laid(files'[stream], wrote'[stream], bt) /\ TwoFull(files'[stream], bt)
        /\ stream \notin torn' => Regular(bt)
    BY ZenonT(40), <1>7, <2>1, <2>2, <2>3 DEF v
  <2> QED
    BY ZenonT(40), <2>2, <2>4 DEF Placed, Turned
<1> QED
  BY ZenonT(40), <1>7, <1>9, <1>10, OtherStreams


\* append finds the file full and begins a rotation.
LEMMA NewestFull ==
  ASSUME NewestInv, Full
  PROVE  Numbered' /\ \A s \in Streams : Turned(s)' /\ Placed(s)'
<1>0. /\ stream \in Streams /\ files[stream] \in [0 .. Archives -> Seq(Nat)] /\ wrote[stream] \in Seq(Nat)
      /\ pc = "append" => size[stream] = Len(files[stream][0]) /\ Len(files[stream][0]) \in Nat
      /\ Len(files[stream][0]) <= MaxSize
      /\ Archives \in Nat /\ MaxSize \in Nat \ {0}
  BY InHand
<1>1. pc = "append" /\ Room = 0 /\ pc' = "rotate" /\ index' = Archives
      /\ UNCHANGED <<files, stream, text, next, wrote, torn>>
  BY ZenonT(40) DEF Full, history, bounds
<1>2. Len(files[stream][0]) = MaxSize
  BY <1>0, <1>1 DEF Room, Min2
<1>3. Numbered'
  BY ZenonT(40), <1>1, NumberedFrame DEF NewestInv
<1>4. Turned(stream)'
  BY SMTT(40), <1>0, <1>1, <1>2 DEF Turned
<1>5. Placed(stream)'
  <2>1. PICK at \in [0 .. Archives + 1 -> 0 .. Len(wrote[stream])] :
          /\ Laid(files[stream], wrote[stream], at) /\ TwoFull(files[stream], at)
          /\ stream \notin torn => IF Turning(stream) THEN Shifted(at, index) ELSE Regular(at)
    BY ZenonT(40), <1>0 DEF NewestInv, Placed
  <2>2. ~Turning(stream) /\ Turning(stream)'
    BY ZenonT(40), <1>1 DEF Turning
  <2>3. stream \notin torn => Shifted(at, Archives)
    BY ZenonT(40), <1>0, <1>2, <2>1, <2>2, LaidFull
  <2> QED
    BY ZenonT(40), <1>1, <2>1, <2>2, <2>3 DEF Placed
<1> QED
  BY ZenonT(40), <1>1, <1>3, <1>4, <1>5, OtherStreams

\* A rename of a file that is not the newest leaves the newest alone, and every
\* rename leaves its source missing.
LEMMA RenamedFiles ==
  ASSUME NEW f \in [0 .. Archives -> Seq(Nat)], NEW idx \in 1 .. Archives
  PROVE  /\ renamed(f, idx) \in [0 .. Archives -> Seq(Nat)] /\ renamed(f, idx)[idx - 1] = <<>>
         /\ idx > 1 => renamed(f, idx)[0] = f[0]
<1>1. idx - 1 \in 0 .. Archives /\ idx \in 0 .. Archives /\ idx # idx - 1 /\ 0 \in 0 .. Archives
      /\ (idx > 1 => 0 # idx - 1) /\ 0 # idx
  BY SMTT(40), SMTT(41), LogAssumption
<1>2. CASE f[idx - 1] = <<>>
  BY ZenonT(40), <1>2 DEF renamed
<1>3. CASE f[idx - 1] # <<>>
  <2>1. renamed(f, idx) = [f EXCEPT ![idx] = f[idx - 1], ![idx - 1] = <<>>]
    BY <1>3 DEF renamed
  <2>2. f[idx - 1] \in Seq(Nat) /\ <<>> \in Seq(Nat)
    BY SMTT(40), SMTT(41), <1>1
  <2> QED
    BY <1>1, <2>1, <2>2
<1> QED
  BY ZenonT(40), <1>2, <1>3

\* rotate: one rename
LEMMA NewestRename ==
  ASSUME NewestInv, pc = "rotate", index > 0, files' = [files EXCEPT ![stream] = renamed(@, index)],
         index' = index - 1, UNCHANGED <<pc, text, torn, stream, next, wrote>>
  PROVE  Numbered' /\ \A s \in Streams : Turned(s)' /\ Placed(s)'
<1> DEFINE f == files[stream]
           w == wrote[stream]
           g == renamed(f, index)
<1>0. /\ stream \in Streams /\ files \in [Streams -> [0 .. Archives -> Seq(Nat)]] /\ index \in 0 .. Archives
      /\ f \in [0 .. Archives -> Seq(Nat)] /\ w \in Seq(Nat) /\ Archives \in Nat
  BY InHand
<1>1. index \in 1 .. Archives
  BY <1>0
<1>2. files'[stream] = g /\ \A s \in Streams : s # stream => files'[s] = files[s]
  <2>1. files' = [files EXCEPT ![stream] = g]
    BY ZenonT(40)
  <2> HIDE DEF g
  <2> QED
    BY <1>0, <2>1
<1>3. Len(f[0]) = MaxSize /\ (index < Archives => f[index] = <<>>)
  BY SMTT(40), <1>0 DEF NewestInv, Turned, Turning
<1>4. g[index - 1] = <<>> /\ (index > 1 => g[0] = f[0])
  BY ZenonT(40), <1>0, <1>1, RenamedFiles
<1>5. Numbered'
  BY ZenonT(40), NumberedFrame DEF NewestInv
<1> HIDE DEF g, f, w
<1>6. Turned(stream)'
  <2>1. index' > 0 => index > 1
    BY SMTT(40), <1>1
  <2> QED
    BY <1>2, <1>3, <1>4, <2>1 DEF Turned
<1>7. Placed(stream)'
  <2>1. PICK at \in [0 .. Archives + 1 -> 0 .. Len(w)] :
          /\ Laid(f, w, at) /\ TwoFull(f, at)
          /\ stream \notin torn => IF Turning(stream) THEN Shifted(at, index) ELSE Regular(at)
    BY ZenonT(40), <1>0 DEF NewestInv, Placed, f, w
  <2>2. PICK bt \in [0 .. Archives + 1 -> 0 .. Len(w)] :
          /\ Laid(g, w, bt) /\ TwoFull(g, bt)
          /\ Shifted(at, index) => Shifted(bt, index - 1)
    BY ZenonT(40), <1>0, <1>1, <1>3, <2>1, LaidRename DEF g
  <2>3. Turning(stream) /\ Turning(stream)'
    BY DEF Turning
  <2>4. /\ bt \in [0 .. Archives + 1 -> 0 .. Len(wrote'[stream])]
        /\ Laid(files'[stream], wrote'[stream], bt) /\ TwoFull(files'[stream], bt)
        /\ stream \notin torn' => Shifted(bt, index')
    BY ZenonT(40), <1>2, <2>1, <2>2, <2>3 DEF w
  <2> QED
    BY ZenonT(40), <2>3, <2>4 DEF Placed
<1> QED
  BY ZenonT(40), <1>2, <1>5, <1>6, <1>7, OtherStreams


\* rotate: the new file
LEMMA NewestCreate ==
  ASSUME NewestInv, pc = "rotate", index = 0, pc' = "append",
         files' = IF Archives = 0 THEN [files EXCEPT ![stream][0] = <<>>] ELSE files,
         UNCHANGED <<text, torn, stream, next, wrote>>
  PROVE  Numbered' /\ \A s \in Streams : Turned(s)' /\ Placed(s)'
<1>0. /\ stream \in Streams /\ files \in [Streams -> [0 .. Archives -> Seq(Nat)]]
      /\ files[stream] \in [0 .. Archives -> Seq(Nat)] /\ wrote[stream] \in Seq(Nat)
      /\ Archives \in Nat /\ 0 \in 0 .. Archives
  BY InHand
<1>1. Numbered'
  BY NumberedFrame DEF NewestInv
<1>2. Turning(stream) /\ ~Turning(stream)'
  BY DEF Turning
<1>3. Turned(stream)'
  BY <1>2 DEF Turned
<1>4. Placed(stream)' /\ \A s \in Streams : s # stream => files'[s] = files[s]
  <2>1. CASE Archives = 0
    <3> DEFINE g == [files[stream] EXCEPT ![0] = <<>>]
    <3>1. files' = [files EXCEPT ![stream] = g]
      BY <2>1
    <3>2. g[0] = <<>>
      BY <1>0
    <3> HIDE DEF g
    <3>3. files'[stream] = g /\ \A s \in Streams : s # stream => files'[s] = files[s]
      BY ZenonT(40), <1>0, <3>1
    <3>4. PICK bt \in [0 .. Archives + 1 -> 0 .. Len(wrote[stream])] :
            Laid(g, wrote[stream], bt) /\ TwoFull(g, bt) /\ Regular(bt)
      BY ZenonT(40), <1>0, <2>1, <3>2, LaidCut
    <3> QED
      BY <1>2, <3>3, <3>4 DEF Placed
  <2>2. CASE Archives # 0
    <3>1. files' = files /\ index < Archives
      BY <1>0, <2>2
    <3>2. files[stream][0] = <<>>
      BY SMTT(40), <1>0, <1>2, <3>1 DEF NewestInv, Turned
    <3>3. PICK at \in [0 .. Archives + 1 -> 0 .. Len(wrote[stream])] :
            /\ Laid(files[stream], wrote[stream], at) /\ TwoFull(files[stream], at)
            /\ stream \notin torn => IF Turning(stream) THEN Shifted(at, index) ELSE Regular(at)
      BY ZenonT(40), <1>0 DEF NewestInv, Placed
    <3>4. stream \notin torn => Regular(at)
      BY ZenonT(40), <1>0, <1>2, <2>2, <3>2, <3>3, LaidFresh
    <3> QED
      BY <1>2, <3>1, <3>3, <3>4 DEF Placed
  <2> QED
    BY SMTT(40), <2>1, <2>2
<1> QED
  BY SMTT(40), <1>1, <1>3, <1>4, OtherStreams

\* A step that leaves all files alone and has no rotation under way after it;
\* one that was under way is noted as broken off.
LEMMA NewestFrame ==
  ASSUME NewestInv, UNCHANGED <<files, wrote>>, pc' # "rotate",
         (UNCHANGED torn /\ pc # "rotate") \/ broken_off
  PROVE  \A s \in Streams : Turned(s)' /\ Placed(s)'
<1> SUFFICES ASSUME NEW s \in Streams PROVE Turned(s)' /\ Placed(s)'
    OBVIOUS
<1>1. Placed(s)
  BY DEF NewestInv
<1>2. ~Turning(s)'
  BY DEF Turning
<1>3. s \notin torn' => s \notin torn /\ ~Turning(s)
  BY DEF broken_off, Turning
<1> QED
  BY <1>1, <1>2, <1>3, StreamFrame

\* A failed call
LEMMA NewestFail ==
  ASSUME NewestInv, fail, UNCHANGED <<files, wrote, next, stream>>
  PROVE  Numbered' /\ \A s \in Streams : Turned(s)' /\ Placed(s)'
<1>1. pc' = "idle" /\ text' = <<>> /\ broken_off
  BY DEF fail
<1>2. Numbered'
  BY <1>1, NumberedFrame DEF NewestInv
<1> QED
  BY <1>1, <1>2, NewestFrame

\* Before the first byte the files are empty.
LEMMA NewestInit == Init => NewestInv
<1> SUFFICES ASSUME Init PROVE NewestInv
    OBVIOUS
<1>0. Archives \in Nat
  BY LogAssumption
<1>1. IInv
  BY InitOK
<1>2. /\ wrote = [s \in Streams |-> <<>>] /\ text = <<>> /\ stream \in Streams /\ pc = "idle" /\ next = 0
      /\ files = [s \in Streams |-> [i \in 0 .. Archives |-> <<>>]]
  BY DEF Init
<1>3. Numbered
  <2>1. \A s \in Streams : wrote[s] = <<>> /\ DOMAIN wrote[s] = {}
    <3>1. DOMAIN <<>> = {}
      OBVIOUS
    <3>2. \A s \in Streams : wrote[s] = <<>>
      BY ZenonT(40), <1>2
    <3> QED
      BY Zenon, <3>1, <3>2
  <2>2. wrote \in [Streams -> Seq(Nat)] /\ DOMAIN text = {}
    BY <1>2
  <2> QED
    BY <1>2, <2>1, <2>2 DEF Numbered, Ordered
<1>4. ASSUME NEW s \in Streams PROVE Turned(s) /\ Placed(s)
  <2> DEFINE at == [i \in 0 .. Archives + 1 |-> 0]
  <2>1. /\ at \in [0 .. Archives + 1 -> 0 .. Len(wrote[s])] /\ \A i \in 0 .. Archives + 1 : at[i] = 0
        /\ Len(wrote[s]) = 0
    BY <1>0, <1>2
  <2>2. \A i \in 0 .. Archives : files[s][i] = <<>> /\ Len(files[s][i]) = 0
    BY ZenonT(40), <1>2
  <2> HIDE DEF at
  <2>3. Laid(files[s], wrote[s], at)
    <3>1. ASSUME NEW i \in 0 .. Archives
          PROVE  /\ Len(files[s][i]) = at[i] - at[i + 1]
                 /\ \A j \in 1 .. Len(files[s][i]) : files[s][i][j] = wrote[s][at[i + 1] + j]
      <4>1. i \in 0 .. Archives + 1 /\ i + 1 \in 0 .. Archives + 1
        BY <1>0
      <4>2. at[i] - at[i + 1] = 0
        BY <2>1, <4>1
      <4>3. 1 .. Len(files[s][i]) = {}
        BY <2>2
      <4> QED
        BY <2>2, <4>2, <4>3
    <3>2. 0 \in 0 .. Archives + 1 /\ \A i \in 1 .. Archives : i \in 0 .. Archives
      BY <1>0
    <3>3. at[0] = Len(wrote[s])
      BY <2>1, <3>2
    <3>4. \A i, k \in 0 .. Archives + 1 : i <= k => at[k] <= at[i]
      BY <2>1
    <3>5. Covers(wrote[s], at)
      BY SMTT(40), SMTT(41), <2>1 DEF Covers
    <3> QED
      BY ZenonT(40), <2>1, <2>2, <3>1, <3>2, <3>3, <3>4, <3>5 DEF Laid
  <2>4. TwoFull(files[s], at) /\ Regular(at)
    <3>1. \A i \in 1 .. Archives + 1 : i \in 0 .. Archives + 1
      BY <1>0
    <3>2. Archives + 1 \in 0 .. Archives + 1 /\ ~(0 > 0)
      BY SMTT(40), SMTT(41), <1>0
    <3> QED
      BY <2>1, <3>1, <3>2 DEF TwoFull, Regular
  <2> QED
    BY <1>2, <2>1, <2>3, <2>4 DEF Turned, Placed, Turning
<1> QED
  BY <1>1, <1>3, <1>4 DEF NewestInv

\* Every step keeps the layout.
LEMMA NewestStep == ASSUME NewestInv, [Next]_vars PROVE NewestInv'
<1>0. IInv' /\ Types /\ Numbered
  BY StepOK DEF NewestInv, IInv
<1> SUFFICES Numbered' /\ \A s \in Streams : Turned(s)' /\ Placed(s)'
    BY <1>0 DEF NewestInv
<1>1. CASE init_prog_log \/ close_logfds \/ RetryDue
  <2>1. UNCHANGED <<files, wrote, next, stream, text, pc, torn>> /\ pc = "idle"
    BY <1>1 DEF init_prog_log, close_logfds, RetryDue, call, history, bounds
  <2> QED
    BY ZenonT(40), <1>0, <2>1, NumberedFrame, NewestFrame
<1>2. CASE Crash
  <2>1. UNCHANGED <<files, wrote, next, stream>> /\ text' = <<>> /\ pc' = "idle" /\ broken_off
    BY <1>2 DEF Crash
  <2> QED
    BY <1>0, <2>1, NumberedFrame, NewestFrame
<1>3. ASSUME NEW s \in Streams, NEW n \in 1 .. MaxText, Output(s, n)
      PROVE  Numbered' /\ \A r \in Streams : Turned(r)' /\ Placed(r)'
  <2>1. UNCHANGED <<files, wrote, torn>> /\ pc = "idle" /\ pc' # "rotate"
    BY <1>3 DEF Output
  <2>2. n \in Nat
    BY LogAssumption
  <2> QED
    BY ZenonT(40), <1>0, <1>3, <2>1, <2>2, NumberedOutput, NewestFrame
<1>4. CASE Reopen \/ Siblings
  <2>1. UNCHANGED <<files, wrote, next, stream, torn>> /\ (text' = text \/ text' = <<>>) /\ pc # "rotate" /\ pc' # "rotate"
    BY ZenonT(40), <1>4 DEF Reopen, Siblings, history
  <2> QED
    BY ZenonT(40), <1>0, <2>1, NumberedFrame, NewestFrame
<1>5. CASE Write
  <2>1. CASE fail /\ UNCHANGED <<files, kept, wrote>>
    BY <1>5, <2>1, NewestFail DEF Write
  <2>2. ASSUME NEW n \in 1 .. Min2(Len(text), Room),
               LET part == SubSeq(text, 1, n)
               IN  /\ files' = [files EXCEPT ![stream][0] = @ \o part]
                   /\ wrote' = [wrote EXCEPT ![stream] = @ \o part]
                   /\ text' = SubSeq(text, n + 1, Len(text))
                   /\ pc' = IF n = Len(text) THEN "idle" ELSE "append"
                   /\ UNCHANGED torn
        PROVE  Numbered' /\ \A s \in Streams : Turned(s)' /\ Placed(s)'
    <3>1. pc = "append" /\ Room > 0 /\ UNCHANGED <<stream, next>>
      BY <1>5 DEF Write
    <3>2. pc' \in {"idle", "append"}
      BY <2>2
    <3>3. /\ files' = [files EXCEPT ![stream][0] = @ \o SubSeq(text, 1, n)]
          /\ wrote' = [wrote EXCEPT ![stream] = @ \o SubSeq(text, 1, n)]
          /\ text' = SubSeq(text, n + 1, Len(text)) /\ UNCHANGED torn
      BY <2>2
    <3> QED
      BY ZenonT(40), <3>1, <3>2, <3>3, NewestWrite
  <2> QED
    BY ZenonT(40), <1>5, <2>1, <2>2 DEF Write
<1>6. CASE Full
  BY ZenonT(40), <1>6, NewestFull
<1>7. CASE Rename
  <2>1. CASE fail /\ UNCHANGED <<files, index>>
    BY ZenonT(40), <1>7, <2>1, NewestFail DEF Rename
  <2>2. CASE files' = [files EXCEPT ![stream] = renamed(@, index)] /\ index' = index - 1 /\ UNCHANGED <<pc, text, torn>>
    BY ZenonT(40), <1>7, <2>2, NewestRename DEF Rename
  <2> QED
    BY <1>7, <2>1, <2>2 DEF Rename
<1>8. CASE Create
  <2>1. CASE fail /\ UNCHANGED files
    BY ZenonT(40), <1>8, <2>1, NewestFail DEF Create
  <2>2. CASE /\ files' = IF Archives = 0 THEN [files EXCEPT ![stream][0] = <<>>] ELSE files
             /\ pc' = "append" /\ UNCHANGED <<text, torn>>
    BY <1>8, <2>2, NewestCreate DEF Create
  <2> QED
    BY SMTT(40), <1>8, <2>1, <2>2 DEF Create
<1>9. CASE UNCHANGED vars
  <2>1. UNCHANGED <<files, wrote, next, stream, text, torn, pc, index>>
    BY <1>9 DEF vars, call, bounds, history
  <2>2. Numbered'
    BY SMTT(40), <1>0, <2>1, NumberedFrame
  <2>3. ASSUME NEW s \in Streams PROVE Turned(s)' /\ Placed(s)'
    BY ZenonT(40), <2>1 DEF NewestInv, Turned, Placed, Turning
  <2> QED
    BY <2>2, <2>3
<1> QED
  BY ZenonT(40), <1>1, <1>2, <1>3, <1>4, <1>5, <1>6, <1>7, <1>8, <1>9 DEF Next


\* The files of every stream hold the newest of its output, in order and without
\* a gap, and as much of it as Assured says, after any short writes, failed
\* renames and crashes in a rotation (rotating_log_writer::append, rotate).
THEOREM NewestAreKept == Spec => []FilesKeepTheNewest
<1>1. NewestInv => FilesKeepTheNewest
  <2> SUFFICES ASSUME NewestInv, NEW s \in Streams
               PROVE  /\ \A i, k \in 0 .. Archives : \A j \in DOMAIN files[s][i], l \in DOMAIN files[s][k] :
                           i > k \/ (i = k /\ j < l) => files[s][i][j] < files[s][k][l]
                      /\ \A i \in 0 .. Archives : \A j \in DOMAIN files[s][i] :
                           \E p \in DOMAIN wrote[s] : wrote[s][p] = files[s][i][j]
                      /\ \A p, q \in DOMAIN wrote[s] : p < q /\ Holds(s, wrote[s][p]) => Holds(s, wrote[s][q])
                      /\ \A p \in DOMAIN wrote[s] : p + Assured(s) > Len(wrote[s]) => Holds(s, wrote[s][p])
      BY ZenonT(40) DEF FilesKeepTheNewest
  <2>1. /\ files[s] \in [0 .. Archives -> Seq(Nat)] /\ wrote[s] \in Seq(Nat) /\ Ordered(wrote[s])
        /\ Archives \in Nat
    BY SMTT(40), InHand DEF NewestInv, Numbered
  <2>2. PICK at \in [0 .. Archives + 1 -> 0 .. Len(wrote[s])] :
          /\ Laid(files[s], wrote[s], at) /\ TwoFull(files[s], at)
          /\ s \notin torn => IF Turning(s) THEN Shifted(at, index) ELSE Regular(at)
    BY ZenonT(40) DEF NewestInv, Placed
  <2> DEFINE f == files[s]
             w == wrote[s]
             lost == at[Archives + 1]
  <2>3. /\ \A i \in 0 .. Archives : DOMAIN f[i] = 1 .. Len(f[i])
        /\ DOMAIN w = 1 .. Len(w) /\ Len(w) \in Nat
    <3>1. ASSUME NEW i \in 0 .. Archives PROVE f[i] \in Seq(Nat)
      BY <2>1
    <3> QED
      BY SMTT(40), SMTT(41), <2>1, <3>1
  <2>4. /\ Assured(s) \in Nat /\ lost \in Nat
        /\ lost = 0 \/ lost + Assured(s) <= Len(w)
    BY <2>2, AssuredIsHeld
  <2>5. \A b : Holds(s, b) <=> Held(f, b)
    BY ZenonT(40), <2>3 DEF Holds, Held
  <2>6. /\ \A i, k \in 0 .. Archives : \A j \in 1 .. Len(f[i]), l \in 1 .. Len(f[k]) :
              i > k \/ (i = k /\ j < l) => f[i][j] < f[k][l]
        /\ \A i \in 0 .. Archives : \A j \in 1 .. Len(f[i]) : \E p \in 1 .. Len(w) : w[p] = f[i][j]
        /\ \A p \in 1 .. Len(w) : Held(f, w[p]) <=> lost < p
    BY ZenonT(40), <2>1, <2>2, LaidIsNewest
  <2>7. \A p \in 1 .. Len(w) : Holds(s, w[p]) <=> lost < p
    BY ZenonT(40), <2>5, <2>6
  <2>8. \A i, k \in 0 .. Archives : \A j \in DOMAIN f[i], l \in DOMAIN f[k] :
          i > k \/ (i = k /\ j < l) => f[i][j] < f[k][l]
    <3> SUFFICES ASSUME NEW i \in 0 .. Archives, NEW k \in 0 .. Archives, NEW j \in DOMAIN f[i], NEW l \in DOMAIN f[k],
                        i > k \/ (i = k /\ j < l)
                 PROVE  f[i][j] < f[k][l]
        OBVIOUS
    <3>1. j \in 1 .. Len(f[i]) /\ l \in 1 .. Len(f[k])
      BY ZenonT(40), <2>3
    <3> HIDE DEF f
    <3> QED
      BY ZenonT(40), <2>6, <3>1
  <2>9. \A i \in 0 .. Archives : \A j \in DOMAIN f[i] : \E p \in DOMAIN w : w[p] = f[i][j]
    BY ZenonT(40), <2>3, <2>6
  <2> HIDE DEF lost, f, w
  <2>10. ASSUME NEW p \in DOMAIN w, NEW q \in DOMAIN w, p < q, Holds(s, w[p]) PROVE Holds(s, w[q])
    <3>1. p \in Nat /\ q \in Nat /\ lost < p
      BY <2>3, <2>7, <2>10
    <3>2. lost < q
      BY SMTT(40), <2>4, <2>10, <3>1
    <3> QED
      BY ZenonT(40), <2>3, <2>7, <3>2
  <2>11. ASSUME NEW p \in DOMAIN w, p + Assured(s) > Len(w) PROVE Holds(s, w[p])
    <3>1. p \in Nat /\ 0 < p
      BY <2>3
    <3>2. lost < p
      BY <2>3, <2>4, <2>11, <3>1
    <3> QED
      BY <2>3, <2>7, <3>2
  <2> QED
    BY ZenonT(40), <2>8, <2>9, <2>10, <2>11 DEF f, w
<1> QED
  BY NewestInit, NewestStep, <1>1, PTL DEF Spec

=============================================================================
