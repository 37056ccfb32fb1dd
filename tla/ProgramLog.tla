----------------------------- MODULE ProgramLog -----------------------------
(***************************************************************************)
(* The log files of one program: redirect_output_log and init_prog_log of  *)
(* daemon/prog.cpp over the rotating_log_writer of                         *)
(* platform/linux/rotating_log_writer.cpp and the log_sink_health of       *)
(* core/program_log.cpp.                                                   *)
(*                                                                         *)
(* In split mode there are two writers, one per stream, that share one     *)
(* health record; in combined mode one.  The daemon is single-threaded, so *)
(* a call runs to its end; it is cut into its system calls here, each of   *)
(* which may fail and after each of which the daemon may be killed.        *)
(*                                                                         *)
(* A byte is its number in the order of output.  The length of the retry   *)
(* delay is left out: a failure makes the next attempt wait, and at some   *)
(* time the wait is over.                                                  *)
(***************************************************************************)
EXTENDS Naturals, Sequences

CONSTANTS
  Streams,     \* the writers: two in split mode, one in combined mode
  Archives,    \* log_archive_count
  MaxSize,     \* max_size_bytes_
  MaxText,     \* bound: bytes of one read
  MaxBytes,    \* bound: bytes of output
  MaxMishaps,  \* bound: steps in which a system call fails
  MaxEnds      \* bound: ends of the program or of the daemon

ASSUME LogAssumption ==
  /\ Archives \in Nat /\ MaxSize \in Nat \ {0} /\ Streams # {}
  /\ {MaxText, MaxBytes, MaxMishaps, MaxEnds} \subseteq Nat

VARIABLES
  running,  \* the program runs and its output is read
  files,    \* per stream: 0 the log file, 1 .. Archives its archives; <<>> if missing
  open,     \* log_writers[i], with handle_ while a rotation is under way
  size,     \* current_size_
  degraded, dropped,   \* log_health: degraded, dropped_bytes
  waiting,  \* log_health: degraded, and retry_due_ms not reached
  pc, stream, text, asked, index, \* the call: where it is, its stream, what is left to
                                  \* append, how much it was, the index of rotate's loop
  next, mishaps, ends,
  arrived, kept,  \* history: bytes this generation has put out, and those written
  wrote,    \* history: per stream, all that was ever written to its files
  torn      \* history: the streams of which a rotation was broken off

health == <<degraded, dropped, waiting>>
history == <<arrived, kept, wrote, torn>>
call == <<pc, stream, text, asked, index>>
bounds == <<next, mishaps, ends>>
vars == <<running, files, open, size, health, call, bounds, history>>

Min2(a, b) == IF a <= b THEN a ELSE b

\* A system call fails.
Mishap == mishaps < MaxMishaps /\ mishaps' = mishaps + 1

\* The writers in broken cannot be opened.
CannotOpen(broken) == IF broken = {} THEN UNCHANGED mishaps ELSE Mishap

-----------------------------------------------------------------------------
(* log_sink_health *)

record_failure(bytes) == degraded' = TRUE /\ dropped' = dropped + bytes /\ waiting' = TRUE

record_recovery == degraded' = FALSE /\ dropped' = dropped /\ waiting' = FALSE

\* The retry delay passes.
RetryDue ==
  /\ pc = "idle" /\ waiting /\ waiting' = FALSE
  /\ UNCHANGED <<running, files, open, size, degraded, dropped, call, bounds, history>>

-----------------------------------------------------------------------------
(* The life of the program *)

\* init_prog_log: the writers of a new generation; those in broken cannot be
\* opened.
init_prog_log ==
  /\ pc = "idle" /\ ~running /\ running' = TRUE
  /\ \E broken \in SUBSET Streams :
       /\ CannotOpen(broken)
       /\ open' = [s \in Streams |-> s \notin broken]
       /\ size' = [s \in Streams |-> IF s \in broken THEN 0 ELSE Len(files[s][0])]
       /\ degraded' = (broken # {}) /\ waiting' = (broken # {}) /\ dropped' = 0
  /\ arrived' = 0 /\ kept' = 0
  /\ UNCHANGED <<files, call, next, ends, wrote, torn>>

\* close_fds at the end of the root: close_logfds.  What the pipe still held
\* has been read before (Output).
close_logfds ==
  /\ pc = "idle" /\ running /\ ends < MaxEnds
  /\ running' = FALSE /\ ends' = ends + 1
  /\ open' = [s \in Streams |-> FALSE] /\ size' = [s \in Streams |-> 0]
  /\ UNCHANGED <<files, health, call, next, mishaps, history>>

\* What is under way ends here: a rotation is left half done.
broken_off == torn' = IF pc = "rotate" THEN torn \cup {stream} ELSE torn

\* The daemon is killed, in the middle of a call perhaps: only the files stay.
Crash ==
  /\ ends < MaxEnds /\ ends' = ends + 1
  /\ running' = FALSE /\ pc' = "idle" /\ text' = <<>>
  /\ open' = [s \in Streams |-> FALSE] /\ size' = [s \in Streams |-> 0]
  /\ degraded' = FALSE /\ waiting' = FALSE /\ dropped' = 0
  /\ arrived' = 0 /\ kept' = 0 /\ broken_off
  /\ UNCHANGED <<files, stream, asked, index, next, mishaps, wrote>>

-----------------------------------------------------------------------------
(* redirect_output_log *)

\* Mutant: what a missing writer cannot take is not counted.
Mut_Output(s, n) ==
  /\ pc = "idle" /\ running /\ next + n <= MaxBytes
  /\ next' = next + n /\ arrived' = arrived + n
  /\ stream' = s /\ asked' = n
  /\ pc' = IF open[s] THEN "append" ELSE IF degraded /\ waiting THEN "idle" ELSE "open"
  /\ text' = IF pc' = "idle" THEN <<>> ELSE [i \in 1 .. n |-> next + i]
  /\ dropped' = dropped
  /\ UNCHANGED <<running, files, open, size, degraded, waiting, index, mishaps, ends, kept, wrote, torn>>

\* n bytes of stream s have been read.
Output(s, n) ==
  /\ pc = "idle" /\ running /\ next + n <= MaxBytes
  /\ next' = next + n /\ arrived' = arrived + n
  /\ stream' = s /\ asked' = n
  /\ pc' = IF open[s] THEN "append" ELSE IF degraded /\ waiting THEN "idle" ELSE "open"
  /\ text' = IF pc' = "idle" THEN <<>> ELSE [i \in 1 .. n |-> next + i]
  /\ dropped' = IF pc' = "idle" THEN dropped + n ELSE dropped
  /\ UNCHANGED <<running, files, open, size, degraded, waiting, index, mishaps, ends, kept, wrote, torn>>

\* rotating_log_writer::open of a new writer
Reopen ==
  /\ pc = "open"
  /\ \/ /\ open' = [open EXCEPT ![stream] = TRUE]
        /\ size' = [size EXCEPT ![stream] = Len(files[stream][0])]
        /\ pc' = "siblings" /\ UNCHANGED <<health, text, mishaps>>
     \/ /\ Mishap /\ record_failure(asked)
        /\ pc' = "idle" /\ text' = <<>> /\ UNCHANGED <<open, size>>
  /\ UNCHANGED <<running, files, stream, asked, index, next, ends, history>>

\* Mutant: one writer that opens again is a recovery.
Mut_Siblings ==
  /\ pc = "siblings" /\ pc' = "append"
  /\ record_recovery
  /\ UNCHANGED <<running, files, open, size, stream, text, asked, index, bounds, history>>

\* The other writers are opened too; the log has recovered when all are open.
Siblings ==
  /\ pc = "siblings" /\ pc' = "append"
  /\ \E broken \in SUBSET {s \in Streams : ~open[s]} :
       /\ CannotOpen(broken)
       /\ open' = [s \in Streams |-> s \notin broken]
       /\ size' = [s \in Streams |-> IF s \in broken \/ open[s] THEN size[s] ELSE Len(files[s][0])]
       /\ IF broken # {} THEN record_failure(0)
          ELSE IF degraded THEN record_recovery ELSE UNCHANGED health
  /\ UNCHANGED <<running, files, stream, text, asked, index, next, ends, history>>

-----------------------------------------------------------------------------
(* rotating_log_writer::append, and what its caller does when it fails *)

fail ==
  /\ Mishap /\ record_failure(asked)
  /\ open' = [open EXCEPT ![stream] = FALSE] /\ size' = [size EXCEPT ![stream] = 0]
  /\ pc' = "idle" /\ text' = <<>> /\ broken_off

\* The room in the file
Room == MaxSize - Min2(size[stream], MaxSize)

\* One ::write, that may be short
Write ==
  /\ pc = "append" /\ Room > 0
  /\ \/ \E n \in 1 .. Min2(Len(text), Room) :
          LET part == SubSeq(text, 1, n)
          IN  /\ files' = [files EXCEPT ![stream][0] = @ \o part]
              /\ kept' = kept + n
              /\ wrote' = [wrote EXCEPT ![stream] = @ \o part]
              /\ size' = [size EXCEPT ![stream] = @ + n]
              /\ text' = SubSeq(text, n + 1, Len(text))
              /\ pc' = IF n = Len(text) THEN "idle" ELSE "append"
              /\ UNCHANGED <<open, health, mishaps, torn>>
     \/ fail /\ UNCHANGED <<files, kept, wrote>>
  /\ UNCHANGED <<running, stream, asked, index, next, ends, arrived>>

\* The file is full: rotate closes it and begins with the oldest archive.
Full ==
  /\ pc = "append" /\ Room = 0
  /\ open' = [open EXCEPT ![stream] = FALSE] /\ size' = [size EXCEPT ![stream] = 0]
  /\ pc' = "rotate" /\ index' = Archives
  /\ UNCHANGED <<running, files, health, stream, text, asked, bounds, history>>

\* Mutant: the renames start with the newest file.
Mut_renamed(f, i) ==
  LET j == Archives + 1 - i
  IN  IF f[j - 1] = <<>> THEN f ELSE [f EXCEPT ![j] = f[j - 1], ![j - 1] = <<>>]

\* rename of the file before the i-th archive to it; a missing one is no error.
renamed(f, i) ==
  IF f[i - 1] = <<>> THEN f ELSE [f EXCEPT ![i] = f[i - 1], ![i - 1] = <<>>]

Rename ==
  /\ pc = "rotate" /\ index > 0
  /\ \/ /\ files' = [files EXCEPT ![stream] = renamed(@, index)]
        /\ index' = index - 1 /\ UNCHANGED <<open, size, health, pc, text, mishaps, torn>>
     \/ fail /\ UNCHANGED <<files, index>>
  /\ UNCHANGED <<running, stream, asked, next, ends, arrived, kept, wrote>>

\* The file is created anew; without archives it is cut to nothing.
Create ==
  /\ pc = "rotate" /\ index = 0
  /\ \/ /\ files' = IF Archives = 0 THEN [files EXCEPT ![stream][0] = <<>>] ELSE files
        /\ open' = [open EXCEPT ![stream] = TRUE]
        /\ size' = [size EXCEPT ![stream] = IF Archives = 0 THEN 0 ELSE Len(files[stream][0])]
        /\ pc' = "append" /\ UNCHANGED <<health, text, mishaps, torn>>
     \/ fail /\ UNCHANGED files
  /\ UNCHANGED <<running, stream, asked, index, next, ends, arrived, kept, wrote>>

-----------------------------------------------------------------------------

Init ==
  /\ running = FALSE
  /\ files = [s \in Streams |-> [i \in 0 .. Archives |-> <<>>]]
  /\ open = [s \in Streams |-> FALSE] /\ size = [s \in Streams |-> 0]
  /\ degraded = FALSE /\ dropped = 0 /\ waiting = FALSE
  /\ pc = "idle" /\ stream \in Streams /\ text = <<>> /\ asked = 0 /\ index = 0
  /\ next = 0 /\ mishaps = 0 /\ ends = 0 /\ arrived = 0 /\ kept = 0
  /\ wrote = [s \in Streams |-> <<>>] /\ torn = {}

Next ==
  \/ init_prog_log \/ close_logfds \/ Crash \/ RetryDue
  \/ \E s \in Streams, n \in 1 .. MaxText : Output(s, n)
  \/ Reopen \/ Siblings \/ Write \/ Full \/ Rename \/ Create

Spec == Init /\ [][Next]_vars

-----------------------------------------------------------------------------
(* Properties *)

TypeOK ==
  /\ running \in BOOLEAN /\ degraded \in BOOLEAN /\ waiting \in BOOLEAN /\ dropped \in Nat
  /\ open \in [Streams -> BOOLEAN] /\ size \in [Streams -> 0 .. MaxSize]
  /\ pc \in {"idle", "open", "siblings", "append", "rotate"} /\ stream \in Streams
  /\ Len(text) <= asked /\ asked \in Nat /\ index \in 0 .. Archives
  /\ \A s \in Streams, i \in 0 .. Archives : Len(files[s][i]) <= MaxSize

\* The state reported to the user is true: while the program runs, the log is
\* degraded exactly if one of its writers is closed, however failures and
\* recoveries of the two streams interleave (redirect_output_log, init_prog_log).
HealthIsTruthful ==
  running /\ pc = "idle" => (degraded <=> \E s \in Streams : ~open[s])

\* No byte is lost without being counted: what this generation has put out was
\* written or is part of log_dropped_bytes.
NothingLostSilently == running /\ pc = "idle" => arrived <= kept + dropped

\* Byte b is in a file of stream s.
Holds(s, b) == \E i \in 0 .. Archives : \E j \in DOMAIN files[s][i] : files[s][i][j] = b

\* How much of the output the files are sure to hold: as much as the archives
\* take, but only two full files once a rotation has been broken off, since the
\* next attempt moves the archives on although one place is free.
Assured(s) == MaxSize * IF s \in torn THEN Min2(Archives, 2) ELSE Archives

\* The files hold the newest output (rotating_log_writer::rotate and append):
\* read from the oldest archive to the file itself they are in the order of
\* writing, they hold nothing else, nothing between two bytes they hold is
\* missing, and the newest Assured bytes are there.  This is so after any
\* failed rename, short write or crash in a rotation.
FilesKeepTheNewest ==
  \A s \in Streams :
    /\ \A i, k \in 0 .. Archives : \A j \in DOMAIN files[s][i], l \in DOMAIN files[s][k] :
         i > k \/ (i = k /\ j < l) => files[s][i][j] < files[s][k][l]
    /\ \A i \in 0 .. Archives : \A j \in DOMAIN files[s][i] :
         \E p \in DOMAIN wrote[s] : wrote[s][p] = files[s][i][j]
    /\ \A p, q \in DOMAIN wrote[s] : p < q /\ Holds(s, wrote[s][p]) => Holds(s, wrote[s][q])
    /\ \A p \in DOMAIN wrote[s] : p + Assured(s) > Len(wrote[s]) => Holds(s, wrote[s][p])

=============================================================================
