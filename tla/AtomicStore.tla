----------------------------- MODULE AtomicStore -----------------------------
(***************************************************************************)
(* What saving the configuration promises, whatever files it takes: there  *)
(* is one stored version at a time, a save replaces it by the next one, a  *)
(* crash leaves the one or the other, and a version that a client was told *)
(* is saved is never lost again.                                           *)
(***************************************************************************)
EXTENDS Naturals

VARIABLES
  lasting,  \* the versions that a restart now, after any crash, may load
  last,     \* the number of the last save
  old,      \* the version it set out to replace
  saving,   \* it is under way
  done,     \* it has succeeded, and the client is not told yet
  acked,    \* the last version a client was told is saved
  excused   \* a failure that the program is known not to survive has happened

vars == <<lasting, last, old, saving, done, acked, excused>>

Init ==
  /\ lasting = {0} /\ last = 0 /\ old = 0 /\ saving = FALSE /\ done = FALSE /\ acked = 0
  /\ excused = FALSE

\* A save starts from one version.
Begin ==
  /\ ~saving /\ ~done /\ saving' = TRUE /\ lasting = {old'} /\ last' = last + 1
  /\ UNCHANGED <<lasting, done, acked, excused>>

\* Until it ends, a crash leaves the old version or the new one.
Progress ==
  /\ saving /\ lasting' \subseteq {old, last} /\ lasting' # {}
  /\ UNCHANGED <<last, old, saving, done, acked, excused>>

Succeed ==
  /\ saving /\ lasting = {last} /\ saving' = FALSE /\ done' = TRUE
  /\ UNCHANGED <<lasting, last, old, acked, excused>>

\* A failed save, or one cut off by a crash, may have installed its version.
\* docs/protocol_v3.md:275 promises more of a failed one (any step that fails
\* restores the old version); save_prog_cfg keeps that only until its journal
\* says new_installed, which EveryCrashIsRecoverable of SaveTransaction states.
Fail ==
  /\ saving' = FALSE /\ done' = FALSE /\ lasting' \subseteq lasting /\ lasting' # {}
  /\ UNCHANGED <<last, old, acked, excused>>

Tell ==
  /\ done /\ done' = FALSE /\ acked' = last
  /\ UNCHANGED <<lasting, last, old, saving, excused>>

\* Recovery decides between the versions; it loses none that was decided on.
Settle ==
  /\ lasting' \subseteq lasting /\ lasting' # {}
  /\ UNCHANGED <<last, old, saving, done, acked, excused>>

Excuse == excused'

Next == Begin \/ Progress \/ Succeed \/ Fail \/ Tell \/ Settle \/ Excuse

Spec == Init /\ [][Next]_vars

\* A version that a client was told is saved survives every crash, also one in
\* a later save or in a recovery: only a later version takes its place.
AckedIsKept == ~excused => \A v \in lasting : v >= acked

IInv ==
  ~excused =>
    /\ last \in Nat /\ old \in Nat /\ acked \in Nat /\ lasting \subseteq 0 .. last
    /\ \A v \in lasting : v >= acked
    /\ saving => acked <= old /\ old < last /\ ~done
    /\ done => lasting = {last}

=============================================================================
