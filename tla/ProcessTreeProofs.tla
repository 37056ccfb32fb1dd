------------------------- MODULE ProcessTreeProofs -------------------------
(***************************************************************************)
(* Proofs of the two safety invariants of ProcessTree, for either backend, *)
(* any kill timeout and any number of processes.                           *)
(***************************************************************************)
EXTENDS ProcessTree, TLAPS

\* No process is in the tree before it exists, so a fork adds to the tree
\* only what a living member forks.
MembersExist == \A p \in group : life[p] # "unborn"

\* The job's clock is the time of the first SIGTERM.
ClockIsFirstTerm ==
  /\ job.phase = "none" => sent.term = Never
  /\ job.phase # "none" => job.generation = Gen /\ sent.term # Never
  /\ job.phase \in {"term_requested", "tree_draining"} =>
       job.started = sent.term /\ job.timeout = Timeout

\* A pending decision to kill was taken after the deadline.
KillIsDue == action = "send_kill" => sent.term # Never /\ now >= sent.term + Timeout

IInv ==
  /\ TypeOK
  /\ ReleasedMeansGone
  /\ GracePeriod
  /\ MembersExist
  /\ ClockIsFirstTerm
  /\ KillIsDue

\* The initial state: the root alone, no signal sent.
LEMMA InitIInv == Init => IInv
<1> SUFFICES ASSUME Init PROVE IInv
  OBVIOUS
<1> USE ProcAssumption, TimeAssumption DEF Init, Root, Gen, Never
<1>1. job \in Jobs({0, Gen}, 0 .. MaxTime, {0, Timeout})
  BY DEF NewJob, Jobs, Phases
<1>2. TypeOK
  <2>1. life \in [Proc -> {"unborn", "alive", "zombie", "gone"}] /\ group \subseteq Proc
    BY DEF Proc
  <2>2. sent \in [term : {Never} \cup 0 .. MaxTime, kill : {Never} \cup 0 .. MaxTime]
    OBVIOUS
  <2>3. now \in 0 .. MaxTime /\ backend \in Backends
    OBVIOUS
  <2>4. pid \in BOOLEAN /\ released \in BOOLEAN /\ missed \in BOOLEAN /\ unseen \in BOOLEAN
    BY Zenon
  <2>5. /\ state \in {"RUNING", "REQUEST_STOP", "STOPED"} /\ action \in Actions
        /\ pc \in {"reap", "poll", "polled", "killing"} /\ left \subseteq Proc
    BY DEF Actions
  <2> HIDE DEF Init
  <2> QED BY <1>1, <2>1, <2>2, <2>3, <2>4, <2>5 DEF TypeOK
<1>3. ReleasedMeansGone /\ GracePeriod /\ KillIsDue
  BY DEF ReleasedMeansGone, GracePeriod, KillIsDue
<1>4. MembersExist /\ ClockIsFirstTerm
  BY DEF MembersExist, ClockIsFirstTerm, NewJob, Proc
<1> QED BY <1>2, <1>3, <1>4 DEF IInv

\* empty() implies that no living process is in the tree, except when a cgroup
\* read overlooked it.
LEMMA EmptyMeansNoneAlive ==
  ASSUME NEW lf, NEW pids \in Readings(lf), empty(pids)
  PROVE  group \cap Alive(lf) = {} \/ (backend = "cgroup" /\ Overlooked(lf, pids))
<1>1. CASE backend = "cgroup"
  BY <1>1 DEF empty, Overlooked
<1>2. CASE backend # "cgroup"
  BY <1>2 DEF Readings, empty, Members
<1> QED BY <1>1, <1>2

\* A kill only ends lives.
LEMMA KilledOnlyEnds ==
  ASSUME NEW lf \in [Proc -> {"unborn", "alive", "zombie", "gone"}], NEW S
  PROVE  /\ Killed(lf, S) \in [Proc -> {"unborn", "alive", "zombie", "gone"}]
         /\ Alive(Killed(lf, S)) \subseteq Alive(lf)
         /\ \A p \in Proc : lf[p] # "unborn" => Killed(lf, S)[p] # "unborn"
  BY DEF Killed, Alive, Dead

\* Every step preserves the inductive invariant.
LEMMA NextIInv == IInv /\ [Next]_vars => IInv'
<1> SUFFICES ASSUME IInv, [Next]_vars PROVE IInv'
  OBVIOUS
<1> USE ProcAssumption, TimeAssumption, BackendAssumption DEF Root, Gen, Never
<1>1. CASE async_kill_prog
  <2>1. TypeOK' /\ ClockIsFirstTerm' /\ GracePeriod' /\ KillIsDue'
    BY <1>1 DEF async_kill_prog, IInv, TypeOK, ClockIsFirstTerm, GracePeriod,
      KillIsDue, Jobs, Phases, Actions, request, Result, TermSent
  <2>2. ReleasedMeansGone' /\ MembersExist'
    BY <1>1 DEF async_kill_prog, IInv, ReleasedMeansGone, MembersExist, Alive
  <2> QED BY <2>1, <2>2 DEF IInv
<1>2. CASE check_delayed_chld_sig
  <2>1. CASE ~pid \/ life[Root] # "zombie"
    BY <1>2, <2>1 DEF check_delayed_chld_sig, IInv, TypeOK, ReleasedMeansGone,
      GracePeriod, MembersExist, ClockIsFirstTerm, KillIsDue, Alive
  <2>2. CASE pid /\ life[Root] = "zombie"
    <3> PICK pids \in Readings(life') :
               IF empty(pids)
               THEN /\ released' = TRUE
                    /\ unseen' = Overlooked(life', pids)
                    /\ state' = "STOPED"
                    /\ UNCHANGED <<job, sent>>
               ELSE LET r == mark_tree_draining(job, Gen, now, Timeout) IN
                    /\ job' = r.job
                    /\ sent' = TermSent(r.action)
                    /\ state' = "REQUEST_STOP"
                    /\ UNCHANGED <<released, unseen>>
      BY <1>2, <2>2 DEF check_delayed_chld_sig
    <3>1. /\ life' = [life EXCEPT ![Root] = "gone"] /\ pid' = FALSE /\ pc' = "poll"
          /\ UNCHANGED <<backend, now, group, action, left, missed>>
      BY <1>2, <2>2 DEF check_delayed_chld_sig
    <3>2. TypeOK' /\ ClockIsFirstTerm' /\ GracePeriod' /\ KillIsDue'
      <4>1. CASE empty(pids)
        BY ZenonT(40), <4>1, <3>1 DEF IInv, TypeOK, ClockIsFirstTerm, GracePeriod, KillIsDue, Overlooked
      <4>2. CASE ~empty(pids)
        <5> DEFINE r == mark_tree_draining(job, Gen, now, Timeout)
        <5>1. job' = r.job /\ sent' = TermSent(r.action) /\ state' = "REQUEST_STOP"
              /\ UNCHANGED <<released, unseen>>
          BY <4>2
        <5>2. /\ job \in Jobs({0, Gen}, 0 .. MaxTime, {0, Timeout})
              /\ now \in 0 .. MaxTime /\ ClockIsFirstTerm
          BY DEF IInv, TypeOK
        <5>a. job' \in Jobs({0, Gen}, 0 .. MaxTime, {0, Timeout})
          BY ZenonT(40), <5>1, <5>2 DEF Jobs, Phases, mark_tree_draining, Result
        <5>b. ClockIsFirstTerm'
          BY <5>1, <5>2, sent \in [term : {Never} \cup 0 .. MaxTime, kill : {Never} \cup 0 .. MaxTime]
          DEF ClockIsFirstTerm, Jobs, Phases, mark_tree_draining, Result, TermSent, IInv, TypeOK
        <5>3. sent' \in [term : {Never} \cup 0 .. MaxTime, kill : {Never} \cup 0 .. MaxTime]
              /\ GracePeriod' /\ KillIsDue'
          BY <5>1, <3>1 DEF IInv, TypeOK, GracePeriod, KillIsDue, TermSent
        <5>4. TypeOK'
          BY ZenonT(40), <5>1, <5>a, <5>3, <3>1 DEF IInv, TypeOK
        <5> QED BY <5>b, <5>3, <5>4
      <4> QED BY <4>1, <4>2
    <3>3. MembersExist'
      BY <3>1 DEF IInv, TypeOK, MembersExist
    <3>4. ReleasedMeansGone'
      <4>1. CASE empty(pids)
        <5>1. group \cap Alive(life') = {} \/ (backend = "cgroup" /\ Overlooked(life', pids))
          BY <4>1, EmptyMeansNoneAlive
        <5> QED BY ZenonT(40), <5>1, <4>1, <3>1 DEF ReleasedMeansGone, Alive
      <4>2. CASE ~empty(pids)
        BY ZenonT(40), <4>2, <2>2, <3>1 DEF IInv, ReleasedMeansGone
      <4> QED BY <4>1, <4>2
    <3> QED BY <3>2, <3>3, <3>4 DEF IInv
  <2> QED BY <2>1, <2>2 DEF IInv, TypeOK
<1>3. CASE poll_termination
  <2>1. CASE state = "REQUEST_STOP" /\ ~released
    <3> PICK pids \in Readings(life) :
              LET r == poll(job, Gen, now, empty(pids)) IN
              job' = r.job /\ action' = r.action /\ pc' = "polled"
      BY <1>3, <2>1 DEF poll_termination
    <3> empty(pids) \in BOOLEAN
      BY DEF empty
    <3>1. UNCHANGED <<backend, now, life, group, pid, state, left, released, sent, missed, unseen>>
      BY <1>3 DEF poll_termination
    <3>2. TypeOK' /\ ClockIsFirstTerm' /\ GracePeriod' /\ KillIsDue'
      BY <3>1 DEF IInv, TypeOK, ClockIsFirstTerm, GracePeriod, KillIsDue,
        Jobs, Phases, Actions, poll, Result, deadline
    <3>3. ReleasedMeansGone' /\ MembersExist'
      BY <3>1 DEF IInv, ReleasedMeansGone, MembersExist, Alive
    <3> QED BY <3>2, <3>3 DEF IInv
  <2>2. CASE ~(state = "REQUEST_STOP" /\ ~released)
    BY <1>3, <2>2 DEF poll_termination, IInv, TypeOK, ReleasedMeansGone,
      GracePeriod, MembersExist, ClockIsFirstTerm, KillIsDue, Alive
  <2> QED BY <2>1, <2>2
<1>4. CASE finish_or_force
  <2> DEFINE r == force(job, Gen)
  <2> PICK pids \in Readings(life) :
       IF ~pid /\ empty(pids)
       THEN /\ released' = TRUE
            /\ unseen' = Overlooked(life, pids)
            /\ pc' = "reap"
            /\ UNCHANGED <<job, left, sent>>
       ELSE /\ UNCHANGED <<released, unseen>>
            /\ IF action = "send_kill" /\ r.action = "send_kill"
               THEN /\ job' = r.job
                    /\ sent' = [sent EXCEPT !.kill = now]
                    /\ pc' = "killing"
                    /\ \E collected \in Readings(life) : left' = collected \cap Proc
               ELSE /\ pc' = "reap"
                    /\ UNCHANGED <<job, left, sent>>
    BY <1>4 DEF finish_or_force
  <2>1. action' = "none" /\ UNCHANGED <<backend, now, life, group, pid, state, missed>>
    BY <1>4 DEF finish_or_force
  <2>2. MembersExist' /\ KillIsDue'
    BY <2>1 DEF IInv, MembersExist, KillIsDue
  <2>3. unseen' \in BOOLEAN
    BY DEF Overlooked, IInv, TypeOK
  <2>4. TypeOK' /\ ClockIsFirstTerm' /\ GracePeriod'
    <3>1. CASE UNCHANGED <<job, left, sent>>
      BY ZenonT(40), <3>1, <2>1, <2>3 DEF IInv, TypeOK, ClockIsFirstTerm, GracePeriod, Actions
    <3>2. CASE ~ UNCHANGED <<job, left, sent>>
      <4>1. /\ action = "send_kill" /\ job' = r.job /\ pc' = "killing"
            /\ sent' = [sent EXCEPT !.kill = now] /\ UNCHANGED released
            /\ left' \subseteq Proc
        BY <3>2
      <4>2. job' \in Jobs({0, Gen}, 0 .. MaxTime, {0, Timeout})
        BY <4>1 DEF IInv, TypeOK, Jobs, Phases, force, Result
      <4>a. ClockIsFirstTerm'
        BY <4>1, <4>2 DEF IInv, TypeOK, ClockIsFirstTerm, KillIsDue, Jobs, force, Result
      <4>3. sent' \in [term : {Never} \cup 0 .. MaxTime, kill : {Never} \cup 0 .. MaxTime]
            /\ GracePeriod'
        BY <4>1, <2>1 DEF IInv, TypeOK, GracePeriod, KillIsDue
      <4>4. TypeOK'
        BY <4>1, <4>2, <4>3, <2>1, <2>3 DEF IInv, TypeOK, Actions
      <4> QED BY <4>a, <4>3, <4>4
    <3> QED BY <3>1, <3>2
  <2>5. ReleasedMeansGone'
    <3>1. CASE ~pid /\ empty(pids)
      <4>1. group \cap Alive(life) = {} \/ (backend = "cgroup" /\ Overlooked(life, pids))
        BY <3>1, EmptyMeansNoneAlive
      <4> QED BY ZenonT(40), <4>1, <3>1, <2>1 DEF ReleasedMeansGone, Alive
    <3>2. CASE ~(~pid /\ empty(pids))
      BY ZenonT(40), <3>2, <2>1 DEF IInv, ReleasedMeansGone, Alive
    <3> QED BY <3>1, <3>2
  <2> QED BY <2>2, <2>4, <2>5 DEF IInv
<1>5. CASE signal_tree
  <2>1. PICK S : life' = Killed(life, S)
    BY ZenonT(40), <1>5 DEF signal_tree
  <2>2. left' \subseteq Proc
    BY ZenonT(40), <1>5 DEF signal_tree, IInv, TypeOK
  <2>3. UNCHANGED <<backend, now, group, pid, state, job, pc, action, released, sent, missed, unseen>>
    BY <1>5 DEF signal_tree
  <2>4. /\ life' \in [Proc -> {"unborn", "alive", "zombie", "gone"}]
        /\ Alive(life') \subseteq Alive(life)
        /\ \A p \in Proc : life[p] # "unborn" => life'[p] # "unborn"
    BY <2>1, KilledOnlyEnds DEF IInv, TypeOK
  <2>5. TypeOK' /\ ClockIsFirstTerm' /\ GracePeriod' /\ KillIsDue'
    BY <2>2, <2>3, <2>4 DEF IInv, TypeOK, ClockIsFirstTerm, GracePeriod, KillIsDue
  <2>6. MembersExist' /\ ReleasedMeansGone'
    BY <2>3, <2>4 DEF IInv, TypeOK, MembersExist, ReleasedMeansGone
  <2> QED BY <2>5, <2>6 DEF IInv
<1>6. CASE signal_tree_done
  BY <1>6 DEF signal_tree_done, IInv, TypeOK, ReleasedMeansGone, GracePeriod,
    MembersExist, ClockIsFirstTerm, KillIsDue, Alive
<1>7. ASSUME NEW p \in Proc, Fork(p) PROVE IInv'
  <2>1. PICK c \in Proc :
          /\ life[c] = "unborn"
          /\ life' = [life EXCEPT ![c] = "alive"]
          /\ group' = IF p \in group THEN group \cup {c} ELSE group
    BY ZenonT(40), <1>7 DEF Fork
  <2>2. life[p] = "alive" /\ UNCHANGED <<now, daemon_vars>>
    BY <1>7 DEF Fork
  <2>3. TypeOK' /\ ClockIsFirstTerm' /\ GracePeriod' /\ KillIsDue'
    BY <2>1, <2>2 DEF IInv, TypeOK, ClockIsFirstTerm, GracePeriod, KillIsDue,
      daemon_vars
  <2>4. MembersExist'
    BY <2>1 DEF IInv, TypeOK, MembersExist
  <2>5. ReleasedMeansGone'
    BY <2>1, <2>2 DEF IInv, TypeOK, MembersExist, ReleasedMeansGone, Alive, daemon_vars
  <2> QED BY <2>3, <2>4, <2>5 DEF IInv
<1>8. ASSUME NEW p \in Proc, LeaveGroup(p) PROVE IInv'
  BY <1>8 DEF LeaveGroup, IInv, TypeOK, ReleasedMeansGone, GracePeriod,
    MembersExist, ClockIsFirstTerm, KillIsDue, Alive, daemon_vars
<1>9. ASSUME NEW p \in Proc, Exit(p) PROVE IInv'
  <2>1. life' = [life EXCEPT ![p] = Dead(p)] /\ UNCHANGED <<now, group, daemon_vars>>
    BY <1>9 DEF Exit
  <2>2. Dead(p) \in {"zombie", "gone"}
    BY DEF Dead
  <2>3. TypeOK' /\ ClockIsFirstTerm' /\ GracePeriod' /\ KillIsDue'
    BY <2>1, <2>2 DEF IInv, TypeOK, ClockIsFirstTerm, GracePeriod, KillIsDue,
      daemon_vars
  <2>4. MembersExist' /\ ReleasedMeansGone'
    BY <2>1, <2>2 DEF IInv, TypeOK, MembersExist, ReleasedMeansGone, Alive, daemon_vars
  <2> QED BY <2>3, <2>4 DEF IInv
<1>10. CASE Tick
  BY <1>10 DEF Tick, IInv, TypeOK, ReleasedMeansGone, GracePeriod,
    MembersExist, ClockIsFirstTerm, KillIsDue, Alive, daemon_vars
<1>11. CASE UNCHANGED vars
  BY <1>11 DEF vars, IInv, TypeOK, ReleasedMeansGone, GracePeriod,
    MembersExist, ClockIsFirstTerm, KillIsDue, Alive
<1> QED BY <1>1, <1>2, <1>3, <1>4, <1>5, <1>6, <1>7, <1>8, <1>9, <1>10, <1>11
        DEF Next, Maintenance

\* The inductive invariant holds in every reachable state.
THEOREM Inductive == Spec => []IInv
  BY InitIInv, NextIInv, PTL DEF Spec

\* Continuations of a stop, delete, restart, reload or quit run only when the
\* root is reaped and its tree is empty: for any tree of the process group
\* backend, and of the cgroup backend unless a read overlooked the members.
THEOREM ReleaseIsSafe == Spec => []ReleasedMeansGone
  <1>1. IInv => ReleasedMeansGone
    BY DEF IInv
  <1> QED BY Inductive, <1>1, PTL

\* SIGKILL never precedes the kill timeout, whatever that timeout is.
THEOREM GraceIsRespected == Spec => []GracePeriod
  <1>1. IInv => GracePeriod
    BY DEF IInv
  <1> QED BY Inductive, <1>1, PTL

\* Types are preserved.
THEOREM TypeCorrect == Spec => []TypeOK
  <1>1. IInv => TypeOK
    BY DEF IInv
  <1> QED BY Inductive, <1>1, PTL
=============================================================================
