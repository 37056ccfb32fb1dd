-------------------- MODULE DependencySchedulerProofs --------------------
(***************************************************************************)
(* Proofs about the dependency runtime, for every set of programs and      *)
(* every acyclic dependency relation on it.                                *)
(***************************************************************************)
EXTENDS DependencyScheduler, TLAPS

\* The inductive invariant: the three invariants need one another's types only.
IInv == TypeOK /\ NoLostWakeup /\ WaitsForPossible

\* No requested program waits below a failed or blocked dependency.
Possible(r) ==
  \A n \in Node : r.requested[n] /\ r.state[n] = "pending"
                    => \A d \in Deps[n] : r.state[d] \notin {"failed", "blocked"}

\* What collect_startable does to each node.
LEMMA CollectFacts ==
  ASSUME NEW r \in Runtimes, r.nodes = Node
  PROVE  LET q == collect_startable(r).rt
         IN  /\ q \in Runtimes
             /\ q.nodes = Node
             /\ q.requested = r.requested
             /\ \A n \in Node : q.state[n] = IF IsStartable(r, n) THEN "starting" ELSE r.state[n]
  BY DEF collect_startable, Runtimes, RtStates

\* Whatever the runtime was, no requested program with ready dependencies is
\* left waiting once collect_startable has run.
LEMMA CollectLeavesNoneStartable ==
  ASSUME NEW r \in Runtimes, r.nodes = Node, NEW n \in Node,
         collect_startable(r).rt.requested[n],
         collect_startable(r).rt.state[n] = "pending"
  PROVE  ~dependencies_ready(collect_startable(r).rt, n)
<1> DEFINE q == collect_startable(r).rt
<1>1. \A m \in Node : q.state[m] = IF IsStartable(r, m) THEN "starting" ELSE r.state[m]
  BY CollectFacts
<1>2. q.requested = r.requested
  BY CollectFacts
<1> HIDE DEF q
<1>3. ~IsStartable(r, n) /\ r.state[n] = "pending" /\ r.requested[n]
  BY <1>1, <1>2 DEF q
<1>4. PICK d \in Deps[n] : r.state[d] # "ready"
  BY <1>3 DEF IsStartable, dependencies_ready
<1>5. d \in Node
  BY DepsAssumption
<1>6. q.state[d] # "ready"
  BY <1>1, <1>4, <1>5
<1>7. QED
  BY <1>6 DEF dependencies_ready, q

\* A program collect_startable sets to starting has ready dependencies, then
\* and afterwards.
LEMMA CollectStartsReady ==
  ASSUME NEW r \in Runtimes, r.nodes = Node, NEW n \in Node,
         collect_startable(r).rt.state[n] = "starting",
         r.state[n] # "starting"
  PROVE  dependencies_ready(collect_startable(r).rt, n)
<1> DEFINE q == collect_startable(r).rt
<1>1. \A m \in Node : q.state[m] = IF IsStartable(r, m) THEN "starting" ELSE r.state[m]
  BY CollectFacts
<1> HIDE DEF q
<1>2. IsStartable(r, n)
  BY <1>1 DEF q
<1>3. ASSUME NEW d \in Deps[n]
      PROVE  q.state[d] = "ready"
  <2>1. d \in Node
    BY DepsAssumption
  <2>2. r.state[d] = "ready"
    BY <1>2 DEF IsStartable, dependencies_ready
  <2>3. ~IsStartable(r, d)
    BY <2>2 DEF IsStartable
  <2>4. QED
    BY <1>1, <2>1, <2>2, <2>3
<1>4. QED
  BY <1>3 DEF dependencies_ready, q

\* A waiting program whose dependencies are neither failed nor blocked keeps
\* that through collect_startable.
LEMMA CollectKeepsPossible ==
  ASSUME NEW r \in Runtimes, r.nodes = Node, Possible(r)
  PROVE  Possible(collect_startable(r).rt)
<1> DEFINE q == collect_startable(r).rt
<1>1. \A m \in Node : q.state[m] = IF IsStartable(r, m) THEN "starting" ELSE r.state[m]
  BY CollectFacts
<1>2. q.requested = r.requested
  BY CollectFacts
<1> HIDE DEF q
<1>3. ASSUME NEW n \in Node, q.requested[n], q.state[n] = "pending", NEW d \in Deps[n]
      PROVE  q.state[d] \notin {"failed", "blocked"}
  <2>1. d \in Node
    BY DepsAssumption
  <2>2. r.requested[n] /\ r.state[n] = "pending"
    BY <1>1, <1>2, <1>3
  <2>3. r.state[d] \notin {"failed", "blocked"}
    BY <2>2 DEF Possible
  <2>4. QED
    BY <1>1, <2>1, <2>3
<1>4. QED
  BY <1>3 DEF q, Possible

-----------------------------------------------------------------------------
\* request_dependencies goes through every dependency it has to expand.
LEMMA VisitedClosed ==
  ASSUME NEW r \in Runtimes, NEW id \in Node, NEW n \in Visited(r, id),
         NEW d \in Deps[n], Expands(r, d)
  PROVE  d \in Visited(r, id)
  BY DepsAssumption DEF Visited, Reach

\* Only nodes that request_dependencies has to expand are visited.
LEMMA VisitedExpands ==
  ASSUME NEW r \in Runtimes, NEW id \in Node, NEW n \in Visited(r, id)
  PROVE  n \in Node /\ Expands(r, n)
<1>1. n \in Node
  BY DEF Visited, Reach
<1> DEFINE S == {m \in Node : Expands(r, m)}
<1>2. S \in SUBSET Node /\ {m \in {id} : Expands(r, m)} \subseteq S
  OBVIOUS
<1>3. \A m \in S : {d \in Deps[m] : Expands(r, d)} \subseteq S
  BY DepsAssumption
<1>4. n \in S
  <2> HIDE DEF S
  <2> QED BY <1>2, <1>3 DEF Visited, Reach
<1>5. QED
  BY <1>1, <1>4

\* The closure of depends_on contains the direct dependencies and is closed
\* under taking dependencies of its members.
LEMMA ClosureContainsDeps ==
  ASSUME NEW n \in Node
  PROVE  /\ Deps[n] \subseteq transitive_dependencies[n]
         /\ \A d \in Deps[n] : transitive_dependencies[d] \subseteq transitive_dependencies[n]
<1>1. Deps[n] \subseteq transitive_dependencies[n]
  BY DepsAssumption DEF transitive_dependencies, Reach
<1>2. ASSUME NEW d \in Deps[n], NEW x \in transitive_dependencies[d]
      PROVE  x \in transitive_dependencies[n]
  <2>1. d \in Node
    BY DepsAssumption
  <2>2. x \in Node
    BY <2>1 DEF transitive_dependencies, Reach
  <2>3. ASSUME NEW S \in SUBSET Node, Deps[n] \subseteq S, \A m \in S : Deps[m] \subseteq S
        PROVE  x \in S
    <3>1. Deps[d] \subseteq S
      BY <2>3
    <3>2. QED
      BY <2>1, <2>3, <3>1 DEF transitive_dependencies, Reach
  <2>4. QED
    BY <2>2, <2>3 DEF transitive_dependencies, Reach
<1>3. QED
  BY <1>1, <1>2

-----------------------------------------------------------------------------
\* The invariant holds of any runtime that collect_startable leaves behind, if
\* waiting was possible before it.
LEMMA CollectIInv ==
  ASSUME TypeOK, NEW r \in Runtimes, r.nodes = Node,
         rt' = collect_startable(r).rt, Possible(r)
  PROVE  IInv'
<1>1. TypeOK'
  BY CollectFacts DEF TypeOK
<1>2. NoLostWakeup'
  BY CollectLeavesNoneStartable DEF NoLostWakeup, Waiting, dependencies_ready
<1>3. WaitsForPossible'
  BY CollectKeepsPossible DEF WaitsForPossible, Waiting, Possible
<1>4. QED
  BY <1>1, <1>2, <1>3 DEF IInv

LEMMA InitIInv == Init => IInv
<1> SUFFICES ASSUME Init PROVE IInv
  BY ZenonT(40)
<1> DEFINE z == reset(Node)
           r == [z EXCEPT
                   !.requested = [n \in Node |-> n \in z.nodes],
                   !.state = [n \in Node |-> IF n \in z.nodes /\ @[n] \in {"idle", "blocked"}
                                             THEN "pending" ELSE @[n]]]
<1>1. r \in Runtimes /\ r.nodes = Node /\ \A n \in Node : r.state[n] = "pending"
  BY ZenonT(40) DEF Runtimes, RtStates, reset
<1>2. rt = collect_startable(r).rt
  BY DEF Init, spawn, request_all
<1>3. Possible(r)
  BY <1>1, DepsAssumption DEF Possible
<1> HIDE DEF r
<1>5. TypeOK
  BY <1>1, <1>2, CollectFacts DEF TypeOK
<1>6. NoLostWakeup
  BY <1>1, <1>2, CollectLeavesNoneStartable DEF NoLostWakeup, Waiting, dependencies_ready
<1>7. WaitsForPossible
  BY <1>1, <1>2, <1>3, CollectKeepsPossible DEF WaitsForPossible, Waiting, Possible
<1>8. QED
  BY <1>5, <1>6, <1>7 DEF IInv

\* Programs are released only together with every blocked dependency of theirs,
\* and never below a failed one.
LEMMA UnblockKeepsPossible ==
  ASSUME NEW q \in Runtimes, q.nodes = Node, Possible(q), NEW H
  PROVE  LET r == Unblocked(q, H)
         IN  r \in Runtimes /\ r.nodes = Node /\ r.requested = q.requested /\ Possible(r)
<1> DEFINE r == Unblocked(q, H)
<1>1. r \in Runtimes /\ r.nodes = Node /\ r.requested = q.requested
  BY DEF Unblocked, Runtimes, RtStates
<1>2. \A n \in Node : r.state[n] = IF IsUnblocked(q, H, n) THEN "pending" ELSE q.state[n]
  BY DEF Unblocked, Runtimes
<1> HIDE DEF r
<1>3. ASSUME NEW n \in Node, r.requested[n], r.state[n] = "pending", NEW d \in Deps[n]
      PROVE  r.state[d] \notin {"failed", "blocked"}
  <2>1. d \in Node
    BY DepsAssumption
  <2>2. CASE IsUnblocked(q, H, n)
    <3>1. PICK U \in SUBSET H :
             /\ n \in U
             /\ \A m \in U : \A e \in Deps[m] :
                  q.state[e] # "failed" /\ (q.state[e] = "blocked" => e \in U)
      BY <2>2 DEF IsUnblocked
    <3>2. q.state[d] # "failed"
      BY <3>1
    <3>3. q.state[d] = "blocked" => IsUnblocked(q, H, d)
      BY <3>1 DEF IsUnblocked
    <3>4. QED
      BY <1>2, <2>1, <3>2, <3>3
  <2>3. CASE ~IsUnblocked(q, H, n)
    <3>1. q.requested[n] /\ q.state[n] = "pending"
      BY ZenonT(40), <1>1, <1>2, <1>3, <2>3
    <3>2. q.state[d] \notin {"failed", "blocked"}
      BY <3>1 DEF Possible
    <3>3. QED
      BY ZenonT(40), <1>2, <2>1, <3>2
  <2>4. QED
    BY <2>2, <2>3
<1>4. QED
  BY <1>1, <1>3 DEF Possible, r

\* What the loop over the running programs leaves behind.
LEMMA MarkRunningFacts ==
  ASSUME TypeOK, WaitsForPossible, NEW X
  PROVE  LET q == MarkRunning(X) IN q \in Runtimes /\ q.nodes = Node /\ Possible(q)
<1>1. rt \in Runtimes /\ rt.nodes = Node /\ Possible(rt)
  BY DEF TypeOK, WaitsForPossible, Waiting, Possible
<1>2. QED
  BY <1>1, UnblockKeepsPossible, CollectFacts, CollectKeepsPossible DEF MarkRunning

\* request_dependencies leaves no failed or blocked dependency behind it,
\* because the walk goes on through exactly those.
LEMMA RequestKeepsPossible ==
  ASSUME NEW q \in Runtimes, q.nodes = Node, Possible(q), NEW x \in Node
  PROVE  LET r == request_dependencies(q, x) IN r \in Runtimes /\ r.nodes = Node /\ Possible(r)
<1> DEFINE r == request_dependencies(q, x)
<1>1. r \in Runtimes /\ r.nodes = Node
  BY ZenonT(40) DEF request_dependencies, Runtimes, RtStates
<1>2. \A n \in Node : /\ r.requested[n] = (n \in Visited(q, x) \/ q.requested[n])
                      /\ r.state[n] = IF q.state[n] \in {"idle", "blocked", "failed"}
                                         /\ n \in Visited(q, x)
                                      THEN "pending" ELSE q.state[n]
  BY DEF request_dependencies
<1> HIDE DEF r
<1>3. ASSUME NEW n \in Node, r.requested[n], r.state[n] = "pending", NEW d \in Deps[n]
      PROVE  r.state[d] \notin {"failed", "blocked"}
  <2>1. d \in Node
    BY DepsAssumption
  <2>2. CASE n \in Visited(q, x)
    <3>1. CASE Expands(q, d)
      <4>1. d \in Visited(q, x)
        BY <2>2, <3>1, VisitedClosed
      <4>2. QED
        BY <1>2, <2>1, <4>1
    <3>2. CASE ~Expands(q, d)
      BY <1>2, <2>1, <3>2 DEF Expands
    <3>3. QED
      BY <3>1, <3>2
  <2>3. CASE n \notin Visited(q, x)
    <3>1. q.requested[n] /\ q.state[n] = "pending"
      BY ZenonT(40), <1>2, <1>3, <2>3
    <3>2. q.state[d] \notin {"failed", "blocked"}
      BY <3>1 DEF Possible
    <3>3. QED
      BY <1>2, <2>1, <3>2
  <2>4. QED
    BY <2>2, <2>3
<1>4. QED
  BY <1>1, <1>3 DEF Possible, r

\* pm start: the running programs are marked, then the closure is requested.
LEMMA RequestStart ==
  ASSUME IInv, NEW x \in Node, request_start(x)
  PROVE  IInv'
<1>1. TypeOK /\ WaitsForPossible
  BY ZenonT(40) DEF IInv
<1>2. PICK X : rt' = request_closure(MarkRunning(X), x).rt
  BY DEF request_start
<1> DEFINE q == MarkRunning(X)
           r == request_dependencies(q, x)
<1>3. q \in Runtimes /\ q.nodes = Node /\ Possible(q)
  BY <1>1, MarkRunningFacts
<1>4. rt' = collect_startable(r).rt
  BY <1>2, <1>3 DEF request_closure
<1> HIDE DEF q
<1>5. r \in Runtimes /\ r.nodes = Node /\ Possible(r)
  BY <1>3, RequestKeepsPossible
<1> HIDE DEF r
<1>6. QED
  BY <1>1, <1>4, <1>5, CollectIInv

\* app_ready and its like: no program waits for the one that became ready, and
\* those it releases wait for something possible.
LEMMA ProgramReady ==
  ASSUME IInv, NEW x \in Node, program_ready(x)
  PROVE  IInv'
<1> DEFINE q == [rt EXCEPT !.requested[x] = TRUE, !.state[x] = "ready"]
           r == Unblocked(q, Held(q, x))
<1>1. TypeOK /\ WaitsForPossible
  BY DEF IInv
<1>2. q \in Runtimes /\ q.nodes = Node
  BY ZenonT(40), <1>1 DEF TypeOK, Runtimes, RtStates
<1>3. \A n \in Node : /\ q.state[n] = IF n = x THEN "ready" ELSE rt.state[n]
                      /\ q.requested[n] = IF n = x THEN TRUE ELSE rt.requested[n]
  BY ZenonT(40), <1>1 DEF TypeOK, Runtimes
<1>4. rt' = collect_startable(r).rt
  BY <1>1 DEF program_ready, mark_ready, TypeOK
<1> HIDE DEF q
<1>5. ASSUME NEW n \in Node, q.requested[n], q.state[n] = "pending", NEW d \in Deps[n]
      PROVE  q.state[d] \notin {"failed", "blocked"}
  <2>1. d \in Node
    BY DepsAssumption
  <2>2. rt.requested[n] /\ rt.state[n] = "pending"
    BY ZenonT(40), <1>3, <1>5
  <2>3. rt.state[d] \notin {"failed", "blocked"}
    BY <1>1, <2>2 DEF WaitsForPossible, Waiting
  <2>4. QED
    BY ZenonT(40), <1>3, <2>1, <2>3
<1>6. r \in Runtimes /\ r.nodes = Node /\ Possible(r)
  BY <1>2, <1>5, UnblockKeepsPossible DEF Possible
<1> HIDE DEF r
<1>7. QED
  BY <1>1, <1>4, <1>6, CollectIInv

\* A failure makes no program ready or waiting, and reaches every waiting
\* program that depends on the failed one.
LEMMA FlagStartupFail ==
  ASSUME IInv, NEW x \in Node, flag_startup_fail(x)
  PROVE  IInv'
<1>1. TypeOK /\ NoLostWakeup /\ WaitsForPossible
  BY DEF IInv
<1>2. rt' = mark_failed(rt, x).rt /\ x \in rt.nodes
  BY <1>1 DEF flag_startup_fail, TypeOK
<1>3. TypeOK'
  BY ZenonT(40), <1>1, <1>2 DEF TypeOK, mark_failed, Runtimes, RtStates
<1>4. \A n \in Node : /\ rt'.requested[n] = IF n = x THEN TRUE ELSE rt.requested[n]
                      /\ rt'.state[n] = CASE n = x -> "failed"
                                          [] n # x /\ n \in Blockable(rt, x) -> "blocked"
                                          [] OTHER -> rt.state[n]
  BY ZenonT(40), <1>1, <1>2 DEF TypeOK, mark_failed, Runtimes
<1>5. ASSUME NEW n \in Node, Waiting(n)'
      PROVE  n # x /\ Waiting(n) /\ x \notin transitive_dependencies[n]
  <2>1. n # x /\ n \notin Blockable(rt, x) /\ Waiting(n)
    BY ZenonT(40), <1>4, <1>5 DEF Waiting
  <2>2. QED
    BY <1>1, <2>1 DEF Waiting, Blockable, transitive_dependents, TypeOK
<1>6. ASSUME NEW n \in Node, Waiting(n)'
      PROVE  ~dependencies_ready(rt, n)'
  <2>1. PICK d \in Deps[n] : rt.state[d] # "ready"
    BY <1>1, <1>5, <1>6 DEF NoLostWakeup, dependencies_ready
  <2>2. rt'.state[d] # "ready"
    BY ZenonT(40), <1>4, <2>1, DepsAssumption
  <2>3. QED
    BY <2>2 DEF dependencies_ready
<1>7. ASSUME NEW n \in Node, Waiting(n)', NEW d \in Deps[n]
      PROVE  rt'.state[d] \notin {"failed", "blocked"}
  <2>1. d \in Node
    BY DepsAssumption
  <2>2. d # x /\ x \notin transitive_dependencies[d]
    BY <1>5, <1>7, ClosureContainsDeps
  <2>3. d \notin Blockable(rt, x)
    BY <2>2 DEF Blockable, transitive_dependents
  <2>4. rt.state[d] \notin {"failed", "blocked"}
    BY <1>1, <1>5, <1>7 DEF WaitsForPossible
  <2>5. QED
    BY ZenonT(40), <1>4, <2>1, <2>2, <2>3, <2>4
<1>8. QED
  BY <1>3, <1>6, <1>7 DEF IInv, NoLostWakeup, WaitsForPossible

\* A stop makes no program ready, waiting, failed or blocked.
LEMMA MarkDependencyStopped ==
  ASSUME IInv, NEW x \in Node, mark_dependency_stopped(x)
  PROVE  IInv'
<1>1. TypeOK /\ NoLostWakeup /\ WaitsForPossible
  BY DEF IInv
<1>2. rt' = mark_idle(rt, x) /\ x \in rt.nodes
  BY <1>1 DEF mark_dependency_stopped, TypeOK
<1>3. TypeOK'
  BY ZenonT(40), <1>1, <1>2 DEF TypeOK, mark_idle, Runtimes, RtStates
<1>4. \A n \in Node : /\ rt'.requested[n] = IF n = x THEN FALSE ELSE rt.requested[n]
                      /\ rt'.state[n] = IF n = x THEN "idle" ELSE rt.state[n]
  BY ZenonT(40), <1>1, <1>2 DEF TypeOK, mark_idle, Runtimes
<1>5. ASSUME NEW n \in Node, Waiting(n)'
      PROVE  Waiting(n)
  BY ZenonT(40), <1>4, <1>5 DEF Waiting
<1>6. ASSUME NEW n \in Node, Waiting(n)'
      PROVE  ~dependencies_ready(rt, n)'
  <2>1. PICK d \in Deps[n] : rt.state[d] # "ready"
    BY <1>1, <1>5, <1>6 DEF NoLostWakeup, dependencies_ready
  <2>2. rt'.state[d] # "ready"
    BY ZenonT(40), <1>4, <2>1, DepsAssumption
  <2>3. QED
    BY <2>2 DEF dependencies_ready
<1>7. ASSUME NEW n \in Node, Waiting(n)', NEW d \in Deps[n]
      PROVE  rt'.state[d] \notin {"failed", "blocked"}
  <2>1. rt.state[d] \notin {"failed", "blocked"}
    BY <1>1, <1>5, <1>7 DEF WaitsForPossible
  <2>2. QED
    BY ZenonT(40), <1>4, <2>1, DepsAssumption
<1>8. QED
  BY <1>3, <1>6, <1>7 DEF IInv, NoLostWakeup, WaitsForPossible

LEMMA NextIInv == IInv /\ [Next]_vars => IInv'
<1> SUFFICES ASSUME IInv, [Next]_vars PROVE IInv'
  OBVIOUS
<1>1. ASSUME NEW n \in Node, request_start(n) PROVE IInv'
  BY <1>1, RequestStart
<1>2. ASSUME NEW n \in Node, program_ready(n) PROVE IInv'
  BY <1>2, ProgramReady
<1>3. ASSUME NEW n \in Node, flag_startup_fail(n) PROVE IInv'
  BY <1>3, FlagStartupFail
<1>4. ASSUME NEW n \in Node, mark_dependency_stopped(n) PROVE IInv'
  BY <1>4, MarkDependencyStopped
<1>5. CASE UNCHANGED vars
  BY <1>5 DEF vars, IInv, TypeOK, NoLostWakeup, WaitsForPossible, Waiting, dependencies_ready
<1>6. QED
  BY <1>1, <1>2, <1>3, <1>4, <1>5 DEF Next

\* The invariant of every behaviour of the dependency runtime.
THEOREM Inductive == Spec => []IInv
  BY InitIInv, NextIInv, PTL DEF Spec

\* dependency_runtime keeps its states and requests well typed.
THEOREM TypeCorrect == Spec => []TypeOK
<1>1. IInv => TypeOK
  BY DEF IInv
<1>2. QED
  BY <1>1, Inductive, PTL

\* Whatever order programs become ready, fail, stop and are started in, no
\* requested program is left waiting with all its dependencies ready.
THEOREM NoWakeupIsLost == Spec => []NoLostWakeup
<1>1. IInv => NoLostWakeup
  BY DEF IInv
<1>2. QED
  BY <1>1, Inductive, PTL

\* A waiting program never waits below a failed or blocked dependency.
THEOREM WaitingIsPossible == Spec => []WaitsForPossible
<1>1. IInv => WaitsForPossible
  BY DEF IInv
<1>2. QED
  BY <1>1, Inductive, PTL

-----------------------------------------------------------------------------
\* One step hands out a program only when its dependencies are ready.
LEMMA StartStep ==
  ASSUME TypeOK, Next, NEW n \in Node, rt'.state[n] = "starting", rt.state[n] # "starting"
  PROVE  dependencies_ready(rt', n)
<1>1. ASSUME NEW x \in Node, request_start(x)
      PROVE  dependencies_ready(rt', n)
  <2>1. PICK X : rt' = request_closure(MarkRunning(X), x).rt
    BY <1>1 DEF request_start
  <2> DEFINE u == Unblocked(rt, UNION {Held(rt, m) : m \in X})
             q == MarkRunning(X)
             r == request_dependencies(q, x)
  <2>2. u \in Runtimes /\ u.nodes = Node /\ u.state[n] # "starting"
    BY DEF TypeOK, Unblocked, Runtimes, RtStates
  <2>3. q = collect_startable(u).rt
    BY DEF MarkRunning
  <2> HIDE DEF u
  <2>4. q \in Runtimes /\ q.nodes = Node
    BY <2>2, <2>3, CollectFacts
  <2>5. q.state[n] = "starting" => dependencies_ready(q, n)
    BY <2>2, <2>3, CollectStartsReady
  <2>6. rt' = collect_startable(r).rt
    BY <2>1, <2>4 DEF request_closure
  <2> HIDE DEF q
  <2>7. r \in Runtimes /\ r.nodes = Node
    BY ZenonT(40), <2>4 DEF request_dependencies, Runtimes, RtStates
  <2>8. \A m \in Node : /\ q.state[m] = "ready" => r.state[m] = "ready"
                        /\ r.state[m] = "starting" => q.state[m] = "starting"
    BY <2>4 DEF request_dependencies, Runtimes
  <2> HIDE DEF r
  <2>9. CASE r.state[n] # "starting"
    BY <2>6, <2>7, <2>9, CollectStartsReady
  <2>10. CASE r.state[n] = "starting"
    <3>1. ASSUME NEW d \in Deps[n] PROVE rt'.state[d] = "ready"
      <4>1. d \in Node
        BY DepsAssumption
      <4>2. r.state[d] = "ready"
        BY <2>5, <2>8, <2>10, <4>1 DEF dependencies_ready
      <4>3. QED
        BY <2>6, <2>7, <4>1, <4>2, CollectFacts DEF IsStartable
    <3>2. QED
      BY <3>1 DEF dependencies_ready
  <2>11. QED
    BY <2>9, <2>10
<1>2. ASSUME NEW x \in Node, program_ready(x)
      PROVE  dependencies_ready(rt', n)
  <2> DEFINE q == [rt EXCEPT !.requested[x] = TRUE, !.state[x] = "ready"]
             r == Unblocked(q, Held(q, x))
  <2>1. q \in Runtimes /\ q.nodes = Node /\ q.state[n] # "starting"
    BY ZenonT(40) DEF TypeOK, Runtimes, RtStates
  <2>2. rt' = collect_startable(r).rt
    BY <1>2 DEF program_ready, mark_ready, TypeOK
  <2> HIDE DEF q
  <2>3. r \in Runtimes /\ r.nodes = Node /\ r.state[n] # "starting"
    BY <2>1 DEF Unblocked, Runtimes, RtStates
  <2> HIDE DEF r
  <2>4. QED
    BY <2>2, <2>3, CollectStartsReady
<1>3. ASSUME NEW x \in Node, flag_startup_fail(x)
      PROVE  FALSE
  BY ZenonT(40), <1>3 DEF flag_startup_fail, mark_failed, TypeOK, Runtimes
<1>4. ASSUME NEW x \in Node, mark_dependency_stopped(x)
      PROVE  FALSE
  BY <1>4 DEF mark_dependency_stopped, mark_idle, TypeOK, Runtimes
<1>5. QED
  BY <1>1, <1>2, <1>3, <1>4 DEF Next

\* Every program the runtime hands out to be started has all its direct
\* dependencies ready (collect_startable), whoever caused the hand-out.
THEOREM StartsInOrder == Spec => StartsAfterDependencies
<1> DEFINE InOrder == \A n \in Node : rt'.state[n] = "starting" /\ rt.state[n] # "starting"
                                        => dependencies_ready(rt', n)
<1>1. TypeOK /\ [Next]_vars => [InOrder]_vars
  BY StartStep
<1> HIDE DEF InOrder
<1>2. Spec => [][InOrder]_vars
  BY <1>1, TypeCorrect, PTL DEF Spec
<1>3. QED
  BY <1>2 DEF StartsAfterDependencies, InOrder
==========================================================================
