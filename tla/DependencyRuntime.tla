------------------------- MODULE DependencyRuntime -------------------------
(***************************************************************************)
(* dependency_runtime (core/dependency_graph.cpp): which programs of the   *)
(* dependency graph have been asked to start, which may start now, and     *)
(* which are held back by a failed dependency.                             *)
(*                                                                         *)
(* A runtime is a record [nodes, state, requested]; nodes is the node set  *)
(* of the graph it is attached to.  A name that is not a node reads as     *)
(* idle and every operation on it returns at once (find() = npos).         *)
(*                                                                         *)
(* The C++ code walks the graph recursively or in topological order; the   *)
(* walks are given here by the sets they visit, as fixed points.  On an    *)
(* acyclic graph, the only kind build() lets through, they are the same.   *)
(***************************************************************************)
EXTENDS FiniteSets

CONSTANTS
  Node,  \* program names
  Deps   \* Deps[n]: the depends_on of program n

ASSUME DepsAssumption == Deps \in [Node -> SUBSET Node]

\* dependency_graph::build rejects self dependencies and cycles: every
\* non-empty set of programs has one that depends on no other of them.
ASSUME DepsAcyclic ==
  \A S \in SUBSET Node : S # {} => \E n \in S : Deps[n] \cap S = {}

RtStates == {"idle", "pending", "starting", "ready", "failed", "blocked"}

Runtimes == [nodes : SUBSET Node,
             state : [Node -> RtStates],
             requested : [Node -> BOOLEAN]]

\* The smallest superset of Seed that is closed under the step relation R(m),
\* the set of nodes reached from m in one step.
Reach(Seed, R(_)) ==
  {n \in Node : \A S \in SUBSET Node :
     (Seed \subseteq S /\ \A m \in S : R(m) \subseteq S) => n \in S}

\* Everything n depends on, directly or not.
transitive_dependencies ==
  LET Step(m) == Deps[m] IN [n \in Node |-> Reach(Deps[n], Step)]

dependents(G, n) == {m \in G : n \in Deps[m]}

\* dependency_graph::transitive_dependents.  A graph holds every dependency
\* of its nodes, so no path to a node of G leaves G.
transitive_dependents(G, n) == {m \in G : n \in transitive_dependencies[m]}

-----------------------------------------------------------------------------
\* dependency_runtime::reset
reset(G) == [nodes |-> G,
             state |-> [n \in Node |-> "idle"],
             requested |-> [n \in Node |-> FALSE]]

\* dependency_runtime::migrate: entries of names the new graph lacks are dropped.
migrate(G, rt) ==
  [nodes |-> G,
   state |-> [n \in Node |-> IF n \in G \cap rt.nodes THEN rt.state[n] ELSE "idle"],
   requested |-> [n \in Node |-> n \in G \cap rt.nodes /\ rt.requested[n]]]

\* dependency_runtime::dependencies_ready
dependencies_ready(rt, n) == \A d \in Deps[n] : rt.state[d] = "ready"

\* Mutant: one ready dependency is enough.
Mut_IsStartable(rt, n) ==
  /\ n \in rt.nodes /\ rt.requested[n] /\ rt.state[n] = "pending"
  /\ Deps[n] = {} \/ \E d \in Deps[n] : rt.state[d] = "ready"

IsStartable(rt, n) ==
  n \in rt.nodes /\ rt.requested[n] /\ rt.state[n] = "pending" /\ dependencies_ready(rt, n)

\* dependency_runtime::collect_startable: the runtime it leaves behind and the
\* programs it hands to the caller to be started.
collect_startable(rt) ==
  [rt |-> [rt EXCEPT !.state =
             [n \in Node |-> IF IsStartable(rt, n) THEN "starting" ELSE @[n]]],
   start |-> {n \in Node : IsStartable(rt, n)}]

\* Mutant: the walk also stops at failed and blocked nodes.
Mut_Expands(rt, n) == ~rt.requested[n]

\* dependency_runtime::request_dependencies stops at a node that is already
\* requested, unless that node is failed or blocked.
Expands(rt, n) == ~rt.requested[n] \/ rt.state[n] \in {"failed", "blocked"}

\* The nodes request_dependencies(id) goes through.
Visited(rt, id) ==
  LET Step(m) == {d \in Deps[m] : Expands(rt, d)}
  IN  Reach({n \in {id} : Expands(rt, n)}, Step)

\* dependency_runtime::request_dependencies
request_dependencies(rt, id) ==
  [rt EXCEPT
     !.requested = [n \in Node |-> n \in Visited(rt, id) \/ @[n]],
     !.state = [n \in Node |->
                  IF @[n] \in {"idle", "blocked", "failed"} /\ n \in Visited(rt, id)
                  THEN "pending" ELSE @[n]]]

\* dependency_runtime::request_all
request_all(rt) ==
  collect_startable([rt EXCEPT
    !.requested = [n \in Node |-> n \in rt.nodes],
    !.state = [n \in Node |->
                 IF n \in rt.nodes /\ @[n] \in {"idle", "blocked"} THEN "pending" ELSE @[n]]])

\* dependency_runtime::request_closure
request_closure(rt, name) ==
  IF name \notin rt.nodes THEN [rt |-> rt, start |-> {}]
  ELSE collect_startable(request_dependencies(rt, name))

\* The blocked programs downstream of id.
Held(rt, id) == {n \in transitive_dependents(rt.nodes, id) :
                   rt.requested[n] /\ rt.state[n] = "blocked"}

\* Whether mark_ready(id) sets the blocked program n back to pending, given
\* the runtime in which id is ready and the programs held below it.  The code
\* walks the dependents of id in topological order, so that each sees its
\* dependencies as the walk has already left them: n is released if it belongs
\* to a set of held programs whose dependencies are neither failed nor blocked
\* outside the set.
IsUnblocked(rt, held, n) ==
  \E U \in SUBSET held :
    /\ n \in U
    /\ \A m \in U : \A d \in Deps[m] :
         rt.state[d] # "failed" /\ (rt.state[d] = "blocked" => d \in U)

\* The held programs that are released are set back to pending.
Unblocked(rt, held) ==
  [rt EXCEPT !.state = [n \in Node |-> IF IsUnblocked(rt, held, n) THEN "pending" ELSE @[n]]]

\* Mutant: the programs that became startable are not collected.
Mut_mark_ready(rt, name) ==
  IF name \notin rt.nodes THEN [rt |-> rt, start |-> {}]
  ELSE LET r == [rt EXCEPT !.requested[name] = TRUE, !.state[name] = "ready"]
       IN  [rt |-> Unblocked(r, Held(r, name)), start |-> {}]

\* dependency_runtime::mark_ready
mark_ready(rt, name) ==
  IF name \notin rt.nodes THEN [rt |-> rt, start |-> {}]
  ELSE LET r == [rt EXCEPT !.requested[name] = TRUE, !.state[name] = "ready"]
       IN  collect_startable(Unblocked(r, Held(r, name)))


\* The dependents mark_failed(name) holds back.
Blockable(rt, name) ==
  {n \in transitive_dependents(rt.nodes, name) : rt.requested[n] /\ rt.state[n] # "ready"}

\* dependency_runtime::mark_failed, with the programs it newly blocked.
mark_failed(rt, name) ==
  IF name \notin rt.nodes THEN [rt |-> rt, blocked |-> {}]
  ELSE [rt |-> [rt EXCEPT
                  !.requested[name] = TRUE,
                  !.state = [n \in Node |-> CASE n = name -> "failed"
                                             [] n # name /\ n \in Blockable(rt, name) -> "blocked"
                                             [] OTHER -> @[n]]],
        blocked |-> {n \in Blockable(rt, name) : rt.state[n] # "blocked"}]

\* dependency_runtime::mark_idle
mark_idle(rt, name) ==
  IF name \notin rt.nodes THEN rt
  ELSE [rt EXCEPT !.requested[name] = FALSE, !.state[name] = "idle"]

\* dependency_runtime::mark_starting and mark_pending
mark_starting(rt, name) ==
  IF name \notin rt.nodes THEN rt
  ELSE [rt EXCEPT !.requested[name] = TRUE, !.state[name] = "starting"]

mark_pending(rt, name) ==
  IF name \notin rt.nodes THEN rt
  ELSE [rt EXCEPT !.requested[name] = TRUE, !.state[name] = "pending"]

=============================================================================
