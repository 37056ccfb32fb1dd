----------------------- MODULE MCDependencyScheduler -----------------------
(* Four programs in a diamond: d needs b and c, which both need a. *)
EXTENDS DependencyScheduler, TLC

CONSTANTS a, b, c, d

MCNode == {a, b, c, d}
MCDeps == (a :> {}) @@ (b :> {a}) @@ (c :> {a}) @@ (d :> {b, c})
=============================================================================
