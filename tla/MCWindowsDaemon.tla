-------------------------- MODULE MCWindowsDaemon --------------------------
(* Instances of the Windows daemon: b depends on a. *)
EXTENDS WindowsDaemon, TLC

CONSTANTS a, b

One == {a}
Two == {a, b}

JustA == <<a>>
AB == <<a, b>>

ChainDeps == [n \in Node |-> IF n = b THEN {a} ELSE {}]

AllTrue == [n \in Node |-> TRUE]
AllFalse == [n \in Node |-> FALSE]
JustB == [n \in Node |-> n = b]

AllTimed == [n \in Node |-> "timed"]
TimedThenZero == [n \in Node |-> IF n = b THEN "zero" ELSE "timed"]

AllRestart == [n \in Node |-> "restart"]
SkipThenRestart == [n \in Node |-> IF n = b THEN "restart" ELSE "skip"]
=============================================================================
