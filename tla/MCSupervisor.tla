---------------------------- MODULE MCSupervisor ----------------------------
(* Instances of the supervisor: b depends on a. *)
EXTENDS Supervisor, TLC

CONSTANTS a, b

One == {a}
Two == {a, b}

JustA == <<a>>
AB == <<a, b>>

ChainDeps == [n \in Node |-> IF n = b THEN {a} ELSE {}]

AllTrue == [n \in Node |-> TRUE]
AllFalse == [n \in Node |-> FALSE]
OnlyA == [n \in Node |-> n = a]

AllSkip == [n \in Node |-> "skip"]
RestartSkip == [n \in Node |-> IF n = a THEN "restart" ELSE "skip"]
RestartReboot == [n \in Node |-> IF n = a THEN "restart" ELSE "reboot"]

Once == [n \in Node |-> 1]
TwiceOnce == [n \in Node |-> IF n = a THEN 2 ELSE 1]
=============================================================================
