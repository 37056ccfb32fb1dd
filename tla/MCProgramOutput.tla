-------------------------- MODULE MCProgramOutput --------------------------
(* The clients of the safety run are interchangeable. *)
EXTENDS ProgramOutput, TLC

Interchangeable == Permutations(Clients)
=============================================================================
