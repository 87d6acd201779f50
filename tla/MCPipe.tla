--------------------------------- MODULE MCPipe ---------------------------------
(* Instances of Pipe for TLC: the threads of a kind are interchangeable. *)
EXTENDS Pipe, TLC

Threads == Permutations(Reader) \cup Permutations(Writer)
================================================================================
