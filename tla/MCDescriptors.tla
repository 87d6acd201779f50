------------------------------ MODULE MCDescriptors ------------------------------
(* Instances of Descriptors for TLC. *)
EXTENDS Descriptors, TLC

Processes == Permutations(Pid)
================================================================================
