---------------------------- MODULE ProcessLifecycle ----------------------------
(***************************************************************************)
(* What the process table promises about each process, whatever its        *)
(* threads do: a process is born running, stops and continues, exits once, *)
(* is collected once and never comes back, and two processes never change  *)
(* state in the same step.  ProcessTable implements this specification.    *)
(***************************************************************************)
EXTENDS Naturals

CONSTANT Proc

VARIABLE state

States == {"unborn", "running", "stopped", "zombie", "collected"}

Init == state = [p \in Proc |-> "unborn"]

Move(p, from, to) == state[p] = from /\ state' = [state EXCEPT ![p] = to]

Birth(p) == Move(p, "unborn", "running")
Stop(p) == Move(p, "running", "stopped")
Continue(p) == Move(p, "stopped", "running")
Exit(p) == Move(p, "running", "zombie") \/ Move(p, "stopped", "zombie")
Collect(p) == Move(p, "zombie", "collected")

Next == \E p \in Proc : Birth(p) \/ Stop(p) \/ Continue(p) \/ Exit(p) \/ Collect(p)

Spec == Init /\ [][Next]_state
=================================================================================
