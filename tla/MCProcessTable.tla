---------------------------- MODULE MCProcessTable ----------------------------
(* Instances of ProcessTable for TLC: the threads are interchangeable.          *)
EXTENDS ProcessTable, TLC

\* any child, a child of the caller's group, one child
MCWaitPids == {-1, 0, 3}

MCAnyChild == {-1}

\* waitpid_for with and without the job control events
MCJobFlags == {{"WUNTRACED", "WCONTINUED"}, {"WUNTRACED", "WNOHANG"}}

\* any earlier process, or none
MCAnyParent == [p \in Pid |-> 0..(p - 1)]

\* 1 is init, 2 its shell, 3 a job of the shell, 4 another process of init
MCShell == [p \in Pid |-> CASE p = 1 -> {0} [] p = 2 -> {1} [] p = 3 -> {2} [] OTHER -> {1}]

\* either process, and the group both are born in
MCKillPids == {-1, 1, 2}

Threads == Permutations(Killer) \cup Permutations(Waiter)
===============================================================================
