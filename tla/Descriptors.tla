------------------------------- MODULE Descriptors -------------------------------
(***************************************************************************)
(* File descriptors of the kernel's processes: ProcessFdTable and          *)
(* FdTableManager (crates/kernel/src/fd_table.rs), the reference counts of *)
(* open file descriptions, and the close of a pipe or PTY end with its     *)
(* last descriptor (fd_close, fd_dup2 and cleanup_process_resources in     *)
(* kernel.rs).                                                             *)
(*                                                                         *)
(* KernelVm's methods take &mut self and run one at a time, on the thread  *)
(* Kernel.  A process exits by exit_process on that thread, by finish or   *)
(* kill of its handle on another thread, or by the hang-up that the exit   *)
(* of another process sends its orphaned group; the exit callback runs     *)
(* cleanup_process_resources, and waitpid runs it once more.  It takes the *)
(* lock of the tables twice and the locks of the pipes and PTYs later.     *)
(* register_process takes the locks of the tables, of the process table    *)
(* and of driver_pids one after the other.                                 *)
(*                                                                         *)
(* A description is its id; the factory of the tables and the pipe and PTY *)
(* managers number theirs apart, here one counter does.  What an end does  *)
(* once it is closed is the subject of module Pipe.                        *)
(***************************************************************************)
EXTENDS Naturals, FiniteSets

CONSTANTS
    Pid,        \* pids of the processes that will be spawned
    Kernel,     \* the thread inside KernelVm
    NoPid,
    MaxFds,     \* MAX_FDS_PER_PROCESS
    Stdio,      \* descriptors a fresh table starts with: 3 in the code
    MaxDesc     \* bound on the descriptions allocated

ASSUME DescriptorAssumption ==
    /\ Kernel \notin Pid /\ NoPid \notin Pid
    /\ IsFiniteSet(Pid)
    /\ MaxFds \in Nat \ {0} /\ Stdio \in Nat /\ Stdio <= MaxFds
    /\ MaxDesc \in Nat

Fd == 0..(MaxFds - 1)
Desc == 1..MaxDesc
NoDesc == 0
Thread == Pid \cup {Kernel}     \* a pid stands for the thread its handle is used on

VARIABLES
    tables,     \* what each descriptor of each process refers to
    has,        \* the pids that have a table
    next_fd,    \* ProcessFdTable.next_fd
    refs,       \* FileDescription.ref_count
    next_desc,  \* the next description id
    ends,       \* the pipe and PTY ends that are not closed: desc_to_pipe and desc_to_pty
    owners,     \* the pids in driver_pids
    registering, \* the process register_process is at work on
    spawned,    \* the processes in the process table, ended ones included
    exited, reaped,
    job,        \* the cleanup or close each thread is in
    special,    \* the descriptions that are pipe or PTY ends (history)
    opened,     \* the ends that have had a descriptor (history)
    missed,     \* see CleanupTables (history)
    early       \* the processes that exited before driver_pids had them (history)

vars == <<tables, has, next_fd, refs, next_desc, ends, owners, registering, spawned, exited, reaped,
          job, special, opened, missed, early>>
process == <<owners, registering, spawned, exited, reaped, early>>
history == <<special, opened, missed>>

NoJob == [pc |-> "idle", pid |-> NoPid, seen |-> {}, todo |-> {}, at |-> NoDesc]

\* begin, seen: before the first and the second lock of the tables; close: before the next
\* description of todo is looked at; closing: its count was zero, the end is about to be closed.
Job == [pc : {"idle", "begin", "seen", "close", "closing"}, pid : Pid \cup {NoPid},
        seen : SUBSET Desc, todo : SUBSET Desc, at : Desc \cup {NoDesc}]

Table == [Fd -> Desc \cup {NoDesc}]

NoTable == [f \in Fd |-> NoDesc]

\* Every variable has its declared shape.
TypeOK ==
    /\ tables \in [Pid -> Table]
    /\ has \subseteq Pid
    /\ next_fd \in [Pid -> 0..MaxFds]
    /\ refs \in [Desc -> Nat]
    /\ next_desc \in 1..(MaxDesc + 1)
    /\ ends \subseteq Desc
    /\ owners \subseteq Pid /\ spawned \subseteq Pid /\ exited \subseteq Pid /\ reaped \subseteq Pid
    /\ registering \in Pid \cup {NoPid} /\ early \subseteq Pid
    /\ job \in [Thread -> Job]
    /\ special \subseteq Desc /\ opened \subseteq Desc /\ missed \subseteq Desc

Init ==
    /\ tables = [p \in Pid |-> NoTable]
    /\ has = {}
    /\ next_fd = [p \in Pid |-> Stdio]
    /\ refs = [d \in Desc |-> 0]
    /\ next_desc = 1
    /\ ends = {}
    /\ owners = {} /\ spawned = {} /\ exited = {} /\ reaped = {}
    /\ registering = NoPid /\ early = {}
    /\ job = [t \in Thread |-> NoJob]
    /\ special = {} /\ opened = {} /\ missed = {}

--------------------------------------------------------------------------------
(* Reference counts. *)

\* saturating_sub
Minus(a, b) == IF b <= a THEN a - b ELSE 0

Increment(rc, d) == [rc EXCEPT ![d] = @ + 1]
Decrement(rc, d) == [rc EXCEPT ![d] = Minus(@, 1)]

Descriptors(t, d) == {f \in Fd : t[f] = d}
Count(t, d) == Cardinality(Descriptors(t, d))

InTable(t) == {t[f] : f \in Fd} \ {NoDesc}

--------------------------------------------------------------------------------
(* allocate_fd: the first free descriptor from next_fd on, round the table once. *)

Distance(start, f) == IF start <= f THEN f - start ELSE f + MaxFds - start

Free(t) == {f \in Fd : t[f] = NoDesc}

AllocateFd(t, next, f) ==
    /\ f \in Free(t)
    /\ \A g \in Free(t) : Distance(next % MaxFds, f) <= Distance(next % MaxFds, g)

\* allocate_fd_from: the first free one at or after min.
AllocateFdFrom(t, min, f) ==
    /\ f \in Free(t) /\ min <= f
    /\ \A g \in Free(t) : min <= g => f <= g

--------------------------------------------------------------------------------
(* register_process: the table, then the entry of the process table, then the owners. *)

Idle == job[Kernel].pc = "idle" /\ registering = NoPid

CreateTable(p) ==
    /\ Idle
    /\ p \notin spawned
    /\ has' = has \cup {p}
    /\ registering' = p
    /\ UNCHANGED <<ends, owners, spawned, exited, reaped, early, job, history>>

\* FdTableManager::create: without a parent, or when the parent's table is gone.
SpawnFresh(p) ==
    /\ CreateTable(p)
    /\ next_desc + Stdio <= MaxDesc + 1
    /\ tables' = [tables EXCEPT ![p] = [f \in Fd |-> IF f < Stdio THEN next_desc + f ELSE NoDesc]]
    /\ refs' = [d \in Desc |-> IF next_desc <= d /\ d < next_desc + Stdio THEN 1 ELSE refs[d]]
    /\ next_desc' = next_desc + Stdio
    /\ UNCHANGED next_fd

\* FdTableManager::fork.
SpawnForked(parent, p) ==
    /\ CreateTable(p)
    /\ parent \in has
    /\ tables' = [tables EXCEPT ![p] = tables[parent]]
    /\ next_fd' = [next_fd EXCEPT ![p] = next_fd[parent]]
    /\ refs' = [d \in Desc |-> refs[d] + Count(tables[parent], d)]
    /\ UNCHANGED next_desc

\* processes.register: from here on the process can be signalled and can exit.
Register(p) ==
    /\ registering = p /\ p \notin spawned
    /\ spawned' = spawned \cup {p}
    /\ UNCHANGED <<tables, has, next_fd, refs, next_desc, ends, owners, registering, exited, reaped, early,
                   job, history>>

\* driver_pids gets the process, which may have exited by now, and the caller its handle.
RecordOwner(p) ==
    /\ registering = p /\ p \in spawned
    /\ owners' = owners \cup {p}
    /\ registering' = NoPid
    /\ UNCHANGED <<tables, has, next_fd, refs, next_desc, ends, spawned, exited, reaped, early, job, history>>

--------------------------------------------------------------------------------
(* Opening and duplicating. *)

\* assert_driver_owns, then the table is looked up.
Call(p) == Idle /\ p \in owners /\ p \in has

OpenFile(p) ==
    /\ Call(p)
    /\ next_desc <= MaxDesc
    /\ \E f \in Fd :
        /\ AllocateFd(tables[p], next_fd[p], f)
        /\ tables' = [tables EXCEPT ![p][f] = next_desc]
        /\ next_fd' = [next_fd EXCEPT ![p] = f + 1]
    /\ refs' = [refs EXCEPT ![next_desc] = 1]
    /\ next_desc' = next_desc + 1
    /\ UNCHANGED <<has, ends, process, job, history>>

\* create_pipe and create_pty: two registered ends with count 0.
CreatePair(p) ==
    /\ Call(p)
    /\ next_desc + 1 <= MaxDesc
    /\ next_desc' = next_desc + 2
    /\ special' = special \cup {next_desc, next_desc + 1}
    /\ UNCHANGED <<has, process, job, missed>>

OpenPair(p) ==
    /\ CreatePair(p)
    /\ \E f, g \in Fd :
        LET t == [tables[p] EXCEPT ![f] = next_desc] IN
        /\ AllocateFd(tables[p], next_fd[p], f)
        /\ AllocateFd(t, f + 1, g)
        /\ tables' = [tables EXCEPT ![p] = [t EXCEPT ![g] = next_desc + 1]]
        /\ next_fd' = [next_fd EXCEPT ![p] = g + 1]
    /\ refs' = Increment(Increment(refs, next_desc), next_desc + 1)
    /\ ends' = ends \cup {next_desc, next_desc + 1}
    /\ opened' = opened \cup {next_desc, next_desc + 1}

\* The second open_with fails: the first descriptor and both ends are closed again.
OpenPairHalf(p) ==
    /\ CreatePair(p)
    /\ \E f \in Fd :
        /\ Free(tables[p]) = {f}
        /\ next_fd' = [next_fd EXCEPT ![p] = f + 1]
    /\ UNCHANGED <<tables, refs, ends, opened>>

\* The first open_with fails: the ends stay registered.
OpenPairFull(p) ==
    /\ CreatePair(p)
    /\ Free(tables[p]) = {}
    /\ ends' = ends \cup {next_desc, next_desc + 1}
    /\ UNCHANGED <<tables, next_fd, refs, opened>>

Duplicate(p, old, new) ==
    /\ tables' = [tables EXCEPT ![p][new] = tables[p][old]]
    /\ next_fd' = [next_fd EXCEPT ![p] = new + 1]
    /\ refs' = Increment(refs, tables[p][old])
    /\ UNCHANGED <<has, next_desc, ends, process, job, history>>

\* fd_dup, and fd_open of a /dev/fd path.
Dup(p, old) ==
    /\ Call(p)
    /\ tables[p][old] # NoDesc
    /\ \E new \in Fd : AllocateFd(tables[p], next_fd[p], new) /\ Duplicate(p, old, new)

\* fcntl F_DUPFD.
FcntlDup(p, old, min) ==
    /\ Call(p)
    /\ tables[p][old] # NoDesc
    /\ \E new \in Fd : AllocateFdFrom(tables[p], min, new) /\ Duplicate(p, old, new)

--------------------------------------------------------------------------------
(* Closing. *)

\* Mutant: the resource is forgotten.
ThenNothing(ds) == UNCHANGED job

\* Once the tables are unlocked, close_special_resource_if_needed runs for ds.
ThenClose(ds) == job' = [job EXCEPT ![Kernel] = [NoJob EXCEPT !.pc = "close", !.todo = ds]]

Close(p, f) ==
    /\ Call(p)
    /\ tables[p][f] # NoDesc
    /\ tables' = [tables EXCEPT ![p][f] = NoDesc]
    /\ refs' = Decrement(refs, tables[p][f])
    /\ ThenClose({tables[p][f]})
    /\ UNCHANGED <<has, next_fd, next_desc, ends, process, history>>

\* fd_dup2 onto a free descriptor.
Dup2(p, old, new) ==
    /\ Call(p)
    /\ tables[p][old] # NoDesc /\ tables[p][new] = NoDesc
    /\ tables' = [tables EXCEPT ![p][new] = tables[p][old]]
    /\ refs' = Increment(refs, tables[p][old])
    /\ UNCHANGED <<has, next_fd, next_desc, ends, process, job, history>>

\* Mutant: the entry is overwritten without a close.
Dup2Overwrites(p, old, new) ==
    /\ Call(p)
    /\ old # new
    /\ tables[p][old] # NoDesc /\ tables[p][new] # NoDesc
    /\ tables' = [tables EXCEPT ![p][new] = tables[p][old]]
    /\ refs' = Increment(refs, tables[p][old])
    /\ ThenClose({tables[p][new]})
    /\ UNCHANGED <<has, next_fd, next_desc, ends, process, history>>

\* fd_dup2 onto one that is in use.
Dup2Replaces(p, old, new) ==
    /\ Call(p)
    /\ old # new
    /\ tables[p][old] # NoDesc /\ tables[p][new] # NoDesc
    /\ tables' = [tables EXCEPT ![p][new] = tables[p][old]]
    /\ refs' = Increment(Decrement(refs, tables[p][new]), tables[p][old])
    /\ ThenClose({tables[p][new]})
    /\ UNCHANGED <<has, next_fd, next_desc, ends, process, history>>

--------------------------------------------------------------------------------
(* cleanup_process_resources. *)

\* Mutant: the thread's number for the process's.
BeginOwn(t, p) == job' = [job EXCEPT ![t] = [NoJob EXCEPT !.pc = "begin", !.pid = t]]

Begin(t, p) == job' = [job EXCEPT ![t] = [NoJob EXCEPT !.pc = "begin", !.pid = p]]

\* exit_process: the exit callback runs on the kernel's thread.
ExitProcess(p) ==
    /\ Idle
    /\ p \in owners \ exited
    /\ exited' = exited \cup {p}
    /\ Begin(Kernel, p)
    /\ UNCHANGED <<tables, has, next_fd, refs, next_desc, ends, owners, registering, spawned, reaped, early,
                   history>>

\* An exit has a hang-up to send before its exit callback runs.
HangUp(p) == \E q \in Pid \ {p} : job[q].pc = "begin"

\* finish or kill of the process handle, or a hang-up, which is all that can end a process
\* before register_process has returned its handle.  Its exit callback then runs on the thread
\* of the exit that sent it; here it has one of its own.
Finish(p) ==
    /\ p \in spawned \ exited
    /\ registering = p => HangUp(p)
    /\ exited' = exited \cup {p}
    /\ early' = IF registering = p THEN early \cup {p} ELSE early
    /\ Begin(p, p)
    /\ UNCHANGED <<tables, has, next_fd, refs, next_desc, ends, owners, registering, spawned, reaped, history>>

\* waitpid has collected the zombie, whose exit callback may still be running.
Waitpid(p) ==
    /\ Idle
    /\ p \in exited \ reaped
    /\ reaped' = reaped \cup {p}
    /\ Begin(Kernel, p)
    /\ UNCHANGED <<tables, has, next_fd, refs, next_desc, ends, owners, registering, spawned, exited, early,
                   history>>

\* The first lock: what the process has open.
CleanupSnapshot(t) ==
    /\ job[t].pc = "begin"
    /\ job' = [job EXCEPT ![t].pc = "seen",
                          ![t].seen = IF job[t].pid \in has THEN InTable(tables[job[t].pid]) ELSE {}]
    /\ UNCHANGED <<tables, has, next_fd, refs, next_desc, ends, process, history>>

\* The second lock: every descriptor is closed and the table goes.  What was opened since the
\* first lock loses its descriptor like the rest but is not looked at afterwards.
CleanupTables(t) ==
    /\ job[t].pc = "seen"
    /\ LET p == job[t].pid IN
       IF p \in has
       THEN /\ refs' = [d \in Desc |-> Minus(refs[d], Count(tables[p], d))]
            /\ tables' = [tables EXCEPT ![p] = NoTable]
            /\ next_fd' = [next_fd EXCEPT ![p] = Stdio]
            /\ has' = has \ {p}
            /\ job' = [job EXCEPT ![t].pc = "close", ![t].seen = {}, ![t].todo = job[t].seen]
            /\ missed' = missed \cup {d \in InTable(tables[p]) \ job[t].seen : refs'[d] = 0}
       ELSE /\ job' = [job EXCEPT ![t].pc = "close", ![t].seen = {}]
            /\ UNCHANGED <<tables, has, next_fd, refs, missed>>
    /\ UNCHANGED <<next_desc, ends, process, special, opened>>

\* close_special_resource_if_needed returns early while the description is in use.  The order
\* of the descriptions makes no difference to what is stated here.
CloseSpecialKeeps(t, d) ==
    /\ job[t].pc = "close" /\ d \in job[t].todo
    /\ refs[d] # 0
    /\ job' = [job EXCEPT ![t].todo = @ \ {d}]
    /\ UNCHANGED <<tables, has, next_fd, refs, next_desc, ends, process, history>>

\* Mutant: the count is not looked at.
CloseSpecialAlways(t, d) ==
    /\ job[t].pc = "close" /\ d \in job[t].todo
    /\ job' = [job EXCEPT ![t].pc = "closing", ![t].at = d]
    /\ UNCHANGED <<tables, has, next_fd, refs, next_desc, ends, process, history>>

CloseSpecial(t, d) ==
    /\ job[t].pc = "close" /\ d \in job[t].todo
    /\ refs[d] = 0
    /\ job' = [job EXCEPT ![t].pc = "closing", ![t].at = d]
    /\ UNCHANGED <<tables, has, next_fd, refs, next_desc, ends, process, history>>

\* PipeManager::close or PtyManager::close; other descriptions are in neither.
CloseEnd(t) ==
    /\ job[t].pc = "closing"
    /\ ends' = ends \ {job[t].at}
    /\ job' = [job EXCEPT ![t].pc = "close", ![t].at = NoDesc, ![t].todo = @ \ {job[t].at}]
    /\ UNCHANGED <<tables, has, next_fd, refs, next_desc, process, history>>

\* Mutant: driver_pids keeps the process.
DoneKeepsOwner(t) ==
    /\ job[t].pc = "close" /\ job[t].todo = {}
    /\ job' = [job EXCEPT ![t] = NoJob]
    /\ UNCHANGED <<tables, has, next_fd, refs, next_desc, ends, process, history>>

\* A cleanup takes the process from driver_pids last.
Done(t) ==
    /\ job[t].pc = "close" /\ job[t].todo = {}
    /\ owners' = owners \ {job[t].pid}
    /\ job' = [job EXCEPT ![t] = NoJob]
    /\ UNCHANGED <<tables, has, next_fd, refs, next_desc, ends, registering, spawned, exited, reaped, early,
                   history>>

--------------------------------------------------------------------------------
JobNext(t) ==
    \/ CleanupSnapshot(t) \/ CleanupTables(t) \/ CloseEnd(t) \/ Done(t)
    \/ \E d \in Desc : CloseSpecialKeeps(t, d) \/ CloseSpecial(t, d)

ProcessNext(p) ==
    \/ SpawnFresh(p)
    \/ \E parent \in Pid : SpawnForked(parent, p)
    \/ Register(p) \/ RecordOwner(p)
    \/ OpenFile(p) \/ OpenPair(p) \/ OpenPairHalf(p) \/ OpenPairFull(p)
    \/ \E f \in Fd : Dup(p, f) \/ Close(p, f)
    \/ \E f, g \in Fd : FcntlDup(p, f, g) \/ Dup2(p, f, g) \/ Dup2Replaces(p, f, g)
    \/ ExitProcess(p) \/ Finish(p) \/ Waitpid(p)

Next == (\E p \in Pid : ProcessNext(p)) \/ (\E t \in Thread : JobNext(t))

Spec == Init /\ [][Next]_vars

--------------------------------------------------------------------------------
(* Properties. *)

\* The reference count of a description is the number of descriptors that refer to it, in all
\* tables together, although the decrement saturates and dup2, fork and two cleanups of one
\* process may meet in any order.
RefCountExact ==
    \A d \in Desc : refs[d] = Cardinality({pf \in Pid \X Fd : tables[pf[1]][pf[2]] = d})

\* A descriptor never refers to a closed pipe or PTY end: between the look at the count and the
\* close of the end no fork or dup brings the description back.
NoDanglingDescriptor ==
    \A p \in Pid, f \in Fd : tables[p][f] \in special => tables[p][f] \in ends

\* The last close closes the end: an end that has lost its last descriptor is on the list of a
\* thread that will close it.  The one exception is what cleanup_process_resources did not see
\* at its first lock.
LastCloseCloses ==
    \A d \in (ends \cap opened) \ missed :
        refs[d] = 0 => \E t \in Thread : job[t].pc \in {"close", "closing"} /\ d \in job[t].todo

\* Once its exit callback is through, a process has no table, and no later call or cleanup gives
\* it descriptors again.  No driver owns it either, unless it ended before register_process
\* recorded its owner; then it is owned until waitpid has collected it and cleaned up once more.
ExitedOwnsNothing ==
    \A p \in exited :
        \/ \E t \in Thread : job[t].pid = p
        \/ p \notin has /\ (p \in owners => p \in early \ reaped)
================================================================================
