# A verification of the agentOS kernel

agentOS runs untrusted agent programs inside a small operating system of its own.
Its kernel (`crates/kernel`) gives them processes, file descriptors, pipes,
terminals, sockets, file locks and a virtual file system; a sidecar process
(`crates/sidecar`) serves requests for several such VMs over stdio and drives guest
runtimes (`crates/execution`, `crates/v8-runtime`); clients in TypeScript and Python
sit in front of it.

This directory holds TLA+ modules of the kernel's concurrent core, TLC configurations
that check them on small instances, and TLAPS proofs for every value of their
constants. `PROJECT.json` maps every definition to the lines it models and lists the
runs, the hazards, the findings and the theorems.

To repeat a check, `tlc -config ProcWait.cfg MCProcessTable`; to repeat a proof,
`tlapm PipeProofs.tla`. The longest run takes about a minute and a half on two
workers, the longest proof module (`DescriptorsProofs`) about ten minutes.

## 1. The system and what is modelled

| part | source | module | state |
|---|---|---|---|
| process table, zombie reaper, `terminate_all` | `kernel/src/process_table.rs` | `ProcessTable`, `ProcessLifecycle` | modelled, but for umask and identity |
| advisory file locks | `fd_table.rs` (`FileLockManager`), `fd_flock` | `FileLocks` | modelled |
| pipes | `pipe_manager.rs` | `Pipe` | modelled |
| poll | `poll.rs`, `poll_targets` | `Pipe` | pipes only |
| descriptor tables, reference counts, exit cleanup | `fd_table.rs`, `kernel.rs` | `Descriptors` | partly: no flags, cursors, `dispose` |
| pseudo-terminals | `pty.rs` | their ends in `Descriptors` | planned |
| socket table, resource accounting | `socket_table.rs`, `resource_accounting.rs` | | planned |
| vfs, overlay, mounts | `vfs.rs`, `overlay_fs.rs`, `mount_table.rs` | | planned |
| sidecar protocol, service, ACP client; v8 sessions | `crates/sidecar`, `crates/v8-runtime` | | planned |
| root fs, device layer, permissions, dns, users, command registry | `kernel/src` | | no: sequential, without shared state, or I/O |
| guest runtimes, plugins, TypeScript packages, web backend and frontend, registry | | | no: I/O, encoding, user interface |

**Where the concurrency comes from.** Most methods of `KernelVm` take `&mut self`,
so one thread at a time is inside the facade. `fd_flock` and `poll_targets` take
`&self`. The managers below (process table, pipes, locks, notifier, tables) are
`Arc`ed, cloned out of the VM and used from several threads by the repository's own
tests. A process handle (`KernelProcessHandle::finish`, `kill`) is used on other
threads, and the exit of a process runs a callback there that takes the tables' locks.
The reaper is a thread of the process table. A model's threads are these.

**Granularity.** An action is one critical section of a mutex, or one step a thread
takes between two critical sections. A condition variable is a set of calls with
`pc = "blocked"`; `notify_all` makes them `"ready"`, and a ready call runs its loop
again from the test. Spurious wake-ups only repeat a turn that blocks again.

## 2. The modules

### ProcessTable

State: the columns of an entry (`status`, `ppid`, `pgid`, `sid`, `events`), the
reaper's `deadlines`, `terminating` for `terminating_all`, and for each thread what it
carries between two critical sections.

| code | actions |
|---|---|
| `allocate_pid`, `register` | `AllocatePid`, `RegisterInherit` (first lock: group and session), `RegisterInsert` (second lock) |
| driver's end and `exit_process` | `DriverExit`, `OnExit`, `ExitProcess`, all through `MarkExited` |
| `mark_exited_inner` after its unlock | `TailReaper` (schedule or cancel), `TailHangup` (SIGHUP and SIGCONT), `TailCallback` (cleanup, `notify_all`) |
| `kill` | `Kill` (snapshot), `KillNext` (one target), `KillReturn` |
| `setpgid`, `setsid` | `SetPgid`, `SetSid` |
| `waitpid`, `waitpid_for` | `WaitpidCall`, `WaitpidForCall`, `WaitFails`, `WaitTakesEvent`, `WaitReaps`, `WaitReturns`, `WaitNoHang`, `WaitBlocks` |
| reaper thread | `ReaperTake`, `ReaperReaps`, `ReaperKeeps` |
| `terminate_all` | `TerminateStart` to `TerminateEnd` |

Time is abstract: a deadline may be due at any moment (`TtlExpires`) and a bounded
wait may run out at any moment. A `Stubborn` driver ignores every signal but SIGKILL.
The stub driver of `kernel.rs` cannot end before `register` has returned, so drivers
end only once their entry is listed.

`ProcessLifecycle` is the abstract specification: a process is born running, stops and
continues, exits once and is collected once. `ProcessTable` implements it under the
mapping `LifecycleState`.

### FileLocks

State: per inode the `shared` holders and the `exclusive` one, the life of each open
file description, and the call each thread has inside `fd_flock`. `FdFlock` is the
lookup of the description under the table's lock; `AcquireGranted`,
`AcquireWouldBlock` and `AcquireWait` are the branches of the loop in `acquire`;
`LastClose` is the moment the reference count reaches zero and `ReleaseOnClose` the
later call of `release_owner`. All targets share one condition variable, as in the code.

### Pipe

One pipe: chunks of numbered bytes, the queue of waiting readers, a slot
(`PendingRead`) per reader, the closed flags, and the calls of readers, writers and
pollers. Writers hand a payload to the oldest waiting reader past the buffer
(`WriteHandsOver`) or store it (`WriteStores`: whole up to `PipeBuf`, in part above).
A timed read expires (`ReadExpires`) before it gets the mutex back (`ReadTimesOut`);
what happens in between is the interesting case. A poller snapshots the notifier's
generation, looks, and sleeps; `changed` says that the generation differs from its
snapshot, which is all the code's comparison tells. `open` says that the polled
descriptor is still in the caller's table: `poll_targets` takes `&self`, so only the
exit of the polling process, on another thread, takes it away (`PollFdGoes`). An end is
closed once no table refers to it, hence not under a poller whose descriptor is open.

### Descriptors

State: the tables, `next_fd`, the reference counts, the pipe and PTY ends that are
still registered, and per thread the `job` it is in: a `cleanup_process_resources`
between its two locks and among the closes that follow, or the close that follows
`fd_close` and `fd_dup2`. The thread `Kernel` is the one inside `KernelVm`; a pid
stands for the thread its handle is used on. `register_process` is three steps, one per
lock it takes: the table (`SpawnFresh`, `SpawnForked`), the entry of the process table
(`Register`) and `driver_pids` (`RecordOwner`). A process can exit from the second on. It
has no handle before the third, so only a hang-up can end it: another process exits on
another thread, its exit orphans the group the new process was born into, a stopped
member makes `mark_exited_inner` send SIGHUP to the whole group, and the stub driver
ends (`Finish` under `HangUp`). Groups are not part of this module: any exit that has yet
to run its callback may send the hang-up, and the callback of the process it ends gets a
thread of its own, which only adds interleavings.
`special`, `opened`, `missed` and `early` are history variables, used only by the properties.

### How they fit together

`Descriptors` says when an end is closed; `Pipe` says what a close does
(`CloseRead`, `CloseWrite`), at any moment, which covers every moment `Descriptors`
allows. `FileLocks` has the same two steps of a last close (`LastClose`,
`ReleaseOnClose`) that are `ThenClose` and `CloseSpecial` in `Descriptors`.
`ProcessTable`'s `TailCallback` is the place where `Descriptors` starts a cleanup job;
its `WaitReaps` is followed by the second one. A composed module is planned.

## 3. The runs

| run | instance | shows |
|---|---|---|
| `proc_wait` | 3 processes, every family tree, 1 waiter, reaper | `ZombieAccounted`: no zombie is forgotten. `WaiterNotStranded`: no lost wakeup. `ChildrenAdopted` |
| `proc_events` | 2 processes, 2 waiters with flags, 1 killer with STOP, CONT, KILL | `WaiterNotStranded` with stop and continue events, stale kill snapshots and two waiters after one event |
| `proc_jobs` | init, shell, job and sibling; shell changes group and session | `OrphanedGroupHungUp` |
| `proc_terminate` | 2 processes, one stubborn, killer, waiter, reaper, `terminate_all` | `TerminateKills` and the refinement `ImplementsLifecycle` |
| `proc_live` | 2 processes, 2 waiters, reaper, fairness | `ZombieCollected`, `WaitpidReturns` |
| `flock` | 3 descriptions on 2 inodes, 2 threads | `ExclusiveIsAlone`, `BlockedWriterHasConflict`, `OwnReleaseOnly` |
| `pipe` | 2 readers, 2 writers, 1 poller, capacity 2 | `InOrder`, `WithinCapacity`, `ReadersAccounted`, `NoLostWakeup`, `PollNotMissed`, `EofAfterData` |
| `fds` | 2 processes, tables of 2, 3 descriptions | `RefCountExact`, `NoDanglingDescriptor`, `LastCloseCloses`, `ExitedOwnsNothing` |

Four runs end in a violation, each a disagreement between the code and what the
repository says of it (`findings` in `PROJECT.json` quotes the lines):

- `proc_parent`: `register` reads the parent under one lock and inserts the child under
  another. A parent that exits in between is not the child's living parent any more,
  and the child is never reparented.
- `proc_stopped`: `terminate_all` collects the records whose status is `Running`; a
  stopped process is neither signalled nor waited for, although `dispose` promises to
  tear down all processes.
- `flock_downgrade`: going from an exclusive to a shared lock notifies nobody, so a
  reader that was already blocked sleeps on although nothing conflicts any more.
- `flock_close`: a call that is inside `fd_flock` while its description is closed is
  granted the lock after `release_owner` has run; no close will release it.

**Bounds.** Three processes are a grandparent, a parent and a child, which is what
adoption needs; the orphaned-group rule needs a fourth, outside the group. Two waiters
race for one zombie or one event; `MaxEvents` stops a new `kill` while its targets have
an event queued, so a queue grows only by the kills already under way. Two readers and two writers
queue behind each other; a pipe of two bytes with `PipeBuf` one and writes of 0, 1 and
3 bytes has empty, atomic and partial writes, a chunk read in part, and a full and an
empty buffer. Tables of two descriptors with one standard descriptor make allocation
wrap and fail, on the first and on the second descriptor of a pair; three descriptions
are one file and one pair. Threads of a kind, and the processes of `Descriptors`, are
interchangeable, which the runs use for symmetry (never in the run with liveness).
Deadlock is not checked: threads may simply make no further calls, and two `flock`
callers may rightly wait for each other.

**Fairness** (`proc_live` only): weak for the steps a thread takes once it has left a
critical section, for the reaper's second step and for a woken waiter; strong for the
reaper's choice of a due pid. The code justifies the last: `take_next_due_pid`
serves the earliest deadline and a pid that is kept goes back at `now + zombie_ttl`,
so a due pid is not passed over for ever. Nobody is assumed to spawn, exit, signal or
call `waitpid`.

## 4. The proofs

All proofs hold for every value of the constants that satisfies the named assumptions
(`ProcessAssumption`, `LockAssumption`, `PipeAssumption`, `DescriptorAssumption`):
shapes of the parameters, and that the table and pid sets are finite where entries are
counted. The bounds that keep TLC finite (`MaxPid`, `MaxBytes`, `MaxChunks`,
`MaxEvents`, `MaxDesc`) are arbitrary naturals there.

| module | theorem | from |
|---|---|---|
| `ProcessTableProofs` | `TypeCorrect`, `NoZombieForgotten`, `LifecycleRefined` | `TypeOK`, `BornRunning`, `CollectedGone`, `NeverTerminating` |
| `ProcessWaitProofs` | `EveryChildAdopted`, `EveryOrphanedGroupHungUp`, `NoWaiterStranded`, `TerminateAllKills` | the same, `BornQuiet`, `TerminateInv` |
| `FileLocksProofs` | `TypeCorrect`, `MutualExclusion`, `NoStrandedWriter` | `TypeOK` |
| `PipeProofs` | `QueueAgreesWithRegistrations`, `NobodySleepsThroughAChange`, `PollersSeeEveryEvent`, `EofComesLast` | `PipeInv` |
| `DescriptorsProofs` | `DescriptorTypes`, `CountsAreExact`, `NoDescriptorDangles`, `LastCloseIsSeen`, `ExitedProcessesOwnNothing` | `DescriptorInv` |

*Process table.* `NextRow`, `NextWaits`, `NextParent` and `NextEvents` say once what any
step can do to a row, a call, a parent or an event queue; the theorems argue from them.
`BornRunning` (a pid that is not listed yet is Running) is what makes a
birth a step of `ProcessLifecycle`. `NoZombieForgotten` needs that the only removals of
a deadline are for a pid that is gone (`CollectedGone`) or by the reaper, who puts it
back. `NoWaiterStranded` is by contradiction: a step that gives a sleeping waiter
something to report changes an entry, and every such step either wakes all waiters or
leaves a thread that will (`StrandedStep`).

*Pipe.* `PipeInv` joins the four properties with the shapes of the control state; they
need each other. A hand-over wakes the right reader only if the queue and the slots
agree, and a queued reader sleeps rightly only if the buffer is empty. Steps are of two
kinds: those that notify (nobody is left asleep, every poller has a newer generation)
and those that leave what a sleeper looks at unchanged.

*Descriptors.* The counts rest on three lemmas on cardinalities (`Split`, `OneTable`,
`OneEntry`): the pairs that name a description are those of one table and those of the
rest, and changing one entry changes the count by one. `CountInv` adds that ids not yet
allocated are nowhere and that a process without a table has no descriptors.
`NoDescriptorDangles` needs `ClosingUnused`, that the description a thread is about to
close has count zero, and `NoResurrection`, that a count of zero stays zero: dup, dup2
and fork copy from an entry that exists, and a pair's ends are new.
`ExitedProcessesOwnNothing` needs `JobsKnown`: a job is for a process that has exited, a
cleanup past its second lock has taken the table, and a process that exits while
`register_process` is at work on it is `early` and cannot have been waited for.

*Only model-checked.* Liveness under fairness; `InOrder`, `WithinCapacity` and the byte
part of `Pipe`'s `TypeOK`, which need induction over the chunks; `OwnReleaseOnly`.

## 5. What the modules show beside the properties

Reachable behaviour that no line of the repository rules out, kept in the models as
it is, most of it in `hazards` with a note:

- a timed pipe read that times out after a writer delivered into its slot drops the
  bytes the writer was told were written;
- a hand-over gives a blocked reader the whole payload, whatever length it asked for;
- a descriptor opened between the two locks of `cleanup_process_resources` goes with
  the table, but its pipe end is never closed (`missed`);
- a process ended by a hang-up between the second and the third step of
  `register_process` is put into `driver_pids` after its cleanup; it stays owned until
  `waitpid` cleans up once more, and for ever if the reaper collects it instead, which
  removes the entry and calls nobody (`early` in `ExitedOwnsNothing`);
- a poller whose process exits is notified only when its descriptor was the last one of
  the end; otherwise it sleeps on to the next notification or its deadline and fails
  then;
- a write of no bytes stores an empty chunk, which raises POLLIN and lets a read return
  no data before end of file;
- when not even the first descriptor of a PTY pair fits, both ends stay registered;
- a `waitpid` that gets the lock between the exit and its callback reaps the process
  before its descriptors are closed (`KernelVm::waitpid` then cleans up itself);
- `setpgid` followed by `setsid` can leave one process group in two sessions;
- two holders of a shared lock that both ask for the exclusive one wait for each other.

## 6. Plan

In this order; what is done is above.

1. `Pty`: line discipline, input and output queues, blocking reads on both ends,
   foreground group signals; the pollers of `Pipe` over its ends.
2. `Sockets`: bind, listen, connect, accept with backlog, stream and datagram transfer,
   shutdown, removal on exit; peer symmetry, no data after shutdown, pollers. Resource
   limits as guards over the snapshot.
3. `KernelExit`: process table, descriptors and pipes composed along one exit:
   exit, cleanup on another thread, `waitpid`, end of file at the reader.
4. `Overlay` and `Mounts`: copy-up and whiteouts against a reference file system, and
   longest-prefix resolution, as pure operators checked on small trees.
5. `SidecarProtocol`: request and response matching, ownership of sessions and VMs,
   timeouts of the ACP client; `V8Session`: slots and call matching.
