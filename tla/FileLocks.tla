------------------------------- MODULE FileLocks -------------------------------
(***************************************************************************)
(* Advisory file locks: FileLockManager of crates/kernel/src/fd_table.rs,  *)
(* driven by KernelVm::fd_flock and by the close of the last descriptor of *)
(* an open file description (close_special_resource_if_needed in           *)
(* kernel.rs).                                                             *)
(*                                                                         *)
(* A lock owner is an open file description: every dup and every forked    *)
(* copy shares it.  fd_flock takes the description from the fd table under *)
(* one mutex and asks for the lock under another, so a description can be  *)
(* closed between the two; a blocked call waits on one condition variable  *)
(* that all the lock targets share.                                        *)
(***************************************************************************)
EXTENDS Naturals, FiniteSets

CONSTANTS
    Owner,      \* ids of open file descriptions
    Target,     \* inodes that can be locked
    TargetOf,   \* the inode each description was opened on
    Thread,     \* threads of the host that may be inside fd_flock
    None        \* no exclusive holder

ASSUME LockAssumption ==
    /\ TargetOf \in [Owner -> Target]
    /\ None \notin Owner

VARIABLES
    desc,       \* life of a description: new, open, closing, closed
    shared,     \* FileLockEntry.shared of each target
    exclusive,  \* FileLockEntry.exclusive of each target
    call        \* what each thread is doing inside fd_flock

vars == <<desc, shared, exclusive, call>>

Operation == {"Shared", "Exclusive", "Unlock"}

NoCall == [pc |-> "idle", owner |-> None, op |-> "Unlock", nonblocking |-> FALSE]

Call == [pc : {"idle", "ready", "blocked"}, owner : Owner \cup {None},
         op : Operation, nonblocking : BOOLEAN]

\* Every variable has its declared shape.
TypeOK ==
    /\ desc \in [Owner -> {"new", "open", "closing", "closed"}]
    /\ shared \in [Target -> SUBSET Owner]
    /\ exclusive \in [Target -> Owner \cup {None}]
    /\ call \in [Thread -> Call]
    /\ \A t \in Thread : call[t].pc # "idle" => call[t].owner \in Owner

Init ==
    /\ desc = [o \in Owner |-> "new"]
    /\ shared = [f \in Target |-> {}]
    /\ exclusive = [f \in Target |-> None]
    /\ call = [t \in Thread |-> NoCall]

--------------------------------------------------------------------------------
(* FileLockEntry.                                                          *)

CanGrantIgnoringReaders(o, op) ==
    exclusive[TargetOf[o]] \in {None, o}

CanGrantAny(o, op) == TRUE

CanGrant(o, op) ==
    /\ exclusive[TargetOf[o]] \in {None, o}
    /\ op = "Exclusive" => shared[TargetOf[o]] \subseteq {o}

Grant(o, op) ==
    LET f == TargetOf[o] IN
    IF op = "Shared"
    THEN /\ exclusive' = [exclusive EXCEPT ![f] = None]
         /\ shared' = [shared EXCEPT ![f] = @ \cup {o}]
    ELSE /\ shared' = [shared EXCEPT ![f] = @ \ {o}]
         /\ exclusive' = [exclusive EXCEPT ![f] = o]

Holds(o) == o \in shared[TargetOf[o]] \/ exclusive[TargetOf[o]] = o

\* A wake-up that forgets for whom the call was waiting.
WakeAllForgetful(c) ==
    [t \in Thread |-> IF c[t].pc = "blocked" THEN [NoCall EXCEPT !.pc = "ready"] ELSE c[t]]

\* notify_all: every blocked call retries when it gets the mutex back.
WakeAll(c) ==
    [t \in Thread |-> IF c[t].pc = "blocked" THEN [c[t] EXCEPT !.pc = "ready"] ELSE c[t]]

ReleaseOwnerSilently(o, c) ==
    /\ shared' = [f \in Target |-> shared[f] \ {o}]
    /\ exclusive' = [f \in Target |-> IF exclusive[f] = o THEN None ELSE exclusive[f]]
    /\ call' = c

\* release_owner drops every lock of the description and wakes the waiters only
\* when there was one; c is what becomes of the calls otherwise.
ReleaseOwner(o, c) ==
    LET released == \E f \in Target : o \in shared[f] \/ exclusive[f] = o IN
    /\ shared' = [f \in Target |-> shared[f] \ {o}]
    /\ exclusive' = [f \in Target |-> IF exclusive[f] = o THEN None ELSE exclusive[f]]
    /\ call' = IF released THEN WakeAll(c) ELSE c

--------------------------------------------------------------------------------
(* The file descriptors around the lock manager.                           *)

\* fd_open of a regular file: a fresh description.
FdOpen(o) ==
    /\ desc[o] = "new"
    /\ desc' = [desc EXCEPT ![o] = "open"]
    /\ UNCHANGED <<shared, exclusive, call>>

\* The last descriptor of o leaves its fd table: ref_count drops to zero.
LastClose(o) ==
    /\ desc[o] = "open"
    /\ desc' = [desc EXCEPT ![o] = "closing"]
    /\ UNCHANGED <<shared, exclusive, call>>

\* close_special_resource_if_needed, after the fd tables were unlocked.
ReleaseOnClose(o) ==
    /\ desc[o] = "closing"
    /\ desc' = [desc EXCEPT ![o] = "closed"]
    /\ ReleaseOwner(o, call)

\* fd_flock up to the lock manager: the description is looked up and cloned.
FdFlock(t, o, op, nonblocking) ==
    /\ call[t].pc = "idle"
    /\ desc[o] = "open"
    /\ op = "Unlock" => ~nonblocking
    /\ call' = [call EXCEPT ![t] = [pc |-> "ready", owner |-> o, op |-> op,
                                    nonblocking |-> nonblocking]]
    /\ UNCHANGED <<desc, shared, exclusive>>

--------------------------------------------------------------------------------
(* FileLockManager::apply: one turn under the manager's mutex.             *)

ApplyUnlock(t) ==
    /\ call[t].pc = "ready" /\ call[t].op = "Unlock"
    /\ ReleaseOwner(call[t].owner, [call EXCEPT ![t] = NoCall])
    /\ UNCHANGED desc

Acquiring(t) == call[t].pc = "ready" /\ call[t].op # "Unlock"

AcquireGranted(t) ==
    /\ Acquiring(t)
    /\ CanGrant(call[t].owner, call[t].op)
    /\ Grant(call[t].owner, call[t].op)
    /\ call' = [call EXCEPT ![t] = NoCall]
    /\ UNCHANGED desc

AcquireWouldBlock(t) ==
    /\ Acquiring(t)
    /\ ~CanGrant(call[t].owner, call[t].op)
    /\ call[t].nonblocking
    /\ call' = [call EXCEPT ![t] = NoCall]
    /\ UNCHANGED <<desc, shared, exclusive>>

AcquireWait(t) ==
    /\ Acquiring(t)
    /\ ~CanGrant(call[t].owner, call[t].op)
    /\ ~call[t].nonblocking
    /\ call' = [call EXCEPT ![t].pc = "blocked"]
    /\ UNCHANGED <<desc, shared, exclusive>>

Next ==
    \/ \E o \in Owner : FdOpen(o) \/ LastClose(o) \/ ReleaseOnClose(o)
    \/ \E t \in Thread, o \in Owner, op \in Operation, nonblocking \in BOOLEAN :
            FdFlock(t, o, op, nonblocking)
    \/ \E t \in Thread : \/ ApplyUnlock(t)     \/ AcquireGranted(t)
                         \/ AcquireWouldBlock(t) \/ AcquireWait(t)

Spec == Init /\ [][Next]_vars

--------------------------------------------------------------------------------
(* Properties.                                                             *)

\* While a description holds the exclusive lock of a file, nobody holds a shared
\* one, whatever upgrades, downgrades, closes and late grants came before
\* (FileLockEntry::can_grant and grant keep the two fields consistent).
ExclusiveIsAlone ==
    \A f \in Target : exclusive[f] # None => shared[f] = {}

\* A call blocked on LOCK_EX always has a conflicting holder to wait for: no
\* release is ever missed by a waiting upgrade or writer (acquire's wait loop
\* against release_owner's conditional notify_all).
BlockedWriterHasConflict ==
    \A t \in Thread : call[t].pc = "blocked" /\ call[t].op = "Exclusive"
                          => ~CanGrant(call[t].owner, "Exclusive")

\* No step takes a lock away from a description except that description's own
\* LOCK_UN or its last close; a grant to another description never does.
OwnReleaseOnly ==
    [][\A o \in Owner : Holds(o) /\ ~Holds(o)' =>
            \/ desc[o] = "closing"
            \/ \E t \in Thread : call[t].owner = o /\ call[t].op = "Unlock"]_vars

\* A call blocked on LOCK_SH has an exclusive holder to wait for.  The test
\* flock_manager_treats_reacquire_on_same_description_as_non_conflicting expects
\* that a "downgrade should allow other shared holders"; grant(Shared) drops the
\* exclusive lock without waking the ones already waiting.
BlockedReaderHasConflict ==
    \A t \in Thread : call[t].pc = "blocked" /\ call[t].op = "Shared"
                          => ~CanGrant(call[t].owner, "Shared")

\* A closed description holds no lock ("lock released on last close").  A call
\* that was waiting when the description was closed is granted the lock later.
ReleasedOnLastClose ==
    \A o \in Owner : desc[o] = "closed" => ~Holds(o)
================================================================================
