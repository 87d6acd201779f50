---------------------------- MODULE FileLocksProofs ----------------------------
(* Theorems about FileLocks, for any set of descriptions, files and threads. *)
EXTENDS FileLocks, TLAPS

\* Waking the waiters keeps every call well formed.
LEMMA WakeAllType ==
    ASSUME NEW c \in [Thread -> Call],
           \A t \in Thread : c[t].pc # "idle" => c[t].owner \in Owner
    PROVE  /\ WakeAll(c) \in [Thread -> Call]
           /\ \A t \in Thread : WakeAll(c)[t].pc # "idle" => WakeAll(c)[t].owner \in Owner
           /\ \A t \in Thread : WakeAll(c)[t].pc # "blocked"
  BY DEF WakeAll, Call

\* Every step of the lock manager keeps every variable in its declared shape.
THEOREM TypeCorrect == Spec => []TypeOK
<1>1. Init => TypeOK
  BY LockAssumption DEF Init, TypeOK, NoCall, Call, Operation
<1>2. TypeOK /\ [Next]_vars => TypeOK'
  <2> SUFFICES ASSUME TypeOK, [Next]_vars PROVE TypeOK'
    OBVIOUS
  <2> USE LockAssumption
  <2>1. ASSUME NEW o \in Owner, FdOpen(o) PROVE TypeOK'
    BY <2>1 DEF FdOpen, TypeOK
  <2>2. ASSUME NEW o \in Owner, LastClose(o) PROVE TypeOK'
    BY <2>2 DEF LastClose, TypeOK
  <2>3. ASSUME NEW o \in Owner, ReleaseOnClose(o) PROVE TypeOK'
    BY <2>3, WakeAllType DEF ReleaseOnClose, ReleaseOwner, TypeOK
  <2>4. ASSUME NEW t \in Thread, NEW o \in Owner, NEW op \in Operation,
               NEW nonblocking \in BOOLEAN, FdFlock(t, o, op, nonblocking)
        PROVE  TypeOK'
    BY <2>4 DEF FdFlock, TypeOK, Call
  <2>5. ASSUME NEW t \in Thread, ApplyUnlock(t) PROVE TypeOK'
    <3> DEFINE c == [call EXCEPT ![t] = NoCall]
    <3>1. c \in [Thread -> Call] /\ \A u \in Thread : c[u].pc # "idle" => c[u].owner \in Owner
      BY DEF TypeOK, NoCall, Call, Operation
    <3>2. ReleaseOwner(call[t].owner, c) /\ UNCHANGED desc
      BY <2>5 DEF ApplyUnlock
    <3> QED
      BY <3>1, <3>2, WakeAllType DEF ReleaseOwner, TypeOK
  <2>6. ASSUME NEW t \in Thread, AcquireGranted(t) PROVE TypeOK'
    <3>1. call[t].owner \in Owner
      BY <2>6 DEF AcquireGranted, Acquiring, TypeOK
    <3> QED
      BY <2>6, <3>1, SMTT(40) DEF AcquireGranted, Grant, NoCall, TypeOK, Call, Operation
  <2>7. ASSUME NEW t \in Thread, AcquireWouldBlock(t) PROVE TypeOK'
    BY <2>7 DEF AcquireWouldBlock, NoCall, TypeOK, Call, Operation
  <2>8. ASSUME NEW t \in Thread, AcquireWait(t) PROVE TypeOK'
    BY <2>8 DEF AcquireWait, Acquiring, TypeOK, Call
  <2>9. CASE UNCHANGED vars
    BY <2>9 DEF vars, TypeOK
  <2> QED
    BY <2>1, <2>2, <2>3, <2>4, <2>5, <2>6, <2>7, <2>8, <2>9 DEF Next
<1> QED
  BY <1>1, <1>2, PTL DEF Spec

\* An exclusive lock excludes every shared one, for any number of descriptions:
\* can_grant and grant keep FileLockEntry's two fields consistent.
THEOREM MutualExclusion == Spec => []ExclusiveIsAlone
<1>1. Init => ExclusiveIsAlone
  BY DEF Init, ExclusiveIsAlone
<1>2. TypeOK /\ ExclusiveIsAlone /\ [Next]_vars => ExclusiveIsAlone'
  <2> SUFFICES ASSUME TypeOK, ExclusiveIsAlone, [Next]_vars PROVE ExclusiveIsAlone'
    OBVIOUS
  <2> USE LockAssumption
  <2>1. ASSUME NEW o, NEW c, ReleaseOwner(o, c) PROVE ExclusiveIsAlone'
    BY <2>1 DEF ReleaseOwner, ExclusiveIsAlone, TypeOK
  <2>2. ASSUME NEW t \in Thread, AcquireGranted(t) PROVE ExclusiveIsAlone'
    <3>1. call[t].owner \in Owner
      BY <2>2 DEF AcquireGranted, Acquiring, TypeOK
    <3> QED
      BY <2>2, <3>1 DEF AcquireGranted, Acquiring, CanGrant, Grant, ExclusiveIsAlone,
                        TypeOK, Call, Operation
  <2>3. CASE UNCHANGED <<shared, exclusive>>
    BY <2>3 DEF ExclusiveIsAlone
  <2> QED
    BY <2>1, <2>2, <2>3 DEF Next, vars, FdOpen, LastClose, ReleaseOnClose, FdFlock,
                            ApplyUnlock, AcquireWouldBlock, AcquireWait
<1> QED
  BY <1>1, <1>2, TypeCorrect, PTL DEF Spec

\* A thread that is blocked on LOCK_EX always has a conflicting holder, so no
\* release that would let it in goes unnoticed by release_owner's notify_all.
THEOREM NoStrandedWriter == Spec => []BlockedWriterHasConflict
<1>1. Init => BlockedWriterHasConflict
  BY DEF Init, BlockedWriterHasConflict, NoCall
<1>2. TypeOK /\ BlockedWriterHasConflict /\ [Next]_vars => BlockedWriterHasConflict'
  <2> SUFFICES ASSUME TypeOK, BlockedWriterHasConflict, [Next]_vars
               PROVE  BlockedWriterHasConflict'
    OBVIOUS
  <2> USE LockAssumption
  <2>1. ASSUME NEW o \in Owner, NEW c \in [Thread -> Call], ReleaseOwner(o, c),
               \A t \in Thread : c[t].pc = "blocked" => c[t] = call[t],
               \A t \in Thread : c[t].pc # "idle" => c[t].owner \in Owner
        PROVE  BlockedWriterHasConflict'
    <3>1. CASE \E f \in Target : o \in shared[f] \/ exclusive[f] = o
      <4>1. call' = WakeAll(c)
        BY <2>1, <3>1 DEF ReleaseOwner
      <4> QED
        BY <2>1, <4>1, WakeAllType DEF BlockedWriterHasConflict
    <3>2. CASE ~ \E f \in Target : o \in shared[f] \/ exclusive[f] = o
      <4>1. UNCHANGED <<shared, exclusive>> /\ call' = c
        BY <2>1, <3>2 DEF ReleaseOwner, TypeOK
      <4> QED
        BY <2>1, <4>1 DEF BlockedWriterHasConflict, CanGrant
    <3> QED
      BY <3>1, <3>2
  <2>2. ASSUME NEW t \in Thread, AcquireGranted(t) PROVE BlockedWriterHasConflict'
    <3>1. SUFFICES ASSUME NEW u \in Thread, call'[u].pc = "blocked", call'[u].op = "Exclusive",
                          CanGrant(call[u].owner, "Exclusive")'
                   PROVE  FALSE
      BY DEF BlockedWriterHasConflict, CanGrant
    <3> DEFINE o == call[t].owner
               p == call[u].owner
    <3>2. o \in Owner /\ call[t].op \in {"Shared", "Exclusive"}
      BY <2>2 DEF AcquireGranted, Acquiring, TypeOK, Call, Operation
    <3>3. call'[u] = call[u]
      BY <2>2, <3>1 DEF AcquireGranted, NoCall, TypeOK
    <3>4. p \in Owner /\ ~CanGrant(p, "Exclusive")
      BY <3>1, <3>3 DEF BlockedWriterHasConflict, TypeOK
    <3>5. CanGrant(o, call[t].op) /\ Grant(o, call[t].op)
      BY <2>2 DEF AcquireGranted
    <3>6. /\ exclusive'[TargetOf[p]] \in {None, p}
          /\ shared'[TargetOf[p]] \subseteq {p}
      BY <3>1, <3>3 DEF CanGrant
    <3> HIDE DEF o, p
    <3> QED
      BY <3>2, <3>4, <3>5, <3>6 DEF CanGrant, Grant, TypeOK
  <2>3. ASSUME NEW o \in Owner, FdOpen(o) \/ LastClose(o) PROVE BlockedWriterHasConflict'
    BY <2>3 DEF FdOpen, LastClose, BlockedWriterHasConflict, CanGrant
  <2>4. ASSUME NEW o \in Owner, ReleaseOnClose(o) PROVE BlockedWriterHasConflict'
    BY <2>1, <2>4 DEF ReleaseOnClose, TypeOK
  <2>5. ASSUME NEW t \in Thread, NEW o \in Owner, NEW op \in Operation,
               NEW nonblocking \in BOOLEAN, FdFlock(t, o, op, nonblocking)
        PROVE  BlockedWriterHasConflict'
    BY <2>5 DEF FdFlock, BlockedWriterHasConflict, CanGrant, TypeOK
  <2>6. ASSUME NEW t \in Thread, ApplyUnlock(t) PROVE BlockedWriterHasConflict'
    <3> DEFINE c == [call EXCEPT ![t] = NoCall]
    <3>1. /\ c \in [Thread -> Call]
          /\ \A u \in Thread : c[u].pc = "blocked" => c[u] = call[u]
          /\ \A u \in Thread : c[u].pc # "idle" => c[u].owner \in Owner
      BY DEF TypeOK, NoCall, Call, Operation
    <3>2. call[t].owner \in Owner /\ ReleaseOwner(call[t].owner, c)
      BY <2>6 DEF ApplyUnlock, TypeOK
    <3> HIDE DEF c
    <3> QED
      BY <2>1, <3>1, <3>2
  <2>7. ASSUME NEW t \in Thread, AcquireWouldBlock(t) PROVE BlockedWriterHasConflict'
    BY <2>7 DEF AcquireWouldBlock, BlockedWriterHasConflict, CanGrant, NoCall, TypeOK
  <2>8. ASSUME NEW t \in Thread, AcquireWait(t) PROVE BlockedWriterHasConflict'
    BY <2>8 DEF AcquireWait, BlockedWriterHasConflict, CanGrant, TypeOK, Call
  <2>9. CASE UNCHANGED vars
    BY <2>9 DEF vars, BlockedWriterHasConflict, CanGrant
  <2> QED
    BY <2>2, <2>3, <2>4, <2>5, <2>6, <2>7, <2>8, <2>9 DEF Next
<1> QED
  BY <1>1, <1>2, TypeCorrect, PTL DEF Spec
================================================================================
