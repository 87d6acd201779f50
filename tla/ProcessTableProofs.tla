--------------------------- MODULE ProcessTableProofs ---------------------------
(***************************************************************************)
(* Proofs about ProcessTable, for every number of processes and threads    *)
(* and every choice of the constants.                                      *)
(***************************************************************************)
EXTENDS ProcessTable, SequenceTheorems, TLAPS

\* A pid is a positive number within the bounds the columns and the calls allow.
LEMMA PidRange ==
    /\ MaxPid \in Nat /\ InitPid \in Pid
    /\ 0 \in 0..MaxPid /\ 0 \notin Pid
    /\ \A p \in Pid : p \in Nat /\ p \in 0..MaxPid /\ p \in (0 - MaxPid)..MaxPid
    /\ \A p \in 0..MaxPid : p # 0 => p \in Pid
    /\ 0 \in (0 - MaxPid)..MaxPid
BY ProcessAssumption DEF Pid, InitPid

\* Removing one element of a queue of events leaves a queue of events
\* (VecDeque::remove in take_waitable_event).
LEMMA RemoveEventType ==
    ASSUME NEW s \in Seq(Event), NEW i \in DOMAIN s
    PROVE  SubSeq(s, 1, i - 1) \o SubSeq(s, i + 1, Len(s)) \in Seq(Event)
<1>1. i \in 1..Len(s) /\ Len(s) \in Nat
  OBVIOUS
<1>2. SubSeq(s, 1, i - 1) \in Seq(Event)
  BY <1>1, \A j \in 1..(i - 1) : s[j] \in Event, SubSeqProperties
<1>3. SubSeq(s, i + 1, Len(s)) \in Seq(Event)
  BY <1>1, \A j \in (i + 1)..Len(s) : s[j] \in Event, SubSeqProperties
<1>4. QED
  BY <1>2, <1>3, ConcatProperties

\* notify_all changes no call's shape.
LEMMA WakeAllType ==
    ASSUME NEW ws \in [Waiter -> WaitCall]
    PROVE  WakeAll(ws) \in [Waiter -> WaitCall]
BY DEF WakeAll, WaitCall

\* mark_stopped and mark_continued keep the columns they write well formed.
LEMMA MarkWaitEventType ==
    ASSUME TypeOK, NEW p \in Pid, NEW next \in {"Running", "Stopped"}, NEW event \in Event,
           MarkWaitEvent(p, next, event)
    PROVE  /\ status' \in [Pid -> {"Running", "Stopped", "Exited"}]
           /\ events' \in [Pid -> Seq(Event)]
           /\ waits' \in [Waiter -> WaitCall]
<1>1. status' \in [Pid -> {"Running", "Stopped", "Exited"}]
  BY DEF MarkWaitEvent, TypeOK
<1>2. waits' \in [Waiter -> WaitCall]
  BY WakeAllType DEF MarkWaitEvent, NotifyAll, TypeOK
<1>3. events[p] \in Seq(Event) /\ events \in [Pid -> Seq(Event)]
  BY DEF TypeOK
<1>4. Append(events[p], event) \in Seq(Event)
  BY <1>3
<1>5. events' = [events EXCEPT ![p] = Append(events[p], event)] \/ events' = events
  BY DEF MarkWaitEvent
<1>6. QED
  BY <1>1, <1>2, <1>3, <1>4, <1>5

\* entries.remove keeps the columns it writes well formed, and frees no pid.
LEMMA RemoveType ==
    ASSUME TypeOK, NEW p \in Listed, NEW how \in {"waited", "reaped"}, Remove(p, how),
           UNCHANGED next_pid
    PROVE  /\ life' \in [Pid -> Life]
           /\ ppid' \in [Pid -> 0..MaxPid] /\ pgid' \in [Pid -> 0..MaxPid]
           /\ sid' \in [Pid -> 0..MaxPid] /\ events' \in [Pid -> Seq(Event)]
           /\ driver' \in [Pid -> {"alive", "done"}]
           /\ (\A q \in Pid : q >= next_pid <=> life[q] = "unused")'
<1>1. ppid' \in [Pid -> 0..MaxPid] /\ pgid' \in [Pid -> 0..MaxPid] /\ sid' \in [Pid -> 0..MaxPid]
  BY PidRange DEF Remove, TypeOK
<1>2. events' \in [Pid -> Seq(Event)] /\ driver' \in [Pid -> {"alive", "done"}]
  <2>1. events \in [Pid -> Seq(Event)] /\ driver \in [Pid -> {"alive", "done"}]
    BY DEF TypeOK
  <2>2. << >> \in Seq(Event)
    OBVIOUS
  <2>3. QED
    BY <2>1, <2>2 DEF Remove
<1>3. life' \in [Pid -> Life] /\ (\A q \in Pid : q >= next_pid <=> life[q] = "unused")'
  BY DEF Remove, Listed, TypeOK, Life
<1>4. QED
  BY <1>1, <1>2, <1>3

\* The idle calls have the right shape.
LEMMA NoCallType ==
    NoKill \in [sig : Signal \cup {"none"}, todo : SUBSET Pid] /\ NoWait \in WaitCall /\ NoTerm \in TermCall
BY ProcessAssumption DEF NoKill, NoWait, NoTerm, WaitCall, TermCall, Pid

\* The critical section of mark_exited_inner keeps the columns it writes well formed.
LEMMA MarkExitedType ==
    ASSUME TypeOK, NEW p \in Pid, MarkExited(p)
    PROVE  /\ status' \in [Pid -> {"Running", "Stopped", "Exited"}]
           /\ ppid' \in [Pid -> 0..MaxPid]
           /\ hup' \in [Pid -> SUBSET Pid]
           /\ tail' \in [Pid -> TailStep]
<1>1. ReparentTarget(p) \in 0..MaxPid
  BY ProcessAssumption DEF ReparentTarget, InitPid
<1>2. OrphanTargets(AffectedGroups(p), status', ppid') \in SUBSET Pid
  BY DEF OrphanTargets, Listed
<1>3. QED
  BY <1>1, <1>2 DEF MarkExited, ReparentChildren, TypeOK, TailStep

\* Every step keeps every variable in its declared shape, and the pids from next_pid on
\* unused.
THEOREM TypeCorrect == Spec => []TypeOK
<1>1. Init => TypeOK
  <2>1. ASSUME Init PROVE \A p \in Pid : p >= next_pid <=> life[p] = "unused"
    BY <2>1 DEF Init, Pid
  <2>2. ASSUME Init PROVE events \in [Pid -> Seq(Event)]
    BY <2>2 DEF Init
  <2>3. ASSUME Init PROVE next_pid \in 1..(MaxPid + 1)
    BY <2>3, PidRange DEF Init
  <2>4. ASSUME Init
        PROVE  /\ kills \in [Killer -> [sig : Signal \cup {"none"}, todo : SUBSET Pid]]
               /\ waits \in [Waiter -> WaitCall] /\ term \in TermCall
    BY <2>4, NoCallType DEF Init
  <2>5. ASSUME Init
        PROVE  /\ ppid \in [Pid -> 0..MaxPid] /\ pgid \in [Pid -> 0..MaxPid]
               /\ sid \in [Pid -> 0..MaxPid] /\ reaper \in 0..MaxPid
    BY <2>5, PidRange DEF Init
  <2>6. ASSUME Init
        PROVE  /\ life \in [Pid -> Life] /\ tail \in [Pid -> TailStep] /\ hup \in [Pid -> SUBSET Pid]
               /\ status \in [Pid -> {"Running", "Stopped", "Exited"}]
               /\ driver \in [Pid -> {"alive", "done"}]
               /\ deadlines \in SUBSET Pid /\ terminating \in BOOLEAN
    BY <2>6 DEF Init, Life, TailStep
  <2>7. QED
    BY <2>1, <2>2, <2>3, <2>4, <2>5, <2>6 DEF TypeOK
<1>2. TypeOK /\ [Next]_vars => TypeOK'
  <2> SUFFICES ASSUME TypeOK, [Next]_vars PROVE TypeOK'
    OBVIOUS
  <2> USE PidRange DEF reaperVars, entryVars
  <2>1. ASSUME NEW parent \in 0..MaxPid, AllocatePid(parent) PROVE TypeOK'
    <3>1. (\A p \in Pid : p >= next_pid <=> life[p] = "unused")'
      <4>1. life' = [life EXCEPT ![next_pid] = "allocated"] /\ next_pid' = next_pid + 1
        BY <2>1 DEF AllocatePid
      <4>2. next_pid \in Pid /\ life \in [Pid -> Life]
        BY <2>1 DEF AllocatePid, TypeOK
      <4>3. \A p \in Pid : p >= next_pid <=> life[p] = "unused"
        BY DEF TypeOK
      <4>4. QED
        BY <4>1, <4>2, <4>3
    <3>2. next_pid' \in 1..(MaxPid + 1)
      <4>1. next_pid \in Pid /\ next_pid' = next_pid + 1
        BY <2>1 DEF AllocatePid
      <4>2. QED
        BY <4>1, ProcessAssumption DEF Pid
    <3>3. QED
      BY <2>1, <3>1, <3>2 DEF AllocatePid, TypeOK, Life
  <2>2. ASSUME NEW p \in Pid, RegisterInherit(p) PROVE TypeOK'
    <3>1. pgid' \in [Pid -> 0..MaxPid] /\ sid' \in [Pid -> 0..MaxPid]
      <4>1. pgid \in [Pid -> 0..MaxPid] /\ sid \in [Pid -> 0..MaxPid]
        BY DEF TypeOK
      <4>2. CASE ppid[p] \in Listed
        BY <2>2, <4>1, <4>2 DEF RegisterInherit, Listed
      <4>3. CASE ppid[p] \notin Listed
        BY <2>2, <4>1, <4>3 DEF RegisterInherit
      <4>4. QED
        BY <4>2, <4>3
    <3>2. life' \in [Pid -> Life] /\ (\A q \in Pid : q >= next_pid <=> life[q] = "unused")'
      BY <2>2 DEF RegisterInherit, TypeOK, Life
    <3>3. QED
      BY <2>2, <3>1, <3>2 DEF RegisterInherit, TypeOK
  <2>3. ASSUME NEW p \in Pid, RegisterInsert(p) PROVE TypeOK'
    BY <2>3 DEF RegisterInsert, TypeOK, Life
  <2>4. ASSUME NEW p \in Pid, DriverExit(p) PROVE TypeOK'
    BY <2>4 DEF DriverExit, TypeOK
  <2>5. ASSUME NEW p \in Pid, ExitProcess(p) \/ OnExit(p) PROVE TypeOK'
    BY <2>5, MarkExitedType, ZenonT(60) DEF ExitProcess, OnExit, TypeOK
  <2>6. ASSUME NEW p \in Pid, TailReaper(p) PROVE TypeOK'
    BY <2>6 DEF TailReaper, TypeOK, TailStep
  <2>7. ASSUME NEW p \in Pid, TailHangup(p) PROVE TypeOK'
    BY <2>7 DEF TailHangup, Finish, TypeOK, TailStep
  <2>8. ASSUME NEW p \in Pid, TailCallback(p) PROVE TypeOK'
    BY <2>8, WakeAllType DEF TailCallback, NotifyAll, TypeOK, TailStep
  <2>9. ASSUME NEW k \in Killer, NEW arg \in KillPids, NEW sig \in KillSignals, Kill(k, arg, sig)
        PROVE  TypeOK'
    <3>1. KillTargets({p \in Listed : pgid[p] = 0 - arg}, sig) \in SUBSET Pid
      BY DEF KillTargets, Listed
    <3>2. KillTargets({p \in Alive : p = arg}, sig) \in SUBSET Pid
      BY DEF KillTargets, Listed, Alive
    <3>3. kills' \in [Killer -> [sig : Signal \cup {"none"}, todo : SUBSET Pid]]
      BY <2>9, <3>1, <3>2, ProcessAssumption DEF Kill, TypeOK
    <3>4. QED
      BY <2>9, <3>3 DEF Kill, TypeOK
  <2>10. ASSUME NEW k \in Killer, KillNext(k) PROVE TypeOK'
    <3>1. PICK p \in Pid :
            /\ kills' = [kills EXCEPT ![k].todo = @ \ {p}]
            /\ CASE kills[k].sig = "STOP" -> MarkWaitEvent(p, "Stopped", "Stopped") /\ UNCHANGED driver
                 [] kills[k].sig = "CONT" -> MarkWaitEvent(p, "Running", "Continued") /\ UNCHANGED driver
                 [] OTHER -> Finish({p}, kills[k].sig) /\ UNCHANGED <<status, events, waits>>
            /\ UNCHANGED <<next_pid, life, ppid, pgid, sid, tail, hup, reaperVars, terminating, term>>
      BY <2>10 DEF KillNext
    <3>2. kills' \in [Killer -> [sig : Signal \cup {"none"}, todo : SUBSET Pid]]
      BY <3>1, ZenonT(60) DEF TypeOK
    <3>3. CASE MarkWaitEvent(p, "Stopped", "Stopped") /\ UNCHANGED driver
      BY <3>1, <3>2, <3>3, MarkWaitEventType DEF TypeOK, Event
    <3>4. CASE MarkWaitEvent(p, "Running", "Continued") /\ UNCHANGED driver
      BY <3>1, <3>2, <3>4, MarkWaitEventType DEF TypeOK, Event
    <3>5. CASE Finish({p}, kills[k].sig) /\ UNCHANGED <<status, events, waits>>
      BY <3>1, <3>2, <3>5 DEF Finish, TypeOK
    <3>6. QED
      BY <3>1, <3>3, <3>4, <3>5
  <2>11. ASSUME NEW k \in Killer, KillReturn(k) PROVE TypeOK'
    BY <2>11, NoCallType DEF KillReturn, TypeOK
  <2>12. ASSUME NEW p \in Pid, NEW g \in 0..MaxPid, SetPgid(p, g) PROVE TypeOK'
    BY <2>12 DEF SetPgid, TypeOK
  <2>13. ASSUME NEW p \in Pid, SetSid(p) PROVE TypeOK'
    BY <2>13 DEF SetSid, TypeOK
  <2>14. ASSUME NEW w \in Waiter, NEW p \in Pid, WaitpidCall(w, p) PROVE TypeOK'
    <3>1. [NoWait EXCEPT !.pc = "ready", !.arg = p] \in WaitCall
      BY DEF NoWait, WaitCall
    <3>2. QED
      BY <2>14, <3>1 DEF WaitpidCall, TypeOK
  <2>15. ASSUME NEW w \in Waiter, NEW p \in Pid, NEW arg \in WaitPids, NEW flags \in WaitFlags,
                WaitpidForCall(w, p, arg, flags)
         PROVE  TypeOK'
    <3>1. arg \in (0 - MaxPid)..MaxPid /\ flags \in SUBSET WaitFlag
      BY ProcessAssumption
    <3>2. [pc |-> "ready", kind |-> "waitpid_for", waiter |-> p, arg |-> arg, flags |-> flags]
            \in WaitCall
      BY <3>1 DEF WaitCall
    <3>3. QED
      BY <2>15, <3>2 DEF WaitpidForCall, TypeOK
  <2>16. ASSUME NEW w \in Waiter, WaitFails(w) PROVE TypeOK'
    BY <2>16, NoCallType DEF WaitFails, TypeOK
  <2>17. ASSUME NEW w \in Waiter, WaitTakesEvent(w) PROVE TypeOK'
    <3>1. events' \in [Pid -> Seq(Event)]
      <4>q. PICK q \in Pid : \E i \in DOMAIN events[q] :
              events' = [events EXCEPT ![q] = SubSeq(@, 1, i - 1) \o SubSeq(@, i + 1, Len(@))]
        BY <2>17 DEF WaitTakesEvent
      <4>1. PICK i \in DOMAIN events[q] :
              events' = [events EXCEPT ![q] = SubSeq(@, 1, i - 1) \o SubSeq(@, i + 1, Len(@))]
        BY <4>q
      <4>2. events \in [Pid -> Seq(Event)] /\ events[q] \in Seq(Event)
        BY DEF TypeOK
      <4>3. SubSeq(events[q], 1, i - 1) \o SubSeq(events[q], i + 1, Len(events[q])) \in Seq(Event)
        BY <4>2, RemoveEventType
      <4>4. QED
        BY <4>1, <4>2, <4>3
    <3>2. QED
      BY <2>17, <3>1, NoCallType DEF WaitTakesEvent, TypeOK
  <2>18. ASSUME NEW w \in Waiter, WaitReaps(w) PROVE TypeOK'
    <3>1. PICK q \in Pid : /\ q \in Listed
                           /\ Remove(q, "waited")
                           /\ waits' = [waits EXCEPT ![w] = [NoWait EXCEPT !.pc = "collected", !.arg = q]]
      BY <2>18 DEF WaitReaps, FirstReportable, Matching
    <3>2. [NoWait EXCEPT !.pc = "collected", !.arg = q] \in WaitCall
      BY DEF NoWait, WaitCall
    <3>3. QED
      BY <2>18, <3>1, <3>2, RemoveType DEF WaitReaps, Remove, TypeOK
  <2>19. ASSUME NEW w \in Waiter, WaitReturns(w) PROVE TypeOK'
    BY <2>19, WakeAllType, NoCallType DEF WaitReturns, TypeOK
  <2>20. ASSUME NEW w \in Waiter, WaitNoHang(w) PROVE TypeOK'
    BY <2>20, NoCallType DEF WaitNoHang, TypeOK
  <2>21. ASSUME NEW w \in Waiter, WaitBlocks(w) PROVE TypeOK'
    <3>1. waits[w] \in WaitCall /\ waits \in [Waiter -> WaitCall]
      BY DEF TypeOK
    <3>2. waits' = [waits EXCEPT ![w] = [waits[w] EXCEPT !.pc = "blocked"]]
      BY <2>21 DEF WaitBlocks
    <3>3. [waits[w] EXCEPT !.pc = "blocked"] \in WaitCall
      BY <3>1 DEF WaitCall
    <3>4. QED
      BY <2>21, <3>1, <3>2, <3>3 DEF WaitBlocks, TypeOK
  <2>22. ASSUME NEW p \in Pid, ReaperTake(p) PROVE TypeOK'
    BY <2>22 DEF ReaperTake, TypeOK
  <2>23. CASE ReaperReaps
    <3>1. Remove(reaper, "reaped") /\ reaper \in Listed /\ UNCHANGED next_pid
      BY <2>23 DEF ReaperReaps, Zombie
    <3>2. waits' \in [Waiter -> WaitCall]
      BY <2>23, WakeAllType DEF ReaperReaps, NotifyAll, TypeOK
    <3>3. QED
      <4>1. /\ UNCHANGED <<next_pid, status, tail, hup, deadlines, terminating, kills, term>>
            /\ reaper' = 0
        BY <2>23 DEF ReaperReaps, Remove
      <4>2. /\ life' \in [Pid -> Life]
            /\ ppid' \in [Pid -> 0..MaxPid] /\ pgid' \in [Pid -> 0..MaxPid]
            /\ sid' \in [Pid -> 0..MaxPid] /\ events' \in [Pid -> Seq(Event)]
            /\ driver' \in [Pid -> {"alive", "done"}]
            /\ (\A q \in Pid : q >= next_pid <=> life[q] = "unused")'
        BY <3>1, RemoveType
      <4>3. QED
        BY <3>2, <4>1, <4>2 DEF TypeOK
  <2>24. CASE ReaperKeeps
    BY <2>24, WakeAllType DEF ReaperKeeps, NotifyAll, Zombie, Listed, TypeOK
  <2>25. CASE TerminateStart
    <3>1. {p \in Listed : status[p] = "Running"} \in SUBSET Pid
      BY DEF Listed
    <3>2. QED
      BY <2>25, <3>1, NoCallType DEF TerminateStart, TypeOK, TermCall
  <2>26. CASE TerminateSignalled
    BY <2>26 DEF TerminateSignalled, TypeOK, TermCall
  <2>27. CASE TerminateSurvivors
    <3>1. {p \in term.running \cap Listed : status[p] = "Running"} \in SUBSET Pid
      BY DEF Listed
    <3>2. QED
      BY <2>27, <3>1 DEF TerminateSurvivors, TypeOK, TermCall
  <2>28. CASE TerminateEnd
    BY <2>28, NoCallType DEF TerminateEnd, TypeOK
  <2>29. ASSUME NEW p \in Pid, TerminateSignal(p) PROVE TypeOK'
    BY <2>29 DEF TerminateSignal, Finish, TypeOK, TermCall
  <2>30. ASSUME NEW p \in Pid, TerminateMarks(p) PROVE TypeOK'
    <3>1. term' \in TermCall
      <4>1. \/ term' = [term EXCEPT !.todo = @ \ {p}, !.busy = p]
            \/ term' = [term EXCEPT !.todo = @ \ {p}, !.busy = 0]
        BY <2>30 DEF TerminateMarks
      <4>2. term \in TermCall
        BY DEF TypeOK
      <4>3. QED
        BY <4>1, <4>2 DEF TermCall
    <3>2. QED
      BY <2>30, <3>1, MarkExitedType DEF TerminateMarks, TypeOK
  <2>31. ASSUME NEW p \in Pid, TerminateTimeout(p) PROVE TypeOK'
    BY <2>31 DEF TerminateTimeout, TypeOK, TermCall
  <2>32. CASE UNCHANGED vars
    BY <2>32 DEF vars, TypeOK
  <2> QED
    BY <2>1, <2>2, <2>3, <2>4, <2>5, <2>6, <2>7, <2>8, <2>9, <2>10, <2>11, <2>12, <2>13,
       <2>14, <2>15, <2>16, <2>17, <2>18, <2>19, <2>20, <2>21, <2>22, <2>23, <2>24, <2>25,
       <2>26, <2>27, <2>28, <2>29, <2>30, <2>31, <2>32
    DEF Next, RegisterNext, ExitNext, SignalNext, KillerNext, WaitNext, WaiterNext,
        ReaperNext, TerminateNext
<1>3. QED
  BY <1>1, <1>2, PTL DEF Spec
--------------------------------------------------------------------------------
(* What a step may do to the table's rows. *)

\* A pid moves on through register.
Enters(p) ==
    /\ \/ life[p] = "unused" /\ life' = [life EXCEPT ![p] = "allocated"]
       \/ life[p] = "allocated" /\ life' = [life EXCEPT ![p] = "inherited"]
       \/ life[p] = "inherited" /\ life' = [life EXCEPT ![p] = "listed"]
    /\ UNCHANGED status

\* A zombie is removed, by a wait call or by the reaper.
Leaves(p) ==
    /\ p \in Zombie
    /\ \E how \in {"waited", "reaped"} : life' = [life EXCEPT ![p] = how]
    /\ UNCHANGED status

\* A live process exits, stops or continues.
Changes(p) ==
    /\ p \in Alive
    /\ \E s \in {"Running", "Stopped", "Exited"} : s # status[p] /\ status' = [status EXCEPT ![p] = s]
    /\ UNCHANGED life

RowStep == UNCHANGED <<life, status>> \/ \E p \in Pid : Enters(p) \/ Leaves(p) \/ Changes(p)

\* Every step of every thread touches the life and status of at most one process, and only
\* a zombie ever leaves the table.
LEMMA NextRow ==
    ASSUME TypeOK, [Next]_vars
    PROVE  RowStep
<1> USE DEF RowStep, entryVars, reaperVars
<1>1. ASSUME NEW parent \in 0..MaxPid, AllocatePid(parent) PROVE RowStep
  <2>1. next_pid \in Pid /\ next_pid >= next_pid
    <3>1. next_pid \in Pid
      BY <1>1 DEF AllocatePid
    <3>2. QED
      BY <3>1, PidRange
  <2>2. \A p \in Pid : p >= next_pid <=> life[p] = "unused"
    BY DEF TypeOK
  <2>3. life[next_pid] = "unused"
    BY <2>1, <2>2
  <2>4. QED
    BY <1>1, <2>1, <2>3 DEF AllocatePid, Enters
<1>2. ASSUME NEW p \in Pid, RegisterInherit(p) \/ RegisterInsert(p) PROVE RowStep
  BY <1>2 DEF RegisterInherit, RegisterInsert, Enters
<1>3. ASSUME NEW p \in Pid, MarkExited(p), UNCHANGED life PROVE RowStep
  BY <1>3 DEF MarkExited, Changes, Alive
<1>4. ASSUME NEW p \in Pid, NEW next \in {"Running", "Stopped"}, NEW event,
             MarkWaitEvent(p, next, event), UNCHANGED life
      PROVE  RowStep
  BY <1>4 DEF MarkWaitEvent, Changes
<1>5. ASSUME NEW k \in Killer, KillNext(k) PROVE RowStep
  BY <1>4, <1>5 DEF KillNext
<1>6. ASSUME NEW w \in Waiter, WaitReaps(w) PROVE RowStep
  <2>1. PICK q \in Pid : FirstReportable(waits[w], q) /\ ~HasEvent(q, waits[w].flags) /\ Remove(q, "waited")
    BY <1>6 DEF WaitReaps
  <2>2. q \in Zombie
    BY <2>1 DEF FirstReportable, Matching, Reportable, Zombie
  <2>3. QED
    BY <2>1, <2>2 DEF Remove, Leaves
<1>7. CASE ReaperReaps
  BY <1>7 DEF ReaperReaps, Remove, Leaves, Zombie, Listed
<1>8. ASSUME NEW p \in Pid, ExitProcess(p) \/ OnExit(p) \/ TerminateMarks(p) PROVE RowStep
  BY <1>3, <1>8 DEF ExitProcess, OnExit, TerminateMarks
<1>9. ASSUME NEW p \in Pid, DriverExit(p) \/ TailReaper(p) \/ TailHangup(p) \/ TailCallback(p)
      PROVE  RowStep
  BY <1>9 DEF DriverExit, TailReaper, TailHangup, TailCallback
<1>10. ASSUME SignalNext PROVE RowStep
  BY <1>10 DEF SignalNext, Kill, SetPgid, SetSid
<1>11. ASSUME NEW k \in Killer, KillReturn(k) PROVE RowStep
  BY <1>11 DEF KillReturn
<1>12. ASSUME WaitNext PROVE RowStep
  BY <1>12 DEF WaitNext, WaitpidCall, WaitpidForCall
<1>13. ASSUME NEW w \in Waiter,
              WaitFails(w) \/ WaitTakesEvent(w) \/ WaitReturns(w) \/ WaitNoHang(w) \/ WaitBlocks(w)
       PROVE  RowStep
  BY <1>13 DEF WaitFails, WaitTakesEvent, WaitReturns, WaitNoHang, WaitBlocks
<1>14. ASSUME NEW p \in Pid, ReaperTake(p) \/ TerminateSignal(p) \/ TerminateTimeout(p) PROVE RowStep
  BY <1>14 DEF ReaperTake, TerminateSignal, TerminateTimeout
<1>15. CASE ReaperKeeps \/ TerminateStart \/ TerminateSignalled \/ TerminateSurvivors \/ TerminateEnd
  BY <1>15 DEF ReaperKeeps, TerminateStart, TerminateSignalled, TerminateSurvivors, TerminateEnd
<1>16. CASE UNCHANGED vars
  BY <1>16 DEF vars
<1> QED
  BY <1>1, <1>2, <1>5, <1>6, <1>7, <1>8, <1>9, <1>10, <1>11, <1>12, <1>13, <1>14, <1>15, <1>16
  DEF Next, RegisterNext, ExitNext, KillerNext, WaiterNext, ReaperNext, TerminateNext

\* A process is born running.
BornRunning == \A p \in Pid : life[p] \in {"unused", "allocated", "inherited"} => status[p] = "Running"

\* register inserts every process as Running, and only a registered process changes status.
LEMMA AlwaysBornRunning == Spec => [](TypeOK /\ BornRunning)
<1>1. Init => BornRunning
  BY DEF Init, BornRunning
<1>2. TypeOK /\ BornRunning /\ [Next]_vars => BornRunning'
  <2> SUFFICES ASSUME TypeOK, BornRunning, RowStep PROVE BornRunning'
    BY NextRow
  <2>0. life \in [Pid -> Life] /\ status \in [Pid -> {"Running", "Stopped", "Exited"}]
    BY DEF TypeOK
  <2>1. CASE UNCHANGED <<life, status>>
    BY <2>1 DEF BornRunning
  <2>2. ASSUME NEW p \in Pid, Enters(p) PROVE BornRunning'
    BY <2>0, <2>2 DEF Enters, BornRunning
  <2>3. ASSUME NEW p \in Pid, Leaves(p) PROVE BornRunning'
    BY <2>0, <2>3 DEF Leaves, BornRunning
  <2>4. ASSUME NEW p \in Pid, Changes(p) PROVE BornRunning'
    BY <2>0, <2>4 DEF Changes, Alive, Listed, BornRunning
  <2>5. QED
    BY <2>1, <2>2, <2>3, <2>4 DEF RowStep
<1>3. QED
  BY <1>1, <1>2, TypeCorrect, PTL DEF Spec

--------------------------------------------------------------------------------
(* No zombie is forgotten. *)

\* A wait cancels only the deadline of a process it has removed.
CollectedGone ==
    \A w \in Waiter : waits[w].pc = "collected" => waits[w].arg \in Pid /\ life[waits[w].arg] = "waited"

\* Without terminate_all, mark_exited_inner always schedules.
NeverTerminating ==
    MayTerminate \/ (term.pc = "idle" /\ ~terminating /\ \A p \in Pid : tail[p] # "cancel")

\* notify_all makes ready calls of blocked ones and leaves the rest alone.
LEMMA WakeAllCalls ==
    ASSUME NEW ws \in [Waiter -> WaitCall]
    PROVE  \A w \in Waiter : /\ WakeAll(ws)[w].pc # "blocked"
                             /\ WakeAll(ws)[w].pc = "collected" <=> ws[w].pc = "collected"
                             /\ WakeAll(ws)[w].arg = ws[w].arg
BY DEF WakeAll, WaitCall

\* A call changes in a step by being woken, by a change to one call that collects nothing,
\* by collecting a zombie, or by returning it.
WaitsStep ==
    \/ UNCHANGED waits
    \/ NotifyAll
    \/ \E w \in Waiter, c \in WaitCall : c.pc # "collected" /\ waits' = [waits EXCEPT ![w] = c]
    \/ \E w \in Waiter : WaitReaps(w) \/ WaitReturns(w)

\* No other step touches the calls.
LEMMA NextWaits ==
    ASSUME TypeOK, [Next]_vars
    PROVE  WaitsStep
<1> USE DEF WaitsStep, entryVars, reaperVars
<1>1. ASSUME RegisterNext PROVE WaitsStep
  BY <1>1 DEF RegisterNext, AllocatePid, RegisterInherit, RegisterInsert
<1>2. ASSUME NEW p \in Pid, DriverExit(p) \/ ExitProcess(p) \/ ExitNext(p) PROVE WaitsStep
  BY <1>2 DEF DriverExit, ExitProcess, ExitNext, OnExit, TailReaper, TailHangup, TailCallback
<1>3. ASSUME SignalNext PROVE WaitsStep
  BY <1>3 DEF SignalNext, Kill, SetPgid, SetSid
<1>4. ASSUME NEW k \in Killer, KillNext(k) PROVE WaitsStep
  BY <1>4 DEF KillNext, MarkWaitEvent
<1>5. ASSUME NEW k \in Killer, KillReturn(k) PROVE WaitsStep
  BY <1>5 DEF KillReturn
<1>6. ASSUME NEW w \in Waiter, NEW p \in Pid, WaitpidCall(w, p) PROVE WaitsStep
  <2>1. [NoWait EXCEPT !.pc = "ready", !.arg = p] \in WaitCall
    BY PidRange DEF NoWait, WaitCall
  <2>2. [NoWait EXCEPT !.pc = "ready", !.arg = p].pc # "collected"
    BY DEF NoWait
  <2>3. QED
    BY <1>6, <2>1, <2>2 DEF WaitpidCall
<1>7. ASSUME NEW w \in Waiter, NEW p \in Pid, NEW arg \in WaitPids, NEW flags \in WaitFlags,
             WaitpidForCall(w, p, arg, flags)
      PROVE  WaitsStep
  <2>1. arg \in (0 - MaxPid)..MaxPid /\ flags \in SUBSET WaitFlag
    BY ProcessAssumption
  <2> DEFINE c == [pc |-> "ready", kind |-> "waitpid_for", waiter |-> p, arg |-> arg, flags |-> flags]
  <2>2. c \in WaitCall /\ c.pc # "collected"
    BY <2>1, PidRange DEF WaitCall
  <2>3. waits' = [waits EXCEPT ![w] = c]
    BY <1>7 DEF WaitpidForCall
  <2> HIDE DEF c
  <2>4. QED
    BY <2>2, <2>3
<1>8. ASSUME NEW w \in Waiter, WaitFails(w) \/ WaitTakesEvent(w) \/ WaitNoHang(w) PROVE WaitsStep
  <2>1. waits' = [waits EXCEPT ![w] = NoWait]
    BY <1>8 DEF WaitFails, WaitTakesEvent, WaitNoHang
  <2>2. NoWait.pc # "collected"
    BY DEF NoWait
  <2>3. QED
    BY <2>1, <2>2, NoCallType
<1>9. ASSUME NEW w \in Waiter, WaitBlocks(w) PROVE WaitsStep
  <2>1. waits' = [waits EXCEPT ![w] = [waits[w] EXCEPT !.pc = "blocked"]] /\ waits[w] \in WaitCall
    BY <1>9 DEF WaitBlocks, TypeOK
  <2>2. [waits[w] EXCEPT !.pc = "blocked"] \in WaitCall /\ [waits[w] EXCEPT !.pc = "blocked"].pc # "collected"
    BY <2>1 DEF WaitCall
  <2>3. QED
    BY <2>1, <2>2
<1>10. ASSUME NEW p \in Pid, ReaperTake(p) \/ TerminateSignal(p) \/ TerminateMarks(p) \/ TerminateTimeout(p)
       PROVE  WaitsStep
  BY <1>10 DEF ReaperTake, TerminateSignal, TerminateMarks, TerminateTimeout
<1>11. CASE ReaperReaps \/ ReaperKeeps
  BY <1>11 DEF ReaperReaps, ReaperKeeps
<1>12. CASE TerminateStart \/ TerminateSignalled \/ TerminateSurvivors \/ TerminateEnd
  BY <1>12 DEF TerminateStart, TerminateSignalled, TerminateSurvivors, TerminateEnd
<1>13. CASE UNCHANGED vars
  BY <1>13 DEF vars
<1> QED
  BY <1>1, <1>2, <1>3, <1>4, <1>5, <1>6, <1>7, <1>8, <1>9, <1>10, <1>11, <1>12, <1>13
  DEF Next, KillerNext, WaitNext, WaiterNext, ReaperNext, TerminateNext

\* A pid that a wait has removed never enters the table again.
LEMMA GoneStaysGone ==
    ASSUME TypeOK, RowStep, NEW p \in Pid, life[p] = "waited"
    PROVE  life'[p] = "waited"
BY DEF RowStep, Enters, Leaves, Changes, Zombie, Listed, TypeOK

\* The pid between entries.remove and reaper.cancel in waitpid is gone for good.
LEMMA AlwaysCollectedGone == Spec => []CollectedGone
<1>1. Init => CollectedGone
  BY DEF Init, CollectedGone, NoWait
<1>2. TypeOK /\ CollectedGone /\ [Next]_vars => CollectedGone'
  <2> SUFFICES ASSUME TypeOK, CollectedGone, [Next]_vars,
                      NEW v \in Waiter, waits'[v].pc = "collected"
               PROVE  waits'[v].arg \in Pid /\ life'[waits'[v].arg] = "waited"
    BY DEF CollectedGone
  <2>1. waits \in [Waiter -> WaitCall]
    BY DEF TypeOK
  <2>2. CASE waits[v].pc = "collected" /\ waits'[v].arg = waits[v].arg
    BY <2>2, GoneStaysGone, NextRow DEF CollectedGone
  <2>3. CASE UNCHANGED waits
    BY <2>2, <2>3
  <2>4. CASE NotifyAll
    BY <2>1, <2>2, <2>4, WakeAllCalls DEF NotifyAll
  <2>5. CASE \E w \in Waiter, c \in WaitCall : c.pc # "collected" /\ waits' = [waits EXCEPT ![w] = c]
    BY <2>1, <2>2, <2>5
  <2>6. ASSUME NEW w \in Waiter, WaitReaps(w)
        PROVE  waits'[v].arg \in Pid /\ life'[waits'[v].arg] = "waited"
    <3>1. PICK q \in Pid : /\ Remove(q, "waited")
                           /\ waits' = [waits EXCEPT ![w] = [NoWait EXCEPT !.pc = "collected", !.arg = q]]
      BY <2>6 DEF WaitReaps
    <3>2. CASE v = w
      BY <2>1, <3>1, <3>2 DEF Remove, NoWait, TypeOK
    <3>3. CASE v # w
      BY <2>1, <2>2, <3>1, <3>3
    <3>4. QED
      BY <3>2, <3>3
  <2>7. ASSUME NEW w \in Waiter, WaitReturns(w)
        PROVE  waits'[v].arg \in Pid /\ life'[waits'[v].arg] = "waited"
    <3>1. waits' = [WakeAll(waits) EXCEPT ![w] = NoWait] /\ WakeAll(waits) \in [Waiter -> WaitCall]
      BY <2>1, <2>7, WakeAllType DEF WaitReturns
    <3>2. v # w
      BY <3>1 DEF NoWait
    <3>3. QED
      BY <2>1, <2>2, <3>1, <3>2, WakeAllCalls
  <2>8. QED
    BY <2>3, <2>4, <2>5, <2>6, <2>7, NextWaits DEF WaitsStep
<1>3. QED
  BY <1>1, <1>2, TypeCorrect, PTL DEF Spec
\* mark_exited_inner is the only way to Exited.
LEMMA ExitIsMarked ==
    ASSUME TypeOK, [Next]_vars, NEW p \in Pid, status[p] # "Exited", status'[p] = "Exited"
    PROVE  MarkExited(p)
<1> USE DEF entryVars, reaperVars
<1>0. status \in [Pid -> {"Running", "Stopped", "Exited"}]
  BY DEF TypeOK
<1>1. ASSUME NEW q \in Pid, MarkExited(q) PROVE MarkExited(p)
  BY <1>0, <1>1 DEF MarkExited
<1>2. ASSUME NEW q \in Pid, NEW next \in {"Running", "Stopped"}, NEW event, MarkWaitEvent(q, next, event)
      PROVE  FALSE
  BY <1>0, <1>2 DEF MarkWaitEvent
<1>3. ~UNCHANGED status
  OBVIOUS
<1>4. ASSUME RegisterNext PROVE FALSE
  BY <1>3, <1>4 DEF RegisterNext, AllocatePid, RegisterInherit, RegisterInsert
<1>5. ASSUME NEW q \in Pid, DriverExit(q) \/ ExitProcess(q) \/ ExitNext(q) PROVE MarkExited(p)
  BY <1>1, <1>3, <1>5 DEF DriverExit, ExitProcess, ExitNext, OnExit, TailReaper, TailHangup, TailCallback
<1>6. ASSUME SignalNext PROVE FALSE
  BY <1>3, <1>6 DEF SignalNext, Kill, SetPgid, SetSid
<1>7. ASSUME NEW k \in Killer, KillerNext(k) PROVE FALSE
  BY <1>2, <1>3, <1>7 DEF KillerNext, KillNext, KillReturn
<1>8. ASSUME WaitNext PROVE FALSE
  BY <1>3, <1>8 DEF WaitNext, WaitpidCall, WaitpidForCall
<1>9. ASSUME NEW w \in Waiter, WaiterNext(w) PROVE FALSE
  BY <1>3, <1>9 DEF WaiterNext, WaitFails, WaitTakesEvent, WaitReaps, Remove, WaitReturns, WaitNoHang, WaitBlocks
<1>10. ASSUME NEW q \in Pid, ReaperTake(q) \/ TerminateSignal(q) \/ TerminateTimeout(q) PROVE FALSE
  BY <1>3, <1>10 DEF ReaperTake, TerminateSignal, TerminateTimeout
<1>11. ASSUME NEW q \in Pid, TerminateMarks(q) PROVE MarkExited(p)
  BY <1>1, <1>3, <1>11 DEF TerminateMarks
<1>12. ~(ReaperNext \/ TerminateStart \/ TerminateSignalled \/ TerminateSurvivors \/ TerminateEnd \/ UNCHANGED vars)
  BY <1>3 DEF ReaperNext, ReaperReaps, Remove, ReaperKeeps, TerminateStart, TerminateSignalled,
              TerminateSurvivors, TerminateEnd, vars
<1> QED
  BY <1>4, <1>5, <1>6, <1>7, <1>8, <1>9, <1>10, <1>11, <1>12 DEF Next, TerminateNext

\* terminate_all runs only where it is called.
LEMMA AlwaysNeverTerminating == Spec => []NeverTerminating
<1>1. Init => NeverTerminating
  BY DEF Init, NeverTerminating, NoTerm
<1>2. TypeOK /\ NeverTerminating /\ [Next]_vars => NeverTerminating'
  <2> SUFFICES ASSUME TypeOK, ~MayTerminate, [Next]_vars,
                      term.pc = "idle", ~terminating, \A p \in Pid : tail[p] # "cancel"
               PROVE  UNCHANGED <<term, terminating>> /\ \A p \in Pid : tail'[p] # "cancel"
    BY DEF NeverTerminating
  <2> USE DEF entryVars, reaperVars
  <2> DEFINE Goal == UNCHANGED <<term, terminating>> /\ \A p \in Pid : tail'[p] # "cancel"
  <2>0. tail \in [Pid -> TailStep]
    BY DEF TypeOK
  <2>1. ~TerminateStart /\ ~TerminateNext
    BY DEF TerminateStart, TerminateNext, TerminateSignalled, TerminateSurvivors, TerminateEnd,
           TerminateSignal, TerminateMarks, TerminateTimeout
  <2>2. ASSUME RegisterNext PROVE Goal
    BY <2>2 DEF RegisterNext, AllocatePid, RegisterInherit, RegisterInsert
  <2>3. ASSUME NEW p \in Pid, DriverExit(p) \/ ExitProcess(p) \/ ExitNext(p) PROVE Goal
    BY <2>0, <2>3 DEF DriverExit, ExitProcess, MarkExited, ExitNext, OnExit, TailReaper, TailHangup, TailCallback
  <2>4. ASSUME SignalNext PROVE Goal
    BY <2>4 DEF SignalNext, Kill, SetPgid, SetSid
  <2>5. ASSUME NEW k \in Killer, KillerNext(k) PROVE Goal
    BY <2>5 DEF KillerNext, KillNext, KillReturn
  <2>6. ASSUME WaitNext PROVE Goal
    BY <2>6 DEF WaitNext, WaitpidCall, WaitpidForCall
  <2>7. ASSUME NEW w \in Waiter, WaiterNext(w) PROVE Goal
    BY <2>7 DEF WaiterNext, WaitFails, WaitTakesEvent, WaitReaps, WaitReturns, WaitNoHang, WaitBlocks
  <2>8. ASSUME NEW p \in Pid, ReaperTake(p) PROVE Goal
    BY <2>8 DEF ReaperTake
  <2>9. CASE ReaperNext
    BY <2>9 DEF ReaperNext, ReaperReaps, ReaperKeeps
  <2>10. CASE UNCHANGED vars
    BY <2>10 DEF vars
  <2> QED
    BY <2>1, <2>2, <2>3, <2>4, <2>5, <2>6, <2>7, <2>8, <2>9, <2>10 DEF Next
<1>3. QED
  BY <1>1, <1>2, TypeCorrect, PTL DEF Spec

\* While nobody calls terminate_all, every zombie has a deadline, is about to get one, or is
\* in the reaper thread's hands, for any number of processes, waiters and killers.
THEOREM NoZombieForgotten == Spec => []ZombieAccounted
<1>1. Init => ZombieAccounted
  BY DEF Init, ZombieAccounted, Zombie, Listed
<1>2. /\ TypeOK /\ BornRunning /\ CollectedGone /\ NeverTerminating /\ ZombieAccounted
      /\ [Next]_vars
      => ZombieAccounted'
  <2> DEFINE Accounted(z) == z \in deadlines \/ tail[z] = "schedule" \/ reaper = z
  <2> SUFFICES ASSUME TypeOK, BornRunning, CollectedGone, ~MayTerminate, [Next]_vars,
                      ~terminating, term.pc = "idle", \A p \in Pid : tail[p] # "cancel",
                      \A p \in Zombie : Accounted(p),
                      NEW z \in Pid, life'[z] = "listed", status'[z] = "Exited"
               PROVE  Accounted(z)'
    BY DEF ZombieAccounted, NeverTerminating, Zombie, Listed
  <2> USE DEF entryVars, reaperVars
  <2>0. tail \in [Pid -> TailStep] /\ life \in [Pid -> Life] /\ status \in [Pid -> {"Running", "Stopped", "Exited"}]
    BY DEF TypeOK
  <2>1. CASE status[z] # "Exited"
    BY <2>0, <2>1, ExitIsMarked DEF MarkExited
  <2>2. CASE status[z] = "Exited"
    <3>1. life[z] = "listed" /\ Accounted(z)
      <4>1. life[z] \notin {"unused", "allocated", "inherited"}
        BY <2>2 DEF BornRunning
      <4>2. life[z] = "listed"
        BY <2>0, <4>1, NextRow DEF RowStep, Enters, Leaves, Changes, Zombie, Listed
      <4>3. QED
        BY <2>2, <4>2 DEF Zombie, Listed
    <3>2. CASE UNCHANGED <<deadlines, tail, reaper>>
      BY <3>1, <3>2
    <3>3. ASSUME RegisterNext PROVE Accounted(z)'
      BY <3>2, <3>3 DEF RegisterNext, AllocatePid, RegisterInherit, RegisterInsert
    <3>4. ASSUME NEW p \in Pid, DriverExit(p) PROVE Accounted(z)'
      BY <3>2, <3>4 DEF DriverExit
    <3>5. ASSUME NEW p \in Pid, ExitProcess(p) \/ OnExit(p) PROVE Accounted(z)'
      BY <2>0, <2>2, <3>1, <3>5 DEF ExitProcess, OnExit, MarkExited, Alive
    <3>6. ASSUME NEW p \in Pid, TailReaper(p) \/ TailHangup(p) \/ TailCallback(p) PROVE Accounted(z)'
      BY <2>0, <3>1, <3>6 DEF TailReaper, TailHangup, TailCallback
    <3>7. ASSUME SignalNext PROVE Accounted(z)'
      BY <3>2, <3>7 DEF SignalNext, Kill, SetPgid, SetSid
    <3>8. ASSUME NEW k \in Killer, KillerNext(k) PROVE Accounted(z)'
      BY <3>2, <3>8 DEF KillerNext, KillNext, KillReturn
    <3>9. ASSUME WaitNext PROVE Accounted(z)'
      BY <3>2, <3>9 DEF WaitNext, WaitpidCall, WaitpidForCall
    <3>10. ASSUME NEW w \in Waiter, WaitReturns(w) PROVE Accounted(z)'
      <4>1. waits[w].arg # z
        BY <3>1, <3>10 DEF WaitReturns, CollectedGone
      <4>2. QED
        BY <3>1, <3>10, <4>1 DEF WaitReturns
    <3>11. ASSUME NEW w \in Waiter, WaiterNext(w), ~WaitReturns(w) PROVE Accounted(z)'
      BY <3>2, <3>11 DEF WaiterNext, WaitFails, WaitTakesEvent, WaitReaps, WaitNoHang, WaitBlocks
    <3>12. ASSUME NEW p \in Pid, ReaperTake(p) PROVE Accounted(z)'
      BY <3>1, <3>12, PidRange DEF ReaperTake
    <3>13. CASE ReaperReaps
      BY <2>0, <3>1, <3>13 DEF ReaperReaps, Remove, Zombie, Listed
    <3>14. CASE ReaperKeeps
      BY <2>2, <3>1, <3>14 DEF ReaperKeeps, Zombie, Listed
    <3>15. ~TerminateStart /\ ~TerminateNext
      BY DEF TerminateStart, TerminateNext, TerminateSignalled, TerminateSurvivors, TerminateEnd,
             TerminateSignal, TerminateMarks, TerminateTimeout
    <3>16. CASE UNCHANGED vars
      BY <3>2, <3>16 DEF vars
    <3> QED
      BY <3>3, <3>4, <3>5, <3>6, <3>7, <3>8, <3>9, <3>10, <3>11, <3>12, <3>13, <3>14, <3>15, <3>16
      DEF Next, ExitNext, ReaperNext
  <2>3. QED
    BY <2>1, <2>2
<1>3. QED
  BY <1>1, <1>2, AlwaysBornRunning, AlwaysCollectedGone, AlwaysNeverTerminating, PTL DEF Spec
--------------------------------------------------------------------------------
(* The life cycle, adoption and orphaned groups. *)

\* The table implements ProcessLifecycle: exit, kill, waitpid, the reaper and terminate_all
\* race for an entry, and still it exits once, is collected once and never comes back.
THEOREM LifecycleRefined == Spec => ImplementsLifecycle
<1> DEFINE st == [p \in Pid |-> LifecycleState(p)]
<1>1. Init => Lifecycle!Init
  BY DEF Init, Lifecycle!Init, LifecycleState
<1>2. TypeOK /\ BornRunning /\ [Next]_vars => [Lifecycle!Next]_st
  <2> SUFFICES ASSUME TypeOK, BornRunning, RowStep PROVE [Lifecycle!Next]_st
    BY NextRow
  <2>0. life \in [Pid -> Life] /\ status \in [Pid -> {"Running", "Stopped", "Exited"}]
    BY DEF TypeOK
  <2>1. CASE UNCHANGED <<life, status>>
    BY <2>1 DEF LifecycleState
  <2>2. ASSUME NEW p \in Pid, Enters(p) PROVE [Lifecycle!Next]_st
    <3>1. \A q \in Pid : q # p => LifecycleState(q)' = LifecycleState(q)
      BY <2>0, <2>2 DEF Enters, LifecycleState
    <3>2. \/ LifecycleState(p)' = LifecycleState(p)
          \/ LifecycleState(p) = "unborn" /\ LifecycleState(p)' = "running"
      BY <2>0, <2>2 DEF Enters, LifecycleState, BornRunning
    <3>3. CASE LifecycleState(p)' = LifecycleState(p)
      BY <3>1, <3>3
    <3>4. CASE LifecycleState(p) = "unborn" /\ LifecycleState(p)' = "running"
      <4>1. st' = [st EXCEPT ![p] = "running"]
        BY <3>1, <3>4
      <4>2. QED
        BY <3>4, <4>1 DEF Lifecycle!Next, Lifecycle!Birth, Lifecycle!Move
    <3>5. QED
      BY <3>2, <3>3, <3>4
  <2>3. ASSUME NEW p \in Pid, Leaves(p) PROVE [Lifecycle!Next]_st
    <3>1. \A q \in Pid : q # p => LifecycleState(q)' = LifecycleState(q)
      BY <2>0, <2>3 DEF Leaves, LifecycleState
    <3>2. LifecycleState(p) = "zombie" /\ LifecycleState(p)' = "collected"
      BY <2>0, <2>3 DEF Leaves, Zombie, Listed, LifecycleState
    <3>3. st' = [st EXCEPT ![p] = "collected"]
      BY <3>1, <3>2
    <3>4. QED
      BY <3>2, <3>3 DEF Lifecycle!Next, Lifecycle!Collect, Lifecycle!Move
  <2>4. ASSUME NEW p \in Pid, Changes(p) PROVE [Lifecycle!Next]_st
    <3>1. \A q \in Pid : q # p => LifecycleState(q)' = LifecycleState(q)
      BY <2>0, <2>4 DEF Changes, LifecycleState
    <3>2. \/ LifecycleState(p) = "running" /\ LifecycleState(p)' \in {"stopped", "zombie"}
          \/ LifecycleState(p) = "stopped" /\ LifecycleState(p)' \in {"running", "zombie"}
      BY <2>0, <2>4 DEF Changes, Alive, Listed, LifecycleState
    <3>3. st' = [st EXCEPT ![p] = LifecycleState(p)']
      BY <3>1
    <3>4. QED
      BY <3>2, <3>3 DEF Lifecycle!Next, Lifecycle!Stop, Lifecycle!Continue, Lifecycle!Exit, Lifecycle!Move
  <2>5. QED
    BY <2>1, <2>2, <2>3, <2>4 DEF RowStep
<1>3. QED
  BY <1>1, <1>2, AlwaysBornRunning, PTL DEF Spec, ImplementsLifecycle, Lifecycle!Spec

================================================================================
