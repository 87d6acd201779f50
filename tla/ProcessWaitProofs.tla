---------------------------- MODULE ProcessWaitProofs ----------------------------
(***************************************************************************)
(* More theorems about ProcessTable: adoption of children, orphaned        *)
(* process groups, the wakeups of waitpid and the end of terminate_all.    *)
(***************************************************************************)
EXTENDS ProcessTableProofs

\* A ppid is set at registration, reset when the entry is removed, and rewritten by
\* mark_exited_inner; no other step touches it.
LEMMA NextParent ==
    ASSUME TypeOK, [Next]_vars, NEW q \in Listed, life'[q] = "listed"
    PROVE  ppid'[q] = ppid[q] \/ \E p \in Pid : MarkExited(p)
<1> USE DEF entryVars, reaperVars
<1> DEFINE Goal == ppid'[q] = ppid[q] \/ \E p \in Pid : MarkExited(p)
<1>0. q \in Pid /\ life[q] = "listed" /\ life \in [Pid -> Life] /\ ppid \in [Pid -> 0..MaxPid]
  BY DEF Listed, TypeOK
<1>1. CASE UNCHANGED ppid
  BY <1>1
<1>2. ASSUME NEW parent \in 0..MaxPid, AllocatePid(parent) PROVE Goal
  <2>1. next_pid \in Pid /\ next_pid >= next_pid
    BY <1>2, PidRange DEF AllocatePid
  <2>2. life[next_pid] = "unused"
    BY <2>1 DEF TypeOK
  <2>3. QED
    BY <1>0, <1>2, <2>2 DEF AllocatePid
<1>3. ASSUME NEW p \in Pid, RegisterInherit(p) \/ RegisterInsert(p) PROVE Goal
  BY <1>3 DEF RegisterInherit, RegisterInsert
<1>4. ASSUME NEW p \in Pid, DriverExit(p) \/ ExitProcess(p) \/ ExitNext(p) PROVE Goal
  BY <1>4 DEF DriverExit, ExitProcess, ExitNext, OnExit, TailReaper, TailHangup, TailCallback
<1>5. ASSUME SignalNext PROVE Goal
  BY <1>5 DEF SignalNext, Kill, SetPgid, SetSid
<1>6. ASSUME NEW k \in Killer, KillerNext(k) PROVE Goal
  BY <1>6 DEF KillerNext, KillNext, KillReturn
<1>7. ASSUME WaitNext PROVE Goal
  BY <1>7 DEF WaitNext, WaitpidCall, WaitpidForCall
<1>8. ASSUME NEW p \in Pid, NEW how \in {"waited", "reaped"}, Remove(p, how) PROVE Goal
  BY <1>0, <1>8 DEF Remove
<1>9. ASSUME NEW w \in Waiter, WaiterNext(w) PROVE Goal
  BY <1>8, <1>9 DEF WaiterNext, WaitFails, WaitTakesEvent, WaitReaps, WaitReturns, WaitNoHang, WaitBlocks
<1>10. ASSUME NEW p \in Pid, ReaperTake(p) \/ TerminateSignal(p) \/ TerminateMarks(p) \/ TerminateTimeout(p)
       PROVE  Goal
  BY <1>10 DEF ReaperTake, TerminateSignal, TerminateMarks, TerminateTimeout
<1>11. CASE ReaperReaps
  BY <1>8, <1>11 DEF ReaperReaps, Zombie, Listed
<1>12. CASE ReaperKeeps \/ TerminateStart \/ TerminateSignalled \/ TerminateSurvivors \/ TerminateEnd
  BY <1>12 DEF ReaperKeeps, TerminateStart, TerminateSignalled, TerminateSurvivors, TerminateEnd
<1>13. CASE UNCHANGED vars
  BY <1>13 DEF vars
<1> QED
  BY <1>2, <1>3, <1>4, <1>5, <1>6, <1>7, <1>9, <1>10, <1>11, <1>12, <1>13
  DEF Next, RegisterNext, ReaperNext, TerminateNext

\* A live process stays in the table, and dies only by mark_exited_inner.
LEMMA LiveStays ==
    ASSUME TypeOK, [Next]_vars, NEW p \in Alive
    PROVE  life'[p] = "listed" /\ (status'[p] # "Exited" \/ MarkExited(p))
<1>0. p \in Pid /\ life[p] = "listed" /\ status[p] # "Exited"
      /\ life \in [Pid -> Life] /\ status \in [Pid -> {"Running", "Stopped", "Exited"}]
  BY DEF Alive, Listed, TypeOK
<1>1. life'[p] = "listed"
  BY <1>0, NextRow DEF RowStep, Enters, Leaves, Changes, Zombie
<1>2. QED
  BY <1>0, <1>1, ExitIsMarked

\* An exit hands every registered child on: for every number of processes, a child of a live
\* parent keeps a live parent or is parentless.
THEOREM EveryChildAdopted == Spec => ChildrenAdopted
<1>1. ASSUME TypeOK, [Next]_vars, NEW q \in Listed, HasLivingParent(q), life'[q] = "listed"
      PROVE  ppid'[q] = 0 \/ (life'[ppid'[q]] = "listed" /\ status'[ppid'[q]] # "Exited")
  <2>0. q \in Pid /\ ppid[q] \in Alive /\ ppid[q] \in Pid /\ status \in [Pid -> {"Running", "Stopped", "Exited"}]
    BY <1>1 DEF HasLivingParent, Listed, Alive, TypeOK
  <2>1. ASSUME NEW p \in Pid, MarkExited(p)
        PROVE  ppid'[q] = 0 \/ (life'[ppid'[q]] = "listed" /\ status'[ppid'[q]] # "Exited")
    <3>1. status' = [status EXCEPT ![p] = "Exited"]
      BY <2>1 DEF MarkExited
    <3>2. ppid'[q] = IF q \in Children(p) THEN ReparentTarget(p) ELSE ppid[q]
      BY <2>0, <2>1 DEF MarkExited, ReparentChildren
    <3>3. CASE q \in Children(p)
      <4>1. CASE p # InitPid /\ InitPid \in Alive
        <5>1. ppid'[q] = InitPid /\ status'[InitPid] # "Exited"
          BY <2>0, <3>1, <3>2, <3>3, <4>1, PidRange DEF ReparentTarget, Alive
        <5>2. life'[InitPid] = "listed"
          BY <1>1, <4>1, LiveStays
        <5>3. QED
          BY <5>1, <5>2
      <4>2. CASE ~(p # InitPid /\ InitPid \in Alive)
        BY <3>2, <3>3, <4>2 DEF ReparentTarget
      <4>3. QED
        BY <4>1, <4>2
    <3>4. CASE q \notin Children(p)
      <4>1. ppid[q] # p /\ ppid'[q] = ppid[q]
        BY <1>1, <3>2, <3>4 DEF Children
      <4>2. QED
        BY <1>1, <2>0, <3>1, <4>1, LiveStays DEF Alive
    <3>5. QED
      BY <3>3, <3>4
  <2>2. CASE ppid'[q] = ppid[q] /\ ~\E p \in Pid : MarkExited(p)
    BY <1>1, <2>0, <2>2, LiveStays
  <2>3. QED
    BY <1>1, <2>1, <2>2, NextParent
<1>2. TypeOK /\ [Next]_vars => [\A q \in Listed : HasLivingParent(q) /\ life'[q] = "listed"
          => ppid'[q] = 0 \/ (life'[ppid'[q]] = "listed" /\ status'[ppid'[q]] # "Exited")]_vars
  BY <1>1
<1>3. QED
  BY <1>2, TypeCorrect, PTL DEF Spec, ChildrenAdopted

\* An exit that orphans a group with a stopped member owes SIGHUP to all of its live members:
\* the groups mark_exited_inner looks at, its own and those of its children, are enough.
THEOREM EveryOrphanedGroupHungUp == Spec => OrphanedGroupHungUp
<1> DEFINE Goal(p, g) == /\ status'[p] = "Exited"
                         /\ ~IsOrphaned(g, status, ppid) /\ IsOrphaned(g, status', ppid')
                         /\ HasStopped(g, status')
                         => Members(g, status') \subseteq hup'[p]
<1>1. ASSUME TypeOK, [Next]_vars, NEW p \in Alive, NEW g \in Pid PROVE Goal(p, g)
  <2> SUFFICES ASSUME status'[p] = "Exited", ~IsOrphaned(g, status, ppid), IsOrphaned(g, status', ppid'),
                      HasStopped(g, status')
               PROVE  Members(g, status') \subseteq hup'[p]
    OBVIOUS
  <2>0. p \in Pid /\ p \in Listed /\ status[p] # "Exited"
    BY DEF Alive, Listed
  <2>1. MarkExited(p)
    BY <1>1, <2>0, ExitIsMarked
  <2>2. /\ hup'[p] = OrphanTargets(AffectedGroups(p), status', ppid')
        /\ status' = [status EXCEPT ![p] = "Exited"]
        /\ ppid' = ReparentChildren(p)
    BY <1>1, <2>0, <2>1 DEF MarkExited, TypeOK
  <2>3. status \in [Pid -> {"Running", "Stopped", "Exited"}] /\ ppid \in [Pid -> 0..MaxPid]
    BY <1>1 DEF TypeOK
  <2>4. g \in AffectedGroups(p)
    <3> SUFFICES ASSUME g \notin AffectedGroups(p) PROVE FALSE
      OBVIOUS
    <3>1. pgid[p] # g /\ \A q \in Children(p) : pgid[q] # g
      BY DEF AffectedGroups
    <3>2. Members(g, status') = Members(g, status)
      BY <2>0, <2>2, <2>3, <3>1 DEF Members, Listed
    <3>3. PICK q \in Members(g, status) : HasParentOutsideGroup(q, status, ppid)
      BY <3>2 DEF IsOrphaned
    <3>4. q \in Listed /\ q \in Pid /\ ppid'[q] = ppid[q] /\ ppid[q] # p
      BY <2>2, <3>1 DEF Members, Listed, ReparentChildren, Children
    <3>5. HasParentOutsideGroup(q, status', ppid')
      BY <2>2, <2>3, <3>3, <3>4 DEF HasParentOutsideGroup, Listed
    <3>6. QED
      BY <3>2, <3>5 DEF IsOrphaned
  <2>5. QED
    BY <2>2, <2>4 DEF OrphanTargets, Members
<1>2. TypeOK /\ [Next]_vars => [\A p \in Alive, g \in Pid : Goal(p, g)]_vars
  BY <1>1
<1>3. QED
  BY <1>2, TypeCorrect, PTL DEF Spec, OrphanedGroupHungUp
--------------------------------------------------------------------------------
(* The wakeups of waitpid and waitpid_for. *)

\* A process that is not registered yet has nothing to report.
BornQuiet == \A p \in Pid : life[p] \in {"unused", "allocated", "inherited"} => events[p] = << >>

\* Positions behind a removed one.
LEMMA ShiftedPosition ==
    ASSUME NEW n \in Nat, NEW i \in 1..n, NEW k \in 1..(n - i)
    PROVE  k \in 1..(n - (i + 1) + 1) /\ (i + 1) + k - 1 = i + k /\ i + k \in 1..n
OBVIOUS

\* The number of positions behind a removed one.
LEMMA RestLength ==
    ASSUME NEW n \in Nat, NEW i \in 1..n
    PROVE  (IF i + 1 <= n THEN n - (i + 1) + 1 ELSE 0) = n - i
OBVIOUS

\* take_waitable_event only ever shortens a queue.
LEMMA RemoveEventKeeps ==
    ASSUME NEW s \in Seq(Event), NEW i \in DOMAIN s,
           NEW j \in DOMAIN (SubSeq(s, 1, i - 1) \o SubSeq(s, i + 1, Len(s)))
    PROVE  \E k \in DOMAIN s : (SubSeq(s, 1, i - 1) \o SubSeq(s, i + 1, Len(s)))[j] = s[k]
<1> DEFINE a == SubSeq(s, 1, i - 1)
           b == SubSeq(s, i + 1, Len(s))
<1>1. i \in 1..Len(s) /\ Len(s) \in Nat /\ DOMAIN s = 1..Len(s)
  OBVIOUS
<1>2. a \in Seq(Event) /\ Len(a) = i - 1 /\ \A k \in 1..Len(a) : a[k] = s[k]
  BY <1>1, \A k \in 1..(i - 1) : s[k] \in Event, SubSeqProperties
<1>3. b \in Seq(Event) /\ Len(b) = Len(s) - i /\ \A k \in 1..Len(b) : b[k] = s[i + k]
  <2>1. i \in Int /\ i + 1 \in Int /\ Len(s) \in Int
    BY <1>1
  <2>2. \A k \in (i + 1)..Len(s) : s[k] \in Event
    BY <1>1
  <2>3. /\ b \in Seq(Event)
        /\ Len(b) = IF i + 1 <= Len(s) THEN Len(s) - (i + 1) + 1 ELSE 0
        /\ \A k \in 1..(Len(s) - (i + 1) + 1) : b[k] = s[(i + 1) + k - 1]
    BY <2>1, <2>2, SubSeqProperties, SMTT(40)
  <2> HIDE DEF b
  <2>4. Len(b) = Len(s) - i
    <3>1. (IF i + 1 <= Len(s) THEN Len(s) - (i + 1) + 1 ELSE 0) = Len(s) - i
      BY <1>1, RestLength
    <3>2. QED
      BY <2>3, <3>1
  <2>5. ASSUME NEW k \in 1..Len(b) PROVE b[k] = s[i + k]
    <3>1. k \in 1..(Len(s) - (i + 1) + 1) /\ (i + 1) + k - 1 = i + k
      BY <1>1, <2>4, ShiftedPosition
    <3>2. QED
      BY <2>3, <3>1
  <2>6. QED
    BY <2>3, <2>4, <2>5
<1> HIDE DEF a, b
<1>4. /\ Len(a \o b) = Len(a) + Len(b)
      /\ \A k \in 1..(Len(a) + Len(b)) : (a \o b)[k] = IF k <= Len(a) THEN a[k] ELSE b[k - Len(a)]
  BY <1>2, <1>3, ConcatProperties
<1>5. j \in 1..(Len(a) + Len(b))
  <2>1. j \in DOMAIN (a \o b)
    BY DEF a, b
  <2>2. a \o b \in Seq(Event)
    BY <1>2, <1>3, ConcatProperties
  <2>3. QED
    BY <1>4, <2>1, <2>2
<1>6. CASE j <= Len(a)
  <2>1. (a \o b)[j] = s[j] /\ j \in DOMAIN s
    BY <1>1, <1>2, <1>4, <1>5, <1>6
  <2>2. QED
    BY <2>1 DEF a, b
<1>7. CASE j > Len(a)
  <2>1. j - Len(a) \in 1..Len(b) /\ i + (j - Len(a)) \in DOMAIN s
    <3>1. j \in Int /\ Len(a) = i - 1 /\ Len(b) = Len(s) - i /\ j >= 1 /\ j <= Len(a) + Len(b) /\ j > Len(a)
      BY <1>1, <1>2, <1>3, <1>5, <1>7
    <3>2. j - Len(a) \in 1..(Len(s) - i)
      BY <1>1, <3>1
    <3>3. QED
      BY <1>1, <1>3, <3>2, ShiftedPosition
  <2>2. (a \o b)[j] = s[i + (j - Len(a))]
    <3>1. (a \o b)[j] = b[j - Len(a)]
      BY <1>2, <1>3, <1>4, <1>5, <1>7
    <3>2. QED
      BY <1>3, <2>1, <3>1
  <2>3. QED
    BY <2>1, <2>2 DEF a, b
<1>8. j <= Len(a) \/ j > Len(a)
  BY <1>1, <1>2, <1>3, <1>5
<1>9. QED
  BY <1>6, <1>7, <1>8, Zenon

\* A queue changes when its process stops or continues, when a waiter takes an event, and
\* when its entry is removed.
EventsStep ==
    \/ UNCHANGED events
    \/ NotifyAll /\ \E p \in Listed, s \in Seq(Event) : events' = [events EXCEPT ![p] = s]
    \/ \E w \in Waiter : WaitTakesEvent(w) \/ WaitReaps(w)

\* No other step touches the queues.
LEMMA NextEvents ==
    ASSUME TypeOK, [Next]_vars
    PROVE  EventsStep
<1> USE DEF EventsStep, entryVars, reaperVars
<1>1. ASSUME RegisterNext PROVE EventsStep
  BY <1>1 DEF RegisterNext, AllocatePid, RegisterInherit, RegisterInsert
<1>2. ASSUME NEW p \in Pid, DriverExit(p) \/ ExitProcess(p) \/ ExitNext(p) PROVE EventsStep
  BY <1>2 DEF DriverExit, ExitProcess, ExitNext, OnExit, TailReaper, TailHangup, TailCallback
<1>3. ASSUME SignalNext PROVE EventsStep
  BY <1>3 DEF SignalNext, Kill, SetPgid, SetSid
<1>4. ASSUME NEW p \in Pid, NEW next, NEW event \in Event, MarkWaitEvent(p, next, event) PROVE EventsStep
  <2>1. CASE p \in Alive /\ status[p] # next
    <3>1. events[p] \in Seq(Event) /\ p \in Listed
      BY <2>1 DEF Alive, TypeOK
    <3>2. Append(events[p], event) \in Seq(Event)
      BY <3>1
    <3>3. QED
      BY <1>4, <2>1, <3>1, <3>2 DEF MarkWaitEvent
  <2>2. CASE ~(p \in Alive /\ status[p] # next)
    BY <1>4, <2>2 DEF MarkWaitEvent
  <2>3. QED
    BY <2>1, <2>2
<1>5. ASSUME NEW k \in Killer, KillNext(k) PROVE EventsStep
  BY <1>4, <1>5 DEF KillNext, Event
<1>6. ASSUME NEW k \in Killer, KillReturn(k) PROVE EventsStep
  BY <1>6 DEF KillReturn
<1>7. ASSUME WaitNext PROVE EventsStep
  BY <1>7 DEF WaitNext, WaitpidCall, WaitpidForCall
<1>8. ASSUME NEW w \in Waiter, WaitFails(w) \/ WaitReturns(w) \/ WaitNoHang(w) \/ WaitBlocks(w) PROVE EventsStep
  BY <1>8 DEF WaitFails, WaitReturns, WaitNoHang, WaitBlocks
<1>9. ASSUME NEW p \in Pid, ReaperTake(p) \/ TerminateSignal(p) \/ TerminateMarks(p) \/ TerminateTimeout(p)
      PROVE  EventsStep
  BY <1>9 DEF ReaperTake, TerminateSignal, TerminateMarks, TerminateTimeout
<1>10. CASE ReaperReaps
  <2>1. reaper \in Listed /\ << >> \in Seq(Event) /\ events' = [events EXCEPT ![reaper] = << >>] /\ NotifyAll
    BY <1>10 DEF ReaperReaps, Remove, Zombie
  <2>2. QED
    BY <2>1
<1>11. CASE ReaperKeeps \/ TerminateStart \/ TerminateSignalled \/ TerminateSurvivors \/ TerminateEnd
  BY <1>11 DEF ReaperKeeps, TerminateStart, TerminateSignalled, TerminateSurvivors, TerminateEnd
<1>12. CASE UNCHANGED vars
  BY <1>12 DEF vars
<1> QED
  BY <1>1, <1>2, <1>3, <1>5, <1>6, <1>7, <1>8, <1>9, <1>10, <1>11, <1>12
  DEF Next, KillerNext, WaiterNext, ReaperNext, TerminateNext
\* register inserts every process with an empty queue.
LEMMA AlwaysBornQuiet == Spec => []BornQuiet
<1>1. Init => BornQuiet
  BY DEF Init, BornQuiet
<1>2. TypeOK /\ BornQuiet /\ [Next]_vars => BornQuiet'
  <2> SUFFICES ASSUME TypeOK, BornQuiet, [Next]_vars,
                      NEW p \in Pid, life'[p] \in {"unused", "allocated", "inherited"}
               PROVE  events'[p] = << >>
    BY DEF BornQuiet
  <2>0. life \in [Pid -> Life] /\ events \in [Pid -> Seq(Event)]
    BY DEF TypeOK
  <2>1. life[p] \in {"unused", "allocated", "inherited"}
    BY <2>0, NextRow DEF RowStep, Enters, Leaves, Changes
  <2>2. events[p] = << >> /\ p \notin Listed
    BY <2>1 DEF BornQuiet, Listed
  <2>3. CASE UNCHANGED events
    BY <2>2, <2>3
  <2>4. CASE \E q \in Listed, s \in Seq(Event) : events' = [events EXCEPT ![q] = s]
    BY <2>0, <2>2, <2>4
  <2>5. ASSUME NEW w \in Waiter, WaitTakesEvent(w) PROVE events'[p] = << >>
    <3>1. PICK q \in Pid : /\ FirstReportable(waits[w], q)
                           /\ \E s : events' = [events EXCEPT ![q] = s]
      BY <2>5 DEF WaitTakesEvent
    <3>2. q \in Listed
      BY <3>1 DEF FirstReportable, Matching
    <3>3. QED
      BY <2>0, <2>2, <3>1, <3>2
  <2>6. ASSUME NEW w \in Waiter, WaitReaps(w) PROVE events'[p] = << >>
    BY <2>0, <2>2, <2>6 DEF WaitReaps, Remove
  <2>7. QED
    BY <2>3, <2>4, <2>5, <2>6, NextEvents DEF EventsStep
<1>3. QED
  BY <1>1, <1>2, TypeCorrect, PTL DEF Spec

\* A waiter with nothing to report still has nothing when the columns it reads stay.
LEMMA QuietFrame ==
    ASSUME NEW c, NothingToReport(c), UNCHANGED <<life, status, ppid, pgid, events>>
    PROVE  NothingToReport(c)'
BY DEF NothingToReport, Matching, Selected, Reportable, HasEvent, Listed

\* A new process is running and silent.
LEMMA QuietRegister ==
    ASSUME TypeOK, BornRunning, BornQuiet, NEW c \in WaitCall, NothingToReport(c), RegisterNext
    PROVE  NothingToReport(c)'
<1>0. /\ life \in [Pid -> Life] /\ ppid \in [Pid -> 0..MaxPid] /\ pgid \in [Pid -> 0..MaxPid]
      /\ sid \in [Pid -> 0..MaxPid]
  BY DEF TypeOK
<1>1. ASSUME NEW p \in Pid, p \notin Listed, UNCHANGED <<status, events>>,
             \A q \in Pid : q # p => life'[q] = life[q] /\ ppid'[q] = ppid[q] /\ pgid'[q] = pgid[q],
             life'[p] = "listed" => UNCHANGED <<ppid, pgid>> /\ status[p] = "Running" /\ events[p] = << >>
      PROVE  NothingToReport(c)'
  <2>1. Matching(c) # {} /\ \A q \in Matching(c) : q \in Listed /\ ~Reportable(q, c.flags)
    BY DEF NothingToReport, Matching
  <2>2. \A q \in Matching(c) : q \in Matching(c)'
    BY <1>1 DEF Matching, Selected, Listed
  <2>3. \A q \in Matching(c)' : q = p \/ q \in Matching(c)
    <3>1. c.kind # "waitpid" => c.waiter \in Listed
      BY <2>1 DEF Matching
    <3>2. QED
      BY <1>1, <3>1 DEF Matching, Selected, Listed
  <2>4. \A q \in Pid : Reportable(q, c.flags)' <=> Reportable(q, c.flags)
    BY <1>1 DEF Reportable, HasEvent
  <2>5. p \in Matching(c)' => ~Reportable(p, c.flags)
    BY <1>1 DEF Matching, Listed, Reportable, HasEvent
  <2>6. \A q \in Matching(c)' : q \in Pid
    BY DEF Matching, Listed
  <2>7. QED
    BY <2>1, <2>2, <2>3, <2>4, <2>5, <2>6 DEF NothingToReport
<1>2. ASSUME NEW parent \in 0..MaxPid, AllocatePid(parent) PROVE NothingToReport(c)'
  <2>1. next_pid \in Pid /\ next_pid >= next_pid
    BY <1>2, PidRange DEF AllocatePid
  <2>2. life[next_pid] = "unused"
    BY <2>1 DEF TypeOK
  <2>3. next_pid \notin Listed /\ life'[next_pid] # "listed"
    BY <1>0, <1>2, <2>1, <2>2 DEF AllocatePid, Listed
  <2>4. QED
    BY <1>0, <1>1, <1>2, <2>1, <2>3 DEF AllocatePid
<1>3. ASSUME NEW p \in Pid, RegisterInherit(p) PROVE NothingToReport(c)'
  <2>1. p \notin Listed /\ life'[p] # "listed"
    BY <1>0, <1>3 DEF RegisterInherit, Listed
  <2>2. UNCHANGED <<status, ppid, events>>
        /\ \A q \in Pid : q # p => life'[q] = life[q] /\ pgid'[q] = pgid[q]
    BY <1>0, <1>3 DEF RegisterInherit
  <2>3. QED
    BY <1>1, <2>1, <2>2
<1>4. ASSUME NEW p \in Pid, RegisterInsert(p) PROVE NothingToReport(c)'
  BY <1>0, <1>1, <1>4 DEF RegisterInsert, entryVars, Listed, BornRunning, BornQuiet
<1>5. QED
  BY <1>2, <1>3, <1>4 DEF RegisterNext

\* A wait on one child or on any child does not look at process groups.
LEMMA QuietMove ==
    ASSUME NEW c \in WaitCall, NothingToReport(c), ~SelectsGroup(c), UNCHANGED <<life, status, ppid, events>>
    PROVE  NothingToReport(c)'
<1>1. c.kind \in {"waitpid", "waitpid_for"} /\ c.arg \in (0 - MaxPid)..MaxPid
  BY DEF WaitCall
<1>2. c.kind = "waitpid" \/ c.arg = -1 \/ c.arg > 0
  BY <1>1, PidRange DEF SelectsGroup
<1>3. \A q \in Listed : c.kind = "waitpid_for" => (Selected(c, q)' <=> Selected(c, q))
  BY <1>1, <1>2, PidRange DEF Selected
<1>4. Matching(c)' = Matching(c)
  BY <1>1, <1>3 DEF Matching, Listed
<1>5. QED
  BY <1>4 DEF NothingToReport, Reportable, HasEvent

\* Another waiter can only take events away.
LEMMA QuietTake ==
    ASSUME TypeOK, NEW c \in WaitCall, NothingToReport(c), NEW w \in Waiter, WaitTakesEvent(w)
    PROVE  NothingToReport(c)'
<1>1. UNCHANGED <<life, status, ppid, pgid>>
  BY DEF WaitTakesEvent
<1>2. Matching(c)' = Matching(c)
  BY <1>1 DEF Matching, Selected, Listed
<1>3. PICK q \in Pid : \E i \in DOMAIN events[q] :
        events' = [events EXCEPT ![q] = SubSeq(@, 1, i - 1) \o SubSeq(@, i + 1, Len(@))]
  BY DEF WaitTakesEvent
<1>4. PICK i \in DOMAIN events[q] :
        events' = [events EXCEPT ![q] = SubSeq(@, 1, i - 1) \o SubSeq(@, i + 1, Len(@))]
  BY <1>3
<1>5. events \in [Pid -> Seq(Event)] /\ events[q] \in Seq(Event)
  BY DEF TypeOK
<1>6. events'[q] = SubSeq(events[q], 1, i - 1) \o SubSeq(events[q], i + 1, Len(events[q]))
  BY <1>4, <1>5
<1>7. \A j \in DOMAIN events'[q] : \E k \in DOMAIN events[q] : events'[q][j] = events[q][k]
  <2> DEFINE s == events[q]
             t == SubSeq(s, 1, i - 1) \o SubSeq(s, i + 1, Len(s))
  <2>1. \A j \in DOMAIN t : \E k \in DOMAIN s : t[j] = s[k]
    BY <1>5, RemoveEventKeeps, Zenon
  <2>2. events'[q] = t
    BY <1>6
  <2> HIDE DEF s, t
  <2>3. \A j \in DOMAIN events'[q] : \E k \in DOMAIN s : events'[q][j] = s[k]
    BY <2>1, <2>2, Zenon
  <2>4. QED
    BY <2>3, Zenon DEF s
<1>8. \A r \in Pid : HasEvent(r, c.flags)' => HasEvent(r, c.flags)
  <2>1. HasEvent(q, c.flags)' => HasEvent(q, c.flags)
    BY <1>7 DEF HasEvent, IsWaitable
  <2>2. \A r \in Pid : r # q => events'[r] = events[r]
    BY <1>4, <1>5
  <2>3. QED
    BY <2>1, <2>2 DEF HasEvent
<1>9. \A r \in Matching(c) : r \in Pid
  BY DEF Matching, Listed
<1>10. QED
  BY <1>1, <1>2, <1>8, <1>9 DEF NothingToReport, Reportable
\* The theorem below for one waiter, whose call after the step is c.
LEMMA StrandedStep ==
    ASSUME TypeOK, BornRunning, BornQuiet, WaiterNotStranded, [Next]_vars,
           NEW w \in Waiter, NEW c \in WaitCall, waits'[w] = c, c.pc = "blocked", ~NotifyPending',
           Mover = {} \/ ~SelectsGroup(c)
    PROVE  NothingToReport(c)'
<1> USE DEF entryVars, reaperVars
<1> DEFINE Goal == NothingToReport(c)'
<1>0. waits \in [Waiter -> WaitCall] /\ tail \in [Pid -> TailStep] /\ WakeAll(waits) \in [Waiter -> WaitCall]
  BY WakeAllType DEF TypeOK
<1>1. ~NotifyAll
  BY <1>0, WakeAllCalls DEF NotifyAll
<1>2. \A p \in Pid : tail'[p] = "none"
  BY DEF NotifyPending
<1>3. \A v \in Waiter : waits'[v].pc # "collected"
  BY DEF NotifyPending
<1>4. ASSUME NEW p \in Pid, MarkExited(p) PROVE FALSE
  BY <1>0, <1>2, <1>4 DEF MarkExited
<1>5. ASSUME UNCHANGED tail, \A v \in Waiter : waits[v].pc = "collected" => waits'[v].pc = "collected",
             waits[w] = c
      PROVE  NothingToReport(c)
  <2>1. ~NotifyPending
    BY <1>2, <1>3, <1>5 DEF NotifyPending
  <2>2. QED
    BY <1>5, <2>1 DEF WaiterNotStranded
<1>6. ASSUME UNCHANGED <<tail, waits>> PROVE NothingToReport(c)
  BY <1>5, <1>6
<1>7. ASSUME UNCHANGED <<life, status, ppid, pgid, events, tail, waits>> PROVE Goal
  BY <1>6, <1>7, QuietFrame
<1>8. ASSUME RegisterNext PROVE Goal
  <2>1. UNCHANGED <<tail, waits>>
    BY <1>8 DEF RegisterNext, AllocatePid, RegisterInherit, RegisterInsert
  <2>2. QED
    BY <1>6, <1>8, <2>1, QuietRegister
<1>9. ASSUME NEW p \in Pid, DriverExit(p) \/ ExitProcess(p) \/ OnExit(p) PROVE Goal
  BY <1>4, <1>7, <1>9 DEF DriverExit, ExitProcess, OnExit
<1>10. ASSUME NEW p \in Pid, TailReaper(p) \/ TailHangup(p) \/ TailCallback(p) PROVE Goal
  BY <1>0, <1>1, <1>2, <1>10 DEF TailReaper, TailHangup, TailCallback
<1>11. ASSUME NEW k \in Killer, NEW sig \in KillSignals, NEW arg \in KillPids, Kill(k, arg, sig) PROVE Goal
  BY <1>7, <1>11 DEF Kill
<1>12. ASSUME NEW p \in Pid, SetSid(p) \/ \E g \in 0..MaxPid : SetPgid(p, g) PROVE Goal
  <2>1. UNCHANGED <<life, status, ppid, events, tail, waits>> /\ Mover # {}
    BY <1>12 DEF SetPgid, SetSid
  <2>2. QED
    BY <1>6, <2>1, QuietMove
<1>13. ASSUME NEW k \in Killer, KillNext(k) PROVE Goal
  <2>1. UNCHANGED <<status, events, waits>>
    BY <1>1, <1>13 DEF KillNext, MarkWaitEvent
  <2>2. QED
    BY <1>7, <1>13, <2>1 DEF KillNext
<1>14. ASSUME NEW k \in Killer, KillReturn(k) PROVE Goal
  BY <1>7, <1>14 DEF KillReturn
<1>15. ASSUME NEW v \in Waiter, UNCHANGED tail, \E d \in WaitCall : waits' = [waits EXCEPT ![v] = d] /\ d.pc # "blocked",
              waits[v].pc # "collected"
       PROVE  NothingToReport(c) /\ waits[w] = c
  <2>1. v # w /\ waits[w] = c
    BY <1>0, <1>15
  <2>2. \A u \in Waiter : waits[u].pc = "collected" => waits'[u].pc = "collected"
    BY <1>0, <1>15
  <2>3. QED
    BY <1>5, <1>15, <2>1, <2>2
<1>16. ASSUME NEW v \in Waiter, NEW p \in Pid, WaitpidCall(v, p) PROVE Goal
  <2>1. [NoWait EXCEPT !.pc = "ready", !.arg = p] \in WaitCall /\ [NoWait EXCEPT !.pc = "ready", !.arg = p].pc # "blocked"
    BY PidRange DEF NoWait, WaitCall
  <2>2. NothingToReport(c)
    BY <1>15, <1>16, <2>1 DEF WaitpidCall
  <2>3. QED
    BY <1>16, <2>2, QuietFrame DEF WaitpidCall
<1>17. ASSUME NEW v \in Waiter, NEW p \in Pid, NEW arg \in WaitPids, NEW flags \in WaitFlags,
              WaitpidForCall(v, p, arg, flags)
       PROVE  Goal
  <2> DEFINE d == [pc |-> "ready", kind |-> "waitpid_for", waiter |-> p, arg |-> arg, flags |-> flags]
  <2>1. arg \in (0 - MaxPid)..MaxPid /\ flags \in SUBSET WaitFlag
    BY ProcessAssumption
  <2>2. d \in WaitCall /\ d.pc # "blocked"
    BY <2>1, PidRange DEF WaitCall
  <2>3. waits' = [waits EXCEPT ![v] = d] /\ UNCHANGED <<life, status, ppid, pgid, events, tail>> /\ waits[v].pc = "idle"
    BY <1>17 DEF WaitpidForCall
  <2> HIDE DEF d
  <2>4. NothingToReport(c)
    BY <1>15, <2>2, <2>3
  <2>5. QED
    BY <2>3, <2>4, QuietFrame
<1>18. ASSUME NEW v \in Waiter, WaitFails(v) \/ WaitNoHang(v) \/ WaitTakesEvent(v) PROVE Goal
  <2>1. /\ waits' = [waits EXCEPT ![v] = NoWait] /\ UNCHANGED <<life, status, ppid, pgid, tail>>
        /\ waits[v].pc = "ready"
    BY <1>18 DEF WaitFails, WaitNoHang, WaitTakesEvent
  <2>2. NothingToReport(c)
    BY <1>15, <2>1, NoCallType DEF NoWait
  <2>3. CASE WaitTakesEvent(v)
    BY <2>2, <2>3, QuietTake
  <2>4. CASE UNCHANGED events
    BY <2>1, <2>2, <2>4, QuietFrame
  <2>5. QED
    BY <1>18, <2>3, <2>4 DEF WaitFails, WaitNoHang
<1>19. ASSUME NEW v \in Waiter, WaitReaps(v) PROVE FALSE
  <2>1. PICK q \in Pid : waits' = [waits EXCEPT ![v] = [NoWait EXCEPT !.pc = "collected", !.arg = q]]
    BY <1>19 DEF WaitReaps
  <2>2. waits'[v].pc = "collected"
    BY <1>0, <2>1 DEF NoWait
  <2>3. QED
    BY <1>3, <2>2
<1>20. ASSUME NEW v \in Waiter, WaitReturns(v) PROVE FALSE
  <2>1. waits' = [WakeAll(waits) EXCEPT ![v] = NoWait]
    BY <1>20 DEF WaitReturns
  <2>2. waits'[w].pc # "blocked"
    BY <1>0, <2>1, WakeAllCalls DEF NoWait
  <2>3. QED
    BY <2>2
<1>21. ASSUME NEW v \in Waiter, WaitBlocks(v) PROVE Goal
  <2>1. /\ waits' = [waits EXCEPT ![v] = [waits[v] EXCEPT !.pc = "blocked"]]
        /\ UNCHANGED <<life, status, ppid, pgid, events, tail>>
        /\ waits[v].pc = "ready" /\ NothingToReport(waits[v])
    BY <1>21 DEF WaitBlocks
  <2>2. CASE v = w
    <3>1. c = [waits[w] EXCEPT !.pc = "blocked"] /\ waits[w] \in WaitCall
      BY <1>0, <2>1, <2>2
    <3>2. /\ c.kind = waits[w].kind /\ c.waiter = waits[w].waiter
          /\ c.arg = waits[w].arg /\ c.flags = waits[w].flags
      BY <3>1 DEF WaitCall
    <3>3. NothingToReport(c)
      BY <2>1, <2>2, <3>2 DEF NothingToReport, Matching, Selected
    <3>4. QED
      BY <2>1, <3>3, QuietFrame
  <2>3. CASE v # w
    <3>1. waits[w] = c /\ \A u \in Waiter : waits[u].pc = "collected" => waits'[u].pc = "collected"
      BY <1>0, <2>1, <2>3
    <3>2. NothingToReport(c)
      BY <1>5, <2>1, <3>1
    <3>3. QED
      BY <2>1, <3>2, QuietFrame
  <2>4. QED
    BY <2>2, <2>3
<1>22. ASSUME NEW p \in Pid, ReaperTake(p) \/ TerminateSignal(p) \/ TerminateMarks(p) \/ TerminateTimeout(p)
       PROVE  Goal
  BY <1>4, <1>7, <1>22 DEF ReaperTake, TerminateSignal, TerminateMarks, TerminateTimeout
<1>23. CASE ReaperNext
  BY <1>1, <1>23 DEF ReaperNext, ReaperReaps, ReaperKeeps
<1>24. CASE TerminateStart \/ TerminateSignalled \/ TerminateSurvivors \/ TerminateEnd
  BY <1>7, <1>24 DEF TerminateStart, TerminateSignalled, TerminateSurvivors, TerminateEnd
<1>25. CASE UNCHANGED vars
  BY <1>7, <1>25 DEF vars
<1> QED
  BY <1>8, <1>9, <1>10, <1>11, <1>12, <1>13, <1>14, <1>16, <1>17, <1>18, <1>19, <1>20, <1>21,
     <1>22, <1>23, <1>24, <1>25
  DEF Next, ExitNext, SignalNext, KillerNext, WaitNext, WaiterNext, TerminateNext

\* No lost wakeup in waitpid and waitpid_for, for any number of waiters and processes:
\* whatever gives a sleeping waiter something to return is followed by notify_all.
THEOREM NoWaiterStranded == Spec => []WaiterNotStranded
<1>1. Init => WaiterNotStranded
  BY DEF Init, WaiterNotStranded, NoWait
<1>2. /\ TypeOK /\ TypeOK' /\ BornRunning /\ BornQuiet /\ WaiterNotStranded /\ [Next]_vars
      => WaiterNotStranded'
  <2> SUFFICES ASSUME TypeOK, TypeOK', BornRunning, BornQuiet, WaiterNotStranded, [Next]_vars,
                      ~NotifyPending', NEW w \in Waiter, waits'[w].pc = "blocked",
                      Mover = {} \/ ~SelectsGroup(waits'[w])
               PROVE  NothingToReport(waits[w])'
    BY DEF WaiterNotStranded, SelectsGroup
  <2>1. PICK c \in WaitCall : waits'[w] = c
    BY DEF TypeOK
  <2>2. c.pc = "blocked" /\ (Mover = {} \/ ~SelectsGroup(c))
    BY <2>1
  <2>3. NothingToReport(c)'
    BY <2>1, <2>2, StrandedStep
  <2>4. QED
    BY <2>1, <2>3 DEF NothingToReport, Matching, Selected
<1>3. QED
  BY <1>1, <1>2, AlwaysBornRunning, AlwaysBornQuiet, PTL DEF Spec
--------------------------------------------------------------------------------
(* terminate_all. *)

\* The process has been in the table.
Born(p) == life[p] \in {"listed", "waited", "reaped"}

\* How far terminate_all has come.  After SIGTERM every driver that obeys is done; after the
\* first wait every such process is dead; after SIGKILL every survivor's driver is done; and
\* after the second wait every survivor is dead.
TerminateInv ==
    /\ \A p \in term.running : Born(p)
    /\ term.survivors \subseteq term.running
    /\ term.pc = "sigterm" => \A p \in term.running \ (term.todo \cup Stubborn) : driver[p] = "done"
    /\ term.pc = "wait" => /\ \A p \in term.running \ Stubborn : driver[p] = "done"
                           /\ \A p \in term.running \ (term.todo \cup Stubborn) : p \notin Alive
    /\ term.pc \in {"sigkill", "waitkill"} => \A p \in term.running \ Stubborn : p \notin Alive
    /\ term.pc = "sigkill" => \A p \in term.survivors \ term.todo : driver[p] = "done"
    /\ term.pc = "waitkill" => /\ \A p \in term.survivors : driver[p] = "done"
                               /\ \A p \in term.survivors \ term.todo : p \notin Alive

\* A driver that has an exit code keeps it.
LEMMA DoneStaysDone ==
    ASSUME TypeOK, [Next]_vars, NEW p \in Pid, driver[p] = "done"
    PROVE  driver'[p] = "done"
<1> USE DEF entryVars, reaperVars
<1>0. driver \in [Pid -> {"alive", "done"}]
  BY DEF TypeOK
<1>1. ASSUME NEW targets, NEW sig, Finish(targets, sig) PROVE driver'[p] = "done"
  BY <1>1 DEF Finish
<1>2. ASSUME NEW q \in Pid, NEW how, Remove(q, how) PROVE driver'[p] = "done"
  BY <1>0, <1>2 DEF Remove
<1>3. CASE RegisterNext \/ SignalNext \/ WaitNext
  BY <1>3 DEF RegisterNext, AllocatePid, RegisterInherit, RegisterInsert, SignalNext, Kill, SetPgid, SetSid,
              WaitNext, WaitpidCall, WaitpidForCall
<1>4. ASSUME NEW q \in Pid, DriverExit(q) \/ ExitProcess(q) \/ ExitNext(q) PROVE driver'[p] = "done"
  BY <1>0, <1>1, <1>4 DEF DriverExit, ExitProcess, ExitNext, OnExit, TailReaper, TailHangup, TailCallback
<1>5. ASSUME NEW k \in Killer, KillerNext(k) PROVE driver'[p] = "done"
  BY <1>1, <1>5 DEF KillerNext, KillNext, KillReturn
<1>6. ASSUME NEW w \in Waiter, WaiterNext(w) PROVE driver'[p] = "done"
  BY <1>2, <1>6 DEF WaiterNext, WaitFails, WaitTakesEvent, WaitReaps, WaitReturns, WaitNoHang, WaitBlocks
<1>7. ASSUME NEW q \in Pid, ReaperTake(q) \/ TerminateSignal(q) \/ TerminateMarks(q) \/ TerminateTimeout(q)
      PROVE  driver'[p] = "done"
  BY <1>1, <1>7 DEF ReaperTake, TerminateSignal, TerminateMarks, TerminateTimeout
<1>8. CASE ReaperReaps
  BY <1>2, <1>8 DEF ReaperReaps, Zombie, Listed
<1>9. CASE ReaperKeeps \/ TerminateStart \/ TerminateSignalled \/ TerminateSurvivors \/ TerminateEnd \/ UNCHANGED vars
  BY <1>9 DEF ReaperKeeps, TerminateStart, TerminateSignalled, TerminateSurvivors, TerminateEnd, vars
<1> QED
  BY <1>3, <1>4, <1>5, <1>6, <1>7, <1>8, <1>9 DEF Next, ReaperNext, TerminateNext

\* The dead stay dead.
LEMMA DeadStays ==
    ASSUME TypeOK, [Next]_vars, NEW p \in Pid, Born(p)
    PROVE  Born(p)' /\ (p \notin Alive => p \notin Alive')
<1>1. life \in [Pid -> Life] /\ status \in [Pid -> {"Running", "Stopped", "Exited"}]
  BY DEF TypeOK
<1>2. QED
  BY <1>1, NextRow DEF RowStep, Enters, Leaves, Changes, Born, Alive, Zombie, Listed

\* The steps of the other threads do not set terminate_all back.
LEMMA TerminateFrame ==
    ASSUME TypeOK, TerminateInv, [Next]_vars, UNCHANGED term
    PROVE  TerminateInv'
<1>1. term.running \subseteq Pid
  BY DEF TypeOK, TermCall
<1>2. \A p \in term.running : Born(p)' /\ (p \notin Alive => p \notin Alive') /\ (driver[p] = "done" => driver'[p] = "done")
  BY <1>1, DeadStays, DoneStaysDone DEF TerminateInv
<1>3. QED
  BY <1>2 DEF TerminateInv

\* Only terminate_all moves its own call.
LEMMA NextTerm ==
    ASSUME [Next]_vars
    PROVE  UNCHANGED term \/ TerminateStart \/ TerminateNext
<1> USE DEF entryVars, reaperVars
<1>1. CASE RegisterNext \/ SignalNext \/ WaitNext
  BY <1>1 DEF RegisterNext, AllocatePid, RegisterInherit, RegisterInsert, SignalNext, Kill, SetPgid, SetSid,
              WaitNext, WaitpidCall, WaitpidForCall
<1>2. ASSUME NEW q \in Pid, DriverExit(q) \/ ExitProcess(q) \/ ExitNext(q) \/ ReaperTake(q) PROVE UNCHANGED term
  BY <1>2 DEF DriverExit, ExitProcess, ExitNext, OnExit, TailReaper, TailHangup, TailCallback, ReaperTake
<1>3. ASSUME NEW k \in Killer, KillerNext(k) PROVE UNCHANGED term
  BY <1>3 DEF KillerNext, KillNext, KillReturn
<1>4. ASSUME NEW w \in Waiter, WaiterNext(w) PROVE UNCHANGED term
  BY <1>4 DEF WaiterNext, WaitFails, WaitTakesEvent, WaitReaps, WaitReturns, WaitNoHang, WaitBlocks
<1>5. CASE ReaperNext \/ UNCHANGED vars
  BY <1>5 DEF ReaperNext, ReaperReaps, ReaperKeeps, vars
<1> QED
  BY <1>1, <1>2, <1>3, <1>4, <1>5 DEF Next
\* Each step of terminate_all keeps what the earlier ones have achieved.
LEMMA TerminateStepInv ==
    ASSUME TypeOK, TypeOK', TerminateInv, [Next]_vars, TerminateStart \/ TerminateNext
    PROVE  TerminateInv'
<1> USE DEF entryVars, reaperVars
<1>0. /\ term \in TermCall /\ term' \in TermCall
      /\ driver \in [Pid -> {"alive", "done"}] /\ life \in [Pid -> Life]
      /\ status \in [Pid -> {"Running", "Stopped", "Exited"}]
  BY DEF TypeOK
<1>1. term.running \subseteq Pid /\ term.survivors \subseteq Pid /\ term.todo \subseteq Pid
  BY <1>0 DEF TermCall
<1>2. \A p \in term.running : Born(p)' /\ (p \notin Alive => p \notin Alive') /\ (driver[p] = "done" => driver'[p] = "done")
  BY <1>1, DeadStays, DoneStaysDone DEF TerminateInv
<1>3. CASE TerminateStart
  <2> DEFINE running == {p \in Listed : status[p] = "Running"}
  <2>1. term'.pc = "sigterm" /\ term'.running = running /\ term'.todo = running /\ term'.survivors = {}
    BY <1>3 DEF TerminateStart, NoTerm
  <2>2. \A p \in running : Born(p)'
    BY <1>3 DEF TerminateStart, Born, Listed
  <2>3. QED
    BY <2>1, <2>2 DEF TerminateInv
<1>4. ASSUME NEW p \in Pid, TerminateSignal(p) PROVE TerminateInv'
  <2>1. /\ term'.pc = term.pc /\ term'.running = term.running /\ term'.survivors = term.survivors
        /\ term'.todo = term.todo \ {p} /\ term.pc \in {"sigterm", "sigkill"}
    BY <1>0, <1>4 DEF TerminateSignal, TermCall
  <2>2. (p \notin Stubborn \/ term.pc = "sigkill") => driver'[p] = "done"
    BY <1>4 DEF TerminateSignal, Finish
  <2>3. QED
    BY <1>2, <2>1, <2>2 DEF TerminateInv
<1>5. CASE TerminateSignalled
  <2>1. /\ term.todo = {} /\ term'.running = term.running /\ term'.survivors = term.survivors
        /\ \/ term.pc = "sigterm" /\ term'.pc = "wait" /\ term'.todo = term.running
           \/ term.pc = "sigkill" /\ term'.pc = "waitkill" /\ term'.todo = term.survivors
    BY <1>0, <1>5 DEF TerminateSignalled, TermCall
  <2>2. QED
    BY <1>2, <2>1 DEF TerminateInv
<1>6. ASSUME NEW p \in Pid, TerminateMarks(p) PROVE TerminateInv'
  <2>1. /\ term'.pc = term.pc /\ term'.running = term.running /\ term'.survivors = term.survivors
        /\ term'.todo = term.todo \ {p} /\ term.pc \in {"wait", "waitkill"}
    BY <1>0, <1>6 DEF TerminateMarks, TermCall
  <2>2. p \notin Alive'
    <3>1. UNCHANGED life
      BY <1>6 DEF TerminateMarks
    <3>2. CASE p \in Alive
      <4>1. status' = [status EXCEPT ![p] = "Exited"]
        BY <1>6, <3>2 DEF TerminateMarks, MarkExited
      <4>2. QED
        BY <1>0, <4>1 DEF Alive
    <3>3. CASE p \notin Alive
      BY <1>6, <3>1, <3>3 DEF TerminateMarks, Alive, Listed
    <3>4. QED
      BY <3>2, <3>3
  <2>3. QED
    BY <1>2, <2>1, <2>2 DEF TerminateInv
<1>7. ASSUME NEW p \in Pid, TerminateTimeout(p) PROVE TerminateInv'
  <2>1. /\ term'.pc = term.pc /\ term'.running = term.running /\ term'.survivors = term.survivors
        /\ term'.todo = term.todo \ {p} /\ term.pc \in {"wait", "waitkill"}
        /\ driver[p] = "alive"
    BY <1>0, <1>7 DEF TerminateTimeout, TermCall
  <2>2. QED
    BY <1>2, <2>1 DEF TerminateInv
<1>8. CASE TerminateSurvivors
  <2> DEFINE survivors == {p \in term.running \cap Listed : status[p] = "Running"}
  <2>1. /\ term.pc = "wait" /\ term.todo = {} /\ term'.pc = "sigkill" /\ term'.running = term.running
        /\ term'.survivors = survivors /\ term'.todo = survivors
    BY <1>0, <1>8 DEF TerminateSurvivors, TermCall
  <2>2. survivors \subseteq term.running
    OBVIOUS
  <2> HIDE DEF survivors
  <2>3. QED
    BY <1>2, <2>1, <2>2 DEF TerminateInv
<1>9. CASE TerminateEnd
  <2>1. term'.pc = "idle" /\ term'.running = {} /\ term'.survivors = {}
    BY <1>9 DEF TerminateEnd, NoTerm
  <2>2. QED
    BY <2>1 DEF TerminateInv
<1> QED
  BY <1>3, <1>4, <1>5, <1>6, <1>7, <1>8, <1>9 DEF TerminateNext

\* terminate_all returns with every process it found running dead, whatever the other threads
\* do in the meantime, unless its driver ignored SIGTERM and it was not Running when
\* terminate_all looked for survivors.
THEOREM TerminateAllKills == Spec => TerminateKills
<1>1. Init => TerminateInv
  BY DEF Init, NoTerm, TerminateInv
<1>2. TypeOK /\ TypeOK' /\ TerminateInv /\ [Next]_vars => TerminateInv'
  BY NextTerm, TerminateFrame, TerminateStepInv
<1>3. Spec => []TerminateInv
  BY <1>1, <1>2, TypeCorrect, PTL DEF Spec
<1> DEFINE Step == term.pc = "waitkill" /\ term'.pc = "idle"
                   => \A p \in term.running : p \in Alive => p \in Stubborn \ term.survivors
<1>4. TypeOK /\ TerminateInv /\ [Next]_vars => [Step]_vars
  <2> SUFFICES ASSUME TypeOK, TerminateInv, [Next]_vars, term.pc = "waitkill", term'.pc = "idle"
               PROVE  \A p \in term.running : p \in Alive => p \in Stubborn \ term.survivors
    OBVIOUS
  <2>1. term.todo = {}
    <3>1. term \in TermCall
      BY DEF TypeOK
    <3>2. TerminateEnd
      BY <3>1, NextTerm DEF TerminateStart, TerminateNext, TerminateSignal, TerminateSignalled, TerminateMarks,
                            TerminateTimeout, TerminateSurvivors, TermCall
    <3>3. QED
      BY <3>2 DEF TerminateEnd
  <2>2. QED
    BY <2>1 DEF TerminateInv
<1>5. QED
  BY <1>3, <1>4, TypeCorrect, PTL DEF Spec, TerminateKills

================================================================================
