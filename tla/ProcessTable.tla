------------------------------ MODULE ProcessTable ------------------------------
(***************************************************************************)
(* The process table of crates/kernel/src/process_table.rs: registration,  *)
(* exit, reparenting, orphaned process groups, job control signals,        *)
(* waitpid, the zombie reaper thread and terminate_all.                    *)
(*                                                                         *)
(* An action is one critical section of the table's mutex, or one step a   *)
(* thread takes between two of them.  The table is shared by any number of *)
(* threads; the ones that keep state between two critical sections are:    *)
(*   - register, which reads the parent's group under one lock and inserts *)
(*     the record under another (life[p] = "allocated", "inherited");      *)
(*   - mark_exited_inner, whose work after the unlock is tail[p];          *)
(*   - kill, which acts on a snapshot of its targets (Killer);             *)
(*   - waitpid and waitpid_for, which wait on a condition variable (Waiter); *)
(*   - the reaper thread, which takes a due pid under its own lock;        *)
(*   - terminate_all.                                                      *)
(* notify_all is part of the critical section it follows, except at the    *)
(* end of mark_exited_inner, where other work comes between.               *)
(***************************************************************************)
EXTENDS Integers, Sequences, FiniteSets

CONSTANTS
    MaxPid,         \* bound on next_pid
    ParentsOf,      \* the parents a pid may be spawned under (0: none)
    ExitVia,        \* how a process ends by itself: its driver, or exit_process
    TtlExpires,     \* whether zombie_ttl can elapse
    Stubborn,       \* pids whose driver ignores every signal but SIGKILL
    Killer,         \* threads that call kill
    KillPids,       \* the pid arguments they pass: a process, or minus a group
    KillSignals,    \* the signals they send
    Waiter,         \* threads that call waitpid and waitpid_for
    WaitPids,       \* the pid arguments they pass to waitpid_for: -1, 0, a group, a child
    WaitFlags,      \* the flag sets they pass to waitpid_for
    Mover,          \* pids for which setpgid and setsid are called
    MaxEvents,      \* bound on a pending_wait_events queue when kill starts
    MayTerminate    \* whether terminate_all is called

Pid == 1..MaxPid
InitPid == 1
Signal == {"STOP", "CONT", "TERM", "KILL"}
WaitFlag == {"WNOHANG", "WUNTRACED", "WCONTINUED"}

ASSUME ProcessAssumption ==
    /\ MaxPid \in Nat \ {0}
    /\ ParentsOf \in [Pid -> SUBSET (0..MaxPid)]
    /\ ExitVia \subseteq {"driver", "kernel"}
    /\ TtlExpires \in BOOLEAN
    /\ Stubborn \subseteq Pid /\ Mover \subseteq Pid
    /\ KillPids \subseteq (0 - MaxPid)..MaxPid
    /\ KillSignals \subseteq Signal
    /\ WaitPids \subseteq (0 - MaxPid)..MaxPid
    /\ WaitFlags \subseteq SUBSET WaitFlag
    /\ MaxEvents \in Nat
    /\ MayTerminate \in BOOLEAN

VARIABLES
    next_pid,
    life,           \* how far a pid has come: see Life
    status, ppid, pgid, sid, events,   \* ProcessEntry and pending_wait_events
    driver,         \* DriverProcess: "alive", or "done" once it has an exit code
    tail, hup,      \* work left to mark_exited_inner after its critical section
    deadlines,      \* pids in ZombieReaperState.deadlines
    reaper,         \* pid the reaper thread has taken, 0 for none
    terminating,    \* terminating_all
    kills,          \* the kill call of each Killer
    waits,          \* the wait call of each Waiter
    term            \* the terminate_all call

entryVars == <<status, ppid, pgid, sid, events>>
reaperVars == <<deadlines, reaper>>
vars == <<next_pid, life, status, ppid, pgid, sid, events, driver, tail, hup,
          deadlines, reaper, terminating, kills, waits, term>>

\* unused: not allocated yet; allocated, inherited: inside register; listed: in
\* entries; waited, reaped: removed, by a wait call or by the reaper.
Life == {"unused", "allocated", "inherited", "listed", "waited", "reaped"}
Event == {"Stopped", "Continued"}
TailStep == {"none", "schedule", "cancel", "hangup", "callback"}

NoKill == [sig |-> "none", todo |-> {}]
NoWait == [pc |-> "idle", kind |-> "waitpid", waiter |-> 0, arg |-> 0, flags |-> {}]
NoTerm == [pc |-> "idle", running |-> {}, survivors |-> {}, todo |-> {}, busy |-> 0]

WaitCall == [pc : {"idle", "ready", "blocked", "collected"}, kind : {"waitpid", "waitpid_for"},
             waiter : 0..MaxPid, arg : (0 - MaxPid)..MaxPid, flags : SUBSET WaitFlag]
TermCall == [pc : {"idle", "sigterm", "wait", "sigkill", "waitkill"},
             running : SUBSET Pid, survivors : SUBSET Pid, todo : SUBSET Pid, busy : 0..MaxPid]

\* Every variable has its declared shape; a pid is in the table only once allocated.
TypeOK ==
    /\ next_pid \in 1..(MaxPid + 1)
    /\ life \in [Pid -> Life]
    /\ status \in [Pid -> {"Running", "Stopped", "Exited"}]
    /\ ppid \in [Pid -> 0..MaxPid]
    /\ pgid \in [Pid -> 0..MaxPid]
    /\ sid \in [Pid -> 0..MaxPid]
    /\ events \in [Pid -> Seq(Event)]
    /\ driver \in [Pid -> {"alive", "done"}]
    /\ tail \in [Pid -> TailStep]
    /\ hup \in [Pid -> SUBSET Pid]
    /\ deadlines \in SUBSET Pid
    /\ reaper \in 0..MaxPid
    /\ terminating \in BOOLEAN
    /\ kills \in [Killer -> [sig : Signal \cup {"none"}, todo : SUBSET Pid]]
    /\ waits \in [Waiter -> WaitCall]
    /\ term \in TermCall
    /\ \A p \in Pid : p >= next_pid <=> life[p] = "unused"

Init ==
    /\ next_pid = 1
    /\ life = [p \in Pid |-> "unused"]
    /\ status = [p \in Pid |-> "Running"]
    /\ ppid = [p \in Pid |-> 0]
    /\ pgid = [p \in Pid |-> 0]
    /\ sid = [p \in Pid |-> 0]
    /\ events = [p \in Pid |-> << >>]
    /\ driver = [p \in Pid |-> "alive"]
    /\ tail = [p \in Pid |-> "none"]
    /\ hup = [p \in Pid |-> {}]
    /\ deadlines = {}
    /\ reaper = 0
    /\ terminating = FALSE
    /\ kills = [k \in Killer |-> NoKill]
    /\ waits = [w \in Waiter |-> NoWait]
    /\ term = NoTerm
--------------------------------------------------------------------------------
(* The table as its critical sections read it. *)

\* The next pid of a loop over the table: a BTreeMap iterates in key order.
IsFirst(p, S) == p \in S /\ \A q \in S : p <= q

Listed == {p \in Pid : life[p] = "listed"}
Alive == {p \in Listed : status[p] # "Exited"}
Zombie == {p \in Listed : status[p] = "Exited"}

HasLivingParent(p) == ppid[p] \in Alive

\* inner.waiters.notify_all()
WakeAll(ws) == [w \in Waiter |-> IF ws[w].pc = "blocked" THEN [ws[w] EXCEPT !.pc = "ready"]
                                                          ELSE ws[w]]

\* Mutant: notify_one, which may wake a thread that waits for something else.
NotifyOne ==
    LET asleep == {w \in Waiter : waits[w].pc = "blocked"} IN
    IF asleep = {} THEN UNCHANGED waits
    ELSE \E w \in asleep : waits' = [waits EXCEPT ![w].pc = "ready"]

NotifyAll == waits' = WakeAll(waits)

\* entries.remove(p); the record's driver goes with it.
Remove(p, how) ==
    /\ life' = [life EXCEPT ![p] = how]
    /\ ppid' = [ppid EXCEPT ![p] = 0]
    /\ pgid' = [pgid EXCEPT ![p] = 0]
    /\ sid' = [sid EXCEPT ![p] = 0]
    /\ events' = [events EXCEPT ![p] = << >>]
    /\ driver' = [driver EXCEPT ![p] = "done"]
    /\ UNCHANGED status

\* driver.kill(sig) for the signals that end the process
Finish(targets, sig) ==
    driver' = [p \in Pid |-> IF p \in targets /\ (p \notin Stubborn \/ sig = "KILL")
                             THEN "done" ELSE driver[p]]

--------------------------------------------------------------------------------
(* Registration. *)

\* Mutant: the pid is handed out and the counter not advanced.
AllocatePidRepeats(parent) ==
    /\ next_pid \in Pid
    /\ parent \in ParentsOf[next_pid] \cap (Listed \cup {0})
    /\ life' = [life EXCEPT ![next_pid] = "allocated"]
    /\ ppid' = [ppid EXCEPT ![next_pid] = parent]
    /\ UNCHANGED <<next_pid, status, pgid, sid, events, driver, tail, hup, reaperVars,
                   terminating, kills, waits, term>>

\* KernelVm::register_process takes a pid for a child of parent (0: none).
AllocatePid(parent) ==
    /\ next_pid \in Pid
    /\ parent \in ParentsOf[next_pid] \cap (Listed \cup {0})
    /\ next_pid' = next_pid + 1
    /\ life' = [life EXCEPT ![next_pid] = "allocated"]
    /\ ppid' = [ppid EXCEPT ![next_pid] = parent]
    /\ UNCHANGED <<status, pgid, sid, events, driver, tail, hup, reaperVars,
                   terminating, kills, waits, term>>

\* register, first critical section: the parent's group and session, or its own.
RegisterInherit(p) ==
    /\ life[p] = "allocated"
    /\ life' = [life EXCEPT ![p] = "inherited"]
    /\ IF ppid[p] \in Listed
       THEN /\ pgid' = [pgid EXCEPT ![p] = pgid[ppid[p]]]
            /\ sid' = [sid EXCEPT ![p] = sid[ppid[p]]]
       ELSE /\ pgid' = [pgid EXCEPT ![p] = p]
            /\ sid' = [sid EXCEPT ![p] = p]
    /\ UNCHANGED <<next_pid, status, ppid, events, driver, tail, hup, reaperVars,
                   terminating, kills, waits, term>>

\* register, second critical section.
RegisterInsert(p) ==
    /\ life[p] = "inherited"
    /\ life' = [life EXCEPT ![p] = "listed"]
    /\ UNCHANGED <<next_pid, entryVars, driver, tail, hup, reaperVars,
                   terminating, kills, waits, term>>

--------------------------------------------------------------------------------
(* Exit. *)

\* Mutant: children go to pid 1 whether or not it lives.
ReparentTargetAlways(p) == InitPid

ReparentTarget(p) == IF p # InitPid /\ InitPid \in Alive THEN InitPid ELSE 0

Children(p) == {q \in Listed : ppid[q] = p}

ReparentChildren(p) ==
    [q \in Pid |-> IF q \in Children(p) THEN ReparentTarget(p) ELSE ppid[q]]

\* The group tests take the table as it is once the exit is recorded: st and pp
\* are the status and ppid columns.
Members(g, st) == {q \in Listed : pgid[q] = g /\ st[q] # "Exited"}

HasParentOutsideGroup(q, st, pp) ==
    /\ pp[q] \notin {0, InitPid}
    /\ pp[q] \in Listed
    /\ st[pp[q]] # "Exited"
    /\ sid[pp[q]] = sid[q]
    /\ pgid[pp[q]] # pgid[q]

IsOrphaned(g, st, pp) ==
    /\ Members(g, st) # {}
    /\ \A q \in Members(g, st) : ~HasParentOutsideGroup(q, st, pp)

HasStopped(g, st) == \E q \in Members(g, st) : st[q] = "Stopped"

OrphanTargets(groups, st, pp) ==
    {q \in Listed : /\ st[q] # "Exited"
                    /\ pgid[q] \in groups
                    /\ IsOrphaned(pgid[q], st, pp)
                    /\ HasStopped(pgid[q], st)}

\* Mutant: the exiting process's own group is not looked at.
AffectedGroupsOfChildren(p) == {pgid[q] : q \in Children(p)}

AffectedGroups(p) == {pgid[p]} \cup {pgid[q] : q \in Children(p)}

\* The critical section of mark_exited_inner; the rest of it is left to tail[p].
MarkExited(p) ==
    /\ p \in Alive
    /\ status' = [status EXCEPT ![p] = "Exited"]
    /\ ppid' = ReparentChildren(p)
    /\ hup' = [hup EXCEPT ![p] = OrphanTargets(AffectedGroups(p), status', ppid')]
    /\ tail' = [tail EXCEPT ![p] = IF terminating THEN "cancel" ELSE "schedule"]

\* The driver's process ends by itself.
DriverExit(p) ==
    /\ "driver" \in ExitVia
    /\ p \in Listed
    /\ driver[p] = "alive"
    /\ driver' = [driver EXCEPT ![p] = "done"]
    /\ UNCHANGED <<next_pid, life, entryVars, tail, hup, reaperVars,
                   terminating, kills, waits, term>>

\* The on_exit callback that register installed.
OnExit(p) ==
    /\ driver[p] = "done"
    /\ MarkExited(p)
    /\ UNCHANGED <<next_pid, life, pgid, sid, events, driver, reaperVars,
                   terminating, kills, waits, term>>

\* KernelVm::exit_process marks the entry and leaves the driver alone.
ExitProcess(p) ==
    /\ "kernel" \in ExitVia
    /\ driver[p] = "alive"
    /\ MarkExited(p)
    /\ UNCHANGED <<next_pid, life, pgid, sid, events, driver, reaperVars,
                   terminating, kills, waits, term>>

\* reaper.schedule or reaper.cancel, under the reaper's own lock.
TailReaper(p) ==
    /\ tail[p] \in {"schedule", "cancel"}
    /\ deadlines' = IF tail[p] = "schedule" THEN deadlines \cup {p} ELSE deadlines \ {p}
    /\ tail' = [tail EXCEPT ![p] = IF hup[p] = {} THEN "callback" ELSE "hangup"]
    /\ UNCHANGED <<next_pid, life, entryVars, driver, hup, reaper,
                   terminating, kills, waits, term>>

\* SIGHUP to every member of the groups this exit orphaned; the SIGCONT that follows
\* goes to the drivers too and changes no entry.
TailHangup(p) ==
    /\ tail[p] = "hangup"
    /\ Finish(hup[p], "HUP")
    /\ hup' = [hup EXCEPT ![p] = {}]
    /\ tail' = [tail EXCEPT ![p] = "callback"]
    /\ UNCHANGED <<next_pid, life, entryVars, reaperVars, terminating, kills, waits, term>>

\* Mutant: no notify_all after the callback.
TailCallbackSilent(p) ==
    /\ tail[p] = "callback"
    /\ tail' = [tail EXCEPT ![p] = "none"]
    /\ UNCHANGED <<next_pid, life, entryVars, driver, hup, reaperVars,
                   terminating, kills, waits, term>>

\* on_process_exit, which closes the process's descriptors and sockets; notify_all.
TailCallback(p) ==
    /\ tail[p] = "callback"
    /\ tail' = [tail EXCEPT ![p] = "none"]
    /\ NotifyAll
    /\ UNCHANGED <<next_pid, life, entryVars, driver, hup, reaperVars,
                   terminating, kills, term>>

--------------------------------------------------------------------------------
(* Signals, process groups and sessions. *)

\* Mutant: the event is queued and nobody is notified.
MarkWaitEventSilently(p, next, event) ==
    /\ UNCHANGED waits
    /\ IF p \in Alive /\ status[p] # next
       THEN /\ status' = [status EXCEPT ![p] = next]
            /\ events' = [events EXCEPT ![p] = Append(@, event)]
       ELSE UNCHANGED <<status, events>>

\* mark_stopped and mark_continued: mark_wait_event_inner.
MarkWaitEvent(p, next, event) ==
    IF p \in Alive /\ status[p] # next
    THEN /\ status' = [status EXCEPT ![p] = next]
         /\ events' = [events EXCEPT ![p] = Append(@, event)]
         /\ NotifyAll
    ELSE UNCHANGED <<status, events, waits>>

\* kill reads its targets, and which of them to mark, in one critical section.  A
\* STOP or CONT does nothing to the driver, so only the marks are left to do.
KillTargets(targets, sig) ==
    CASE sig = "STOP" -> {p \in targets : status[p] = "Running"}
      [] sig = "CONT" -> {p \in targets : status[p] = "Stopped"}
      [] OTHER        -> targets

Kill(k, arg, sig) ==
    LET targets == IF arg < 0 THEN {p \in Listed : pgid[p] = 0 - arg} ELSE {p \in Alive : p = arg}
    IN  /\ kills[k] = NoKill
        /\ targets # {}
        /\ \A p \in targets : Len(events[p]) < MaxEvents
        /\ kills' = [kills EXCEPT ![k] = [sig |-> sig, todo |-> KillTargets(targets, sig)]]
        /\ UNCHANGED <<next_pid, life, entryVars, driver, tail, hup, reaperVars,
                       terminating, waits, term>>

\* One target of the loops that follow, in the table's order: the driver, or the mark.
KillNext(k) ==
    \E p \in Pid :
        /\ IsFirst(p, kills[k].todo)
        /\ kills' = [kills EXCEPT ![k].todo = @ \ {p}]
        /\ CASE kills[k].sig = "STOP" -> MarkWaitEvent(p, "Stopped", "Stopped") /\ UNCHANGED driver
             [] kills[k].sig = "CONT" -> MarkWaitEvent(p, "Running", "Continued") /\ UNCHANGED driver
             [] OTHER -> Finish({p}, kills[k].sig) /\ UNCHANGED <<status, events, waits>>
        /\ UNCHANGED <<next_pid, life, ppid, pgid, sid, tail, hup, reaperVars, terminating, term>>

KillReturn(k) ==
    /\ kills[k] # NoKill /\ kills[k].todo = {}
    /\ kills' = [kills EXCEPT ![k] = NoKill]
    /\ UNCHANGED <<next_pid, life, entryVars, driver, tail, hup, reaperVars,
                   terminating, waits, term>>

\* setpgid(p, g); g = 0 asks for a group of its own.  The first live member of the
\* group, in pid order, decides whether the group is in the session of p.
MayJoin(p, g) ==
    \/ g = p
    \/ \E q \in Pid : IsFirst(q, Members(g, status)) /\ sid[q] = sid[p]

SetPgid(p, g) ==
    /\ p \in Listed \cap Mover
    /\ MayJoin(p, IF g = 0 THEN p ELSE g)
    /\ pgid' = [pgid EXCEPT ![p] = IF g = 0 THEN p ELSE g]
    /\ UNCHANGED <<next_pid, life, status, ppid, sid, events, driver, tail, hup,
                   reaperVars, terminating, kills, waits, term>>

SetSid(p) ==
    /\ p \in Listed \cap Mover
    /\ pgid[p] # p
    /\ sid' = [sid EXCEPT ![p] = p]
    /\ pgid' = [pgid EXCEPT ![p] = p]
    /\ UNCHANGED <<next_pid, life, status, ppid, events, driver, tail, hup,
                   reaperVars, terminating, kills, waits, term>>

--------------------------------------------------------------------------------
(* waitpid and waitpid_for. *)

WaitpidCall(w, p) ==
    /\ waits[w].pc = "idle"
    /\ p \in Listed
    /\ waits' = [waits EXCEPT ![w] = [NoWait EXCEPT !.pc = "ready", !.arg = p]]
    /\ UNCHANGED <<next_pid, life, entryVars, driver, tail, hup, reaperVars,
                   terminating, kills, term>>

WaitpidForCall(w, waiter, arg, flags) ==
    /\ waits[w].pc = "idle"
    /\ waiter \in Listed
    /\ waits' = [waits EXCEPT ![w] = [pc |-> "ready", kind |-> "waitpid_for",
                                      waiter |-> waiter, arg |-> arg, flags |-> flags]]
    /\ UNCHANGED <<next_pid, life, entryVars, driver, tail, hup, reaperVars,
                   terminating, kills, term>>

\* resolve_wait_selector and matching_child_pids
Selected(c, q) ==
    \/ c.arg = -1
    \/ c.arg = 0 /\ pgid[q] = pgid[c.waiter]
    \/ c.arg < -1 /\ pgid[q] = 0 - c.arg
    \/ q = c.arg

Matching(c) ==
    IF c.kind = "waitpid" THEN {q \in Listed : q = c.arg}
    ELSE IF c.waiter \in Listed THEN {q \in Listed : ppid[q] = c.waiter /\ Selected(c, q)}
    ELSE {}

IsWaitable(event, flags) ==
    \/ event = "Stopped" /\ "WUNTRACED" \in flags
    \/ event = "Continued" /\ "WCONTINUED" \in flags

FirstEvent(q, flags, i) ==
    /\ i \in DOMAIN events[q]
    /\ IsWaitable(events[q][i], flags)
    /\ \A j \in 1..(i - 1) : ~IsWaitable(events[q][j], flags)

HasEvent(q, flags) == \E i \in DOMAIN events[q] : IsWaitable(events[q][i], flags)

\* Mutant: whatever is not running is taken for exited.
ReportableWhenStopped(q, flags) == HasEvent(q, flags) \/ status[q] # "Running"

Reportable(q, flags) == HasEvent(q, flags) \/ status[q] = "Exited"

\* take_waitable_event looks at the children in pid order.
FirstReportable(c, q) ==
    /\ q \in Matching(c) /\ Reportable(q, c.flags)
    /\ \A r \in Matching(c) : Reportable(r, c.flags) => q <= r

\* ESRCH or ECHILD
WaitFails(w) ==
    /\ waits[w].pc = "ready"
    /\ Matching(waits[w]) = {}
    /\ waits' = [waits EXCEPT ![w] = NoWait]
    /\ UNCHANGED <<next_pid, life, entryVars, driver, tail, hup, reaperVars,
                   terminating, kills, term>>

WaitTakesEvent(w) ==
    /\ waits[w].pc = "ready"
    /\ \E q \in Pid : \E i \in DOMAIN events[q] :
         /\ FirstReportable(waits[w], q)
         /\ FirstEvent(q, waits[w].flags, i)
         /\ events' = [events EXCEPT ![q] = SubSeq(@, 1, i - 1) \o SubSeq(@, i + 1, Len(@))]
    /\ waits' = [waits EXCEPT ![w] = NoWait]
    /\ UNCHANGED <<next_pid, life, status, ppid, pgid, sid, driver, tail, hup, reaperVars,
                   terminating, kills, term>>

\* The zombie leaves the table; cancelling its deadline comes after the unlock.
WaitReaps(w) ==
    /\ waits[w].pc = "ready"
    /\ \E q \in Pid :
         /\ FirstReportable(waits[w], q)
         /\ ~HasEvent(q, waits[w].flags)
         /\ Remove(q, "waited")
         /\ waits' = [waits EXCEPT ![w] = [NoWait EXCEPT !.pc = "collected", !.arg = q]]
    /\ UNCHANGED <<next_pid, tail, hup, reaperVars, terminating, kills, term>>

WaitReturns(w) ==
    /\ waits[w].pc = "collected"
    /\ deadlines' = deadlines \ {waits[w].arg}
    /\ waits' = [WakeAll(waits) EXCEPT ![w] = NoWait]
    /\ UNCHANGED <<next_pid, life, entryVars, driver, tail, hup, reaper,
                   terminating, kills, term>>

NothingToReport(c) ==
    Matching(c) # {} /\ \A q \in Matching(c) : ~Reportable(q, c.flags)

WaitNoHang(w) ==
    /\ waits[w].pc = "ready"
    /\ NothingToReport(waits[w])
    /\ "WNOHANG" \in waits[w].flags
    /\ waits' = [waits EXCEPT ![w] = NoWait]
    /\ UNCHANGED <<next_pid, life, entryVars, driver, tail, hup, reaperVars,
                   terminating, kills, term>>

WaitBlocks(w) ==
    /\ waits[w].pc = "ready"
    /\ NothingToReport(waits[w])
    /\ "WNOHANG" \notin waits[w].flags
    /\ waits' = [waits EXCEPT ![w].pc = "blocked"]
    /\ UNCHANGED <<next_pid, life, entryVars, driver, tail, hup, reaperVars,
                   terminating, kills, term>>

--------------------------------------------------------------------------------
(* The reaper thread. *)

\* take_next_due_pid: which deadline is due first depends on the clock.
ReaperTake(p) ==
    /\ TtlExpires
    /\ reaper = 0
    /\ p \in deadlines
    /\ reaper' = p
    /\ deadlines' = deadlines \ {p}
    /\ UNCHANGED <<next_pid, life, entryVars, driver, tail, hup,
                   terminating, kills, waits, term>>

\* The body of start_zombie_reaper's loop.
ReaperReaps ==
    /\ reaper \in Zombie
    /\ ~HasLivingParent(reaper)
    /\ Remove(reaper, "reaped")
    /\ reaper' = 0
    /\ NotifyAll
    /\ UNCHANGED <<next_pid, tail, hup, deadlines, terminating, kills, term>>

\* Mutant: a zombie whose parent lives is not scheduled again.
ReaperKeepsNothing ==
    /\ reaper # 0
    /\ reaper \notin Zombie \/ HasLivingParent(reaper)
    /\ reaper' = 0
    /\ NotifyAll
    /\ UNCHANGED <<next_pid, life, entryVars, driver, tail, hup, deadlines, terminating, kills, term>>

ReaperKeeps ==
    /\ reaper # 0
    /\ reaper \notin Zombie \/ HasLivingParent(reaper)
    /\ deadlines' = IF reaper \in Zombie THEN deadlines \cup {reaper} ELSE deadlines
    /\ reaper' = 0
    /\ NotifyAll
    /\ UNCHANGED <<next_pid, life, entryVars, driver, tail, hup, terminating, kills, term>>

--------------------------------------------------------------------------------
(* terminate_all. *)

TerminateStart ==
    /\ MayTerminate
    /\ term.pc = "idle"
    /\ terminating' = TRUE
    /\ deadlines' = {}
    /\ LET running == {p \in Listed : status[p] = "Running"}
       IN term' = [NoTerm EXCEPT !.pc = "sigterm", !.running = running, !.todo = running]
    /\ UNCHANGED <<next_pid, life, entryVars, driver, tail, hup, reaper, kills, waits>>

\* One driver of the SIGTERM or of the SIGKILL loop.
TerminateSignal(p) ==
    /\ term.pc \in {"sigterm", "sigkill"}
    /\ IsFirst(p, term.todo)
    /\ Finish({p}, IF term.pc = "sigterm" THEN "TERM" ELSE "KILL")
    /\ term' = [term EXCEPT !.todo = @ \ {p}]
    /\ UNCHANGED <<next_pid, life, entryVars, tail, hup, reaperVars, terminating, kills, waits>>

TerminateSignalled ==
    /\ term.pc \in {"sigterm", "sigkill"}
    /\ term.todo = {}
    /\ term' = [term EXCEPT !.pc = IF term.pc = "sigterm" THEN "wait" ELSE "waitkill",
                            !.todo = IF term.pc = "sigterm" THEN term.running ELSE term.survivors]
    /\ UNCHANGED <<next_pid, life, entryVars, driver, tail, hup, reaperVars,
                   terminating, kills, waits>>

\* The thread is inside mark_exited_inner for busy until its tail is done.
TerminateFree == term.busy # 0 => tail[term.busy] = "none"

\* driver.wait returns an exit code, and mark_exited follows.
TerminateMarks(p) ==
    /\ term.pc \in {"wait", "waitkill"} /\ TerminateFree
    /\ IsFirst(p, term.todo)
    /\ driver[p] = "done"
    /\ IF p \in Alive
       THEN MarkExited(p) /\ term' = [term EXCEPT !.todo = @ \ {p}, !.busy = p]
       ELSE UNCHANGED <<status, ppid, hup, tail>> /\ term' = [term EXCEPT !.todo = @ \ {p}, !.busy = 0]
    /\ UNCHANGED <<next_pid, life, pgid, sid, events, driver, reaperVars,
                   terminating, kills, waits>>

\* driver.wait times out.
TerminateTimeout(p) ==
    /\ term.pc \in {"wait", "waitkill"} /\ TerminateFree
    /\ IsFirst(p, term.todo)
    /\ driver[p] = "alive"
    /\ term' = [term EXCEPT !.todo = @ \ {p}, !.busy = 0]
    /\ UNCHANGED <<next_pid, life, entryVars, driver, tail, hup, reaperVars,
                   terminating, kills, waits>>

TerminateSurvivors ==
    /\ term.pc = "wait" /\ term.todo = {} /\ TerminateFree
    /\ LET survivors == {p \in term.running \cap Listed : status[p] = "Running"}
       IN term' = [term EXCEPT !.pc = "sigkill", !.survivors = survivors, !.todo = survivors,
                               !.busy = 0]
    /\ UNCHANGED <<next_pid, life, entryVars, driver, tail, hup, reaperVars,
                   terminating, kills, waits>>

\* Mutant: the survivors are not waited for.
TerminateEndEarly ==
    /\ term.pc = "waitkill"
    /\ terminating' = FALSE
    /\ term' = NoTerm
    /\ UNCHANGED <<next_pid, life, entryVars, driver, tail, hup, reaperVars, kills, waits>>

TerminateEnd ==
    /\ term.pc = "waitkill" /\ term.todo = {} /\ TerminateFree
    /\ terminating' = FALSE
    /\ term' = NoTerm
    /\ UNCHANGED <<next_pid, life, entryVars, driver, tail, hup, reaperVars, kills, waits>>

--------------------------------------------------------------------------------
RegisterNext == \/ \E parent \in 0..MaxPid : AllocatePid(parent)
                \/ \E p \in Pid : RegisterInherit(p) \/ RegisterInsert(p)

ExitNext(p) == OnExit(p) \/ TailReaper(p) \/ TailHangup(p) \/ TailCallback(p)

SignalNext ==
    \/ \E k \in Killer, sig \in KillSignals, arg \in KillPids : Kill(k, arg, sig)
    \/ \E p \in Pid, g \in 0..MaxPid : SetPgid(p, g)
    \/ \E p \in Pid : SetSid(p)

KillerNext(k) == KillNext(k) \/ KillReturn(k)

WaitNext ==
    \E w \in Waiter, p \in Pid :
        \/ WaitpidCall(w, p)
        \/ \E arg \in WaitPids, flags \in WaitFlags : WaitpidForCall(w, p, arg, flags)

WaiterNext(w) == \/ WaitFails(w) \/ WaitTakesEvent(w) \/ WaitReaps(w) \/ WaitReturns(w)
                 \/ WaitNoHang(w) \/ WaitBlocks(w)

ReaperNext == ReaperReaps \/ ReaperKeeps

TerminateNext == \/ TerminateSignalled \/ TerminateSurvivors \/ TerminateEnd
                 \/ \E p \in Pid : TerminateSignal(p) \/ TerminateMarks(p) \/ TerminateTimeout(p)

Next ==
    \/ RegisterNext
    \/ \E p \in Pid : DriverExit(p) \/ ExitProcess(p) \/ ExitNext(p)
    \/ SignalNext
    \/ \E k \in Killer : KillerNext(k)
    \/ WaitNext
    \/ \E w \in Waiter : WaiterNext(w)
    \/ \E p \in Pid : ReaperTake(p)
    \/ ReaperNext
    \/ TerminateStart
    \/ TerminateNext

Spec == Init /\ [][Next]_vars

\* The driver's callback, the threads that left a critical section and the condition
\* variables make progress; nobody has to spawn, exit, signal or wait.  The reaper serves
\* the earliest deadline and puts a pid it keeps back at now + zombie_ttl, so no due pid
\* is passed over for ever: strong fairness for each.
Fairness ==
    /\ \A p \in Pid : WF_vars(ExitNext(p)) /\ SF_vars(ReaperTake(p))
    /\ WF_vars(ReaperNext)
    /\ \A w \in Waiter : WF_vars(WaiterNext(w))

FairSpec == Spec /\ Fairness

--------------------------------------------------------------------------------
(* Properties. *)

\* No zombie is forgotten: while nobody calls terminate_all, every exited process still in
\* the table has a reaper deadline, is about to get one from mark_exited_inner, or is in
\* the hands of the reaper thread, whatever waitpid cancels in between.
ZombieAccounted ==
    MayTerminate \/ \A p \in Zombie : p \in deadlines \/ tail[p] = "schedule" \/ reaper = p

\* Some thread is still going to call notify_all.
NotifyPending == (\E p \in Pid : tail[p] # "none") \/ (\E w \in Waiter : waits[w].pc = "collected")

\* setpgid and setsid notify nobody: a wait on a process group is covered only when groups
\* never change.
SelectsGroup(c) == c.kind = "waitpid_for" /\ c.arg # -1 /\ c.arg <= 0

\* No lost wakeup: a thread asleep in waitpid or waitpid_for that has something to return,
\* a child to report or an error, is about to be notified.
WaiterNotStranded ==
    \A w \in Waiter :
        /\ waits[w].pc = "blocked"
        /\ ~NothingToReport(waits[w])
        /\ Mover = {} \/ ~SelectsGroup(waits[w])
        => NotifyPending

\* An exit never leaves a registered child behind with a dead parent: a process whose
\* parent lives keeps a live parent, pid 1 included, or is marked parentless (0).
ChildrenAdopted ==
    [][\A q \in Listed :
          HasLivingParent(q) /\ life'[q] = "listed"
          => ppid'[q] = 0 \/ (life'[ppid'[q]] = "listed" /\ status'[ppid'[q]] # "Exited")]_vars

\* When an exit orphans a process group that has a stopped member, the exiting thread owes
\* SIGHUP to every live member, whichever of the group's processes or parents exited.
OrphanedGroupHungUp ==
    [][\A p \in Alive, g \in Pid :
          /\ status'[p] = "Exited"
          /\ ~IsOrphaned(g, status, ppid) /\ IsOrphaned(g, status', ppid')
          /\ HasStopped(g, status')
          => Members(g, status') \subseteq hup'[p]]_vars

\* terminate_all returns only when every process it found running is dead, except a driver
\* that ignored SIGTERM and was not Running at the second look (a stop came in between).
TerminateKills ==
    [][term.pc = "waitkill" /\ term'.pc = "idle"
       => \A p \in term.running : p \in Alive => p \in Stubborn \ term.survivors]_vars

\* A zombie without a living parent leaves the table, by a wait or by the reaper, however
\* often the reaper has put it back while the parent lived.
ZombieCollected ==
    \A p \in Pid : (p \in Zombie /\ ~HasLivingParent(p)) ~> (p \notin Listed)

\* waitpid(p) returns once p has exited or is gone.
WaitpidReturns ==
    \A w \in Waiter, p \in Pid :
        (waits[w].pc # "idle" /\ waits[w].kind = "waitpid" /\ waits[w].arg = p /\ p \notin Alive)
        ~> (waits[w].pc = "idle")

\* The life of a process as ProcessLifecycle sees it.
LifecycleState(p) ==
    CASE life[p] \in {"unused", "allocated", "inherited"} -> "unborn"
      [] life[p] = "listed" /\ status[p] = "Running" -> "running"
      [] life[p] = "listed" /\ status[p] = "Stopped" -> "stopped"
      [] life[p] = "listed" /\ status[p] = "Exited" -> "zombie"
      [] OTHER -> "collected"

Lifecycle == INSTANCE ProcessLifecycle WITH
                Proc <- Pid, state <- [p \in Pid |-> LifecycleState(p)]

\* The table implements the abstract life cycle: a process exits once and is collected
\* once, by one waiter or by the reaper, although exit, kill, waitpid, the reaper and
\* terminate_all all race for the same entry.
ImplementsLifecycle == Lifecycle!Spec

--------------------------------------------------------------------------------
(* What the repository says of the table and the code does not keep. *)

\* Every process in the table has a live parent or none: children of an exiting process
\* are handed to pid 1.  register reads the parent and inserts the child in two critical
\* sections, and mark_exited_inner only reparents entries that are already inserted.
NoDeadParent == \A p \in Listed : ppid[p] = 0 \/ ppid[p] \in Alive

\* dispose() tears down all processes: every process alive when terminate_all starts is one
\* it signals and waits for.  The code takes the Running ones and leaves the stopped ones be.
TerminateSparesNone ==
    [][term.pc = "idle" /\ term'.pc # "idle" => Alive \subseteq term'.running]_vars
================================================================================
