---------------------------------- MODULE Pipe ----------------------------------
(***************************************************************************)
(* One pipe of PipeManager (crates/kernel/src/pipe_manager.rs): its chunk  *)
(* buffer, the queue of waiting readers that writers hand data to, blocking *)
(* and timed reads, blocking and non-blocking writes, the close of either  *)
(* end, and pollers of both ends (poll_targets in kernel.rs over the       *)
(* PollNotifier of poll.rs).                                               *)
(*                                                                         *)
(* An action is one turn of a read or write loop under the manager's mutex *)
(* or one step of a poll loop.  All pipes share the condition variable; a  *)
(* wake-up caused by another pipe only repeats a turn that blocks again.   *)
(* The bytes of a pipe are numbered in the order write accepts them.       *)
(***************************************************************************)
EXTENDS Naturals, Sequences, FiniteSets

CONSTANTS
    Reader, Writer, Poller,     \* threads inside read, write and poll
    Capacity,                   \* MAX_PIPE_BUFFER_BYTES
    PipeBuf,                    \* PIPE_BUF_BYTES
    ReadLengths, WriteLengths,  \* the lengths they pass
    MaxBytes,                   \* bound on the bytes accepted when a write starts
    MaxChunks                   \* bound on the chunks stored when a write starts

ASSUME PipeAssumption ==
    /\ Capacity \in Nat /\ PipeBuf \in Nat /\ PipeBuf <= Capacity
    /\ ReadLengths \subseteq Nat /\ WriteLengths \subseteq Nat
    /\ MaxBytes \in Nat /\ MaxChunks \in Nat

VARIABLES
    buffer,                     \* chunks of byte numbers
    closed_read, closed_write,
    waiting_reads,              \* readers in the order they will be served
    waiters,                    \* PendingRead of each reader: see Pending
    rd, wr, pl,                 \* the calls of the threads
    written, taken              \* bytes accepted; bytes handed out (history)

pipe == <<buffer, closed_read, closed_write, waiting_reads, waiters>>
vars == <<buffer, closed_read, closed_write, waiting_reads, waiters, rd, wr, pl, written, taken>>

\* none: not registered; waiting: result is None; data, eof: Some(Some(_)), Some(None)
Pending == {"none", "waiting", "data", "eof"}

\* called: about to look the description up; ready: has the mutex next; expired: its wait
\* timed out and it has yet to get the mutex back.  open: the polled descriptor is in the table.
NoRead == [pc |-> "idle", len |-> 0, timed |-> FALSE]
NoWrite == [pc |-> "idle", len |-> 0, nonblocking |-> FALSE]
NoPoll == [pc |-> "idle", end |-> "read", open |-> FALSE, changed |-> FALSE]

ReadCall == [pc : {"idle", "called", "ready", "blocked", "expired"}, len : Nat, timed : BOOLEAN]
WriteCall == [pc : {"idle", "called", "ready", "blocked"}, len : Nat, nonblocking : BOOLEAN]
PollCall == [pc : {"idle", "snapshot", "check", "checked", "sleep"}, end : {"read", "write"},
             open : BOOLEAN, changed : BOOLEAN]

\* Every variable has its declared shape.
TypeOK ==
    /\ buffer \in Seq(Seq(Nat))
    /\ closed_read \in BOOLEAN /\ closed_write \in BOOLEAN
    /\ waiting_reads \in Seq(Reader)
    /\ waiters \in [Reader -> Pending]
    /\ rd \in [Reader -> ReadCall]
    /\ wr \in [Writer -> WriteCall]
    /\ pl \in [Poller -> PollCall]
    /\ written \in Nat /\ taken \in Nat

Init ==
    /\ buffer = << >>
    /\ closed_read = FALSE /\ closed_write = FALSE
    /\ waiting_reads = << >>
    /\ waiters = [r \in Reader |-> "none"]
    /\ rd = [r \in Reader |-> NoRead]
    /\ wr = [w \in Writer |-> NoWrite]
    /\ pl = [p \in Poller |-> NoPoll]
    /\ written = 0 /\ taken = 0

--------------------------------------------------------------------------------
(* The buffer. *)

Least(m, n) == IF m <= n THEN m ELSE n

\* The bytes of a chunk sequence.
Contents(b) ==
    LET upto[i \in 0..Len(b)] == IF i = 0 THEN << >> ELSE upto[i - 1] \o b[i]
    IN  upto[Len(b)]

Size(b) == Len(Contents(b))

Available == Capacity - Size(buffer)

\* drain_buffer pops chunks while bytes are still wanted and puts back what is left of
\* the last one.
Popped(b, n) == Cardinality({i \in DOMAIN b : Size(SubSeq(b, 1, i - 1)) < n})

\* Mutant: what is left of the last chunk is not put back.
DrainedNoPutBack(b, n) == SubSeq(b, Popped(b, n) + 1, Len(b))

Drained(b, n) ==
    LET k == Popped(b, n)
        over == Size(SubSeq(b, 1, k))
        rest == SubSeq(b, k + 1, Len(b))
    IN  IF over > n THEN <<SubSeq(b[k], Len(b[k]) - (over - n) + 1, Len(b[k]))>> \o rest ELSE rest

--------------------------------------------------------------------------------
(* notify_waiters_and_pollers, called with the mutex held.  c is what becomes of the *)
(* calls otherwise.                                                                  *)

Wake(c) == [t \in DOMAIN c |-> IF c[t].pc = "blocked" THEN [c[t] EXCEPT !.pc = "ready"] ELSE c[t]]

\* Mutant: sleepers are woken, the generation stays.
NotifySleepers == pl' = [p \in Poller |-> [pl[p] EXCEPT !.changed = @ \/ pl[p].pc = "sleep"]]

\* notifier.notify: the generation differs from every snapshot taken so far.
NotifyPollers == pl' = [p \in Poller |-> [pl[p] EXCEPT !.changed = pl[p].pc # "idle"]]

Notify(readers, writers) ==
    /\ rd' = Wake(readers)
    /\ wr' = Wake(writers)
    /\ NotifyPollers

--------------------------------------------------------------------------------
(* read_with_timeout. *)

\* KernelVm::fd_read finds the description and asks is_pipe.
ReadStart(r, n, timed) ==
    /\ rd[r].pc = "idle"
    /\ ~closed_read
    /\ rd' = [rd EXCEPT ![r] = [pc |-> "called", len |-> n, timed |-> timed]]
    /\ UNCHANGED <<pipe, wr, pl, written, taken>>

\* The description was closed before read_with_timeout looked it up: EBADF.
ReadRefused(r) ==
    /\ rd[r].pc = "called" /\ closed_read
    /\ rd' = [rd EXCEPT ![r] = NoRead]
    /\ UNCHANGED <<pipe, wr, pl, written, taken>>

ReadTurn(r) == rd[r].pc \in {"called", "ready"} /\ (rd[r].pc = "called" => ~closed_read)

ReadTakes(r) ==
    /\ ReadTurn(r)
    /\ waiters[r] \in {"data", "eof"}
    /\ waiters' = [waiters EXCEPT ![r] = "none"]
    /\ rd' = [rd EXCEPT ![r] = NoRead]
    /\ UNCHANGED <<buffer, closed_read, closed_write, waiting_reads, wr, pl, written, taken>>

\* Mutant: nobody is told of the room.
ReadDrainsSilently(r) ==
    /\ ReadTurn(r)
    /\ waiters[r] \notin {"data", "eof"}
    /\ buffer # << >>
    /\ buffer' = Drained(buffer, rd[r].len)
    /\ taken' = taken + Least(rd[r].len, Size(buffer))
    /\ rd' = [rd EXCEPT ![r] = NoRead]
    /\ UNCHANGED <<closed_read, closed_write, waiting_reads, waiters, wr, pl, written>>

\* Returns without touching the reader's registration.
ReadDrains(r) ==
    /\ ReadTurn(r)
    /\ waiters[r] \notin {"data", "eof"}
    /\ buffer # << >>
    /\ buffer' = Drained(buffer, rd[r].len)
    /\ taken' = taken + Least(rd[r].len, Size(buffer))
    /\ Notify([rd EXCEPT ![r] = NoRead], wr)
    /\ UNCHANGED <<closed_read, closed_write, waiting_reads, waiters, written>>

ReadEof(r) ==
    /\ ReadTurn(r)
    /\ waiters[r] \notin {"data", "eof"}
    /\ buffer = << >> /\ closed_write
    /\ waiters' = [waiters EXCEPT ![r] = "none"]
    /\ rd' = [rd EXCEPT ![r] = NoRead]
    /\ UNCHANGED <<buffer, closed_read, closed_write, waiting_reads, wr, pl, written, taken>>

NothingToRead(r) ==
    waiters[r] \notin {"data", "eof"} /\ buffer = << >> /\ ~closed_write

\* Registers once, which a blocked writer has to hear of.
ReadWaits(r) ==
    /\ ReadTurn(r)
    /\ NothingToRead(r)
    /\ IF waiters[r] = "none"
       THEN /\ waiters' = [waiters EXCEPT ![r] = "waiting"]
            /\ waiting_reads' = Append(waiting_reads, r)
            /\ rd' = [Wake(rd) EXCEPT ![r].pc = "blocked"]
            /\ wr' = Wake(wr)
            /\ NotifyPollers
       ELSE /\ rd' = [rd EXCEPT ![r].pc = "blocked"]
            /\ UNCHANGED <<waiters, waiting_reads, wr, pl>>
    /\ UNCHANGED <<buffer, closed_read, closed_write, written, taken>>

\* Mutant: the id stays in the queue.
WithoutNothing(q, r) == q

\* waiting_reads.retain(|queued| *queued != id): an id is queued at most once.
Without(q, r) ==
    IF \E i \in DOMAIN q : q[i] = r
    THEN LET i == CHOOSE i \in DOMAIN q : q[i] = r IN SubSeq(q, 1, i - 1) \o SubSeq(q, i + 1, Len(q))
    ELSE q

\* EAGAIN: the registration goes, and with it a result it may hold.
Deregister(r) ==
    /\ waiters' = [waiters EXCEPT ![r] = "none"]
    /\ waiting_reads' = Without(waiting_reads, r)
    /\ Notify([rd EXCEPT ![r] = NoRead], wr)
    /\ UNCHANGED <<buffer, closed_read, closed_write, written, taken>>

\* The deadline has passed when the loop comes round, a zero timeout at once.
ReadGivesUp(r) == ReadTurn(r) /\ NothingToRead(r) /\ rd[r].timed /\ Deregister(r)

\* The timed wait runs out; the mutex has to be taken back first.
ReadExpires(r) ==
    /\ rd[r].pc = "blocked" /\ rd[r].timed
    /\ rd' = [rd EXCEPT ![r].pc = "expired"]
    /\ UNCHANGED <<pipe, wr, pl, written, taken>>

ReadTimesOut(r) == rd[r].pc = "expired" /\ Deregister(r)

--------------------------------------------------------------------------------
(* write_with_mode. *)

WriteStart(w, n, nonblocking) ==
    /\ wr[w].pc = "idle"
    /\ ~closed_write
    /\ written + n <= MaxBytes /\ Len(buffer) < MaxChunks
    /\ wr' = [wr EXCEPT ![w] = [pc |-> "called", len |-> n, nonblocking |-> nonblocking]]
    /\ UNCHANGED <<pipe, rd, pl, written, taken>>

\* EBADF, or EPIPE, for which KernelVm::fd_write also sends SIGPIPE.
WriteFails(w) ==
    /\ wr[w].pc \in {"called", "ready"}
    /\ closed_read \/ closed_write
    /\ wr' = [wr EXCEPT ![w] = NoWrite]
    /\ UNCHANGED <<pipe, rd, pl, written, taken>>

WriteTurn(w) == wr[w].pc \in {"called", "ready"} /\ ~closed_read /\ ~closed_write

Bytes(n) == [i \in 1..n |-> written + i]

\* The longest waiting reader gets the whole payload, whatever length it asked for.  It is
\* registered (see ReadersAccounted), so the loop never skips a stale id.
WriteHandsOver(w) ==
    /\ WriteTurn(w)
    /\ waiting_reads # << >>
    /\ waiters' = [waiters EXCEPT ![Head(waiting_reads)] = "data"]
    /\ waiting_reads' = Tail(waiting_reads)
    /\ written' = written + wr[w].len
    /\ taken' = taken + wr[w].len
    /\ Notify(rd, [wr EXCEPT ![w] = NoWrite])
    /\ UNCHANGED <<buffer, closed_read, closed_write>>

\* A write of up to PIPE_BUF bytes is stored whole or not at all, a longer one in part.
Fits(n) == IF n <= PipeBuf THEN Available >= n ELSE Available > 0

\* Mutants: chunk_len by the wrong subtraction; the whole payload.
StoredSwapped(n) == IF n <= PipeBuf THEN n ELSE Available - n
StoredWhole(n) == n

\* The bytes of an n byte payload that are stored.
Stored(n) == IF n <= PipeBuf THEN n ELSE Least(Available, n)

WriteStores(w) ==
    /\ WriteTurn(w)
    /\ waiting_reads = << >>
    /\ Fits(wr[w].len)
    /\ buffer' = Append(buffer, Bytes(Stored(wr[w].len)))
    /\ written' = written + Stored(wr[w].len)
    /\ Notify(rd, [wr EXCEPT ![w] = NoWrite])
    /\ UNCHANGED <<closed_read, closed_write, waiting_reads, waiters, taken>>

WriteWouldBlock(w) ==
    /\ WriteTurn(w)
    /\ waiting_reads = << >> /\ ~Fits(wr[w].len)
    /\ wr' = [wr EXCEPT ![w] = IF wr[w].nonblocking THEN NoWrite ELSE [wr[w] EXCEPT !.pc = "blocked"]]
    /\ UNCHANGED <<pipe, rd, pl, written, taken>>

--------------------------------------------------------------------------------
(* close, when the last descriptor of an end is gone.  The second close drops the pipe. *)

Unpolled(end) == \A p \in Poller : pl[p].open => pl[p].end # end

\* Mutant: the waiting readers are ended by the wrong end.
CloseReadEndsReads ==
    /\ ~closed_read /\ Unpolled("read")
    /\ closed_read' = TRUE
    /\ buffer' = IF closed_write THEN << >> ELSE buffer
    /\ waiters' = [r \in Reader |-> IF waiters[r] = "waiting" THEN "eof" ELSE waiters[r]]
    /\ waiting_reads' = << >>
    /\ Notify(rd, wr)
    /\ UNCHANGED <<closed_write, written, taken>>

CloseRead ==
    /\ ~closed_read /\ Unpolled("read")
    /\ closed_read' = TRUE
    /\ buffer' = IF closed_write THEN << >> ELSE buffer
    /\ Notify(rd, wr)
    /\ UNCHANGED <<closed_write, waiting_reads, waiters, written, taken>>

CloseWrite ==
    /\ ~closed_write /\ Unpolled("write")
    /\ closed_write' = TRUE
    /\ buffer' = IF closed_read THEN << >> ELSE buffer
    /\ waiters' = [r \in Reader |-> IF \E i \in DOMAIN waiting_reads : waiting_reads[i] = r
                                    THEN "eof" ELSE waiters[r]]
    /\ waiting_reads' = << >>
    /\ Notify(rd, wr)
    /\ UNCHANGED <<closed_read, written, taken>>

--------------------------------------------------------------------------------
(* poll_targets. *)

\* PipeManager::poll for POLLIN on the read end and POLLOUT on the write end.
Revents(end) ==
    IF end = "read"
    THEN {e \in {"IN", "HUP"} : IF e = "IN" THEN buffer # << >> ELSE closed_write}
    ELSE IF closed_read THEN {"ERR"}
         ELSE {e \in {"OUT"} : Available > 0 \/ waiting_reads # << >>}

\* A poll of a descriptor that is not in the table returns POLLNVAL at once and is left out.
PollStart(p, end) ==
    /\ pl[p].pc = "idle"
    /\ IF end = "read" THEN ~closed_read ELSE ~closed_write
    /\ pl' = [pl EXCEPT ![p] = [pc |-> "snapshot", end |-> end, open |-> TRUE, changed |-> TRUE]]
    /\ UNCHANGED <<pipe, rd, wr, written, taken>>

\* The polling process exits on another thread and its table goes.  The notifier hears of it
\* only when this was the last descriptor of the end, by the close that follows.
PollFdGoes(p) ==
    /\ pl[p].open
    /\ pl' = [pl EXCEPT ![p].open = FALSE]
    /\ UNCHANGED <<pipe, rd, wr, written, taken>>

\* From here on the call sees every notification.
PollSnapshot(p) ==
    /\ pl[p].pc = "snapshot"
    /\ pl' = [pl EXCEPT ![p].pc = "check", ![p].changed = FALSE]
    /\ UNCHANGED <<pipe, rd, wr, written, taken>>

\* Without a table poll_target_entry fails, and with it the call.
PollCheck(p) ==
    /\ pl[p].pc = "check"
    /\ pl' = [pl EXCEPT ![p] = IF ~pl[p].open \/ Revents(pl[p].end) # {} THEN NoPoll
                               ELSE [pl[p] EXCEPT !.pc = "checked"]]
    /\ UNCHANGED <<pipe, rd, wr, written, taken>>

\* wait_for_change, unless the generation has moved on since the snapshot.
PollSleeps(p) ==
    /\ pl[p].pc = "checked" /\ ~pl[p].changed
    /\ pl' = [pl EXCEPT ![p].pc = "sleep"]
    /\ UNCHANGED <<pipe, rd, wr, written, taken>>

\* It returns true: another round.
PollAgain(p) ==
    /\ pl[p].pc \in {"checked", "sleep"} /\ pl[p].changed
    /\ pl' = [pl EXCEPT ![p].pc = "snapshot"]
    /\ UNCHANGED <<pipe, rd, wr, written, taken>>

\* The deadline passes before or inside wait_for_change.
PollTimesOut(p) ==
    /\ pl[p].pc = "checked" \/ (pl[p].pc = "sleep" /\ ~pl[p].changed)
    /\ pl' = [pl EXCEPT ![p] = NoPoll]
    /\ UNCHANGED <<pipe, rd, wr, written, taken>>

--------------------------------------------------------------------------------
ReaderNext(r) == \/ ReadRefused(r) \/ ReadTakes(r) \/ ReadDrains(r) \/ ReadEof(r)
                 \/ ReadWaits(r) \/ ReadGivesUp(r) \/ ReadTimesOut(r)

WriterNext(w) == WriteFails(w) \/ WriteHandsOver(w) \/ WriteStores(w) \/ WriteWouldBlock(w)

PollerNext(p) == PollFdGoes(p) \/ PollSnapshot(p) \/ PollCheck(p) \/ PollSleeps(p) \/ PollAgain(p)

Next ==
    \/ \E r \in Reader : ReaderNext(r) \/ ReadExpires(r)
    \/ \E r \in Reader, n \in ReadLengths, timed \in BOOLEAN : ReadStart(r, n, timed)
    \/ \E w \in Writer : WriterNext(w)
    \/ \E w \in Writer, n \in WriteLengths, nonblocking \in BOOLEAN : WriteStart(w, n, nonblocking)
    \/ CloseRead
    \/ CloseWrite
    \/ \E p \in Poller : PollerNext(p) \/ PollTimesOut(p)
    \/ \E p \in Poller, end \in {"read", "write"} : PollStart(p, end)

Spec == Init /\ [][Next]_vars

--------------------------------------------------------------------------------
(* Properties. *)

\* Bytes come out in the order they went in and none is stored twice: what the buffer holds
\* is exactly what write accepted and no reader was given yet, although payloads are also
\* handed to waiting readers past the buffer.
InOrder ==
    ~(closed_read /\ closed_write)
    => Contents(buffer) = [i \in 1..(written - taken) |-> taken + i]

\* The buffer never exceeds its limit, with partial writes filling it to the brim.
WithinCapacity == Size(buffer) <= Capacity

\* The queue of waiting readers and their registrations agree: a reader that sleeps without
\* a result is queued once, a queued reader is inside read, and readers queue only while the
\* buffer is empty and the write end open.  So a write never skips a stale id, a read that
\* drains the buffer leaves no registration behind, and none waits behind buffered data.
ReadersAccounted ==
    /\ waiting_reads # << >> => buffer = << >> /\ ~closed_write
    /\ \A i, j \in DOMAIN waiting_reads : waiting_reads[i] = waiting_reads[j] => i = j
    /\ \A r \in Reader : (\E i \in DOMAIN waiting_reads : waiting_reads[i] = r) <=> waiters[r] = "waiting"
    /\ \A r \in Reader : waiters[r] # "none" <=> rd[r].pc \in {"ready", "blocked", "expired"}

\* No lost wakeup: a reader sleeps only while there is nothing to read, a writer only while
\* its payload fits nowhere, whoever drained, stored, queued, closed or timed out meanwhile.
NoLostWakeup ==
    /\ \A r \in Reader : rd[r].pc = "blocked" => NothingToRead(r)
    /\ \A w \in Writer : wr[w].pc = "blocked"
                            => /\ ~closed_read /\ ~closed_write
                               /\ waiting_reads = << >> /\ ~Fits(wr[w].len)

\* A poller whose descriptor is in the table is never left asleep with an event to report:
\* every change that makes an end ready is notified after the generation it compares with was
\* read.
PollNotMissed ==
    \A p \in Poller : pl[p].open /\ pl[p].pc \in {"checked", "sleep"} /\ ~pl[p].changed
                      => Revents(pl[p].end) = {}

\* End of file is reported only after all data: while a reader holds an end-of-file result
\* the write end is closed and the buffer empty.
EofAfterData ==
    \A r \in Reader : waiters[r] = "eof" => closed_write /\ buffer = << >>
================================================================================
