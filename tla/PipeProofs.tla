------------------------------- MODULE PipeProofs -------------------------------
(***************************************************************************)
(* Theorems about Pipe, for any number of readers, writers and pollers and *)
(* any capacity.  What the chunks hold is left out: the invariant needs of *)
(* the buffer only whether it is empty and that whoever changes it wakes   *)
(* everybody.                                                              *)
(***************************************************************************)
EXTENDS Pipe, SequenceTheorems, TLAPS

\* TypeOK without the bytes.
ControlOK ==
    /\ closed_read \in BOOLEAN /\ closed_write \in BOOLEAN
    /\ waiting_reads \in Seq(Reader)
    /\ waiters \in [Reader -> Pending]
    /\ rd \in [Reader -> ReadCall]
    /\ wr \in [Writer -> WriteCall]
    /\ pl \in [Poller -> PollCall]

--------------------------------------------------------------------------------
\* notify_all keeps the readers' calls well formed and leaves none asleep.
LEMMA WakeReaders ==
    ASSUME NEW c \in [Reader -> ReadCall]
    PROVE  /\ Wake(c) \in [Reader -> ReadCall]
           /\ \A r \in Reader : Wake(c)[r].pc # "blocked"
           /\ \A r \in Reader : Wake(c)[r].pc \in {"ready", "blocked", "expired"}
                                  <=> c[r].pc \in {"ready", "blocked", "expired"}
BY DEF Wake, ReadCall

\* The same for the writers.
LEMMA WakeWriters ==
    ASSUME NEW c \in [Writer -> WriteCall]
    PROVE  /\ Wake(c) \in [Writer -> WriteCall]
           /\ \A w \in Writer : Wake(c)[w].pc # "blocked"
BY DEF Wake, WriteCall

\* A notification leaves no poller behind with the generation of before.
LEMMA NotifiedPollers ==
    ASSUME ControlOK, NotifyPollers
    PROVE  /\ pl' \in [Poller -> PollCall]
           /\ \A p \in Poller : pl'[p].pc # "idle" => pl'[p].changed
BY Zenon DEF ControlOK, NotifyPollers, PollCall

Cut(q, k) == SubSeq(q, 1, k - 1) \o SubSeq(q, k + 1, Len(q))

\* What is left of a sequence without its k-th element.
LEMMA CutOut ==
    ASSUME NEW q \in Seq(Reader), NEW k \in 1..Len(q)
    PROVE  /\ Cut(q, k) \in Seq(Reader)
           /\ DOMAIN Cut(q, k) = 1..(Len(q) - 1)
           /\ \A i \in 1..(Len(q) - 1) : Cut(q, k)[i] = IF i < k THEN q[i] ELSE q[i + 1]
<1> DEFINE s == Cut(q, k)
<1> DEFINE a == SubSeq(q, 1, k - 1)
           b == SubSeq(q, k + 1, Len(q))
<1>1. Len(q) \in Nat /\ k \in Nat /\ 1 <= k /\ k <= Len(q) /\ \A i \in 1..Len(q) : q[i] \in Reader
  OBVIOUS
<1>2. /\ a \in Seq(Reader)
      /\ Len(a) = IF 1 <= k - 1 THEN (k - 1) - 1 + 1 ELSE 0
      /\ \A i \in 1..((k - 1) - 1 + 1) : a[i] = q[1 + i - 1]
  BY <1>1, \A i \in 1..(k - 1) : q[i] \in Reader, k - 1 \in Int, 1 \in Int, SubSeqProperties
<1>3. /\ b \in Seq(Reader)
      /\ Len(b) = IF k + 1 <= Len(q) THEN Len(q) - (k + 1) + 1 ELSE 0
      /\ \A i \in 1..(Len(q) - (k + 1) + 1) : b[i] = q[(k + 1) + i - 1]
  BY <1>1, \A i \in (k + 1)..Len(q) : q[i] \in Reader, k + 1 \in Int, Len(q) \in Int, SubSeqProperties
<1> HIDE DEF a, b
<1>4. Len(a) = k - 1 /\ Len(b) = Len(q) - k
  BY <1>1, <1>2, <1>3
<1>5. /\ a \o b \in Seq(Reader) /\ Len(a \o b) = Len(a) + Len(b)
      /\ \A i \in 1..(Len(a) + Len(b)) : (a \o b)[i] = IF i <= Len(a) THEN a[i] ELSE b[i - Len(a)]
  BY Zenon, <1>2, <1>3, ConcatProperties
<1>6. s = a \o b
  BY DEF Cut, a, b
<1> HIDE DEF s
<1>7. s \in Seq(Reader) /\ Len(s) = Len(q) - 1
  <2>1. s \in Seq(Reader) /\ Len(s) = Len(a) + Len(b)
    BY <1>5, <1>6, Zenon
  <2>2. Len(a) + Len(b) = Len(q) - 1
    BY <1>1, <1>4
  <2> QED
    BY <2>1, <2>2, Zenon
<1>8. ASSUME NEW i \in 1..(Len(q) - 1) PROVE s[i] = IF i < k THEN q[i] ELSE q[i + 1]
  <2>1. CASE i < k
    <3>1. (a \o b)[i] = a[i] /\ a[i] = q[i]
      BY <1>1, <1>2, <1>4, <1>5, <2>1
    <3> QED
      BY <1>6, <2>1, <3>1
  <2>2. CASE ~(i < k)
    <3>1. (a \o b)[i] = b[i - (k - 1)]
      BY <1>1, <1>4, <1>5, <2>2
    <3>2. b[i - (k - 1)] = q[(k + 1) + (i - (k - 1)) - 1]
      BY <1>1, <1>3, <2>2
    <3>3. (k + 1) + (i - (k - 1)) - 1 = i + 1
      BY <1>1
    <3> QED
      BY <1>6, <2>2, <3>1, <3>2, <3>3
  <2> QED
    BY <2>1, <2>2
<1>9. DOMAIN s = 1..Len(s)
  BY <1>7
<1> QED
  BY <1>7, <1>8, <1>9, Zenon DEF s

\* retain keeps the other ids, each once.
LEMMA WithoutQueue ==
    ASSUME NEW q \in Seq(Reader), NEW r \in Reader,
           \A i, j \in DOMAIN q : q[i] = q[j] => i = j
    PROVE  /\ Without(q, r) \in Seq(Reader)
           /\ \A i, j \in DOMAIN Without(q, r) : Without(q, r)[i] = Without(q, r)[j] => i = j
           /\ \A x \in Reader : (\E i \in DOMAIN Without(q, r) : Without(q, r)[i] = x)
                                  <=> x # r /\ (\E i \in DOMAIN q : q[i] = x)
<1>1. CASE ~ \E i \in DOMAIN q : q[i] = r
  BY <1>1 DEF Without
<1>2. CASE \E i \in DOMAIN q : q[i] = r
  <2> DEFINE s == Without(q, r)
  <2>1. PICK k \in DOMAIN q : q[k] = r /\ s = Cut(q, k)
    BY Zenon, <1>2 DEF Without, Cut
  <2>2. k \in 1..Len(q) /\ Len(q) \in Nat /\ DOMAIN q = 1..Len(q)
    BY <2>1
  <2> HIDE DEF s
  <2>3. /\ s \in Seq(Reader) /\ DOMAIN s = 1..(Len(q) - 1)
        /\ \A i \in 1..(Len(q) - 1) : s[i] = IF i < k THEN q[i] ELSE q[i + 1]
    <3>1. /\ Cut(q, k) \in Seq(Reader) /\ DOMAIN Cut(q, k) = 1..(Len(q) - 1)
          /\ \A i \in 1..(Len(q) - 1) : Cut(q, k)[i] = IF i < k THEN q[i] ELSE q[i + 1]
      BY <2>2, CutOut
    <3>2. s = Cut(q, k)
      BY <2>1
    <3> QED
      BY <3>1, <3>2
  <2>4. ASSUME NEW i \in DOMAIN s, NEW j \in DOMAIN s, s[i] = s[j] PROVE i = j
    <3>1. /\ (IF i < k THEN i ELSE i + 1) \in DOMAIN q /\ s[i] = q[IF i < k THEN i ELSE i + 1]
          /\ (IF j < k THEN j ELSE j + 1) \in DOMAIN q /\ s[j] = q[IF j < k THEN j ELSE j + 1]
      BY <2>2, <2>3
    <3>2. (IF i < k THEN i ELSE i + 1) = (IF j < k THEN j ELSE j + 1)
      BY Zenon, <2>4, <3>1
    <3> QED
      BY <2>2, <2>3, <3>2
  <2>5. ASSUME NEW x \in Reader, NEW i \in DOMAIN s, s[i] = x
        PROVE  x # r /\ \E j \in DOMAIN q : q[j] = x
    <3>1. /\ (IF i < k THEN i ELSE i + 1) \in DOMAIN q /\ s[i] = q[IF i < k THEN i ELSE i + 1]
          /\ (IF i < k THEN i ELSE i + 1) # k
      BY <2>2, <2>3
    <3> QED
      BY <2>1, <2>5, <3>1
  <2>6. ASSUME NEW x \in Reader, x # r, NEW j \in DOMAIN q, q[j] = x
        PROVE  \E i \in DOMAIN s : s[i] = x
    <3>1. j # k
      BY <2>1, <2>6
    <3>2. /\ (IF j < k THEN j ELSE j - 1) \in DOMAIN s
          /\ s[IF j < k THEN j ELSE j - 1] = q[j]
      BY <2>2, <2>3, <3>1
    <3> QED
      BY <2>6, <3>2
  <2> QED
    BY <2>3, <2>4, <2>5, <2>6 DEF s
<1> QED
  BY <1>1, <1>2

--------------------------------------------------------------------------------
(* The invariant and what the steps do to each part of it. *)

PipeInv == ControlOK /\ ReadersAccounted /\ NoLostWakeup /\ PollNotMissed /\ EofAfterData

\* A step on the readers' side, on the writers' side, of a close, or of a poller.
ReaderStep == \E r \in Reader : \/ ReaderNext(r) \/ ReadExpires(r)
                                \/ \E n \in ReadLengths, timed \in BOOLEAN : ReadStart(r, n, timed)
WriterStep == \E w \in Writer : \/ WriterNext(w)
                                \/ \E n \in WriteLengths, nonblocking \in BOOLEAN : WriteStart(w, n, nonblocking)
PollerStep == \E p \in Poller : \/ PollerNext(p) \/ PollTimesOut(p)
                                \/ \E end \in {"read", "write"} : PollStart(p, end)

\* Next, thread by thread.
LEMMA NextSplit ==
    ASSUME [Next]_vars
    PROVE  ReaderStep \/ WriterStep \/ CloseRead \/ CloseWrite \/ PollerStep \/ UNCHANGED vars
BY DEF Next, ReaderStep, WriterStep, PollerStep

\* The pipe's control state.
Shared == <<buffer, closed_read, closed_write, waiting_reads>>

\* Everybody was woken: no writer sleeps, no poller keeps the old generation, and no reader
\* sleeps but one in Rest.
Woken(Rest) ==
    /\ \A w \in Writer : wr'[w].pc # "blocked"
    /\ \A p \in Poller : pl'[p].pc # "idle" => pl'[p].changed
    /\ \A r \in Reader \ Rest : rd'[r].pc # "blocked"

\* Notify wakes everybody and keeps the calls well formed.
LEMMA NotifyWakes ==
    ASSUME ControlOK, NEW c \in [Reader -> ReadCall], NEW d \in [Writer -> WriteCall], Notify(c, d)
    PROVE  /\ rd' \in [Reader -> ReadCall] /\ wr' \in [Writer -> WriteCall]
           /\ pl' \in [Poller -> PollCall]
           /\ Woken({})
           /\ \A r \in Reader : rd'[r].pc \in {"ready", "blocked", "expired"}
                                  <=> c[r].pc \in {"ready", "blocked", "expired"}
<1>1. NotifyPollers /\ rd' = Wake(c) /\ wr' = Wake(d)
  BY DEF Notify
<1>2. /\ rd' \in [Reader -> ReadCall]
      /\ \A r \in Reader : rd'[r].pc # "blocked"
      /\ \A r \in Reader : rd'[r].pc \in {"ready", "blocked", "expired"}
                             <=> c[r].pc \in {"ready", "blocked", "expired"}
  BY <1>1, WakeReaders
<1>3. wr' \in [Writer -> WriteCall] /\ \A w \in Writer : wr'[w].pc # "blocked"
  BY <1>1, WakeWriters
<1>4. pl' \in [Poller -> PollCall] /\ \A p \in Poller : pl'[p].pc # "idle" => pl'[p].changed
  BY <1>1, NotifiedPollers
<1> QED
  BY <1>2, <1>3, <1>4 DEF Woken

\* After a wake-up nobody sleeps, so nobody sleeps wrongly.
LEMMA WokenKeeps ==
    ASSUME Woken({})
    PROVE  NoLostWakeup' /\ PollNotMissed'
BY DEF Woken, NoLostWakeup, PollNotMissed

\* Without one the pipe must not have changed, nor have the other threads.
LEMMA QuietKeeps ==
    ASSUME NoLostWakeup, PollNotMissed, UNCHANGED <<Shared, wr, pl>>,
           \A r \in Reader : rd'[r].pc = "blocked" => waiters'[r] \notin {"data", "eof"} /\ buffer = << >> /\ ~closed_write
    PROVE  NoLostWakeup' /\ PollNotMissed'
<1>1. Revents("read")' = Revents("read") /\ Revents("write")' = Revents("write")
  BY DEF Shared, Revents, Available, Size
<1>2. \A end : Revents(end)' = Revents(end)
  BY DEF Shared, Revents, Available, Size
<1>3. \A n : Fits(n)' = Fits(n)
  BY DEF Shared, Fits, Available, Size
<1>4. PollNotMissed'
  BY <1>2 DEF PollNotMissed, Shared
<1>5. \A r \in Reader : rd'[r].pc = "blocked" => NothingToRead(r)'
  BY DEF NothingToRead, Shared
<1>6. ASSUME NEW w \in Writer, (wr[w].pc = "blocked")'
      PROVE  (~closed_read /\ ~closed_write /\ waiting_reads = << >> /\ ~Fits(wr[w].len))'
  BY <1>3, <1>6 DEF NoLostWakeup, Shared
<1> QED
  BY <1>4, <1>5, <1>6 DEF NoLostWakeup

\* The record of a call that does not run.
LEMMA IdleCalls ==
    /\ NoRead \in ReadCall /\ NoRead.pc = "idle"
    /\ NoWrite \in WriteCall /\ NoWrite.pc = "idle"
    /\ NoPoll \in PollCall /\ NoPoll.pc = "idle"
BY DEF NoRead, NoWrite, NoPoll, ReadCall, WriteCall, PollCall

\* The record of a read that starts.
LEMMA StartedRead ==
    ASSUME NEW n \in ReadLengths, NEW timed \in BOOLEAN
    PROVE  /\ [pc |-> "called", len |-> n, timed |-> timed] \in ReadCall
           /\ [pc |-> "called", len |-> n, timed |-> timed].pc = "called"
BY PipeAssumption DEF ReadCall

\* What a reader does without notifying anybody.
LEMMA QuietReader ==
    ASSUME PipeInv, NEW r \in Reader,
           \/ \E n \in ReadLengths, timed \in BOOLEAN : ReadStart(r, n, timed)
           \/ ReadRefused(r) \/ ReadTakes(r) \/ ReadEof(r) \/ ReadExpires(r)
    PROVE  PipeInv'
<1> USE DEF PipeInv
<1>1. UNCHANGED <<Shared, wr, pl>>
  BY DEF ReadStart, ReadRefused, ReadTakes, ReadEof, ReadExpires, Shared, pipe
<1>2. rd' \in [Reader -> ReadCall] /\ waiters' \in [Reader -> Pending]
  <2>1. CASE \E n \in ReadLengths, timed \in BOOLEAN : ReadStart(r, n, timed)
    BY <2>1, StartedRead DEF ControlOK, ReadStart, pipe
  <2>2. CASE ReadRefused(r)
    BY <2>2, IdleCalls DEF ControlOK, ReadRefused, pipe
  <2>3. CASE ReadTakes(r)
    BY <2>3, IdleCalls DEF ControlOK, ReadTakes, Pending
  <2>4. CASE ReadEof(r)
    BY <2>4, IdleCalls DEF ControlOK, ReadEof, Pending
  <2>5. CASE ReadExpires(r)
    BY Zenon, <2>5 DEF ControlOK, ReadExpires, pipe, ReadCall
  <2> QED
    BY <2>1, <2>2, <2>3, <2>4, <2>5
<1>3. /\ \A x \in Reader \ {r} : rd'[x] = rd[x] /\ waiters'[x] = waiters[x]
      /\ rd'[r].pc # "blocked"
      /\ waiters'[r] = "waiting" <=> waiters[r] = "waiting"
      /\ waiters'[r] # "none" <=> rd'[r].pc \in {"ready", "blocked", "expired"}
      /\ waiters'[r] = "eof" => waiters[r] = "eof"
  <2>1. CASE \E n \in ReadLengths, timed \in BOOLEAN : ReadStart(r, n, timed)
    <3>1. PICK c \in ReadCall : rd[r].pc = "idle" /\ c.pc = "called" /\ rd' = [rd EXCEPT ![r] = c]
      BY Zenon, <2>1, StartedRead DEF ReadStart
    <3>2. waiters' = waiters
      BY <2>1 DEF ReadStart, pipe
    <3> QED
      BY <3>1, <3>2 DEF ControlOK, ReadersAccounted
  <2>2. CASE ReadRefused(r)
    BY Zenon, <2>2 DEF ControlOK, ReadersAccounted, ReadRefused, pipe, ReadCall, NoRead
  <2>3. CASE ReadTakes(r)
    BY <2>3 DEF ControlOK, ReadersAccounted, ReadTakes, ReadCall, NoRead
  <2>4. CASE ReadEof(r)
    <3>1. waiters[r] # "waiting"
      BY <2>4 DEF ReadEof, ReadersAccounted
    <3> QED
      BY <2>4, <3>1 DEF ControlOK, ReadersAccounted, ReadEof, ReadCall, NoRead
  <2>5. CASE ReadExpires(r)
    BY <2>5 DEF ControlOK, ReadersAccounted, ReadExpires, pipe, ReadCall
  <2> QED
    BY <2>1, <2>2, <2>3, <2>4, <2>5
<1>4. ControlOK'
  BY <1>1, <1>2 DEF ControlOK, Shared
<1>5. ReadersAccounted'
  BY <1>1, <1>3 DEF ReadersAccounted, Shared
<1>6. NoLostWakeup' /\ PollNotMissed'
  <2>1. ASSUME NEW x \in Reader, rd'[x].pc = "blocked"
        PROVE  waiters'[x] \notin {"data", "eof"} /\ buffer = << >> /\ ~closed_write
    BY <1>3, <2>1 DEF NoLostWakeup, NothingToRead
  <2> QED
    BY <1>1, <2>1, QuietKeeps
<1>7. EofAfterData'
  BY <1>1, <1>3 DEF EofAfterData, Shared
<1> QED
  BY <1>4, <1>5, <1>6, <1>7

\* A read that drains: no reader waits while there is data, so none is registered for nothing.
LEMMA DrainKeeps ==
    ASSUME PipeInv, NEW r \in Reader, ReadDrains(r)
    PROVE  PipeInv'
<1> USE DEF PipeInv
<1> DEFINE c == [rd EXCEPT ![r] = NoRead]
<1>1. c \in [Reader -> ReadCall] /\ wr \in [Writer -> WriteCall] /\ c[r].pc = "idle"
      /\ \A x \in Reader \ {r} : c[x] = rd[x]
  BY IdleCalls DEF ControlOK
<1>2. Notify(c, wr)
  BY DEF ReadDrains
<1> HIDE DEF c
<1>3. /\ rd' \in [Reader -> ReadCall] /\ wr' \in [Writer -> WriteCall] /\ pl' \in [Poller -> PollCall]
      /\ Woken({})
      /\ \A x \in Reader : rd'[x].pc \in {"ready", "blocked", "expired"}
                             <=> c[x].pc \in {"ready", "blocked", "expired"}
  BY <1>1, <1>2, NotifyWakes
<1>4. /\ UNCHANGED <<closed_read, closed_write, waiting_reads, waiters>>
      /\ buffer # << >> /\ waiters[r] \notin {"data", "eof"}
  BY DEF ReadDrains
<1>5. ControlOK'
  BY <1>3, <1>4 DEF ControlOK
<1>6. waiting_reads = << >> /\ waiters[r] = "none"
  <2>1. waiting_reads = << >>
    BY <1>4 DEF ReadersAccounted
  <2>2. waiters[r] # "waiting"
    BY <2>1 DEF ReadersAccounted
  <2> QED
    BY <1>4, <2>1, <2>2 DEF ControlOK, Pending
<1>7. ReadersAccounted'
  BY <1>1, <1>3, <1>4, <1>6 DEF ReadersAccounted
<1>8. EofAfterData'
  BY <1>4 DEF EofAfterData
<1> QED
  BY <1>3, <1>5, <1>7, <1>8, WokenKeeps

\* A timeout: the registration and the place in the queue go together.
LEMMA DeregisterKeeps ==
    ASSUME PipeInv, NEW r \in Reader, Deregister(r)
    PROVE  PipeInv'
<1> USE DEF PipeInv
<1> DEFINE c == [rd EXCEPT ![r] = NoRead]
<1>1. c \in [Reader -> ReadCall] /\ wr \in [Writer -> WriteCall] /\ c[r].pc = "idle"
      /\ \A x \in Reader \ {r} : c[x] = rd[x]
  BY IdleCalls DEF ControlOK
<1>2. Notify(c, wr)
  BY DEF Deregister
<1> HIDE DEF c
<1>3. /\ rd' \in [Reader -> ReadCall] /\ wr' \in [Writer -> WriteCall] /\ pl' \in [Poller -> PollCall]
      /\ Woken({})
      /\ \A x \in Reader : rd'[x].pc \in {"ready", "blocked", "expired"}
                             <=> c[x].pc \in {"ready", "blocked", "expired"}
  BY <1>1, <1>2, NotifyWakes
<1>4. /\ UNCHANGED <<buffer, closed_read, closed_write>>
      /\ waiters' = [waiters EXCEPT ![r] = "none"]
      /\ waiting_reads' = Without(waiting_reads, r)
  BY DEF Deregister
<1>5. /\ waiting_reads' \in Seq(Reader)
      /\ \A i, j \in DOMAIN waiting_reads' : waiting_reads'[i] = waiting_reads'[j] => i = j
      /\ \A x \in Reader : (\E i \in DOMAIN waiting_reads' : waiting_reads'[i] = x)
                             <=> x # r /\ (\E i \in DOMAIN waiting_reads : waiting_reads[i] = x)
  <2>1. waiting_reads \in Seq(Reader) /\ \A i, j \in DOMAIN waiting_reads : waiting_reads[i] = waiting_reads[j] => i = j
    BY DEF ControlOK, ReadersAccounted
  <2> DEFINE q == Without(waiting_reads, r)
  <2>2. /\ q \in Seq(Reader)
        /\ \A i, j \in DOMAIN q : q[i] = q[j] => i = j
        /\ \A x \in Reader : (\E i \in DOMAIN q : q[i] = x)
                               <=> x # r /\ (\E i \in DOMAIN waiting_reads : waiting_reads[i] = x)
    BY <2>1, WithoutQueue, Zenon
  <2>3. waiting_reads' = q
    BY <1>4
  <2> HIDE DEF q
  <2> QED
    BY <2>2, <2>3, Zenon
<1>6. ControlOK'
  BY <1>3, <1>4, <1>5 DEF ControlOK, Pending
<1>7. ReadersAccounted'
  <2>1. waiting_reads = << >> => waiting_reads' = << >>
    <3>1. DOMAIN << >> = {}
      OBVIOUS
    <3> QED
      BY <1>4, <3>1, Zenon DEF Without
  <2>2. /\ waiters'[r] = "none" /\ rd'[r].pc \notin {"ready", "blocked", "expired"}
        /\ \A x \in Reader \ {r} : waiters'[x] = waiters[x]
        /\ \A x \in Reader \ {r} : rd'[x].pc \in {"ready", "blocked", "expired"}
                                     <=> rd[x].pc \in {"ready", "blocked", "expired"}
    BY <1>1, <1>3, <1>4 DEF ControlOK
  <2> QED
    BY <1>4, <1>5, <2>1, <2>2 DEF ReadersAccounted
<1>8. EofAfterData'
  BY <1>4 DEF EofAfterData, ControlOK
<1> QED
  BY <1>3, <1>6, <1>7, <1>8, WokenKeeps

\* The queue with one more reader.
LEMMA Queued ==
    ASSUME NEW q \in Seq(Reader), NEW r \in Reader
    PROVE  /\ Append(q, r) \in Seq(Reader)
           /\ Append(q, r) # << >>
           /\ Len(q) \in Nat /\ DOMAIN q = 1..Len(q)
           /\ DOMAIN Append(q, r) = 1..(Len(q) + 1)
           /\ \A i \in 1..Len(q) : Append(q, r)[i] = q[i]
           /\ Append(q, r)[Len(q) + 1] = r
BY AppendProperties

\* A read that waits: it joins the queue the first time and sleeps while there is nothing.
LEMMA WaitKeeps ==
    ASSUME PipeInv, NEW r \in Reader, ReadWaits(r)
    PROVE  PipeInv'
<1> USE DEF PipeInv
<1>1. /\ UNCHANGED <<buffer, closed_read, closed_write>>
      /\ waiters[r] \notin {"data", "eof"} /\ buffer = << >> /\ ~closed_write
      /\ rd[r].pc \in {"called", "ready"}
  BY DEF ReadWaits, NothingToRead, ReadTurn
<1>2. CASE waiters[r] = "none"
  <2>1. /\ waiters' = [waiters EXCEPT ![r] = "waiting"]
        /\ waiting_reads' = Append(waiting_reads, r)
        /\ rd' = [Wake(rd) EXCEPT ![r].pc = "blocked"]
        /\ wr' = Wake(wr)
        /\ NotifyPollers
    BY <1>2 DEF ReadWaits
  <2>2. /\ Wake(rd) \in [Reader -> ReadCall]
        /\ \A x \in Reader : Wake(rd)[x].pc # "blocked"
        /\ \A x \in Reader : Wake(rd)[x].pc \in {"ready", "blocked", "expired"}
                               <=> rd[x].pc \in {"ready", "blocked", "expired"}
    BY WakeReaders DEF ControlOK
  <2>3. wr' \in [Writer -> WriteCall] /\ \A w \in Writer : wr'[w].pc # "blocked"
    BY <2>1, WakeWriters DEF ControlOK
  <2>4. pl' \in [Poller -> PollCall] /\ \A p \in Poller : pl'[p].pc # "idle" => pl'[p].changed
    BY <2>1, NotifiedPollers
  <2> DEFINE wake == Wake(rd)
  <2> HIDE DEF wake
  <2>5. /\ wake \in [Reader -> ReadCall] /\ rd' = [wake EXCEPT ![r].pc = "blocked"]
        /\ \A x \in Reader : wake[x].pc # "blocked"
        /\ \A x \in Reader : wake[x].pc \in {"ready", "blocked", "expired"}
                               <=> rd[x].pc \in {"ready", "blocked", "expired"}
    BY <2>1, <2>2 DEF wake
  <2>6. /\ rd' \in [Reader -> ReadCall] /\ rd'[r].pc = "blocked"
        /\ \A x \in Reader \ {r} : rd'[x].pc = wake[x].pc
    BY <2>5 DEF ReadCall
  <2>7. /\ waiting_reads' \in Seq(Reader)
        /\ Len(waiting_reads) \in Nat /\ DOMAIN waiting_reads = 1..Len(waiting_reads)
        /\ DOMAIN waiting_reads' = 1..(Len(waiting_reads) + 1)
        /\ \A i \in 1..Len(waiting_reads) : waiting_reads'[i] = waiting_reads[i]
        /\ waiting_reads'[Len(waiting_reads) + 1] = r
    BY <2>1, Queued DEF ControlOK
  <2>8. \A i \in DOMAIN waiting_reads : waiting_reads[i] # r
    BY <1>2 DEF ReadersAccounted
  <2>9. ControlOK'
    BY <1>1, <2>1, <2>3, <2>4, <2>6, <2>7 DEF ControlOK, Pending
  <2>10. ReadersAccounted'
    <3>1. \A i, j \in DOMAIN waiting_reads' : waiting_reads'[i] = waiting_reads'[j] => i = j
      BY <2>7, <2>8 DEF ReadersAccounted
    <3>2. \A x \in Reader : (\E i \in DOMAIN waiting_reads' : waiting_reads'[i] = x)
                              <=> x = r \/ \E i \in DOMAIN waiting_reads : waiting_reads[i] = x
      BY <2>7
    <3>3. waiters'[r] = "waiting" /\ \A x \in Reader \ {r} : waiters'[x] = waiters[x]
      BY <2>1 DEF ControlOK
    <3> QED
      BY <1>1, <2>5, <2>6, <3>1, <3>2, <3>3 DEF ReadersAccounted
  <2>11. NoLostWakeup'
    <3>1. ASSUME NEW x \in Reader, rd'[x].pc = "blocked" PROVE NothingToRead(x)'
      <4>1. x = r
        BY <2>5, <2>6, <3>1
      <4> QED
        BY <1>1, <2>1, <4>1 DEF NothingToRead, ControlOK
    <3> QED
      BY <2>3, <3>1 DEF NoLostWakeup
  <2>12. PollNotMissed'
    BY <2>4 DEF PollNotMissed
  <2>13. EofAfterData'
    BY <1>1, <2>1 DEF EofAfterData, ControlOK
  <2> QED
    BY <2>9, <2>10, <2>11, <2>12, <2>13
<1>3. CASE waiters[r] # "none"
  <2>1. /\ rd' = [rd EXCEPT ![r].pc = "blocked"]
        /\ UNCHANGED <<waiters, waiting_reads, wr, pl>>
    BY <1>3 DEF ReadWaits
  <2>2. /\ rd' \in [Reader -> ReadCall] /\ rd'[r].pc = "blocked"
        /\ \A x \in Reader \ {r} : rd'[x] = rd[x]
    BY Zenon, <2>1 DEF ControlOK, ReadCall
  <2>3. ControlOK'
    BY <1>1, <2>1, <2>2 DEF ControlOK
  <2>4. ReadersAccounted'
    BY <1>1, <1>3, <2>1, <2>2 DEF ReadersAccounted
  <2>5. ASSUME NEW x \in Reader, rd'[x].pc = "blocked"
        PROVE  waiters'[x] \notin {"data", "eof"} /\ buffer = << >> /\ ~closed_write
    BY <1>1, <2>1, <2>2, <2>5 DEF NoLostWakeup, NothingToRead
  <2>6. NoLostWakeup' /\ PollNotMissed'
    <3>1. UNCHANGED <<Shared, wr, pl>>
      BY <1>1, <2>1 DEF Shared
    <3> QED
      BY <2>5, <3>1, QuietKeeps
  <2>7. EofAfterData'
    BY <1>1, <2>1 DEF EofAfterData
  <2> QED
    BY <2>3, <2>4, <2>6, <2>7
<1> QED
  BY <1>2, <1>3

\* The queue without its first reader.
LEMMA Served ==
    ASSUME NEW q \in Seq(Reader), q # << >>
    PROVE  /\ Head(q) \in Reader /\ Head(q) = q[1]
           /\ Tail(q) \in Seq(Reader)
           /\ Len(q) \in Nat /\ Len(q) >= 1 /\ DOMAIN q = 1..Len(q)
           /\ DOMAIN Tail(q) = 1..(Len(q) - 1)
           /\ \A i \in 1..(Len(q) - 1) : Tail(q)[i] = q[i + 1]
BY HeadTailProperties

\* A hand-over to the reader that waits longest.
LEMMA HandOverKeeps ==
    ASSUME PipeInv, NEW w \in Writer, WriteHandsOver(w)
    PROVE  PipeInv'
<1> USE DEF PipeInv
<1> DEFINE d == [wr EXCEPT ![w] = NoWrite]
           h == Head(waiting_reads)
           q == Tail(waiting_reads)
<1>1. d \in [Writer -> WriteCall] /\ rd \in [Reader -> ReadCall] /\ Notify(rd, d)
  BY IdleCalls DEF ControlOK, WriteHandsOver
<1>2. /\ h \in Reader /\ h = waiting_reads[1]
      /\ q \in Seq(Reader)
      /\ Len(waiting_reads) \in Nat /\ Len(waiting_reads) >= 1
      /\ DOMAIN waiting_reads = 1..Len(waiting_reads)
      /\ DOMAIN q = 1..(Len(waiting_reads) - 1)
      /\ \A i \in 1..(Len(waiting_reads) - 1) : q[i] = waiting_reads[i + 1]
  BY Served DEF ControlOK, WriteHandsOver
<1>3. /\ waiting_reads # << >>
      /\ waiters' = [waiters EXCEPT ![h] = "data"]
      /\ waiting_reads' = q
      /\ UNCHANGED <<buffer, closed_read, closed_write>>
  BY DEF WriteHandsOver
<1> HIDE DEF d, h, q
<1>4. /\ rd' \in [Reader -> ReadCall] /\ wr' \in [Writer -> WriteCall] /\ pl' \in [Poller -> PollCall]
      /\ Woken({})
      /\ \A x \in Reader : rd'[x].pc \in {"ready", "blocked", "expired"}
                             <=> rd[x].pc \in {"ready", "blocked", "expired"}
  BY <1>1, NotifyWakes
<1>5. ControlOK'
  BY Zenon, <1>2, <1>3, <1>4 DEF ControlOK, Pending
<1>6. ReadersAccounted'
  <2>1. buffer' = << >> /\ ~closed_write'
    BY <1>3 DEF ReadersAccounted
  <2>2. ASSUME NEW i \in DOMAIN q, NEW j \in DOMAIN q, q[i] = q[j] PROVE i = j
    <3>1. /\ i + 1 \in DOMAIN waiting_reads /\ j + 1 \in DOMAIN waiting_reads
          /\ q[i] = waiting_reads[i + 1] /\ q[j] = waiting_reads[j + 1]
      BY <1>2
    <3>2. \A k, l \in DOMAIN waiting_reads : waiting_reads[k] = waiting_reads[l] => k = l
      BY DEF ReadersAccounted
    <3>3. i + 1 = j + 1
      BY <2>2, <3>1, <3>2, Zenon
    <3> QED
      BY <1>2, <3>3
  <2>3. ASSUME NEW x \in Reader
        PROVE  (\E i \in DOMAIN q : q[i] = x)
                 <=> x # h /\ \E i \in DOMAIN waiting_reads : waiting_reads[i] = x
    <3>1. ASSUME NEW i \in DOMAIN q, q[i] = x
          PROVE  x # h /\ \E j \in DOMAIN waiting_reads : waiting_reads[j] = x
      <4>1. i + 1 \in DOMAIN waiting_reads /\ waiting_reads[i + 1] = x /\ i + 1 # 1 /\ 1 \in DOMAIN waiting_reads
        BY <1>2, <3>1
      <4> QED
        BY <1>2, <4>1 DEF ReadersAccounted
    <3>2. ASSUME x # h, NEW j \in DOMAIN waiting_reads, waiting_reads[j] = x
          PROVE  \E i \in DOMAIN q : q[i] = x
      <4>1. j - 1 \in DOMAIN q /\ q[j - 1] = waiting_reads[j]
        BY <1>2, <3>2
      <4> QED
        BY <3>2, <4>1
    <3> QED
      BY <3>1, <3>2
  <2>4. waiters'[h] = "data" /\ waiters[h] = "waiting" /\ \A x \in Reader \ {h} : waiters'[x] = waiters[x]
    BY <1>2, <1>3 DEF ControlOK, ReadersAccounted
  <2>5. \A x \in Reader : (\E i \in DOMAIN q : q[i] = x) <=> waiters'[x] = "waiting"
    BY <2>3, <2>4 DEF ReadersAccounted
  <2>6. \A x \in Reader : waiters'[x] # "none" <=> rd'[x].pc \in {"ready", "blocked", "expired"}
    BY <1>4, <2>4 DEF ReadersAccounted
  <2> QED
    BY <1>3, <2>1, <2>2, <2>5, <2>6 DEF ReadersAccounted
<1>7. EofAfterData'
  BY <1>2, <1>3 DEF EofAfterData, ControlOK
<1> QED
  BY <1>4, <1>5, <1>6, <1>7, WokenKeeps

\* A notification that leaves the queue and the registrations alone.
LEMMA NotifyKeeps ==
    ASSUME PipeInv, NEW d \in [Writer -> WriteCall], Notify(rd, d),
           UNCHANGED <<waiting_reads, waiters>>, closed_read' \in BOOLEAN, UNCHANGED closed_write,
           waiting_reads # << >> \/ (\E r \in Reader : waiters[r] = "eof") => buffer' = buffer \/ buffer' = << >>
    PROVE  PipeInv'
<1> USE DEF PipeInv
<1>1. /\ rd' \in [Reader -> ReadCall] /\ wr' \in [Writer -> WriteCall] /\ pl' \in [Poller -> PollCall]
      /\ Woken({})
      /\ \A x \in Reader : rd'[x].pc \in {"ready", "blocked", "expired"}
                             <=> rd[x].pc \in {"ready", "blocked", "expired"}
  BY NotifyWakes DEF ControlOK
<1>2. ControlOK'
  BY <1>1 DEF ControlOK
<1>3. ReadersAccounted'
  BY <1>1 DEF ReadersAccounted
<1>4. EofAfterData'
  BY DEF EofAfterData
<1> QED
  BY <1>1, <1>2, <1>3, <1>4, WokenKeeps

\* A write that stores: no reader waits and none was told of an end of file.
LEMMA StoreKeeps ==
    ASSUME PipeInv, NEW w \in Writer, WriteStores(w)
    PROVE  PipeInv'
<1> DEFINE d == [wr EXCEPT ![w] = NoWrite]
<1>1. d \in [Writer -> WriteCall] /\ Notify(rd, d)
  BY IdleCalls DEF PipeInv, ControlOK, WriteStores
<1>2. /\ UNCHANGED <<waiting_reads, waiters, closed_read, closed_write>>
      /\ waiting_reads = << >> /\ ~closed_write
  BY DEF WriteStores, WriteTurn
<1>3. ~ \E r \in Reader : waiters[r] = "eof"
  BY <1>2 DEF PipeInv, EofAfterData
<1>4. closed_read' \in BOOLEAN
  BY <1>2 DEF PipeInv, ControlOK
<1> HIDE DEF d
<1> QED
  BY <1>1, <1>2, <1>3, <1>4, NotifyKeeps

\* The close of the read end.
LEMMA CloseReadKeeps ==
    ASSUME PipeInv, CloseRead
    PROVE  PipeInv'
<1>1. wr \in [Writer -> WriteCall] /\ Notify(rd, wr)
  BY DEF PipeInv, ControlOK, CloseRead
<1>2. /\ UNCHANGED <<waiting_reads, waiters, closed_write>>
      /\ closed_read' \in BOOLEAN
      /\ buffer' = buffer \/ buffer' = << >>
  BY DEF CloseRead
<1> QED
  BY <1>1, <1>2, NotifyKeeps

\* The close of the write end: exactly the queued readers are told of the end of file, and
\* while any is queued the buffer is empty.
LEMMA CloseWriteKeeps ==
    ASSUME PipeInv, CloseWrite
    PROVE  PipeInv'
<1> USE DEF PipeInv
<1>1. wr \in [Writer -> WriteCall] /\ rd \in [Reader -> ReadCall] /\ Notify(rd, wr)
  BY DEF ControlOK, CloseWrite
<1>2. /\ rd' \in [Reader -> ReadCall] /\ wr' \in [Writer -> WriteCall] /\ pl' \in [Poller -> PollCall]
      /\ Woken({})
      /\ \A x \in Reader : rd'[x].pc \in {"ready", "blocked", "expired"}
                             <=> rd[x].pc \in {"ready", "blocked", "expired"}
  BY <1>1, NotifyWakes
<1>3. /\ ~closed_write /\ closed_write' = TRUE /\ UNCHANGED closed_read
      /\ buffer' = buffer \/ buffer' = << >>
      /\ waiting_reads' = << >>
      /\ waiters' = [r \in Reader |-> IF \E i \in DOMAIN waiting_reads : waiting_reads[i] = r
                                      THEN "eof" ELSE waiters[r]]
  BY DEF CloseWrite
<1>4. \A r \in Reader : waiters'[r] = IF waiters[r] = "waiting" THEN "eof" ELSE waiters[r]
  BY <1>3 DEF ReadersAccounted
<1>5. waiting_reads' \in Seq(Reader) /\ DOMAIN waiting_reads' = {}
  BY <1>3
<1>6. waiters' \in [Reader -> Pending]
  BY <1>3, <1>4, Zenon DEF ControlOK, Pending
<1>7. ControlOK'
  BY <1>2, <1>3, <1>5, <1>6 DEF ControlOK
<1>8. ReadersAccounted'
  <2>1. \A r \in Reader : waiters'[r] # "none" <=> rd'[r].pc \in {"ready", "blocked", "expired"}
    BY <1>2, <1>4 DEF ReadersAccounted
  <2>2. \A r \in Reader : waiters'[r] # "waiting"
    BY <1>4
  <2> QED
    BY <1>3, <1>5, <2>1, <2>2 DEF ReadersAccounted
<1>9. ASSUME NEW r \in Reader, waiters'[r] = "eof" PROVE closed_write' /\ buffer' = << >>
  <2>1. waiters[r] # "eof"
    BY <1>3 DEF EofAfterData
  <2>2. waiters[r] = "waiting"
    BY <1>4, <1>9, <2>1
  <2>3. waiting_reads # << >>
    BY <2>2 DEF ReadersAccounted
  <2> QED
    BY <1>3, <2>3 DEF ReadersAccounted
<1>10. EofAfterData'
  BY <1>9 DEF EofAfterData
<1> QED
  BY <1>2, <1>7, <1>8, <1>10, WokenKeeps

\* What a writer does without notifying anybody.
LEMMA QuietWriter ==
    ASSUME PipeInv, NEW w \in Writer,
           \/ \E n \in WriteLengths, nonblocking \in BOOLEAN : WriteStart(w, n, nonblocking)
           \/ WriteFails(w) \/ WriteWouldBlock(w)
    PROVE  PipeInv'
<1> USE DEF PipeInv
<1>1. UNCHANGED <<Shared, waiters, rd, pl>>
  BY DEF WriteStart, WriteFails, WriteWouldBlock, Shared, pipe
<1>2. /\ wr' \in [Writer -> WriteCall]
      /\ \A x \in Writer \ {w} : wr'[x] = wr[x]
      /\ wr'[w].pc = "blocked" => ~closed_read /\ ~closed_write /\ waiting_reads = << >> /\ ~Fits(wr'[w].len)
  <2>1. CASE \E n \in WriteLengths, nonblocking \in BOOLEAN : WriteStart(w, n, nonblocking)
    <3>1. PICK c \in WriteCall : c.pc = "called" /\ wr' = [wr EXCEPT ![w] = c]
      BY Zenon, <2>1, PipeAssumption DEF WriteStart, WriteCall
    <3> QED
      BY <3>1 DEF ControlOK
  <2>2. CASE WriteFails(w)
    BY <2>2, IdleCalls DEF WriteFails, ControlOK
  <2>3. CASE WriteWouldBlock(w)
    <3>1. ~closed_read /\ ~closed_write /\ waiting_reads = << >> /\ ~Fits(wr[w].len)
      BY <2>3 DEF WriteWouldBlock, WriteTurn
    <3> DEFINE c == IF wr[w].nonblocking THEN NoWrite ELSE [wr[w] EXCEPT !.pc = "blocked"]
    <3>2. c \in WriteCall /\ (c.pc = "idle" \/ c.len = wr[w].len)
      <4>1. CASE wr[w].nonblocking
        BY <4>1, IdleCalls
      <4>2. CASE ~wr[w].nonblocking
        BY <4>2 DEF ControlOK, WriteCall
      <4> QED
        BY <4>1, <4>2
    <3>3. wr' = [wr EXCEPT ![w] = c]
      BY <2>3 DEF WriteWouldBlock
    <3> HIDE DEF c
    <3> QED
      BY <3>1, <3>2, <3>3 DEF ControlOK
  <2> QED
    BY <2>1, <2>2, <2>3
<1>3. ControlOK'
  BY <1>1, <1>2 DEF ControlOK, Shared
<1>4. ReadersAccounted' /\ EofAfterData'
  BY <1>1 DEF ReadersAccounted, EofAfterData, Shared
<1>5. PollNotMissed'
  <2>1. \A end : Revents(end)' = Revents(end)
    BY <1>1 DEF Shared, Revents, Available, Size
  <2> QED
    BY <1>1, <2>1 DEF PollNotMissed
<1>6. NoLostWakeup'
  <2>1. \A n : Fits(n)' = Fits(n)
    BY <1>1 DEF Shared, Fits, Available, Size
  <2>2. \A r \in Reader : NothingToRead(r)' = NothingToRead(r)
    BY <1>1 DEF Shared, NothingToRead
  <2>3. ASSUME NEW x \in Writer, wr'[x].pc = "blocked"
        PROVE  ~closed_read' /\ ~closed_write' /\ waiting_reads' = << >> /\ ~Fits(wr'[x].len)
    BY <1>1, <1>2, <2>3 DEF NoLostWakeup, Shared
  <2>4. ASSUME NEW x \in Writer, wr'[x].pc = "blocked"
        PROVE  ~Fits(wr[x].len)'
    BY <2>1, <2>3, <2>4
  <2> QED
    BY <1>1, <2>2, <2>3, <2>4 DEF NoLostWakeup
<1> QED
  BY <1>3, <1>4, <1>5, <1>6

\* A poller's step: it goes to sleep on the generation it checked the pipe after.
LEMMA PollerKeeps ==
    ASSUME PipeInv, PollerStep
    PROVE  PipeInv'
<1> USE DEF PipeInv
<1>1. PICK p \in Poller : \/ PollFdGoes(p) \/ PollSnapshot(p) \/ PollCheck(p) \/ PollSleeps(p) \/ PollAgain(p)
                          \/ PollTimesOut(p) \/ \E end \in {"read", "write"} : PollStart(p, end)
  BY DEF PollerStep, PollerNext
<1>2. UNCHANGED <<Shared, waiters, rd, wr>>
  BY <1>1 DEF PollFdGoes, PollSnapshot, PollCheck, PollSleeps, PollAgain, PollTimesOut, PollStart, Shared, pipe
<1>3. PICK c \in PollCall :
          /\ pl' = [pl EXCEPT ![p] = c]
          /\ c.open /\ c.pc \in {"checked", "sleep"} /\ ~c.changed => Revents(c.end) = {}
  <2>1. CASE PollSnapshot(p)
    <3> DEFINE c == [pl[p] EXCEPT !.pc = "check", !.changed = FALSE]
    <3>1. pl' = [pl EXCEPT ![p] = c]
      BY Zenon, <2>1 DEF PollSnapshot, ControlOK, PollCall
    <3>2. c \in PollCall /\ (c.open /\ c.pc \in {"checked", "sleep"} /\ ~c.changed => Revents(c.end) = {})
      BY Zenon, <2>1 DEF ControlOK, PollCall
    <3> QED
      BY Zenon, <3>1, <3>2
  <2>2. CASE PollCheck(p)
    <3> DEFINE c == IF ~pl[p].open \/ Revents(pl[p].end) # {} THEN NoPoll ELSE [pl[p] EXCEPT !.pc = "checked"]
    <3>1. pl' = [pl EXCEPT ![p] = c]
      BY <2>2 DEF PollCheck, ControlOK, PollCall
    <3>2. c \in PollCall /\ (c.open /\ c.pc \in {"checked", "sleep"} /\ ~c.changed => Revents(c.end) = {})
      <4>1. CASE ~pl[p].open \/ Revents(pl[p].end) # {}
        BY <4>1, IdleCalls
      <4>2. CASE pl[p].open /\ Revents(pl[p].end) = {}
        BY <4>2 DEF ControlOK, PollCall
      <4> QED
        BY <4>1, <4>2
    <3> QED
      BY Zenon, <3>1, <3>2
  <2>3. CASE PollSleeps(p)
    <3> DEFINE c == [pl[p] EXCEPT !.pc = "sleep"]
    <3>1. pl' = [pl EXCEPT ![p] = c]
      BY <2>3 DEF PollSleeps, ControlOK, PollCall
    <3>2. c \in PollCall /\ (c.open /\ c.pc \in {"checked", "sleep"} /\ ~c.changed => Revents(c.end) = {})
      BY Zenon, <2>3 DEF PollSleeps, ControlOK, PollCall, PollNotMissed
    <3> QED
      BY Zenon, <3>1, <3>2
  <2>4. CASE PollAgain(p)
    <3> DEFINE c == [pl[p] EXCEPT !.pc = "snapshot"]
    <3>1. pl' = [pl EXCEPT ![p] = c]
      BY <2>4 DEF PollAgain, ControlOK, PollCall
    <3>2. c \in PollCall /\ (c.open /\ c.pc \in {"checked", "sleep"} /\ ~c.changed => Revents(c.end) = {})
      BY <2>4 DEF ControlOK, PollCall
    <3> QED
      BY Zenon, <3>1, <3>2
  <2>5. CASE PollTimesOut(p)
    BY Zenon, <2>5, IdleCalls DEF PollTimesOut
  <2>6. CASE \E end \in {"read", "write"} : PollStart(p, end)
    BY Zenon, <2>6 DEF PollStart, PollCall
  <2>7. CASE PollFdGoes(p)
    <3> DEFINE c == [pl[p] EXCEPT !.open = FALSE]
    <3>1. pl' = [pl EXCEPT ![p] = c]
      BY <2>7 DEF PollFdGoes, ControlOK, PollCall
    <3>2. c \in PollCall /\ ~c.open
      BY Zenon DEF ControlOK, PollCall
    <3> QED
      BY Zenon, <3>1, <3>2
  <2> QED
    BY <1>1, <2>1, <2>2, <2>3, <2>4, <2>5, <2>6, <2>7
<1>4. ControlOK'
  BY <1>2, <1>3 DEF ControlOK, Shared
<1>5. ReadersAccounted' /\ EofAfterData'
  BY <1>2 DEF ReadersAccounted, EofAfterData, Shared
<1>6. NoLostWakeup'
  <2>1. \A n : Fits(n)' = Fits(n)
    BY <1>2 DEF Shared, Fits, Available, Size
  <2>2. \A r \in Reader : NothingToRead(r)' = NothingToRead(r)
    BY <1>2 DEF Shared, NothingToRead
  <2> QED
    BY <1>2, <2>1, <2>2 DEF NoLostWakeup, Shared
<1>7. PollNotMissed'
  <2>1. \A end : Revents(end)' = Revents(end)
    BY <1>2 DEF Shared, Revents, Available, Size
  <2> QED
    BY Zenon, <1>3, <2>1 DEF PollNotMissed, ControlOK
<1> QED
  BY <1>4, <1>5, <1>6, <1>7

--------------------------------------------------------------------------------
\* The invariant holds initially.
LEMMA PipeInit == Init => PipeInv
<1> SUFFICES ASSUME Init PROVE PipeInv
  OBVIOUS
<1>1. waiting_reads \in Seq(Reader) /\ DOMAIN waiting_reads = {}
  BY DEF Init
<1>2. ControlOK
  BY Zenon, <1>1, IdleCalls DEF Init, ControlOK, Pending
<1>3. \A r \in Reader : rd[r].pc = "idle" /\ waiters[r] = "none"
  BY IdleCalls DEF Init
<1>4. ReadersAccounted
  BY <1>1, <1>3 DEF Init, ReadersAccounted
<1>5. NoLostWakeup
  BY <1>3, IdleCalls DEF Init, NoLostWakeup
<1>6. PollNotMissed
  BY IdleCalls DEF Init, PollNotMissed
<1>7. EofAfterData
  BY <1>3 DEF EofAfterData
<1> QED
  BY <1>2, <1>4, <1>5, <1>6, <1>7 DEF PipeInv

\* Every step keeps it.
LEMMA PipeStep == PipeInv /\ [Next]_vars => PipeInv'
<1> SUFFICES ASSUME PipeInv, [Next]_vars PROVE PipeInv'
  OBVIOUS
<1>1. CASE ReaderStep
  <2>1. PICK r \in Reader : \/ \E n \in ReadLengths, timed \in BOOLEAN : ReadStart(r, n, timed)
                            \/ ReadRefused(r) \/ ReadTakes(r) \/ ReadEof(r) \/ ReadExpires(r)
                            \/ ReadDrains(r) \/ ReadWaits(r) \/ Deregister(r)
    BY <1>1 DEF ReaderStep, ReaderNext, ReadGivesUp, ReadTimesOut
  <2> QED
    BY <2>1, QuietReader, DrainKeeps, WaitKeeps, DeregisterKeeps
<1>2. CASE WriterStep
  <2>1. PICK w \in Writer : \/ \E n \in WriteLengths, nonblocking \in BOOLEAN : WriteStart(w, n, nonblocking)
                            \/ WriteFails(w) \/ WriteWouldBlock(w)
                            \/ WriteHandsOver(w) \/ WriteStores(w)
    BY <1>2 DEF WriterStep, WriterNext
  <2> QED
    BY <2>1, QuietWriter, HandOverKeeps, StoreKeeps
<1>3. CASE CloseRead
  BY <1>3, CloseReadKeeps
<1>4. CASE CloseWrite
  BY <1>4, CloseWriteKeeps
<1>5. CASE PollerStep
  BY <1>5, PollerKeeps
<1>6. CASE UNCHANGED vars
  BY <1>6, ZenonT(60) DEF vars, PipeInv, ControlOK, ReadersAccounted, NoLostWakeup, NothingToRead, Fits, Available,
     Size, PollNotMissed, Revents, EofAfterData
<1> QED
  BY <1>1, <1>2, <1>3, <1>4, <1>5, <1>6, NextSplit

\* The conjunction is invariant.
LEMMA PipeAlways == Spec => []PipeInv
BY PipeInit, PipeStep, PTL DEF Spec

\* A write never meets a stale id, and no reader waits behind buffered data or is queued
\* twice, for any number of readers, writers and pollers of a pipe.
THEOREM QueueAgreesWithRegistrations == Spec => []ReadersAccounted
<1>1. PipeInv => ReadersAccounted
  BY DEF PipeInv
<1> QED
  BY <1>1, PipeAlways, PTL

\* Readers and writers never sleep through what they wait for.
THEOREM NobodySleepsThroughAChange == Spec => []NoLostWakeup
<1>1. PipeInv => NoLostWakeup
  BY DEF PipeInv
<1> QED
  BY <1>1, PipeAlways, PTL

\* Pollers never sleep through an event.
THEOREM PollersSeeEveryEvent == Spec => []PollNotMissed
<1>1. PipeInv => PollNotMissed
  BY DEF PipeInv
<1> QED
  BY <1>1, PipeAlways, PTL

\* A reader gets an end-of-file result only when there is no data left and none can come.
THEOREM EofComesLast == Spec => []EofAfterData
<1>1. PipeInv => EofAfterData
  BY DEF PipeInv
<1> QED
  BY <1>1, PipeAlways, PTL
================================================================================
