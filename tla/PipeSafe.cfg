SPECIFICATION Spec
CONSTANTS
    Reader = {r1, r2}
    Writer = {w1, w2}
    Poller = {p1}
    Capacity = 2
    PipeBuf = 1
    ReadLengths = {1}
    WriteLengths = {0, 1, 3}
    MaxBytes = 3
    MaxChunks = 2
SYMMETRY Threads
INVARIANTS TypeOK InOrder WithinCapacity ReadersAccounted NoLostWakeup PollNotMissed EofAfterData
CHECK_DEADLOCK FALSE
