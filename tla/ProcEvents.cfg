SPECIFICATION Spec
CONSTANTS
    MaxPid = 2
    ParentsOf <- MCAnyParent
    ExitVia = {"kernel"}
    TtlExpires = FALSE
    Stubborn = {}
    Killer = {k1}
    KillPids <- MCKillPids
    KillSignals = {"STOP", "CONT", "KILL"}
    Waiter = {w1, w2}
    WaitPids <- MCAnyChild
    WaitFlags <- MCJobFlags
    Mover = {}
    MaxEvents = 1
    MayTerminate = FALSE
SYMMETRY Threads
INVARIANTS WaiterNotStranded
CHECK_DEADLOCK FALSE
