SPECIFICATION Spec
CONSTANTS
    MaxPid = 3
    ParentsOf <- MCAnyParent
    ExitVia = {"kernel"}
    TtlExpires = TRUE
    Stubborn = {}
    Killer = {}
    KillPids = {}
    KillSignals = {}
    Waiter = {w1}
    WaitPids <- MCWaitPids
    WaitFlags = {{}}
    Mover = {}
    MaxEvents = 1
    MayTerminate = FALSE
INVARIANTS TypeOK ZombieAccounted WaiterNotStranded
PROPERTIES ChildrenAdopted
CHECK_DEADLOCK FALSE
