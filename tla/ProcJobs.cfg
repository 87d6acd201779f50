SPECIFICATION Spec
CONSTANTS
    MaxPid = 4
    ParentsOf <- MCShell
    ExitVia = {"kernel"}
    TtlExpires = FALSE
    Stubborn = {}
    Killer = {k1}
    KillPids = {4}
    KillSignals = {"STOP"}
    Waiter = {}
    WaitPids = {}
    WaitFlags = {}
    Mover = {2}
    MaxEvents = 1
    MayTerminate = FALSE
PROPERTIES OrphanedGroupHungUp
CHECK_DEADLOCK FALSE
