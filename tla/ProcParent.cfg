SPECIFICATION Spec
CONSTANTS
    MaxPid = 3
    ParentsOf <- MCAnyParent
    ExitVia = {"driver", "kernel"}
    TtlExpires = TRUE
    Stubborn = {}
    Killer = {}
    KillPids = {}
    KillSignals = {}
    Waiter = {}
    WaitPids = {}
    WaitFlags = {}
    Mover = {}
    MaxEvents = 1
    MayTerminate = FALSE
INVARIANTS NoDeadParent
CHECK_DEADLOCK FALSE
