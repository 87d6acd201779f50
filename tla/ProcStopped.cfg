SPECIFICATION Spec
CONSTANTS
    MaxPid = 1
    ParentsOf <- MCAnyParent
    ExitVia = {"driver", "kernel"}
    TtlExpires = FALSE
    Stubborn = {}
    Killer = {k1}
    KillPids = {1}
    KillSignals = {"STOP", "CONT"}
    Waiter = {}
    WaitPids = {}
    WaitFlags = {}
    Mover = {}
    MaxEvents = 1
    MayTerminate = TRUE
PROPERTIES TerminateSparesNone
CHECK_DEADLOCK FALSE
