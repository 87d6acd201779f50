SPECIFICATION Spec
CONSTANTS
    MaxPid = 2
    ParentsOf <- MCAnyParent
    ExitVia = {"kernel"}
    TtlExpires = TRUE
    Stubborn = {2}
    Killer = {k1}
    KillPids = {2}
    KillSignals = {"STOP", "CONT", "TERM"}
    Waiter = {w1}
    WaitPids = {}
    WaitFlags = {}
    Mover = {}
    MaxEvents = 1
    MayTerminate = TRUE
PROPERTIES ImplementsLifecycle TerminateKills
CHECK_DEADLOCK FALSE
