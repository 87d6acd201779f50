SPECIFICATION FairSpec
CONSTANTS
    MaxPid = 2
    ParentsOf <- MCAnyParent
    ExitVia = {"driver", "kernel"}
    TtlExpires = TRUE
    Stubborn = {}
    Killer = {}
    KillPids = {}
    KillSignals = {}
    Waiter = {w1, w2}
    WaitPids = {}
    WaitFlags = {}
    Mover = {}
    MaxEvents = 1
    MayTerminate = FALSE
PROPERTIES ZombieCollected WaitpidReturns
CHECK_DEADLOCK FALSE
