SPECIFICATION Spec
CONSTANTS
    Pid = {p1, p2}
    Kernel = Kernel
    NoPid = NoPid
    MaxFds = 2
    Stdio = 1
    MaxDesc = 3
SYMMETRY Processes
INVARIANTS TypeOK RefCountExact NoDanglingDescriptor LastCloseCloses ExitedOwnsNothing
CHECK_DEADLOCK FALSE
