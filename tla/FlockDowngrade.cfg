CONSTANTS
    Owner <- MCOwner
    Target <- MCTarget
    TargetOf <- MCTargetOf
    Thread = {t1, t2}
    None = None
SPECIFICATION Spec
INVARIANTS BlockedReaderHasConflict
CHECK_DEADLOCK FALSE
