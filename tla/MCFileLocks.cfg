CONSTANTS
    Owner <- MCOwner
    Target <- MCTarget
    TargetOf <- MCTargetOf
    Thread = {t1, t2}
    None = None
SPECIFICATION Spec
INVARIANTS TypeOK ExclusiveIsAlone BlockedWriterHasConflict
PROPERTIES OwnReleaseOnly
CHECK_DEADLOCK FALSE
