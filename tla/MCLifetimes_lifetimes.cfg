SPECIFICATION Spec
CONSTANTS
    s = s
    a = a
    k = k
    e = e
    None = None
    State <- MCState
    Event <- MCEvent
    Kind <- MCKind
    Holdable = {s}
    ExitOnShutdown <- MCExitOnShutdown
    NestFrom = {"entry", "onStateChanged", "postHandle"}
    Depth = 2
INVARIANTS NothingDeletedIsRead ReferencesAreOwned NothingLeaks ManagedPointsToNative
CHECK_DEADLOCK FALSE
