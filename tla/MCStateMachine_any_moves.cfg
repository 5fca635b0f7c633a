SPECIFICATION FairSpec
CONSTANTS
    top = top
    mid = mid
    leaf = leaf
    aside = aside
    t1 = t1
    t2 = t2
    Thread = {t1, t2}
    State = {top, mid, aside}
    NoState = NoState
    NoThread = NoThread
    Context = Context
    master <- MCMaster
    Initial = {top, mid}
    Moves <- MCAnyMoves
    ExitOnShutdown = {mid}
    ExitResult = {"S_OK", "S_FALSE", "E_FAIL"}
    EntryResult = {"S_OK", "S_FALSE", "E_FAIL"}
    Overlapping = {"handleEvent"}
INVARIANTS CapturedStateIsCurrent CallbacksExclusive OnlyChainEntered TimersOfCurrentChain
PROPERTIES ReportsFormPath LockIsReleased
