SPECIFICATION Spec
CONSTANTS
    top = top
    mid = mid
    leaf = leaf
    aside = aside
    t1 = t1
    t2 = t2
    Thread = {t1, t2}
    State = {top, mid, leaf, aside}
    NoState = NoState
    NoThread = NoThread
    Context = Context
    master <- MCMaster
    Initial = {top, aside}
    Moves <- MCDisciplinedMoves
    ExitOnShutdown = {mid}
    ExitResult = {"S_OK"}
    EntryResult = {"S_OK", "S_FALSE", "E_FAIL"}
    Overlapping = {"handleEvent"}
SYMMETRY ThreadSymmetry
INVARIANTS ConfigurationIsChain
PROPERTIES ExitPairsWithEntry
