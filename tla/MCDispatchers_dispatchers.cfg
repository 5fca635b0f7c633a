SPECIFICATION Spec
CONSTANTS
    w1 = w1
    w2 = w2
    t1 = t1
    t2 = t2
    Worker = {w1, w2}
    Timer = {t1, t2}
    Code = {"S_OK", "E_FAIL"}
    None = None
    HandleMayFail = TRUE
    MayTimeOut = TRUE
SYMMETRY Symmetry
CHECK_DEADLOCK FALSE
INVARIANTS WorkerUsesItsDispatcher WaitedHandleIsOpen ExitCodeIsTrue
