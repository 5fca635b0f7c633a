SPECIFICATION FairSpec
CONSTANTS
    once = once
    every = every
    t1 = t1
    t2 = t2
    Event = {once, every}
    Delayed = {once}
    Periodic = {every}
    Thread = {t1, t2}
    NoEvent = NoEvent
    NoCaller = NoCaller
    DispatchMayFail = TRUE
    MayTimeOut = TRUE
CHECK_DEADLOCK FALSE
INVARIANTS PendingHasThread IterationIsStable
PROPERTIES PromiseSpec RemovedTimersEnd TimersFire
