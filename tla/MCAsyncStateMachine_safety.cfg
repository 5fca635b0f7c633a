SPECIFICATION Spec
CONSTANTS
    low = low
    low2 = low2
    high = high
    Event = {low, low2, high}
    NoEvent = NoEvent
    priority <- MCPriority
    Half = 4
    Thread = {owner, producer, workerThread}
    Owner = owner
    Closers = {owner, workerThread}
    Producers = {producer, workerThread}
    Worker = workerThread
    Waiters = {producer}
    Result = {"S_OK", "E_FAIL"}
    DispatchMayFail = TRUE
    MayTimeOut = TRUE
INVARIANTS NoLostWakeup ShutdownDrains NoWorkerAfterShutdown ReadyMeansEntered QueueAscends
PROPERTIES ChannelSpec
