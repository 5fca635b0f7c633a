SPECIFICATION FairSpec
CONSTANTS
    low = low
    low2 = low2
    high = high
    Event = {low, high}
    NoEvent = NoEvent
    priority <- MCPriority
    Half = 4
    Thread = {owner, producer, workerThread}
    Owner = owner
    Closers = {owner}
    Producers = {producer, workerThread}
    Worker = workerThread
    Waiters = {}
    Result = {"S_OK", "E_FAIL"}
    DispatchMayFail = FALSE
    MayTimeOut = FALSE
PROPERTIES HighestPriorityIsServed ShutdownReturns
