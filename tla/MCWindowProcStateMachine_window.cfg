SPECIFICATION FairSpec
CONSTANTS
    low = low
    high = high
    Event = {low, high}
    NoEvent = NoEvent
    priority <- MCPriority
    Half = 4
    Thread = {uiThread, producer}
    UI = uiThread
    Result = {"S_OK", "E_FAIL"}
    QueueLimit = 3
INVARIANTS QueuedHasMessage EntryFirst ReadyMeansEntered
PROPERTIES ChannelSpec HighestPriorityIsServed AppIsServed
