SPECIFICATION SuiteSpec
CONSTANTS
    State = {"mockState0", "mockState1", "managedState0", "managedState1"}
    Event = {"mockEvent", "testee", "managedEvent", "managedEvent1", "keptEvent"}
    None = "nullptr"
    Kind <- MCKind
    Holdable = {}
    ExitOnShutdown = {}
    NestFrom = {}
    Depth = 1
INVARIANTS AllTestsPass
