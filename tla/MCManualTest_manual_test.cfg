SPECIFICATION Spec
CONSTANTS
    o1 = o1
    o2 = o2
    o3 = o3
    Object = {o1, o2, o3}
    Name = {"Initial state", "A"}
    InitialName = "Initial state"
    None = None
    ContextOwner = ContextOwner
    EventLimit = 2
INVARIANTS ViewIsCurrent MasterIsAskedForNewStates
SYMMETRY Addresses
