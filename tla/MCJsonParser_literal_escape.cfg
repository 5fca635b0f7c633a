SPECIFICATION Spec
CONSTANTS
    Arguments <- MCRemoveSpace
    TextLimit = 5
INVARIANTS LiteralsAreKept
CHECK_DEADLOCK FALSE
