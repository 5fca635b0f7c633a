SPECIFICATION Spec
CONSTANTS
    Arguments <- MCArguments
    TextLimit = 5
INVARIANTS AcceptedOptionsAreValid OutputIsPreprocessed ColumnIsOfOutput
CHECK_DEADLOCK FALSE
