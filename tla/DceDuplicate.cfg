CONSTANTS
    Passes = {"dce"}
    MaxWidth = 3
SPECIFICATION Spec
INVARIANT ArgumentsStillDefined
CHECK_DEADLOCK FALSE
