CONSTANTS
    Passes = {"clone"}
    MaxWidth = 3
SPECIFICATION Spec
INVARIANT EqHashesAlike
CHECK_DEADLOCK FALSE
