CONSTANTS
    Passes = {"liveness"}
    MaxWidth = 3
SPECIFICATION Spec
INVARIANT LiveInIsReported
CHECK_DEADLOCK FALSE
