SPECIFICATION Spec
CONSTANTS
    o1 = o1 o2 = o2 o3 = o3 n1 = n1 b1 = b1 b2 = b2
    OpKey = {o1, o2, o3, n1}
    BlockKey = {b1, b2}
    MaxErased = 1
    Inputs <- MCInputs
INVARIANTS WorklistSound AllConverted ArgumentsFirst
PROPERTIES DefsFirst Ends
CHECK_DEADLOCK FALSE
