SPECIFICATION Spec
CONSTANT Graphs <- MCGraphs
INVARIANTS WalksCorrect TreeCorrect LoopTreeCorrect PostTreeCorrect ControlCorrect
PROPERTY AllFinish
CHECK_DEADLOCK FALSE
