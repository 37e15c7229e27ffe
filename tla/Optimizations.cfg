CONSTANTS
    Passes = {"sccp", "dce", "simplify_cfg", "mem2reg", "liveness", "llvm", "clone", "fold"}
    MaxWidth = 3
SPECIFICATION Spec
INVARIANTS
    SemanticsPreserved
    OperandsKnown
    CfgSimplified
    WalkBalanced
    LivenessCorrect
    ConversionSucceeds
    CloneCorrect
    EquivalenceCorrect
    FoldsAreRight
CHECK_DEADLOCK FALSE
