SPECIFICATION Spec
CONSTANTS
    ByteBits = 1
    MemWords = 2
    JumpLimit = 4
    Snaplen = 7
    Languages <- MCLanguages
    LostChecks = FALSE
    Optimize = TRUE
INVARIANTS ProgramValid MeaningKept NothingUndefined LoopEnds
CHECK_DEADLOCK FALSE
