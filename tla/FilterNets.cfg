SPECIFICATION Spec
CONSTANTS
    ByteBits = 1
    MemWords = 2
    JumpLimit = 4
    Snaplen = 7
    Languages <- NetLanguages
    LostChecks = FALSE
    Optimize = TRUE
INVARIANTS MeaningKept
CHECK_DEADLOCK FALSE
