SPECIFICATION Spec
CONSTANT
    Captures <- MCCaptures
INVARIANTS
    DocumentedMeaning
    OffsetsFollowHeaders
CHECK_DEADLOCK FALSE
