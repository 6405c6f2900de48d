SPECIFICATION Spec
CONSTANTS
    MaxMessages = 2
    Timestamps = {0}
    TimestampRange = 2
    JumpThreshold = 1
    Sessions = {s1, s2}
    NoSession = NoSession
    Kinds = {"SequenceHeader", "Inter"}
    FrameBound = 3
    StartBound = 1
INVARIANTS
    MediaAfterPlay
CHECK_DEADLOCK FALSE
