SPECIFICATION FairSpec
CONSTANTS
    MaxMessages = 2
    Timestamps = {0}
    TimestampRange = 2
    JumpThreshold = 1
    Sessions = {s1, s2}
    NoSession = NoSession
    Kinds = {"SequenceHeader", "Inter"}
    FrameBound = 3
    StartBound = 2
INVARIANTS
    PointersLive
    CodedOnceInOrder
    InitReachesPlayer
    StoppedIsQuiet
PROPERTIES
    IsLossyQueue
    NetworkNotWedged
    StopReturns
CHECK_DEADLOCK FALSE
