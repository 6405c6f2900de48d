SPECIFICATION Spec
CONSTANTS
    Subjects = {"value", "octets", "message", "media", "gap", "backoff"}
    ByteRange = 16
    U16 = 1
    U32 = 2
    F64 = 1
    kMaxDepth = 2
    MaxPayload = 200
    kTypeCommandAmf0 = 4
    FourccOctets = 2
    DelayRange = 64
    MaxExponent = 5
    Timestamps = {0, 2, 3, 7}
    TimestampRange = 8
    JumpThreshold = 2
    Leaves <- MCLeaves
    Keys <- MCKeys
    Octets = {0, 1, 2, 3, 8, 9, 10, 12}
    Messages <- MCMessages
    Strings <- MCStrings
    FirstOctets = {18, 23, 39, 87, 145, 146, 147, 150, 151, 161, 175, 47}
    MediaOctets = {0, 1, 7, 255}
    BuildBound = 3
    OctetBound = 6
    MediaBound = 8
    FrameBound = 5
    AttemptBound = 8
INVARIANTS
    Amf0Faithful
    MessageCrosses
    LossOnlyOfCoded
    BackoffExact
    GapExact
CHECK_DEADLOCK FALSE
