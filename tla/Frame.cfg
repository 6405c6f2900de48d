SPECIFICATION Spec
CONSTANTS
    ByteRange = 8
    MaxPayload = 2
    Sids = {s0, s4}
    Frames <- MCFrames
    BadLengths = {0, 3}
    WriteBound = 2
    StopBound = 1
SYMMETRY Symmetric
INVARIANTS
    FramesExact
CHECK_DEADLOCK FALSE
