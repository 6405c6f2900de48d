SPECIFICATION Spec
CONSTANTS
    Cnxs = {c1, c2, c3}
    NoCnx = NoCnx
    Names = {n1, n2}
    NoName = NoName
    InitTypes = {"video"}
    CodedType = "coded"
    Modes = {"Media"}
    Sids = {0}
    MediaSids = {0}
    SingleStream = FALSE
    ConnectBound = 3
    FrameBound = 1
    MediaBound = 1
    CommandBound = 3
    EndBound = 0
SYMMETRY Symmetric
INVARIANTS
    NoStaleRouting
CHECK_DEADLOCK FALSE
