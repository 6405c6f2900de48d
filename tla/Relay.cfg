SPECIFICATION Spec
CONSTANTS
    Cnxs = {c1, c2, c3}
    NoCnx = NoCnx
    Names = {n1, n2}
    NoName = NoName
    InitTypes = {"video"}
    CodedType = "coded"
    Modes = {"Echo", "Relay", "Media"}
    Sids = {0, 4}
    MediaSids = {0}
    SingleStream = TRUE
    ConnectBound = 4
    FrameBound = 2
    MediaBound = 2
    CommandBound = 3
    EndBound = 1
SYMMETRY Symmetric
INVARIANTS
    StreamsMirror
    NothingOutlives
    OnlyPublishedToPlayers
    SubscribersPrimed
