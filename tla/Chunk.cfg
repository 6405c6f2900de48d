SPECIFICATION Spec
CONSTANTS
    Csids = {2, 3}
    Ext = 2
    StampRange = 4
    kDefaultChunkSize = 2
    kMaxMessageSize = 4
    kMaxOutstanding = 5
    kMaxWritten = 5
    ControlLength = 2
    Lengths = {0, 2, 3}
    AnyLengths = {4, 5, 6}
    Stamps = {0, 1, 3}
    Sizes = {1}
    Msids = {0, 1}
    MessageBound = 3
    ChunkBound = 4
INVARIANTS
    DecodedAsSent
    BudgetExact
CHECK_DEADLOCK FALSE
