SPECIFICATION Spec
CONSTANTS
    f0 = f0
    f1 = f1
    Flows = {f0, f1}
    Flow0 = f0
    Sizes = {1}
    MaxFrames = 1
    MaxOctets = 1
    Senders = {s1, s2}
    Items <- MCItems
    Fallback = "Drop"
    InboundBound = 0
    OutboundBound = 3
    FlowRequestBound = 0
    ResetBound = 1
SYMMETRY SenderSymmetry
INVARIANTS
    StreamPerFlow
    SentOnceInOrder
PROPERTIES
    ResetIsFinal
CHECK_DEADLOCK FALSE
