SPECIFICATION Spec
CONSTANTS
    f0 = f0
    f1 = f1
    Flows = {f0, f1}
    Flow0 = f0
    Sizes = {1, 2}
    MaxFrames = 2
    MaxOctets = 3
    Senders = {}
    Items = {}
    Fallback = "Stream"
    InboundBound = 3
    OutboundBound = 0
    FlowRequestBound = 2
    ResetBound = 0
INVARIANTS
    DeliveryExact
    BufferAccounting
    HandlerOnceAndFirst
CHECK_DEADLOCK FALSE
