SPECIFICATION FairBindingsSpec
CONSTANTS
    f0 = f0
    f1 = f1
    Flows = {f0, f1}
    Flow0 = f0
    Sizes = {1}
    MaxFrames = 1
    MaxOctets = 1
    Senders = {s1}
    Items <- MCItems
    Fallback = "Stream"
    InboundBound = 1
    OutboundBound = 1
    FlowRequestBound = 1
    ResetBound = 0
    Listeners = {l1, l2}
    NoListener = NoListener
    ListenerBound = 2
INVARIANTS
    JavaExact
PROPERTIES
    HandoversComplete
CHECK_DEADLOCK FALSE
