SPECIFICATION FairSpec
CONSTANTS
    MessageKinds = {"connect", "createStream", "publish", "play", "command", "unparsed", "media", "control", "malformed"}
    MessageLength = 2
    kAckWindow = 3
    AckRange = 4
    MessageBound = 3
INVARIANTS
    HandshakeAgrees
    DispatchExact
    AckExact
    ClosedOnce
PROPERTIES
    MessagesHandled
CHECK_DEADLOCK FALSE
