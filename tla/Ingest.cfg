SPECIFICATION FairIngestSpec
CONSTANTS
    Clients = {c1, c2}
    NoClient = NoClient
    MaxAttempts = 2
    Commands = {"connect", "createStream", "publish"}
    Greeting <- MCGreeting
    Media = {"media"}
    FailureBound = 2
    ReconnectBound = 2
    SendBound = 1
    Sessions = {s1, s2}
    NoSession = NoSession
    StartBound = 2
INVARIANTS
    OneNetworkThread
    DropSignalExact
    ConnectedMeansUp
    AnnouncedWhenServing
    GatewayQuiet
PROPERTIES
    GatewayStops
    IsLink
    DropHandled
CHECK_DEADLOCK FALSE
