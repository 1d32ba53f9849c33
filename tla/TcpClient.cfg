CONSTANTS
    s1 = s1
    s2 = s2
    s3 = s3
    k1 = k1
    k2 = k2
    Client = Client
    Game = Game
    None = None
    Sockets <- ThreeSockets
    Connectors <- TwoConnectors
    Threads <- AllThreads
    Clients <- OneClient
    EventModes <- BothModes
    RetryConnect = TRUE
    MaxStarts <- TwoStarts
    MaxData = 1

SPECIFICATION FairSpec
INVARIANT SocketOutlivesUse
INVARIANT ClosedIsQuiet
PROPERTY CallsReturn
PROPERTY RetriesUntilConnected
PROPERTY LossIsReported
CHECK_DEADLOCK FALSE
