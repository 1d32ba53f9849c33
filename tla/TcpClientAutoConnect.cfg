CONSTANTS
    s1 = s1
    s2 = s2
    s3 = s3
    k1 = k1
    k2 = k2
    Client = Client
    Game = Game
    None = None
    Sockets <- ThreeSockets
    Connectors <- TwoConnectors
    Threads <- AllThreads
    Clients <- OneClient
    EventModes <- InlineOnly
    RetryConnect = TRUE
    MaxStarts <- TwoStarts
    MaxData = 1

SPECIFICATION FairSpec
PROPERTY AutoConnects
CHECK_DEADLOCK FALSE
