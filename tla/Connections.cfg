CONSTANTS
    s1 = s1
    s2 = s2
    s3 = s3
    Sockets <- ThreeSockets
    Messages <- UpdateOrOther
    MaxPending = 2
    bAutoReconnect = TRUE
    MaxStarts = 1
    f1 = f1
    f2 = f2
    NoSocket = NoSocket
    FSockets <- TwoSockets
    RetryTls = TRUE
    MaxTlsStarts = 2
    MaxTlsLosses = 2
    p1 = p1
    p2 = p2
    Nobody = Nobody
    TlsPeers <- TwoPeers
    Readers <- OneReader
    MaxServerStarts = 2

SPECIFICATION MCSpec
INVARIANT DashboardKeepsUp
INVARIANT OneReconnect
INVARIANT SocketsAreAccountedFor
INVARIANT ToldInTurn
INVARIANT SocketOutlivesHandshake
INVARIANT TlsClosedIsQuiet
INVARIANT TlsServerClosesAll
PROPERTY UpdatesAreCurrent
PROPERTY Reconnects
PROPERTY AttemptConnects
PROPERTY RetriesUntilSecure
PROPERTY EveryPeerIsAnswered
CHECK_DEADLOCK FALSE
