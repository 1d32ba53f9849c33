CONSTANTS
    c1 = c1
    c2 = c2
    Listener = Listener
    Game = Game
    Clients <- TwoClients
    Threads <- TwoClientsThreads
    EventModes <- GameThreadOnly
    MaxStarts <- TwoStarts
    MaxData = 0
    DebounceLimit = 2

SPECIFICATION FairSpec
INVARIANT SocketOutlivesUse
INVARIANT ClosedIsQuiet
INVARIANT ServedIsListed
INVARIANT ListMatchesHeard
PROPERTY LossIsReported
CHECK_DEADLOCK FALSE
