CONSTANTS
    c1 = c1
    c2 = c2
    Listener = Listener
    Game = Game
    Clients <- TwoClients
    Threads <- TwoClientsThreads
    EventModes <- InlineOnly
    MaxStarts <- OneStart
    MaxData = 1
    DebounceLimit = 2

SPECIFICATION FairSpec
INVARIANT LossIsLast
PROPERTY SilentOnceClosed
PROPERTY CloseReturns
CHECK_DEADLOCK FALSE
