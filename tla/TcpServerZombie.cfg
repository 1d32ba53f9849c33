CONSTANTS
    c1 = c1
    c2 = c2
    Listener = Listener
    Game = Game
    Clients <- OneClient
    Threads <- OneClientThreads
    EventModes <- GameThreadOnly
    MaxStarts <- OneStart
    MaxData = 0
    DebounceLimit = 2

SPECIFICATION Spec
INVARIANT ConnectedIsConnected
CHECK_DEADLOCK FALSE
