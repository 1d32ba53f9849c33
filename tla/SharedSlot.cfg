CONSTANTS
    p1 = p1
    p2 = p2
    Peers <- TwoPeers
    CounterBase = 4
    MaxMessages = 4
    MaxStarts = 2

SPECIFICATION FairSpec
INVARIANT UnreadIsNoticed
INVARIANT UnmappedIsUnused
PROPERTY NoticeableIsDelivered
PROPERTY ImplementsChannel
CHECK_DEADLOCK FALSE
