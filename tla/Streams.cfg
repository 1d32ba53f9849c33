CONSTANTS
    ByteBase = 3
    Setups <- AllSetups
    MaxMessages = 3
    MaxRecords = 2
    MaxLogTime = 2
    MaxReplays = 2
    a = a
    b = b
    Ends <- TwoEnds
    SpeakerSets <- OneSpeaks
    UnitsPerMessage = 2
    MessagesPerEnd = 1
    WireSize = 1
    StartupGrace = 1
    ReadableLimit = 2

SPECIFICATION MCSpec
INVARIANT BytesConserved
INVARIANT StreamIntact
INVARIANT TlsSocketOutlivesUse
PROPERTY ImplementsChannel
PROPERTY ReplaysTheLog
PROPERTY ClosedEndIsQuiet
PROPERTY LossIsNoticed
CHECK_DEADLOCK FALSE
