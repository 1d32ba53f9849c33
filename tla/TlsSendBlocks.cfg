CONSTANTS
    a = a
    b = b
    Ends <- TwoEnds
    SpeakerSets <- BothSpeak
    UnitsPerMessage = 2
    MessagesPerEnd = 2
    WireSize = 1
    StartupGrace = 1
    ReadableLimit = 2

SPECIFICATION FairConnectionSpec
PROPERTY SendReturns
CHECK_DEADLOCK FALSE
