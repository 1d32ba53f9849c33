CONSTANTS
    s1 = s1
    s2 = s2
    s3 = s3
    Sockets <- ThreeSockets
    Messages <- OneMessage
    MaxPending = 2
    bAutoReconnect = TRUE
    MaxStarts = 1

SPECIFICATION Spec
INVARIANT NeverStranded
CHECK_DEADLOCK FALSE
