CONSTANTS
    ByteBase = 3
    Setups <- TcpSetup
    MaxMessages = 3

SPECIFICATION StreamSpec
INVARIANT DeliveredInOrder
CHECK_DEADLOCK FALSE
