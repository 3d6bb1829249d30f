SPECIFICATION Spec
CONSTANTS
    HDR = 2
    Size <- MCSize
    OutSegs = 2
    OutLong = 1
    Poison = Poison
    TooLong = TooLong
PROPERTIES
    InboundFifo
    OutboundFifo
    LossEndsBridge
    GracefulCloseHeard
    InboundDelivered
CHECK_DEADLOCK FALSE
