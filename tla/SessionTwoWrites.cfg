SPECIFICATION Spec
CONSTANTS
    MaxSendQueue = 2
    MaxMessages = 4
    MaxPackets = 1
    Sizes = {0, 32767, 32768, 65540}
    StrayLengths <- Stray
INVARIANT
    OneWriteAtATime
CHECK_DEADLOCK FALSE
