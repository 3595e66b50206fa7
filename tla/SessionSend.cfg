SPECIFICATION FairSpec
CONSTANTS
    MaxSendQueue = 2
    MaxMessages = 5
    MaxPackets = 3
    Sizes = {0, 32767, 32768, 65540}
    StrayLengths <- Stray
INVARIANTS
    TypeOK
    SendDiscipline
    ReadLoop
    FramingKept
PROPERTIES
    ChannelSpec
    SentOrClosed
    ClosedComesToRest
CHECK_DEADLOCK FALSE
