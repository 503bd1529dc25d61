SPECIFICATION FairSpec
CONSTANTS
    Handlers = {"connect", "text", "binary", "disconnect"}
    Keeper = {k1}
    MayThrow = TRUE
    MaxSends = 3
    MaxFrames = 2
CHECK_DEADLOCK FALSE
INVARIANTS TypeOK OneReader WriterFollowsQueue CallbackProtocol NothingLost
PROPERTIES ImplementsChannel DisconnectReported InboundDelivered SessionReleased PlainStrandRuns
