SPECIFICATION Spec
CONSTANTS
    Handlers = {"connect", "text", "binary", "disconnect"}
    Keeper = {k1}
    MayThrow = FALSE
    MaxSends = 3
    MaxFrames = 2
CHECK_DEADLOCK FALSE
INVARIANTS FramesByOpcode
