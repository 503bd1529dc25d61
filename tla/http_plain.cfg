SPECIFICATION FairSpec
CONSTANTS
    Conn = {c1}
    Holder = {h1, h2}
    RequestHandlers <- MCRequestHandlers
    WebSocketHandlers <- MCWebSocketHandlers
    Request <- MCAllRequests
    Secure = FALSE
    HasLog = TRUE
    AllowBare = FALSE
    Threads = 1
    Rerun = TRUE
    MaxRequests = 3
    MaxPieces = 0
    Window = 1
CHECK_DEADLOCK FALSE
INVARIANTS TypeOK OwnedWhileOpen ResponsesInStep VersionLagsBehind
PROPERTIES ResponseStableDuringWrite RequestAnswered DeadPeerReaped
