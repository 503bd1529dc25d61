SPECIFICATION CooperativeSpec
CONSTANTS
    Conn = {c1, c2}
    Holder = {h1}
    RequestHandlers <- MCRequestHandlers
    WebSocketHandlers <- MCWebSocketHandlers
    Request <- MCReadyRequests
    Secure = TRUE
    HasLog = TRUE
    AllowBare = FALSE
    Threads = 1
    Rerun = TRUE
    MaxRequests = 1
    MaxPieces = 0
    Window = 1
CHECK_DEADLOCK FALSE
PROPERTIES RequestAnswered
