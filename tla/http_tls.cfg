SPECIFICATION Spec
CONSTANTS
    Conn = {c1, c2}
    Holder = {h1}
    RequestHandlers <- MCRequestHandlers
    WebSocketHandlers <- MCWebSocketHandlers
    Request <- MCFewRequests
    Secure = TRUE
    HasLog = FALSE
    AllowBare = FALSE
    Threads = 1
    Rerun = TRUE
    MaxRequests = 2
    MaxPieces = 0
    Window = 2
SYMMETRY MCConnSymmetry
CHECK_DEADLOCK FALSE
INVARIANTS CloseIsLast MetricsBalance
