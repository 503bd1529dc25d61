SPECIFICATION ServerFairSpec
CONSTANTS
    Conn = {c1, c2}
    Holder = {h1}
    RequestHandlers <- MCRequestHandlers
    WebSocketHandlers <- MCWebSocketHandlers
    Request <- MCOneRequest
    Secure = FALSE
    HasLog = TRUE
    AllowBare = TRUE
    Threads = 2
    Rerun = TRUE
    MaxRequests = 1
    MaxPieces = 0
    Window = 1
    MaxErrors = 1
CHECK_DEADLOCK FALSE
INVARIANTS Armed StopIsFinal
PROPERTIES ClientsAdmitted QuiescentForEver Drains
