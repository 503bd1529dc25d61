SPECIFICATION FairSpec
CONSTANTS
    Conn = {c1}
    Holder = {h1, h2}
    RequestHandlers <- MCRequestHandlers
    WebSocketHandlers <- MCWebSocketHandlers
    Request <- MCPipelinedRequests
    Secure = FALSE
    HasLog = TRUE
    AllowBare = TRUE
    Threads = 2
    Rerun = FALSE
    MaxRequests = 3
    MaxPieces = 1
    Window = 3
CHECK_DEADLOCK FALSE
INVARIANTS OneInFlight OwnResponse MetricsBalance ThreadsAccounted
PROPERTIES ImplementsExchange KeptRequestAnswered
