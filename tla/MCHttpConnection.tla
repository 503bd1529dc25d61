-------------------------- MODULE MCHttpConnection --------------------------
(***************************************************************************)
(* Instances of HttpConnection for TLC.                                    *)
(***************************************************************************)
EXTENDS HttpConnection, TLC

(* The targets and verbs of the example server: two HTTP endpoints and one *)
(* websocket endpoint.                                                     *)
MCRequestHandlers == [t \in {"/ready"} |-> {"get"}]
MCWebSocketHandlers == {"/ws"}

Get(target) == [target |-> target, method |-> "get", upgrade |-> FALSE,
                keepAlive |-> TRUE, version |-> 11, parses |-> TRUE]

Ready == Get("/ready")
ReadyClose == [Ready EXCEPT !.keepAlive = FALSE]

(* One request of every kind the pipeline tells apart.                     *)
MCAllRequests ==
    {Ready, ReadyClose,
     [Ready EXCEPT !.version = 10],
     [Ready EXCEPT !.method = "post"],
     Get("/nowhere"),
     [Get("/ws") EXCEPT !.upgrade = TRUE],
     [Ready EXCEPT !.upgrade = TRUE],
     [Ready EXCEPT !.parses = FALSE]}

MCPipelinedRequests ==
    {Ready, [Get("/nowhere") EXCEPT !.keepAlive = FALSE],
     [Get("/ws") EXCEPT !.upgrade = TRUE], [Ready EXCEPT !.parses = FALSE]}
MCFewRequests == {ReadyClose, [Get("/nowhere") EXCEPT !.upgrade = TRUE]}
MCReadyRequests == {Ready, ReadyClose}

(* Nothing tells the connections apart.                                    *)
MCConnSymmetry == Permutations(Conn)

=============================================================================
