--------------------------- MODULE HttpConnection ---------------------------
(***************************************************************************)
(* The request pipeline of one AtlasHttp server: ConnectionContext (the    *)
(* socket, the request and the response), AsyncRequestProcessor (the read  *)
(* side) and AsyncMethodResponder (the write side) of every connection,    *)
(* over the threads that run the io_context.                               *)
(*                                                                         *)
(* The three objects own each other through shared and weak pointers:      *)
(* whoever holds the processor keeps the connection open, and the response *)
(* is written by the destructor of the responder, when the last holder of  *)
(* it lets go.  Completion handlers of one connection are serialised by    *)
(* its strand; user code that holds a responder is not on the strand.      *)
(*                                                                         *)
(* The definitions that nothing uses (ResetContextMutant, CatchNothing...) *)
(* are plausible mistakes in the operator that follows them, kept to show  *)
(* that the properties catch them.                                         *)
(***************************************************************************)
EXTENDS Integers, Sequences, FiniteSets

CONSTANTS
    Conn,              \* connections that may be accepted
    Holder,            \* places where user code can keep a responder or a keeper
    RequestHandlers,   \* _requestHandlers: [registered target -> set of its verbs]
    WebSocketHandlers, \* targets registered in _websocketHandlers
    Request,           \* the requests clients send
    Secure,            \* _useHttps: TLS or plain sockets
    HasLog,            \* whether an onLog callback was given
    AllowBare,         \* whether a responder may be held without the processor: kept
                       \* without a keeper, or in a keeper that is being assigned to
    Threads,           \* threads that call io_context::run()
    Rerun,             \* whether a thread calls run() again after an exception
    MaxRequests,       \* bound: requests one client sends
    MaxPieces,         \* bound: pieces of requests that are read as requests
    Window             \* bound: requests one client has unanswered

ASSUME ConstantsAssumption ==
    /\ IsFiniteSet(Conn)
    /\ Request \subseteq [target : STRING, method : STRING, upgrade : BOOLEAN,
                          keepAlive : BOOLEAN, version : {10, 11}, parses : BOOLEAN]
    /\ {Secure, HasLog, AllowBare, Rerun} \subseteq BOOLEAN
    /\ Threads \in Nat \ {0}
    /\ MaxRequests \in Nat
    /\ MaxPieces \in Nat
    /\ Window \in Nat

VARIABLES
    conn,        \* where the ConnectionContext is: none, http, ws, destroyed; deaf,
                 \* in a websocket session one of whose callbacks threw; or lost,
                 \* when the accept handler threw before making one
    pending,     \* asynchronous operations outstanding on the stream
    exec,        \* what the connection's strand is running
    responders,  \* holders of a shared_ptr to the current responder
    readers,     \* holders whose MethodAliveKeeper::_reader is not null
    ctx,         \* _request, _response, _version and what _buffer has taken
    heard,       \* history: the requests the parser has made of the stream
    shut,        \* directions the server has shut down
    peer,        \* the client's end of the connection: open, fin, reset
    sent,        \* requests the client has sent
    wire,        \* responses the client has been sent
    threads,     \* threads still inside run()
    metrics,     \* MetricManager::The()
    refused      \* history: upgrade requests answered over HTTP

clientVars == <<peer, sent>>
vars == <<conn, pending, exec, responders, readers, ctx, heard, shut, peer, sent,
          wire, threads, metrics, refused>>

-----------------------------------------------------------------------------
(* The objects.                                                            *)

NoOps == [handshake |-> 0, read |-> 0, write |-> 0]

(* A response whose body is 0 has not been given one; another body is the  *)
(* index, among the requests heard, of the request it was made for.        *)
FreshResponse(version) ==
    [status |-> 500, body |-> 0, keepAlive |-> version = 11, version |-> version]

(* cur is the request in _request, counted among those heard (0: none).    *)
(* With it _buffer has taken off the stream the client's requests up to    *)
(* taken, and the first bytes of the one after that if inside says so.     *)
NewContext == [cur |-> 0, taken |-> 0, inside |-> FALSE, version |-> 11,
               response |-> FreshResponse(11)]

ResetContextMutant(x) == [x EXCEPT !.cur = 0]

ResetContextDefaultVersion(x) == [x EXCEPT !.cur = 0, !.response = FreshResponse(11)]

(* ConnectionContext::Reset, and consuming the whole of _buffer.           *)
ResetContext(x) == [x EXCEPT !.cur = 0, !.response = FreshResponse(x.version)]

Start(op, p) == [p EXCEPT ![op] = @ + 1]
FinishMutant(op, p) == [p EXCEPT !.read = @ - 1]
Finish(op, p) == [p EXCEPT ![op] = @ - 1]

(* AsyncReadNextRequest.  p is the connection's operations before it.      *)
AsyncReadNextRequest(c, p) ==
    /\ ctx' = [ctx EXCEPT ![c] = ResetContext(@)]
    /\ pending' = [pending EXCEPT ![c] = Start("read", p)]

ProcessorHeldMutant(c) ==
    pending[c].handshake + pending[c].read > 0 \/ exec[c] # "idle" \/ readers[c] # {}

(* Somebody owns the processor: an outstanding completion handler, the     *)
(* handler that runs now, or a keeper.                                     *)
ProcessorHeld(c) ==
    \/ pending[c].handshake + pending[c].read + pending[c].write > 0
    \/ exec[c] # "idle"
    \/ readers[c] # {}

(* A step that gives up a reference to the processor: when it was the last *)
(* one, the processor and with it the connection are destroyed.  m is what *)
(* the step itself did to the metrics.                                     *)
Settle(c, m) ==
    IF ProcessorHeld(c)' \/ conn[c] # "http"
    THEN /\ metrics' = m
         /\ UNCHANGED conn
    ELSE /\ metrics' = [m EXCEPT !.connections = @ - 1, !.finished = @ + 1]
         /\ conn' = [conn EXCEPT ![c] = "destroyed"]

Counted(field) == [metrics EXCEPT ![field] = @ + 1]

(* A responder exists while the handler runs (Process holds it) and while  *)
(* user code holds it.                                                     *)
ResponderHeld(c) == exec[c] = "handler" \/ responders[c] # {}

LastHolderWritesTwice(c, h) == exec[c] # "handler"
LastHolderForgetsProcess(c, h) == responders[c] = {h}
LastHolderNever(c, h) == FALSE

(* Whether h is the last holder of the responder.                          *)
LastHolder(c, h) == responders[c] = {h} /\ exec[c] # "handler"

FreeThread == Cardinality({d \in Conn : exec[d] # "idle"}) < threads

(* The io_context has a free thread and the strand of c is not running.    *)
CanRun(c) ==
    /\ exec[c] = "idle"
    /\ FreeThread

(* RemoteEndpoint() throws when the socket is no longer connected: always  *)
(* after a reset, and possibly once both directions are closed.            *)
RemoteEndpointThrows(c) ==
    IF peer[c] = "reset" THEN {TRUE}
    ELSE IF peer[c] = "fin" /\ "send" \in shut[c] THEN BOOLEAN
    ELSE {FALSE}

(* An exception that leaves a completion handler leaves run() as well.     *)
LeaveRun(throws) == threads' = IF throws /\ ~Rerun THEN threads - 1 ELSE threads

CatchNothing == \E throws \in BOOLEAN : LeaveRun(throws)

(* RespondAsync catches whatever a request handler throws.                 *)
CatchAll == LeaveRun(FALSE)

ShutdownSendMutant(c) == shut' = [shut EXCEPT ![c] = @ \cup {"recv"}]

(* A TLS shutdown ends both directions.                                    *)
ShutdownSend(c) ==
    shut' = [shut EXCEPT ![c] = @ \cup {"send"} \cup IF Secure THEN {"recv"} ELSE {}]

ShutdownBoth(c) == shut' = [shut EXCEPT ![c] = {"send", "recv"}]

-----------------------------------------------------------------------------
(* Accepting, and the TLS handshake.                                       *)

StartAsyncRead(c) ==
    IF Secure
    THEN /\ pending' = [pending EXCEPT ![c] = Start("handshake", @)]
         /\ UNCHANGED ctx
    ELSE AsyncReadNextRequest(c, pending[c])

(* The accept handler: a ConnectionContext and its processor.              *)
Open(c) ==
    /\ conn[c] = "none"
    /\ peer[c] # "reset"
    /\ CanRun(c)
    /\ conn' = [conn EXCEPT ![c] = "http"]
    /\ metrics' = Counted("connections")
    /\ StartAsyncRead(c)
    /\ UNCHANGED <<exec, responders, readers, heard, shut, clientVars, wire, threads,
                   refused>>

(* Its first log line asks the socket for its remote endpoint, and throws  *)
(* when the client has reset the connection meanwhile.                     *)
OpenThrows(c) ==
    /\ conn[c] = "none"
    /\ peer[c] = "reset"
    /\ CanRun(c)
    /\ conn' = [conn EXCEPT ![c] = "lost"]
    /\ LeaveRun(TRUE)
    /\ UNCHANGED <<pending, exec, responders, readers, ctx, heard, shut, clientVars,
                   wire, metrics, refused>>

HandshakeSucceeds(c) ==
    /\ pending[c].handshake > 0
    /\ CanRun(c)
    /\ AsyncReadNextRequest(c, Finish("handshake", pending[c]))
    /\ UNCHANGED <<conn, exec, responders, readers, heard, shut, clientVars, wire,
                   threads, metrics, refused>>

HandshakeFails(c) ==
    /\ pending[c].handshake > 0
    /\ CanRun(c)
    /\ pending' = [pending EXCEPT ![c] = Finish("handshake", @)]
    /\ UNCHANGED <<exec, responders, readers, ctx, heard, shut, clientVars, wire,
                   threads, refused>>
    /\ Settle(c, metrics)

-----------------------------------------------------------------------------
(* The read completion handler, and Process, which it calls.               *)

NextRequest(c) == sent[c][ctx[c].taken + 1]

(* What async_read can parse off the stream: the client's next request; or *)
(* when the stream was cut inside a request, whatever the rest of it looks *)
(* like, its body for example (of is 0), unless the parser rejects it.     *)
Arriving(c) ==
    IF ctx[c].inside
    THEN {m \in [of : {0}, request : Request] :
             /\ m.request.parses
             /\ Len(SelectSeq(heard[c], LAMBDA h : h.of = 0)) < MaxPieces}
    ELSE {m \in [of : {ctx[c].taken + 1}, request : Request] :
             /\ ctx[c].taken < Len(sent[c])
             /\ m.request = NextRequest(c)
             /\ m.request.parses}

(* Where the stream is cut when the whole of _buffer is consumed after     *)
(* this read: behind any request that has arrived, or inside the next one. *)
Cuts(c) ==
    {p \in [upTo : ctx[c].taken .. Len(sent[c]), inside : BOOLEAN] :
        /\ p.inside => p.upTo < Len(sent[c])
        /\ p.upTo > ctx[c].taken \/ (ctx[c].inside /\ p.inside)}

ReadCompletes(c) ==
    /\ pending[c].read > 0
    /\ CanRun(c)

Hear(c, m) == heard' = [heard EXCEPT ![c] = Append(@, m)]

ParsedMutant(c, m, p) ==
    [cur |-> Len(heard[c]) + 1,
     taken |-> ctx[c].taken,
     inside |-> p.inside,
     version |-> m.request.version,
     response |-> [ctx[c].response EXCEPT !.keepAlive = m.request.keepAlive]]

(* The context once Process has copied version and keep-alive.  The        *)
(* response was made by the last Reset, with the version known then.       *)
Parsed(c, m, p) ==
    [cur |-> Len(heard[c]) + 1,
     taken |-> p.upTo,
     inside |-> p.inside,
     version |-> m.request.version,
     response |-> [ctx[c].response EXCEPT !.keepAlive = m.request.keepAlive]]

(* A responder gives the response its status and its body.                 *)
Respond(x, status) == [x EXCEPT !.response.status = status, !.response.body = x.cur]

UpgradesTo(r) == IF r.upgrade THEN r.target \in WebSocketHandlers ELSE FALSE
HasHandler(r) == r.target \in DOMAIN RequestHandlers /\ r.method \in RequestHandlers[r.target]

CountRequestMutant(r) == Counted("requests")

(* Process takes an upgrade request off the request count even when no     *)
(* websocket handler is registered and it is answered as any other.        *)
CountRequest(r) == IF r.upgrade THEN metrics ELSE Counted("requests")
CountRefused(r) == refused' = IF r.upgrade THEN refused + 1 ELSE refused

(* Nobody answers this target or this verb: a 404 or 405 responder runs    *)
(* and is destroyed inside Process, which starts the write.                *)
ReadRejected(c) == \E m \in Arriving(c), p \in Cuts(c) :
    LET r == m.request
        status == IF r.target \in DOMAIN RequestHandlers THEN 405 ELSE 404 IN
    /\ ReadCompletes(c)
    /\ FALSE \in RemoteEndpointThrows(c)
    /\ ~UpgradesTo(r)
    /\ ~HasHandler(r)
    /\ ctx' = [ctx EXCEPT ![c] = Respond(Parsed(c, m, p), status)]
    /\ Hear(c, m)
    /\ pending' = [pending EXCEPT ![c] = Start("write", Finish("read", @))]
    /\ metrics' = CountRequest(r)
    /\ CountRefused(r)
    /\ UNCHANGED <<conn, exec, responders, readers, shut, clientVars, wire, threads>>

(* The registered handler is called with a new responder.                  *)
ReadDispatched(c) == \E m \in Arriving(c), p \in Cuts(c) :
    /\ ReadCompletes(c)
    /\ FALSE \in RemoteEndpointThrows(c)
    /\ ~UpgradesTo(m.request)
    /\ HasHandler(m.request)
    /\ ctx' = [ctx EXCEPT ![c] = Parsed(c, m, p)]
    /\ Hear(c, m)
    /\ pending' = [pending EXCEPT ![c] = Finish("read", @)]
    /\ exec' = [exec EXCEPT ![c] = "handler"]
    /\ metrics' = CountRequest(m.request)
    /\ CountRefused(m.request)
    /\ UNCHANGED <<conn, responders, readers, shut, clientVars, wire, threads>>

(* The connection moves into a WebSocketSession; the processor goes.       *)
ReadUpgraded(c) == \E m \in Arriving(c), p \in Cuts(c) :
    /\ ReadCompletes(c)
    /\ FALSE \in RemoteEndpointThrows(c)
    /\ UpgradesTo(m.request)
    /\ ctx' = [ctx EXCEPT ![c] = Parsed(c, m, p)]
    /\ Hear(c, m)
    /\ pending' = [pending EXCEPT ![c] = Finish("read", @)]
    /\ conn' = [conn EXCEPT ![c] = "ws"]
    /\ metrics' = Counted("sessions")
    /\ UNCHANGED <<exec, responders, readers, shut, clientVars, wire, threads, refused>>

(* The log line of a successful read asks for the remote endpoint of a     *)
(* connection that has gone meanwhile.                                     *)
ReadThrows(c) == \E m \in Arriving(c), p \in Cuts(c) :
    /\ ReadCompletes(c)
    /\ TRUE \in RemoteEndpointThrows(c)
    /\ ctx' = [ctx EXCEPT ![c].cur = Len(heard[c]) + 1, ![c].taken = p.upTo,
                          ![c].inside = p.inside]
    /\ Hear(c, m)
    /\ pending' = [pending EXCEPT ![c] = Finish("read", @)]
    /\ LeaveRun(TRUE)
    /\ UNCHANGED <<exec, responders, readers, shut, clientVars, wire, refused>>
    /\ Settle(c, metrics)

ReadFailsMutant(c) ==
    /\ pending[c].read > 0
    /\ CanRun(c)
    /\ peer[c] = "reset"
    /\ AsyncReadNextRequest(c, Finish("read", pending[c]))
    /\ UNCHANGED <<conn, exec, responders, readers, heard, shut, clientVars, wire,
                   threads, metrics, refused>>

(* End of stream, a reset, or bytes the parser rejects: the handler logs,  *)
(* asking for the remote endpoint, and starts nothing.                     *)
ReadFails(c) ==
    /\ pending[c].read > 0
    /\ CanRun(c)
    /\ \/ peer[c] = "reset"
       \/ "recv" \in shut[c]
       \/ peer[c] = "fin" /\ ctx[c].taken = Len(sent[c])
       \/ ctx[c].inside
       \/ ctx[c].taken < Len(sent[c]) /\ ~NextRequest(c).parses
    /\ pending' = [pending EXCEPT ![c] = Finish("read", @)]
    /\ \E throws \in RemoteEndpointThrows(c) : LeaveRun(throws)
    /\ UNCHANGED <<exec, responders, readers, ctx, heard, shut, clientVars, wire, refused>>
    /\ Settle(c, metrics)

-----------------------------------------------------------------------------
(* User code: the handler, and whoever it gave the responder to.           *)

(* GetAliveKeeper: the handler, or a holder of the responder, makes a      *)
(* MethodAliveKeeper kept at h.  Its copies are kept at the same h, which  *)
(* lets go when the last of them does.                                     *)
TakeKeeper(c, h) ==
    /\ exec[c] = "handler" \/ h \in responders[c]
    /\ h \notin readers[c]
    /\ responders' = [responders EXCEPT ![c] = @ \cup {h}]
    /\ readers' = IF ProcessorHeld(c) /\ conn[c] = "http"
                  THEN [readers EXCEPT ![c] = @ \cup {h}]
                  ELSE readers
    /\ UNCHANGED <<conn, pending, exec, ctx, heard, shut, clientVars, wire, threads,
                   metrics, refused>>

(* The handler keeps a plain shared_ptr to the responder at h.             *)
KeepResponder(c, h) ==
    /\ AllowBare
    /\ exec[c] = "handler"
    /\ h \notin responders[c] \cup readers[c]
    /\ responders' = [responders EXCEPT ![c] = @ \cup {h}]
    /\ UNCHANGED <<conn, pending, exec, readers, ctx, heard, shut, clientVars, wire,
                   threads, metrics, refused>>

(* User code fills in the response through the responder's weak pointer.   *)
SetResponse(c) ==
    /\ ResponderHeld(c)
    /\ conn[c] = "http"
    /\ ctx' = [ctx EXCEPT ![c] = Respond(@, 200)]
    /\ UNCHANGED <<conn, pending, exec, responders, readers, heard, shut, clientVars,
                   wire, threads, metrics, refused>>

DestroyResponderMutant(c) == UNCHANGED pending

(* ~AsyncMethodResponder: when the processor and the connection are still  *)
(* alive, the response is written, and the write holds the processor.      *)
DestroyResponder(c) ==
    pending' = IF ProcessorHeld(c) /\ conn[c] = "http"
               THEN [pending EXCEPT ![c] = Start("write", @)]
               ELSE pending

HandlerReturnsMutant(c) ==
    /\ exec[c] = "handler"
    /\ exec' = [exec EXCEPT ![c] = "idle"]
    /\ AsyncReadNextRequest(c, pending[c])
    /\ UNCHANGED <<conn, responders, readers, heard, shut, clientVars, wire, threads,
                   metrics, refused>>

(* The handler returns or throws; Process drops its responder and the read *)
(* completion handler ends.                                                *)
HandlerReturns(c) ==
    /\ exec[c] = "handler"
    /\ exec' = [exec EXCEPT ![c] = "idle"]
    /\ IF responders[c] = {} THEN DestroyResponder(c) ELSE UNCHANGED pending
    /\ CatchAll
    /\ UNCHANGED <<responders, readers, ctx, heard, shut, clientVars, wire, refused>>
    /\ Settle(c, metrics)

(* Holder h lets go of the responder.                                      *)
ReleaseResponder(c, h) ==
    /\ h \in responders[c]
    /\ responders' = [responders EXCEPT ![c] = @ \ {h}]
    /\ IF LastHolder(c, h) THEN DestroyResponder(c) ELSE UNCHANGED pending
    /\ UNCHANGED <<conn, exec, readers, ctx, heard, shut, clientVars, wire, threads,
                   metrics, refused>>

(* Holder h lets go of the processor: Reset and the destructor of a keeper *)
(* do so after the responder, an assignment to the keeper does so before.  *)
ReleaseReader(c, h) ==
    /\ h \in readers[c]
    /\ h \in responders[c] => AllowBare
    /\ readers' = [readers EXCEPT ![c] = @ \ {h}]
    /\ UNCHANGED <<pending, exec, responders, ctx, heard, shut, clientVars, wire,
                   threads, refused>>
    /\ Settle(c, metrics)

-----------------------------------------------------------------------------
(* The write completion handler.                                           *)

WriteCompletes(c) ==
    /\ pending[c].write > 0
    /\ CanRun(c)

(* What the client receives: the response to the request heard as "for".   *)
Reply(c) == [for |-> ctx[c].cur, response |-> ctx[c].response]

(* The response went out; the connection reads on, after shutting its send *)
(* side when it is not kept alive.  On TLS that shutdown waits for the     *)
(* peer, and blocks the thread.                                            *)
WriteSucceeds(c) ==
    LET p == Finish("write", pending[c]) IN
    /\ WriteCompletes(c)
    /\ "send" \notin shut[c]
    /\ HasLog => FALSE \in RemoteEndpointThrows(c)
    /\ wire' = [wire EXCEPT ![c] = Append(@, Reply(c))]
    /\ metrics' = Counted("responses")
    /\ IF ctx[c].response.keepAlive \/ ~Secure
       THEN /\ AsyncReadNextRequest(c, p)
            /\ IF ctx[c].response.keepAlive THEN UNCHANGED shut ELSE ShutdownSend(c)
            /\ UNCHANGED exec
       ELSE /\ pending' = [pending EXCEPT ![c] = p]
            /\ exec' = [exec EXCEPT ![c] = "shutdown"]
            /\ UNCHANGED <<ctx, shut>>
    /\ UNCHANGED <<conn, responders, readers, heard, clientVars, threads, refused>>

(* The synchronous TLS shutdown returns: the peer answered, or has gone.   *)
ShutdownReturns(c) ==
    /\ exec[c] = "shutdown"
    /\ exec' = [exec EXCEPT ![c] = "idle"]
    /\ ShutdownSend(c)
    /\ AsyncReadNextRequest(c, pending[c])
    /\ UNCHANGED <<conn, responders, readers, heard, clientVars, wire, threads, metrics,
                   refused>>

(* The write succeeded, but its log line throws.                           *)
WriteThrows(c) ==
    /\ WriteCompletes(c)
    /\ "send" \notin shut[c]
    /\ HasLog
    /\ TRUE \in RemoteEndpointThrows(c)
    /\ wire' = [wire EXCEPT ![c] = Append(@, Reply(c))]
    /\ pending' = [pending EXCEPT ![c] = Finish("write", @)]
    /\ LeaveRun(TRUE)
    /\ UNCHANGED <<exec, responders, readers, ctx, heard, shut, clientVars, refused>>
    /\ Settle(c, Counted("responses"))

WriteFailsUncounted(c) ==
    /\ WriteCompletes(c)
    /\ peer[c] = "reset" \/ "send" \in shut[c]
    /\ ShutdownBoth(c)
    /\ AsyncReadNextRequest(c, Finish("write", pending[c]))
    /\ UNCHANGED <<conn, exec, responders, readers, heard, clientVars, wire, threads,
                   metrics, refused>>

(* The write failed: shut both directions and read on, to fail there.  On  *)
(* TLS this shutdown is synchronous, too.                                  *)
WriteFails(c) ==
    LET p == Finish("write", pending[c]) IN
    /\ WriteCompletes(c)
    /\ peer[c] = "reset" \/ "send" \in shut[c]
    /\ metrics' = Counted("responses")
    /\ IF Secure
       THEN /\ pending' = [pending EXCEPT ![c] = p]
            /\ exec' = [exec EXCEPT ![c] = "shutdown"]
            /\ UNCHANGED <<ctx, shut>>
       ELSE /\ ShutdownBoth(c)
            /\ AsyncReadNextRequest(c, p)
            /\ UNCHANGED exec
    /\ UNCHANGED <<conn, responders, readers, heard, clientVars, wire, threads, refused>>

-----------------------------------------------------------------------------
(* The environment: the client, and the websocket session.                 *)

ClientSends(c, r) ==
    /\ conn[c] = "http"
    /\ pending[c].handshake = 0
    /\ peer[c] = "open"
    /\ Len(sent[c]) < MaxRequests
    /\ Len(sent[c]) - Len(wire[c]) < Window
    /\ sent' = [sent EXCEPT ![c] = Append(@, r)]
    /\ UNCHANGED <<conn, pending, exec, responders, readers, ctx, heard, shut, peer,
                   wire, threads, metrics, refused>>

ClientLeaves(c, how) ==
    /\ conn[c] \in {"none", "http"}
    /\ <<peer[c], how>> \in {<<"open", "fin">>, <<"open", "reset">>, <<"fin", "reset">>}
    /\ peer' = [peer EXCEPT ![c] = how]
    /\ UNCHANGED <<conn, pending, exec, responders, readers, ctx, heard, shut, sent,
                   wire, threads, metrics, refused>>

(* A callback of the session throws, and the exception leaves run().  The  *)
(* session reads no more, so this happens to it once.                      *)
SessionThrows(c) ==
    /\ conn[c] = "ws"
    /\ CanRun(c)
    /\ conn' = [conn EXCEPT ![c] = "deaf"]
    /\ LeaveRun(TRUE)
    /\ UNCHANGED <<pending, exec, responders, readers, ctx, heard, shut, clientVars,
                   wire, metrics, refused>>

(* ~WebSocketSession, and the connection the session owned.                *)
SessionEnds(c) ==
    /\ conn[c] \in {"ws", "deaf"}
    /\ conn' = [conn EXCEPT ![c] = "destroyed"]
    /\ metrics' = [metrics EXCEPT !.sessions = @ - 1, !.closedSessions = @ + 1,
                                  !.connections = @ - 1, !.finished = @ + 1]
    /\ UNCHANGED <<pending, exec, responders, readers, ctx, heard, shut, clientVars,
                   wire, threads, refused>>

-----------------------------------------------------------------------------
Init ==
    /\ conn = [c \in Conn |-> "none"]
    /\ pending = [c \in Conn |-> NoOps]
    /\ exec = [c \in Conn |-> "idle"]
    /\ responders = [c \in Conn |-> {}]
    /\ readers = [c \in Conn |-> {}]
    /\ ctx = [c \in Conn |-> NewContext]
    /\ heard = [c \in Conn |-> <<>>]
    /\ shut = [c \in Conn |-> {}]
    /\ peer = [c \in Conn |-> "open"]
    /\ sent = [c \in Conn |-> <<>>]
    /\ wire = [c \in Conn |-> <<>>]
    /\ threads = Threads
    /\ metrics = [connections |-> 0, finished |-> 0, requests |-> 0, responses |-> 0,
                  sessions |-> 0, closedSessions |-> 0]
    /\ refused = 0

ReadHandler(c) ==
    \/ ReadRejected(c)
    \/ ReadDispatched(c)
    \/ ReadUpgraded(c)
    \/ ReadThrows(c)
    \/ ReadFails(c)

WriteHandler(c) ==
    \/ WriteSucceeds(c)
    \/ WriteThrows(c)
    \/ WriteFails(c)

Release(c) == \E h \in Holder : ReleaseResponder(c, h) \/ ReleaseReader(c, h)

Accept(c) == Open(c) \/ OpenThrows(c)

Established(c) ==
    \/ HandshakeSucceeds(c)
    \/ HandshakeFails(c)
    \/ ReadHandler(c)
    \/ HandlerReturns(c)
    \/ WriteHandler(c)
    \/ ShutdownReturns(c)
    \/ SessionThrows(c)
    \/ SessionEnds(c)

Server(c) == Accept(c) \/ Established(c)

UserCode(c) ==
    \/ \E h \in Holder : TakeKeeper(c, h) \/ KeepResponder(c, h)
    \/ SetResponse(c)
    \/ Release(c)

Client(c) ==
    \/ \E r \in Request : ClientSends(c, r)
    \/ \E how \in {"fin", "reset"} : ClientLeaves(c, how)

Next == \E c \in Conn : Server(c) \/ UserCode(c) \/ Client(c)

Spec == Init /\ [][Next]_vars

(* A read the scheduler cannot leave alone: one that begins inside a       *)
(* request may have to wait for more bytes as long as the client is there. *)
ReadEnds(c) == (ctx[c].inside => peer[c] # "open") /\ ReadHandler(c)

(* The scheduler runs every ready completion handler, handlers return and  *)
(* whoever keeps a responder lets go of it one day.  A blocked TLS         *)
(* shutdown ends when its peer leaves.                                     *)
Fairness(c) ==
    /\ WF_vars(HandshakeSucceeds(c) \/ HandshakeFails(c))
    /\ WF_vars(ReadEnds(c))
    /\ WF_vars(WriteHandler(c))
    /\ WF_vars(HandlerReturns(c))
    /\ WF_vars(peer[c] # "open" /\ ShutdownReturns(c))
    /\ \A h \in Holder : WF_vars(ReleaseResponder(c, h)) /\ WF_vars(ReleaseReader(c, h))

FairSpec == Spec /\ \A c \in Conn : Fairness(c)

(* In addition, every TLS client answers the server's close_notify.        *)
CooperativeSpec == FairSpec /\ \A c \in Conn : WF_vars(ShutdownReturns(c))

-----------------------------------------------------------------------------
(* Properties.                                                             *)

Ops == [handshake : Nat, read : Nat, write : Nat]
Response == [status : {200, 404, 405, 500}, body : Nat, keepAlive : BOOLEAN,
             version : {10, 11}]
Context == [cur : Nat, taken : Nat, inside : BOOLEAN, version : {10, 11},
            response : Response]
Heard == [of : Nat, request : Request]
Metrics == [connections : Int, finished : Int, requests : Int, responses : Int,
            sessions : Int, closedSessions : Int]

(* Every variable has its type.                                            *)
TypeOK ==
    /\ conn \in [Conn -> {"none", "lost", "http", "ws", "deaf", "destroyed"}]
    /\ pending \in [Conn -> Ops]
    /\ exec \in [Conn -> {"idle", "handler", "shutdown"}]
    /\ responders \in [Conn -> SUBSET Holder]
    /\ readers \in [Conn -> SUBSET Holder]
    /\ ctx \in [Conn -> Context]
    /\ heard \in [Conn -> Seq(Heard)]
    /\ shut \in [Conn -> SUBSET {"send", "recv"}]
    /\ peer \in [Conn -> {"open", "fin", "reset"}]
    /\ sent \in [Conn -> Seq(Request)]
    /\ wire \in [Conn -> Seq([for : Nat, response : Response])]
    /\ threads \in Int /\ threads <= Threads
    /\ metrics \in Metrics
    /\ refused \in Nat

(* How many things are going on for a connection: operations outstanding   *)
(* on its stream, a request being answered, a TLS shutdown.                *)
Load(c) ==
    pending[c].handshake + pending[c].read + pending[c].write
    + (IF ResponderHeld(c) THEN 1 ELSE 0)
    + (IF exec[c] = "shutdown" THEN 1 ELSE 0)

(* A connection is half duplex: a handshake, a read, a request in the      *)
(* hands of user code, a write and a TLS shutdown exclude each other,      *)
(* whatever thread drops the last responder, so no stream operation        *)
(* overlaps another or the user code of the request, the handler and all   *)
(* who hold its responder.                                                 *)
OneInFlight == \A c \in Conn : Load(c) <= 1

(* An open connection always has an owner that will move it on, so none is *)
(* leaked; and none is closed, or handed to a websocket session, under an  *)
(* operation outstanding on its stream or a handler that runs.             *)
OwnedWhileOpen ==
    \A c \in Conn :
        /\ conn[c] = "http" => ProcessorHeld(c)
        /\ conn[c] # "http" => pending[c] = NoOps /\ exec[c] = "idle"

(* The message given to async_write is neither replaced by Reset nor       *)
(* modified by user code before the write has completed.                   *)
ResponseStableDuringWrite ==
    [][\A c \in Conn : pending[c].write > 0 /\ ctx'[c].response # ctx[c].response
                          => pending'[c].write < pending[c].write]_vars

(* A client that waits for each response gets, as its i-th response, the   *)
(* one made for its i-th request.                                          *)
ResponsesInStep ==
    \A c \in Conn : \A i \in 1 .. Len(wire[c]) :
        wire[c][i].for = i /\ heard[c][i].of = i

(* The version a response carries is not the one of its own request: the   *)
(* response is made by the Reset before its request is read, so it says    *)
(* HTTP/1.1 when it is the first and otherwise the version of the request  *)
(* answered before it, whatever was thrown away in between.                *)
VersionLagsBehind ==
    \A c \in Conn : \A i \in 1 .. Len(wire[c]) :
        wire[c][i].response.version =
            IF i = 1 THEN 11 ELSE heard[c][wire[c][i - 1].for].request.version

(* What the server hears is, in order, requests of the client, some left   *)
(* out, and pieces of those left out, the first one being whole.           *)
HeardInOrder(c) ==
    \A j \in 1 .. Len(heard[c]) :
        /\ j = 1 => heard[c][j].of = 1
        /\ heard[c][j].of > 0 =>
              /\ heard[c][j].of <= Len(sent[c])
              /\ heard[c][j].request = sent[c][heard[c][j].of]
              /\ \A k \in 1 .. j - 1 : heard[c][k].of < heard[c][j].of

(* Whatever the server hears of a pipelined stream is answered in order,   *)
(* none left out before the last response and none twice, and each carries *)
(* only what was written for it: a handler that sets nothing, or throws    *)
(* first, answers an empty 500, never a leftover of an earlier request.    *)
OwnResponse ==
    \A c \in Conn :
        /\ HeardInOrder(c)
        /\ \A i \in 1 .. Len(wire[c]) :
              LET w == wire[c][i] IN
              /\ w.for = i /\ i <= Len(heard[c])
              /\ w.response.body = IF w.response.status = 500 THEN 0 ELSE i
              /\ w.response.keepAlive = heard[c][i].request.keepAlive

(* After a response that closes the connection the client gets no other,   *)
(* although the server goes on reading and handles what arrives.           *)
CloseIsLast ==
    \A c \in Conn : \A i \in 1 .. Len(wire[c]) - 1 : wire[c][i].response.keepAlive

InService(c) == conn[c] = "http" /\ (ResponderHeld(c) \/ pending[c].write > 0)

(* _httpRequests and _httpResponses differ by the requests in service,     *)
(* also when writes fail or log lines throw; a connection destroyed under  *)
(* a bare responder loses one response, and every upgrade answered over    *)
(* HTTP is missing from the requests.                                      *)
MetricsBalance ==
    LET inService == Cardinality({c \in Conn : InService(c)})
        destroyed == Cardinality({c \in Conn : conn[c] = "destroyed"})
        balance == metrics.requests + refused - metrics.responses IN
    /\ inService <= balance
    /\ balance <= inService + IF AllowBare THEN destroyed ELSE 0

(* Nothing of the connection will run again.                               *)
Spent(c) ==
    \/ conn[c] \in {"lost", "deaf", "destroyed"}
    \/ /\ conn[c] = "http"
       /\ pending[c] = NoOps /\ exec[c] = "idle" /\ responders[c] = {}

Upgraded(c) == heard[c] # <<>> /\ UpgradesTo(heard[c][Len(heard[c])].request)

(* A connection costs at most one thread, its last step, and only when its *)
(* client has left it or it became a websocket: what a request handler     *)
(* throws costs none.                                                      *)
ThreadsAccounted ==
    Threads - threads <=
        Cardinality({c \in Conn : Spent(c) /\ (peer[c] # "open" \/ Upgraded(c))})

(* The pipeline keeps the promise of HttpExchange: a connection is serving *)
(* from the moment a responder is made until its write has completed.      *)
Stage(c) ==
    CASE conn[c] = "none" -> "none"
      [] conn[c] \in {"ws", "deaf"} -> "upgraded"
      [] conn[c] \in {"lost", "destroyed"} -> "closed"
      [] conn[c] = "http" -> IF InService(c) THEN "serving" ELSE "reading"

Closes(c) == wire[c] # <<>> /\ ~wire[c][Len(wire[c])].response.keepAlive

Exchange == INSTANCE HttpExchange WITH
    stage <- [c \in Conn |-> Stage(c)],
    asked <- [c \in Conn |-> Len(sent[c])],
    taken <- [c \in Conn |-> [i \in DOMAIN heard[c] |-> heard[c][i].of]],
    past <- [c \in Conn |-> ctx[c].taken],
    cut <- [c \in Conn |-> ctx[c].inside],
    muted <- [c \in Conn |-> "send" \in shut[c] \/ Closes(c) \/ exec[c] = "shutdown"],
    answers <- [c \in Conn |-> [i \in DOMAIN wire[c] |->
                   [for |-> wire[c][i].for, closes |-> ~wire[c][i].response.keepAlive]]]

(* Every step of the pipeline is a step of the exchange, or changes        *)
(* nothing the client could tell: what is taken off the stream is served   *)
(* in order and one at a time, each is answered at most once, and none     *)
(* after the last word; a client that did not pipeline is served nothing   *)
(* but its requests.                                                       *)
ImplementsExchange == Exchange!Spec

Answered(c, i) ==
    \/ peer[c] = "reset"
    \/ "send" \in shut[c]
    \/ \E k \in 1 .. Len(wire[c]) : wire[c][k].for = i

(* A request given to a handler is answered, unless the client resets the  *)
(* connection or was already told that it is closing.                      *)
RequestAnswered ==
    \A c \in Conn : \A i \in 1 .. MaxRequests + MaxPieces :
        (exec[c] = "handler" /\ ctx[c].cur = i) ~> Answered(c, i)

(* Where a responder may be held without the processor the same holds for  *)
(* the requests that only keepers keep when the handler has returned, as   *)
(* long as no keeper gives up the processor before the responder.          *)
KeptRequestAnswered ==
    \A c \in Conn : \A i \in 1 .. MaxRequests + MaxPieces :
        (/\ exec[c] = "idle" /\ ctx[c].cur = i
         /\ responders[c] # {} /\ responders[c] \subseteq readers[c])
            ~> (\/ Answered(c, i)
                \/ (ctx[c].cur = i /\ ~(responders[c] \subseteq readers[c])))

(* A connection its client has reset is destroyed, and its metrics with it. *)
DeadPeerReaped ==
    \A c \in Conn : (conn[c] = "http" /\ peer[c] = "reset") ~> conn[c] # "http"

=============================================================================
