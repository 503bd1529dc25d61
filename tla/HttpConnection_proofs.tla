----------------------- MODULE HttpConnection_proofs -----------------------
(***************************************************************************)
(* Proofs about HttpConnection, for every set of connections, holders and  *)
(* requests, every number of threads and both kinds of socket.             *)
(***************************************************************************)
EXTENDS HttpConnection, TLAPS

-----------------------------------------------------------------------------
(* The type invariant.                                                     *)

Stages == {"none", "lost", "http", "ws", "deaf", "destroyed"}

(* A new response of either version is a response.                         *)
LEMMA FreshResponseType ==
    ASSUME NEW v \in {10, 11}
    PROVE  FreshResponse(v) \in Response
<1>1. CASE v = 10
  <2>1. (v = 11) = FALSE
    BY <1>1
  <2> QED
    BY <1>1, <2>1 DEF FreshResponse, Response
<1>2. CASE v = 11
  <2>1. (v = 11) = TRUE
    BY <1>2
  <2> QED
    BY <1>2, <2>1 DEF FreshResponse, Response
<1> QED
    BY <1>1, <1>2

(* What Reset leaves in the context is a context.                          *)
LEMMA ResetContextType ==
    ASSUME NEW x \in Context
    PROVE  /\ ResetContext(x) \in Context
           /\ ResetContext(x).taken = x.taken
<1>1. FreshResponse(x.version) \in Response
    BY FreshResponseType DEF Context
<1> QED
    BY <1>1 DEF Context, ResetContext

(* AsyncReadNextRequest keeps the types of what it assigns.                *)
LEMMA AsyncReadNextRequestType ==
    ASSUME TypeOK, NEW c \in Conn, NEW p \in Ops, AsyncReadNextRequest(c, p)
    PROVE  ctx' \in [Conn -> Context] /\ pending' \in [Conn -> Ops]
<1>1. ctx \in [Conn -> Context] /\ pending \in [Conn -> Ops]
    BY DEF TypeOK
<1>2. ResetContext(ctx[c]) \in Context
    BY <1>1, ResetContextType
<1>3. Start("read", p) \in Ops
    BY DEF Start, Ops
<1> QED
    BY <1>1, <1>2, <1>3 DEF AsyncReadNextRequest

(* A step that gives up a reference keeps the types of conn and metrics.   *)
LEMMA SettleType ==
    ASSUME TypeOK, NEW c \in Conn, NEW m \in Metrics, Settle(c, m)
    PROVE  /\ conn' \in [Conn -> Stages]
           /\ metrics' \in Metrics
<1>1. CASE ProcessorHeld(c)' \/ conn[c] # "http"
    BY <1>1 DEF TypeOK, Settle, Stages
<1>2. CASE ~(ProcessorHeld(c)' \/ conn[c] # "http")
  <2>1. [m EXCEPT !.connections = @ - 1, !.finished = @ + 1] \in Metrics
    <3>1. m.connections - 1 \in Int /\ m.finished + 1 \in Int
      BY DEF Metrics
    <3> QED
      BY <3>1 DEF Metrics
  <2> QED
    BY <1>2, <2>1 DEF TypeOK, Settle, Stages
<1> QED
    BY <1>1, <1>2

(* What can be read is a request, the client's or a piece of one.          *)
LEMMA ArrivingType ==
    ASSUME TypeOK, NEW c \in Conn, NEW m \in Arriving(c)
    PROVE  m \in Heard /\ m.request \in Request
<1>1. sent[c] \in Seq(Request) /\ ctx[c].taken \in Nat
    BY DEF TypeOK, Context
<1>2. m \in Heard
    BY <1>1 DEF Arriving, Heard
<1> QED
    BY <1>2 DEF Heard

(* What Process makes of it is a context.                                  *)
LEMMA ParsedType ==
    ASSUME TypeOK, NEW c \in Conn, NEW m \in Arriving(c), NEW p \in Cuts(c)
    PROVE  /\ m \in Heard /\ m.request \in Request
           /\ Len(heard[c]) + 1 \in Nat /\ p.upTo \in Nat /\ p.inside \in BOOLEAN
           /\ Parsed(c, m, p) \in Context
<1>1. /\ sent[c] \in Seq(Request) /\ heard[c] \in Seq(Heard) /\ ctx[c] \in Context
      /\ ctx[c].taken \in Nat /\ ctx[c].response \in Response
    BY DEF TypeOK, Context
<1>2. m \in Heard /\ m.request \in Request
    BY ArrivingType
<1>3. \A r \in Request : r.version \in {10, 11} /\ r.keepAlive \in BOOLEAN
    BY ConstantsAssumption
<1>4. m.request.version \in {10, 11} /\ m.request.keepAlive \in BOOLEAN
    BY <1>2, <1>3
<1>5. p.upTo \in Nat /\ p.inside \in BOOLEAN
    BY <1>1 DEF Cuts
<1>6. [ctx[c].response EXCEPT !.keepAlive = m.request.keepAlive] \in Response
    BY <1>1, <1>4 DEF Response
<1>7. Len(heard[c]) + 1 \in Nat
    BY <1>1
<1> QED
    BY <1>2, <1>4, <1>5, <1>6, <1>7 DEF Parsed, Context

(* A thread that leaves run() is one that was inside.                      *)
LEMMA LeaveRunType ==
    ASSUME TypeOK, NEW throws \in BOOLEAN, LeaveRun(throws)
    PROVE  threads' \in Int /\ threads' <= Threads
    BY ConstantsAssumption DEF TypeOK, LeaveRun

(* The metrics stay metrics when one of them is counted up.                *)
LEMMA CountRequestType ==
    ASSUME TypeOK, NEW r \in Request
    PROVE  CountRequest(r) \in Metrics
<1>1. metrics \in Metrics /\ metrics.requests + 1 \in Int
    BY DEF TypeOK, Metrics
<1> QED
    BY <1>1 DEF CountRequest, Counted, Metrics

(* The destructor of a responder starts a write, or nothing.               *)
LEMMA DestroyResponderType ==
    ASSUME TypeOK, NEW c \in Conn, DestroyResponder(c)
    PROVE  pending' \in [Conn -> Ops]
<1>1. pending[c] \in Ops
    BY DEF TypeOK
<1>2. Start("write", pending[c]) \in Ops
    BY <1>1 DEF Start, Ops
<1> QED
    BY <1>2 DEF DestroyResponder, TypeOK

(* An operation that was outstanding can finish.                           *)
LEMMA FinishType ==
    ASSUME NEW p \in Ops, NEW op \in {"handshake", "read", "write"}, p[op] > 0
    PROVE  Finish(op, p) \in Ops
    BY DEF Finish, Ops

(* An operation can be started on any stream.                              *)
LEMMA StartType ==
    ASSUME NEW q \in Ops, NEW op \in {"handshake", "read", "write"}
    PROVE  Start(op, q) \in Ops
    BY DEF Start, Ops

(* Counting keeps the metrics metrics.                                     *)
LEMMA CountedType ==
    ASSUME TypeOK, NEW field \in {"connections", "requests", "responses", "sessions"}
    PROVE  Counted(field) \in Metrics
<1>1. metrics \in Metrics
    BY DEF TypeOK
<1>2. \A k \in {"connections", "requests", "responses", "sessions"} :
         metrics[k] + 1 \in Int
    BY <1>1 DEF Metrics
<1> QED
    BY <1>1, <1>2 DEF Counted, Metrics

(* Answering a request leaves a context.                                   *)
LEMMA RespondType ==
    ASSUME NEW x \in Context, NEW status \in {200, 404, 405}
    PROVE  Respond(x, status) \in Context
<1>1. x.response \in Response /\ x.cur \in Nat
    BY DEF Context
<1>2. [x.response EXCEPT !.status = status] \in Response
    BY <1>1 DEF Response
<1>3. [x EXCEPT !.response = [x.response EXCEPT !.status = status]] \in Context
    BY <1>2 DEF Context
<1>4. ASSUME NEW r \in Response PROVE [r EXCEPT !.body = x.cur] \in Response
    BY <1>1 DEF Response
<1> QED
    BY <1>2, <1>3, <1>4 DEF Respond, Context

LEMMA AppendType ==
    ASSUME NEW S, NEW q \in Seq(S), NEW e \in S
    PROVE  Append(q, e) \in Seq(S)
    OBVIOUS

(* What is heard stays a sequence of requests.                             *)
LEMMA HearType ==
    ASSUME TypeOK, NEW c \in Conn, NEW m \in Heard, Hear(c, m)
    PROVE  heard' \in [Conn -> Seq(Heard)]
<1>1. heard \in [Conn -> Seq(Heard)]
    BY DEF TypeOK
<1>2. Append(heard[c], m) \in Seq(Heard)
    BY <1>1, AppendType
<1> QED
    BY <1>1, <1>2 DEF Hear

(* What the client receives is a reply.                                    *)
LEMMA ReplyType ==
    ASSUME TypeOK, NEW c \in Conn
    PROVE  [wire EXCEPT ![c] = Append(@, Reply(c))]
               \in [Conn -> Seq([for : Nat, response : Response])]
<1> DEFINE S == [for : Nat, response : Response]
<1>1. ctx[c] \in Context
    BY DEF TypeOK
<1>2. Reply(c) \in S
    BY <1>1 DEF Reply, Context
<1>3. wire \in [Conn -> Seq(S)]
    BY DEF TypeOK
<1> HIDE DEF S
<1>4. Append(wire[c], Reply(c)) \in Seq(S)
    BY <1>2, <1>3, AppendType
<1>5. [wire EXCEPT ![c] = Append(@, Reply(c))] \in [Conn -> Seq(S)]
    BY <1>3, <1>4
<1> QED
    BY <1>5 DEF S

(* Shutting one direction, or both.                                        *)
LEMMA ShutdownSendType ==
    ASSUME TypeOK, NEW c \in Conn, ShutdownSend(c)
    PROVE  shut' \in [Conn -> SUBSET {"send", "recv"}]
<1>1. shut \in [Conn -> SUBSET {"send", "recv"}]
    BY DEF TypeOK
<1>2. shut[c] \cup {"send"} \cup (IF Secure THEN {"recv"} ELSE {})
          \in SUBSET {"send", "recv"}
    BY <1>1
<1> QED
    BY <1>1, <1>2 DEF ShutdownSend

(* notFoundResponder and notAllowedResponder answer with a response.       *)
LEMMA ReadRejectedType ==
    ASSUME TypeOK, NEW c \in Conn, ReadRejected(c)
    PROVE  /\ ctx' \in [Conn -> Context] /\ heard' \in [Conn -> Seq(Heard)]
           /\ metrics' \in Metrics
<1> DEFINE status(r) == IF r.target \in DOMAIN RequestHandlers THEN 405 ELSE 404
<1>1. PICK m \in Arriving(c), p \in Cuts(c) :
         /\ ctx' = [ctx EXCEPT ![c] = Respond(Parsed(c, m, p), status(m.request))]
         /\ Hear(c, m)
         /\ metrics' = CountRequest(m.request)
    BY DEF ReadRejected
<1>2. m \in Heard /\ m.request \in Request /\ Parsed(c, m, p) \in Context
    BY ParsedType
<1>3. ctx \in [Conn -> Context]
    BY DEF TypeOK
<1>4. status(m.request) \in {200, 404, 405}
    OBVIOUS
<1> HIDE DEF status
<1>5. Respond(Parsed(c, m, p), status(m.request)) \in Context
    BY <1>2, <1>4, RespondType
<1> QED
    BY <1>1, <1>2, <1>3, <1>5, HearType, CountRequestType

LEMMA InitType == Init => TypeOK
<1> SUFFICES ASSUME Init PROVE TypeOK
    OBVIOUS
<1>1. NewContext \in Context
    BY FreshResponseType DEF NewContext, Context
<1>2. NoOps \in Ops
    BY DEF NoOps, Ops
<1>3. metrics \in Metrics
    BY DEF Init, Metrics
<1>4. threads \in Int /\ threads <= Threads
    BY ConstantsAssumption DEF Init
<1> QED
    BY <1>1, <1>2, <1>3, <1>4 DEF Init, TypeOK

(* Every step of the server keeps the types.                               *)
LEMMA ServerType ==
    ASSUME TypeOK, NEW c \in Conn, Server(c)
    PROVE  TypeOK'
<1> USE DEF TypeOK, Stages
<1> DEFINE p == pending[c]
<1>0. p \in Ops /\ ctx[c] \in Context
    OBVIOUS
<1>1. CASE Open(c)
  <2>1. CASE Secure
    <3>1. Start("handshake", p) \in Ops
      BY <1>0, StartType
    <3>2. metrics' \in Metrics
      BY <1>1, CountedType DEF Open
    <3> QED
      <4>1. pending' = [pending EXCEPT ![c] = Start("handshake", @)] /\ UNCHANGED ctx
        BY <1>1, <2>1 DEF Open, StartAsyncRead
      <4>2. pending' \in [Conn -> Ops]
        BY <3>1, <4>1
      <4> QED
        BY <1>1, <3>2, <4>1, <4>2 DEF Open, clientVars
  <2>2. CASE ~Secure
    <3>1. ctx' \in [Conn -> Context] /\ pending' \in [Conn -> Ops]
      BY <1>0, <1>1, <2>2, AsyncReadNextRequestType DEF Open, StartAsyncRead
    <3>2. metrics' \in Metrics
      BY <1>1, CountedType DEF Open
    <3> QED
      BY <1>1, <3>1, <3>2 DEF Open, clientVars
  <2> QED
    BY <2>1, <2>2
<1>2. CASE HandshakeSucceeds(c)
  <2>1. Finish("handshake", p) \in Ops
    BY <1>0, <1>2, FinishType DEF HandshakeSucceeds
  <2>2. ctx' \in [Conn -> Context] /\ pending' \in [Conn -> Ops]
    BY <1>2, <2>1, AsyncReadNextRequestType DEF HandshakeSucceeds
  <2> QED
    BY <1>2, <2>2 DEF HandshakeSucceeds, clientVars
<1>3. CASE HandshakeFails(c)
  <2>1. Finish("handshake", p) \in Ops
    BY <1>0, <1>3, FinishType DEF HandshakeFails
  <2>2. conn' \in [Conn -> Stages] /\ metrics' \in Metrics
    BY <1>3, SettleType DEF HandshakeFails
  <2> QED
    BY <1>3, <2>1, <2>2 DEF HandshakeFails, clientVars
<1>4. CASE ReadHandler(c)
  <2>0. p.read > 0
    BY <1>4 DEF ReadHandler, ReadRejected, ReadDispatched, ReadUpgraded, ReadThrows,
                ReadFails, ReadCompletes
  <2>1. Finish("read", p) \in Ops
    BY <1>0, <2>0, FinishType
  <2>2. CASE ReadRejected(c)
    <3>1. Start("write", Finish("read", p)) \in Ops
      BY <2>1, StartType
    <3>2. refused' \in Nat
      BY <2>2 DEF ReadRejected, CountRefused
    <3>3. /\ pending' = [pending EXCEPT ![c] = Start("write", Finish("read", @))]
          /\ UNCHANGED <<conn, exec, responders, readers, shut, peer, sent, wire, threads>>
      BY <2>2 DEF ReadRejected, clientVars
    <3> QED
      BY <2>2, <3>1, <3>2, <3>3, ReadRejectedType
  <2>3. CASE ReadDispatched(c)
    <3>1. PICK m \in Arriving(c), q \in Cuts(c) :
             /\ ctx' = [ctx EXCEPT ![c] = Parsed(c, m, q)]
             /\ Hear(c, m)
             /\ metrics' = CountRequest(m.request)
      BY <2>3 DEF ReadDispatched
    <3>2. m \in Heard /\ m.request \in Request /\ Parsed(c, m, q) \in Context
      BY ParsedType
    <3>3. metrics' \in Metrics /\ heard' \in [Conn -> Seq(Heard)]
      BY <3>1, <3>2, HearType, CountRequestType
    <3>4. refused' \in Nat
      BY <2>3 DEF ReadDispatched, CountRefused
    <3>5. /\ pending' = [pending EXCEPT ![c] = Finish("read", @)]
          /\ exec' = [exec EXCEPT ![c] = "handler"]
          /\ UNCHANGED <<conn, responders, readers, shut, peer, sent, wire, threads>>
      BY <2>3 DEF ReadDispatched, clientVars
    <3> QED
      BY <2>1, <3>1, <3>2, <3>3, <3>4, <3>5
  <2>4. CASE ReadUpgraded(c)
    <3>1. PICK m \in Arriving(c), q \in Cuts(c) :
             ctx' = [ctx EXCEPT ![c] = Parsed(c, m, q)] /\ Hear(c, m)
      BY <2>4 DEF ReadUpgraded
    <3>2. m \in Heard /\ Parsed(c, m, q) \in Context
      BY ParsedType
    <3>3. metrics' \in Metrics /\ heard' \in [Conn -> Seq(Heard)]
      BY <2>4, <3>1, <3>2, HearType, CountedType DEF ReadUpgraded
    <3>4. /\ pending' = [pending EXCEPT ![c] = Finish("read", @)]
          /\ conn' = [conn EXCEPT ![c] = "ws"]
          /\ UNCHANGED <<exec, responders, readers, shut, peer, sent, wire, threads, refused>>
      BY <2>4 DEF ReadUpgraded, clientVars
    <3> QED
      BY <2>1, <3>1, <3>2, <3>3, <3>4
  <2>5. CASE ReadThrows(c)
    <3>1. PICK m \in Arriving(c), q \in Cuts(c) :
             /\ ctx' = [ctx EXCEPT ![c].cur = Len(heard[c]) + 1, ![c].taken = q.upTo,
                                   ![c].inside = q.inside]
             /\ Hear(c, m)
      BY <2>5 DEF ReadThrows
    <3>2. /\ m \in Heard /\ Len(heard[c]) + 1 \in Nat
          /\ q.upTo \in Nat /\ q.inside \in BOOLEAN
      BY ParsedType
    <3>3. ctx' \in [Conn -> Context] /\ heard' \in [Conn -> Seq(Heard)]
      <4>1. ctx' \in [Conn -> Context]
        BY <1>0, <3>1, <3>2 DEF Context
      <4> QED
        BY <3>1, <3>2, <4>1, HearType
    <3>4. conn' \in [Conn -> Stages] /\ metrics' \in Metrics
      BY <2>5, SettleType DEF ReadThrows
    <3>5. threads' \in Int /\ threads' <= Threads
      BY <2>5, LeaveRunType DEF ReadThrows
    <3>6. /\ pending' = [pending EXCEPT ![c] = Finish("read", @)]
          /\ UNCHANGED <<exec, responders, readers, shut, peer, sent, wire, refused>>
      BY <2>5 DEF ReadThrows, clientVars
    <3> QED
      BY <2>1, <3>3, <3>4, <3>5, <3>6
  <2>6. CASE ReadFails(c)
    <3>1. conn' \in [Conn -> Stages] /\ metrics' \in Metrics
      BY <2>6, SettleType DEF ReadFails
    <3>2. threads' \in Int /\ threads' <= Threads
      BY <2>6, LeaveRunType DEF ReadFails, RemoteEndpointThrows
    <3> QED
      BY <2>1, <2>6, <3>1, <3>2 DEF ReadFails, clientVars
  <2> QED
    BY <1>4, <2>2, <2>3, <2>4, <2>5, <2>6 DEF ReadHandler
<1>5. CASE HandlerReturns(c)
  <2>1. pending' \in [Conn -> Ops]
    BY <1>5, DestroyResponderType DEF HandlerReturns
  <2>2. conn' \in [Conn -> Stages] /\ metrics' \in Metrics
    BY <1>5, SettleType DEF HandlerReturns
  <2>3. threads' \in Int /\ threads' <= Threads
    BY <1>5, LeaveRunType DEF HandlerReturns, CatchAll
  <2> QED
    BY <1>5, <2>1, <2>2, <2>3 DEF HandlerReturns, clientVars
<1>6. CASE WriteHandler(c)
  <2>0. p.write > 0
    BY <1>6 DEF WriteHandler, WriteSucceeds, WriteThrows, WriteFails, WriteCompletes
  <2>1. Finish("write", p) \in Ops
    BY <1>0, <2>0, FinishType
  <2>3. [wire EXCEPT ![c] = Append(@, Reply(c))]
            \in [Conn -> Seq([for : Nat, response : Response])]
    BY ReplyType
  <2>4. CASE WriteSucceeds(c)
    <3>1. metrics' \in Metrics
      BY <2>4, CountedType DEF WriteSucceeds
    <3>2. ctx' \in [Conn -> Context] /\ pending' \in [Conn -> Ops]
      <4>1. CASE ctx[c].response.keepAlive \/ ~Secure
        <5>1. AsyncReadNextRequest(c, Finish("write", p))
          BY <2>4, <4>1 DEF WriteSucceeds
        <5> QED
          BY <2>1, <5>1, AsyncReadNextRequestType
      <4>2. CASE ~(ctx[c].response.keepAlive \/ ~Secure)
        <5>1. pending' = [pending EXCEPT ![c] = Finish("write", p)] /\ UNCHANGED ctx
          BY <2>4, <4>2 DEF WriteSucceeds
        <5>2. pending' \in [Conn -> Ops]
          BY <2>1, <5>1
        <5> QED
          BY <5>1, <5>2
      <4> QED
        BY <4>1, <4>2
    <3>3. shut' \in [Conn -> SUBSET {"send", "recv"}]
      <4>1. CASE UNCHANGED shut
        BY <4>1
      <4>2. CASE ShutdownSend(c)
        BY <4>2, ShutdownSendType
      <4> QED
        BY <2>4, <4>1, <4>2 DEF WriteSucceeds
    <3>4. exec' \in [Conn -> {"idle", "handler", "shutdown"}]
      BY <2>4 DEF WriteSucceeds
    <3> QED
      BY <2>3, <2>4, <3>1, <3>2, <3>3, <3>4 DEF WriteSucceeds, clientVars
  <2>5. CASE WriteThrows(c)
    <3>1. Counted("responses") \in Metrics
      BY CountedType
    <3>2. conn' \in [Conn -> Stages] /\ metrics' \in Metrics
      BY <2>5, <3>1, SettleType DEF WriteThrows
    <3>3. threads' \in Int /\ threads' <= Threads
      BY <2>5, LeaveRunType DEF WriteThrows
    <3> QED
      BY <2>1, <2>3, <2>5, <3>2, <3>3 DEF WriteThrows, clientVars
  <2>6. CASE WriteFails(c)
    <3>1. metrics' \in Metrics
      BY <2>6, CountedType DEF WriteFails
    <3>2. /\ ctx' \in [Conn -> Context] /\ pending' \in [Conn -> Ops]
          /\ exec' \in [Conn -> {"idle", "handler", "shutdown"}]
          /\ shut' \in [Conn -> SUBSET {"send", "recv"}]
      <4>1. CASE Secure
        <5>1. /\ pending' = [pending EXCEPT ![c] = Finish("write", p)]
              /\ exec' = [exec EXCEPT ![c] = "shutdown"]
              /\ UNCHANGED <<ctx, shut>>
          BY <2>6, <4>1 DEF WriteFails
        <5> QED
          BY <2>1, <5>1
      <4>2. CASE ~Secure
        <5>1. AsyncReadNextRequest(c, Finish("write", p)) /\ ShutdownBoth(c)
              /\ UNCHANGED exec
          BY <2>6, <4>2 DEF WriteFails
        <5>2. ctx' \in [Conn -> Context] /\ pending' \in [Conn -> Ops]
          BY <2>1, <5>1, AsyncReadNextRequestType
        <5> QED
          BY <5>1, <5>2 DEF ShutdownBoth
      <4> QED
        BY <4>1, <4>2
    <3> QED
      BY <2>6, <3>1, <3>2 DEF WriteFails, clientVars
  <2> QED
    BY <1>6, <2>4, <2>5, <2>6 DEF WriteHandler
<1>7. CASE ShutdownReturns(c)
  <2>1. ctx' \in [Conn -> Context] /\ pending' \in [Conn -> Ops]
    BY <1>0, <1>7, AsyncReadNextRequestType DEF ShutdownReturns
  <2> QED
    BY <1>7, <2>1, ShutdownSendType DEF ShutdownReturns, clientVars
<1>8. CASE SessionEnds(c)
  <2>1. metrics' = [metrics EXCEPT !.sessions = @ - 1, !.closedSessions = @ + 1,
                                   !.connections = @ - 1, !.finished = @ + 1]
    BY <1>8 DEF SessionEnds
  <2>2. /\ metrics.sessions - 1 \in Int /\ metrics.closedSessions + 1 \in Int
        /\ metrics.connections - 1 \in Int /\ metrics.finished + 1 \in Int
    BY DEF Metrics
  <2>3. metrics' \in Metrics
    BY <2>1, <2>2 DEF Metrics
  <2> QED
    BY <1>8, <2>3 DEF SessionEnds, clientVars
<1>9. CASE OpenThrows(c)
  <2>1. threads' \in Int /\ threads' <= Threads
    BY <1>9, LeaveRunType DEF OpenThrows
  <2> QED
    BY <1>9, <2>1 DEF OpenThrows, clientVars
<1>10. CASE SessionThrows(c)
  <2>1. threads' \in Int /\ threads' <= Threads
    BY <1>10, LeaveRunType DEF SessionThrows
  <2> QED
    BY <1>10, <2>1 DEF SessionThrows, clientVars
<1> QED
    BY <1>1, <1>2, <1>3, <1>4, <1>5, <1>6, <1>7, <1>8, <1>9, <1>10
    DEF Server, Accept, Established

(* Every step of user code keeps the types.                                *)
LEMMA UserCodeType ==
    ASSUME TypeOK, NEW c \in Conn, UserCode(c)
    PROVE  TypeOK'
<1> USE DEF TypeOK, Stages
<1>1. ASSUME NEW h \in Holder, TakeKeeper(c, h)
      PROVE  TypeOK'
    BY <1>1 DEF TakeKeeper, clientVars
<1>2. ASSUME NEW h \in Holder, KeepResponder(c, h)
      PROVE  TypeOK'
    BY <1>2 DEF KeepResponder, clientVars
<1>3. CASE SetResponse(c)
  <2>1. Respond(ctx[c], 200) \in Context
    BY RespondType
  <2> QED
    BY <1>3, <2>1 DEF SetResponse, clientVars
<1>4. ASSUME NEW h \in Holder, ReleaseResponder(c, h)
      PROVE  TypeOK'
  <2>1. pending' \in [Conn -> Ops]
    BY <1>4, DestroyResponderType DEF ReleaseResponder
  <2> QED
    BY <1>4, <2>1 DEF ReleaseResponder, clientVars
<1>5. ASSUME NEW h \in Holder, ReleaseReader(c, h)
      PROVE  TypeOK'
  <2>1. conn' \in [Conn -> Stages] /\ metrics' \in Metrics
    BY <1>5, SettleType DEF ReleaseReader
  <2> QED
    BY <1>5, <2>1 DEF ReleaseReader, clientVars
<1> QED
    BY <1>1, <1>2, <1>3, <1>4, <1>5 DEF UserCode, Release

(* Every step of the client keeps the types.                               *)
LEMMA ClientType ==
    ASSUME TypeOK, NEW c \in Conn, Client(c)
    PROVE  TypeOK'
<1> USE DEF TypeOK
<1>1. ASSUME NEW r \in Request, ClientSends(c, r)
      PROVE  TypeOK'
  <2>1. Append(sent[c], r) \in Seq(Request)
    BY AppendType
  <2> QED
    BY <1>1, <2>1 DEF ClientSends
<1>2. ASSUME NEW how \in {"fin", "reset"}, ClientLeaves(c, how)
      PROVE  TypeOK'
    BY <1>2 DEF ClientLeaves
<1> QED
    BY <1>1, <1>2 DEF Client

LEMMA TypeStep == TypeOK /\ [Next]_vars => TypeOK'
<1> SUFFICES ASSUME TypeOK, [Next]_vars
             PROVE  TypeOK'
    OBVIOUS
<1>1. CASE UNCHANGED vars
    BY <1>1 DEF vars, TypeOK
<1>2. CASE Next
    BY <1>2, ServerType, UserCodeType, ClientType DEF Next
<1> QED
    BY <1>1, <1>2

(* Every variable has its type in every reachable state: no completion is  *)
(* counted twice, and no more threads leave run() than ever entered it.    *)
THEOREM TypeCorrect == Spec => []TypeOK
    BY InitType, TypeStep, PTL DEF Spec

-----------------------------------------------------------------------------
(* Half duplex, and ownership.                                             *)

(* What the two invariants say of one connection, and what makes them      *)
(* inductive: nobody holds a responder before the connection is accepted.  *)
Own(c) ==
    /\ Load(c) <= 1
    /\ conn[c] = "http" => ProcessorHeld(c)
    /\ conn[c] # "http" => pending[c] = NoOps /\ exec[c] = "idle"
    /\ conn[c] = "none" => responders[c] = {}

Step(c) == Server(c) \/ UserCode(c) \/ Client(c)

Elsewhere(c) == \A d \in Conn \ {c} :
    /\ conn'[d] = conn[d]
    /\ pending'[d] = pending[d]
    /\ exec'[d] = exec[d]
    /\ responders'[d] = responders[d]
    /\ readers'[d] = readers[d]
    /\ ctx'[d] = ctx[d]
    /\ heard'[d] = heard[d]
    /\ shut'[d] = shut[d]
    /\ peer'[d] = peer[d]
    /\ wire'[d] = wire[d]

(* A step of one connection leaves every other one alone.                  *)
LEMMA OneConnection ==
    ASSUME TypeOK, NEW c \in Conn, Step(c)
    PROVE  Elsewhere(c)
<1> USE DEF TypeOK, Elsewhere, clientVars
<1>1. CASE Accept(c)
    BY <1>1, ZenonT(40) DEF Accept, Open, OpenThrows, StartAsyncRead, AsyncReadNextRequest
<1>2. CASE HandshakeSucceeds(c)
    BY <1>2 DEF HandshakeSucceeds, AsyncReadNextRequest
<1>3. CASE HandshakeFails(c)
    BY <1>3 DEF HandshakeFails, Settle
<1>4. CASE ReadRejected(c) \/ ReadDispatched(c) \/ ReadUpgraded(c)
  <2>1. CASE ReadRejected(c)
    BY <2>1, ZenonT(60) DEF ReadRejected, Hear
  <2>2. CASE ReadDispatched(c)
    BY <2>2, ZenonT(60) DEF ReadDispatched, Hear
  <2>3. CASE ReadUpgraded(c)
    BY <2>3, ZenonT(60) DEF ReadUpgraded, Hear
  <2> QED
    BY <1>4, <2>1, <2>2, <2>3
<1>5. CASE ReadThrows(c) \/ ReadFails(c)
  <2>1. CASE ReadThrows(c)
    BY <2>1, SMTT(30) DEF ReadThrows, Hear, Settle
  <2>2. CASE ReadFails(c)
    BY <2>2, SMTT(30) DEF ReadFails, Settle
  <2> QED
    BY <1>5, <2>1, <2>2
<1>6. CASE HandlerReturns(c)
    BY <1>6 DEF HandlerReturns, DestroyResponder, Settle
<1>7. CASE WriteSucceeds(c)
    BY <1>7 DEF WriteSucceeds, AsyncReadNextRequest, ShutdownSend
<1>8. CASE WriteThrows(c)
    BY <1>8 DEF WriteThrows, Settle
<1>9. CASE WriteFails(c)
    BY <1>9 DEF WriteFails, AsyncReadNextRequest, ShutdownBoth
<1>10. CASE ShutdownReturns(c)
    BY <1>10 DEF ShutdownReturns, AsyncReadNextRequest, ShutdownSend
<1>11. CASE SessionThrows(c) \/ SessionEnds(c)
    BY <1>11 DEF SessionThrows, SessionEnds
<1>12. CASE UserCode(c)
    BY <1>12 DEF UserCode, Release, TakeKeeper, KeepResponder, SetResponse,
                 ReleaseResponder, ReleaseReader, DestroyResponder, Settle
<1>13. CASE Client(c)
    BY <1>13 DEF Client, ClientSends, ClientLeaves
<1> QED
    BY <1>1, <1>2, <1>3, <1>4, <1>5, <1>6, <1>7, <1>8, <1>9, <1>10, <1>11, <1>12, <1>13
    DEF Step, Server, Established, ReadHandler, WriteHandler

(* The arithmetic of Load: one thing at a time.                            *)
LEMMA LoadMeaning ==
    ASSUME TypeOK, NEW c \in Conn
    PROVE  /\ pending[c] \in Ops
           /\ Load(c) <= 1 <=>
                /\ pending[c].handshake + pending[c].read + pending[c].write <= 1
                /\ pending[c].handshake + pending[c].read + pending[c].write = 1
                       => ~ResponderHeld(c) /\ exec[c] # "shutdown"
                /\ ~(ResponderHeld(c) /\ exec[c] = "shutdown")
<1>1. pending[c] \in Ops
    BY DEF TypeOK
<1>2. pending[c].handshake + pending[c].read + pending[c].write \in Nat
    BY <1>1 DEF Ops
<1> QED
    BY <1>1, <1>2 DEF Load

(* A handler or an operation belongs to an open connection.                *)
LEMMA Busy ==
    ASSUME TypeOK, NEW c \in Conn, Own(c)
    PROVE  /\ pending[c].handshake > 0 \/ pending[c].read > 0 \/ pending[c].write > 0
                 => conn[c] = "http" /\ exec[c] = "idle" /\ responders[c] = {}
           /\ pending[c].handshake > 0 => pending[c] = [NoOps EXCEPT !.handshake = 1]
           /\ pending[c].read > 0 => pending[c] = [NoOps EXCEPT !.read = 1]
           /\ pending[c].write > 0 => pending[c] = [NoOps EXCEPT !.write = 1]
           /\ exec[c] # "idle" => conn[c] = "http" /\ pending[c] = NoOps
           /\ exec[c] = "shutdown" => responders[c] = {}
           /\ responders[c] # {} => pending[c] = NoOps
<1>1. pending[c] \in Ops /\ exec[c] \in {"idle", "handler", "shutdown"}
    BY DEF TypeOK
<1>2. /\ pending[c].handshake + pending[c].read + pending[c].write <= 1
      /\ pending[c].handshake + pending[c].read + pending[c].write = 1
             => ~ResponderHeld(c) /\ exec[c] # "shutdown"
      /\ ~(ResponderHeld(c) /\ exec[c] = "shutdown")
    BY LoadMeaning DEF Own
<1>3. pending[c].handshake + pending[c].read + pending[c].write = 0 => pending[c] = NoOps
    BY <1>1 DEF Ops, NoOps
<1>4. \A op \in {"handshake", "read", "write"} :
         pending[c][op] > 0 => pending[c] = [NoOps EXCEPT ![op] = 1]
    BY <1>1, <1>2 DEF Ops, NoOps
<1>5. /\ pending[c].handshake > 0 => pending[c] = [NoOps EXCEPT !.handshake = 1]
      /\ pending[c].read > 0 => pending[c] = [NoOps EXCEPT !.read = 1]
      /\ pending[c].write > 0 => pending[c] = [NoOps EXCEPT !.write = 1]
    BY <1>4
<1>6. pending[c].handshake > 0 \/ pending[c].read > 0 \/ pending[c].write > 0
         => pending[c].handshake + pending[c].read + pending[c].write = 1
    BY <1>1, <1>2 DEF Ops
<1>7. pending[c].handshake + pending[c].read + pending[c].write # 1
         => pending[c].handshake + pending[c].read + pending[c].write = 0
  <2>1. /\ pending[c].handshake \in Nat /\ pending[c].read \in Nat
        /\ pending[c].write \in Nat
    BY <1>1 DEF Ops
  <2>2. pending[c].handshake + pending[c].read + pending[c].write <= 1
    BY <1>2
  <2>3. ASSUME NEW h \in Nat, NEW r \in Nat, NEW w \in Nat, h + r + w <= 1
        PROVE  h + r + w # 1 => h + r + w = 0
    BY <2>3
  <2> QED
    BY <2>1, <2>2, <2>3
<1>8. pending[c] = NoOps => ~(pending[c].handshake > 0 \/ pending[c].read > 0
                              \/ pending[c].write > 0)
    BY DEF NoOps
<1> QED
    BY <1>1, <1>2, <1>3, <1>5, <1>6, <1>7, <1>8 DEF Own, ResponderHeld

(* What a connection may have going on after a step.                       *)
LEMMA OwnFrom ==
    ASSUME TypeOK', NEW c \in Conn,
           \/ /\ pending'[c] = NoOps
              /\ exec'[c] = "shutdown" => responders'[c] = {}
           \/ /\ \E op \in {"handshake", "read", "write"} :
                     pending'[c] = [NoOps EXCEPT ![op] = 1]
              /\ exec'[c] = "idle" /\ responders'[c] = {}
    PROVE  Load(c)' <= 1
<1>1. CASE pending'[c] = NoOps /\ (exec'[c] = "shutdown" => responders'[c] = {})
    BY <1>1 DEF NoOps, Load, ResponderHeld
<1>2. ASSUME NEW op \in {"handshake", "read", "write"},
             pending'[c] = [NoOps EXCEPT ![op] = 1],
             exec'[c] = "idle" /\ responders'[c] = {}
      PROVE  Load(c)' <= 1
    BY <1>2 DEF NoOps, Load, ResponderHeld
<1> QED
    BY <1>1, <1>2

(* Starting and finishing the one operation a connection may have.         *)
LEMMA OneOperation ==
    /\ \A op \in {"handshake", "read", "write"} :
          /\ Start(op, NoOps) = [NoOps EXCEPT ![op] = 1]
          /\ Finish(op, [NoOps EXCEPT ![op] = 1]) = NoOps
    /\ NoOps.handshake + NoOps.read + NoOps.write = 0
    /\ \A op \in {"handshake", "read", "write"} :
          LET p == [NoOps EXCEPT ![op] = 1] IN p.handshake + p.read + p.write = 1
    BY DEF Start, Finish, NoOps

(* The step's connection is still owned, and still half duplex.            *)
LEMMA ServerOwn ==
    ASSUME TypeOK, TypeOK', NEW c \in Conn, Own(c), Server(c)
    PROVE  Own(c)'
<1> USE DEF Own
<1> DEFINE p == pending[c]
<1>0. /\ conn[c] \in Stages
      /\ exec[c] \in {"idle", "handler", "shutdown"}
      /\ p \in Ops
    BY DEF TypeOK, Stages
<1>a. ASSUME NEW m, Settle(c, m), conn[c] = "http",
             pending'[c] = NoOps /\ exec'[c] = "idle"
      PROVE  Own(c)'
  <2>1. Load(c)' <= 1
    BY <1>a, OwnFrom
  <2>2. /\ conn'[c] \in {"http", "destroyed"}
        /\ conn'[c] = "http" => ProcessorHeld(c)'
    BY <1>a DEF Settle, TypeOK
  <2> QED
    BY <1>a, <2>1, <2>2
<1>b. ASSUME NEW op \in {"handshake", "read", "write"}, conn'[c] = "http",
             pending'[c] = [NoOps EXCEPT ![op] = 1],
             exec'[c] = "idle" /\ responders'[c] = {}
      PROVE  Own(c)'
  <2>1. Load(c)' <= 1
    BY <1>b, OwnFrom
  <2>2. ProcessorHeld(c)'
    BY <1>b, OneOperation DEF ProcessorHeld
  <2> QED
    BY <1>b, <2>1, <2>2
<1>1. CASE Open(c)
  <2>1. conn[c] = "none" /\ conn'[c] = "http" /\ exec'[c] = "idle" /\ responders'[c] = {}
    BY <1>1 DEF Open, TypeOK
  <2>2. pending'[c] = Start("handshake", NoOps) \/ pending'[c] = Start("read", NoOps)
    BY <1>1, <2>1 DEF Open, StartAsyncRead, AsyncReadNextRequest, TypeOK
  <2> QED
    BY <1>b, <2>1, <2>2, OneOperation
<1>2. CASE HandshakeSucceeds(c)
  <2>1. /\ conn'[c] = "http" /\ exec'[c] = "idle" /\ responders'[c] = {}
        /\ p = [NoOps EXCEPT !.handshake = 1]
    BY <1>2, Busy DEF HandshakeSucceeds
  <2>2. pending'[c] = Start("read", Finish("handshake", p))
    BY <1>2 DEF HandshakeSucceeds, AsyncReadNextRequest, TypeOK
  <2>3. pending'[c] = [NoOps EXCEPT !["read"] = 1]
    BY <2>1, <2>2, OneOperation
  <2> QED
    BY <1>b, <2>1, <2>3
<1>3. CASE HandshakeFails(c)
  <2>1. /\ conn[c] = "http" /\ exec'[c] = "idle" /\ p = [NoOps EXCEPT !.handshake = 1]
    BY <1>3, Busy DEF HandshakeFails
  <2>2. pending'[c] = Finish("handshake", p)
    BY <1>3 DEF HandshakeFails, TypeOK
  <2> QED
    <3>1. pending'[c] = NoOps /\ exec'[c] = "idle" /\ Settle(c, metrics)
      BY <1>3, <2>1, <2>2, OneOperation DEF HandshakeFails
    <3> QED
      BY <1>a, <2>1, <3>1
<1>4. CASE ReadHandler(c)
  <2>0. /\ conn[c] = "http" /\ exec[c] = "idle" /\ responders[c] = {}
        /\ p = [NoOps EXCEPT !.read = 1]
    BY <1>4, Busy DEF ReadHandler, ReadRejected, ReadDispatched, ReadUpgraded, ReadThrows,
                      ReadFails, ReadCompletes
  <2>1. Finish("read", p) = NoOps
    BY <2>0, OneOperation
  <2>2. CASE ReadRejected(c)
    <3>1. pending'[c] = Start("write", Finish("read", p))
      BY <2>2 DEF ReadRejected, TypeOK
    <3>2. conn'[c] = "http" /\ exec'[c] = "idle" /\ responders'[c] = {}
      BY <2>0, <2>2 DEF ReadRejected
    <3> QED
      BY <1>b, <2>1, <3>1, <3>2, OneOperation
  <2>3. CASE ReadDispatched(c)
    <3>1. pending'[c] = NoOps /\ conn'[c] = "http" /\ exec'[c] = "handler"
      BY <2>0, <2>1, <2>3 DEF ReadDispatched, TypeOK
    <3>2. Load(c)' <= 1
      BY <3>1, OwnFrom
    <3> QED
      BY <3>1, <3>2 DEF ProcessorHeld
  <2>4. CASE ReadUpgraded(c)
    <3>1. pending'[c] = NoOps /\ conn'[c] = "ws" /\ exec'[c] = "idle"
      BY <2>0, <2>1, <2>4 DEF ReadUpgraded, TypeOK
    <3>2. Load(c)' <= 1
      BY <3>1, OwnFrom
    <3> QED
      BY <3>1, <3>2
  <2>5. CASE ReadThrows(c)
    <3>1. pending'[c] = NoOps /\ exec'[c] = "idle" /\ Settle(c, metrics)
      BY <2>0, <2>1, <2>5 DEF ReadThrows, TypeOK
    <3> QED
      BY <1>a, <2>0, <3>1
  <2>6. CASE ReadFails(c)
    <3>1. pending'[c] = NoOps /\ exec'[c] = "idle" /\ Settle(c, metrics)
      BY <2>0, <2>1, <2>6 DEF ReadFails, TypeOK
    <3> QED
      BY <1>a, <2>0, <3>1
  <2> QED
    BY <1>4, <2>2, <2>3, <2>4, <2>5, <2>6 DEF ReadHandler
<1>5. CASE HandlerReturns(c)
  <2>0. conn[c] = "http" /\ p = NoOps /\ exec'[c] = "idle"
    BY <1>5, Busy, ZenonT(40) DEF HandlerReturns, TypeOK
  <2>1. CASE responders[c] = {}
    <3>1. ProcessorHeld(c)
      BY <1>5 DEF HandlerReturns, ProcessorHeld
    <3>2. pending'[c] = Start("write", NoOps) /\ responders'[c] = {}
      BY <1>5, <2>0, <2>1, <3>1 DEF HandlerReturns, DestroyResponder, TypeOK
    <3>3. ProcessorHeld(c)'
      BY <3>2, OneOperation DEF ProcessorHeld
    <3>4. conn'[c] = "http"
      BY <1>5, <2>0, <3>3 DEF HandlerReturns, Settle
    <3> QED
      BY <1>b, <2>0, <3>2, <3>4, OneOperation
  <2>2. CASE responders[c] # {}
    <3>1. pending'[c] = NoOps /\ Settle(c, metrics)
      BY <1>5, <2>0, <2>2 DEF HandlerReturns
    <3> QED
      BY <1>a, <2>0, <3>1
  <2> QED
    BY <2>1, <2>2
<1>6. CASE WriteHandler(c)
  <2>0. /\ conn[c] = "http" /\ exec[c] = "idle" /\ responders[c] = {}
        /\ p = [NoOps EXCEPT !.write = 1]
    BY <1>6, Busy DEF WriteHandler, WriteSucceeds, WriteThrows, WriteFails, WriteCompletes
  <2>1. Finish("write", p) = NoOps
    BY <2>0, OneOperation
  <2>2. CASE WriteSucceeds(c) /\ (ctx[c].response.keepAlive \/ ~Secure)
    <3>1. pending'[c] = Start("read", NoOps)
      BY <2>1, <2>2 DEF WriteSucceeds, AsyncReadNextRequest, TypeOK
    <3>2. conn'[c] = "http" /\ exec'[c] = "idle" /\ responders'[c] = {}
      BY <2>0, <2>2 DEF WriteSucceeds
    <3> QED
      BY <1>b, <3>1, <3>2, OneOperation
  <2>3. CASE WriteSucceeds(c) /\ ~(ctx[c].response.keepAlive \/ ~Secure)
    <3>1. /\ pending'[c] = NoOps /\ exec'[c] = "shutdown" /\ responders'[c] = {}
          /\ conn'[c] = "http"
      BY <2>0, <2>1, <2>3 DEF WriteSucceeds, TypeOK
    <3>2. Load(c)' <= 1
      BY <3>1, OwnFrom
    <3> QED
      BY <3>1, <3>2 DEF ProcessorHeld
  <2>4. CASE WriteThrows(c)
    <3>1. pending'[c] = NoOps /\ exec'[c] = "idle" /\ Settle(c, Counted("responses"))
      BY <2>0, <2>1, <2>4 DEF WriteThrows, TypeOK
    <3> QED
      BY <1>a, <2>0, <3>1
  <2>5. CASE WriteFails(c) /\ ~Secure
    <3>1. pending'[c] = Start("read", NoOps)
      BY <2>1, <2>5 DEF WriteFails, AsyncReadNextRequest, TypeOK
    <3>2. conn'[c] = "http" /\ exec'[c] = "idle" /\ responders'[c] = {}
      BY <2>0, <2>5 DEF WriteFails
    <3> QED
      BY <1>b, <3>1, <3>2, OneOperation
  <2>6. CASE WriteFails(c) /\ Secure
    <3>1. /\ pending'[c] = NoOps /\ exec'[c] = "shutdown" /\ responders'[c] = {}
          /\ conn'[c] = "http"
      BY <2>0, <2>1, <2>6 DEF WriteFails, TypeOK
    <3>2. Load(c)' <= 1
      BY <3>1, OwnFrom
    <3> QED
      BY <3>1, <3>2 DEF ProcessorHeld
  <2> QED
    BY <1>6, <2>2, <2>3, <2>4, <2>5, <2>6 DEF WriteHandler
<1>7. CASE ShutdownReturns(c)
  <2>1. conn[c] = "http" /\ p = NoOps /\ responders[c] = {}
    BY <1>7, Busy DEF ShutdownReturns
  <2>2. pending'[c] = Start("read", p) /\ exec'[c] = "idle"
    BY <1>7 DEF ShutdownReturns, AsyncReadNextRequest, TypeOK
  <2>3. conn'[c] = "http" /\ responders'[c] = {}
    BY <1>7, <2>1 DEF ShutdownReturns
  <2> QED
    BY <1>b, <2>1, <2>2, <2>3, OneOperation
<1>8. CASE SessionThrows(c) \/ SessionEnds(c)
  <2>1. conn'[c] \in {"deaf", "destroyed"} /\ pending'[c] = NoOps /\ exec'[c] = "idle"
    BY <1>8 DEF SessionThrows, SessionEnds, TypeOK
  <2>2. Load(c)' <= 1
    BY <2>1, OwnFrom
  <2> QED
    BY <2>1, <2>2
<1>9. CASE OpenThrows(c)
  <2>1. conn'[c] = "lost" /\ pending'[c] = NoOps /\ exec'[c] = "idle"
    BY <1>9 DEF OpenThrows, TypeOK
  <2>2. Load(c)' <= 1
    BY <2>1, OwnFrom
  <2> QED
    BY <2>1, <2>2
<1> QED
  BY <1>1, <1>2, <1>3, <1>4, <1>5, <1>6, <1>7, <1>8, <1>9 DEF Server, Accept, Established

LEMMA UserCodeOwn ==
    ASSUME TypeOK, TypeOK', NEW c \in Conn, Own(c), UserCode(c)
    PROVE  Own(c)'
<1> USE DEF Own
<1>0. /\ conn[c] \in Stages
      /\ exec[c] \in {"idle", "handler", "shutdown"}
    BY DEF TypeOK, Stages
<1>1. ASSUME NEW h \in Holder, TakeKeeper(c, h) \/ KeepResponder(c, h)
      PROVE  Own(c)'
  <2>1. ResponderHeld(c)
    BY <1>1 DEF TakeKeeper, KeepResponder, ResponderHeld
  <2>2. pending[c] = NoOps /\ conn[c] # "none" /\ exec[c] # "shutdown"
    BY <1>0, <2>1, Busy DEF ResponderHeld
  <2>3. /\ UNCHANGED <<conn, pending, exec>>
        /\ readers[c] \subseteq readers'[c]
    BY <1>1 DEF TakeKeeper, KeepResponder, TypeOK
  <2>4. Load(c)' <= 1
    BY <2>2, <2>3, OwnFrom
  <2>5. ProcessorHeld(c) => ProcessorHeld(c)'
    BY <2>3 DEF ProcessorHeld
  <2> QED
    BY <2>2, <2>3, <2>4, <2>5
<1>2. CASE SetResponse(c)
    BY <1>2 DEF SetResponse, Load, ResponderHeld, ProcessorHeld
<1>3. ASSUME NEW h \in Holder, ReleaseResponder(c, h)
      PROVE  Own(c)'
  <2>1. /\ pending[c] = NoOps /\ conn[c] # "none" /\ exec[c] # "shutdown"
        /\ UNCHANGED <<conn, exec, readers>>
        /\ responders'[c] = responders[c] \ {h}
    BY <1>3, Busy, ZenonT(40) DEF ReleaseResponder, TypeOK
  <2>2. CASE LastHolder(c, h) /\ ProcessorHeld(c) /\ conn[c] = "http"
    <3>1. pending'[c] = Start("write", NoOps)
      BY <1>3, <2>1, <2>2 DEF ReleaseResponder, DestroyResponder, TypeOK
    <3>2. responders'[c] = {} /\ exec'[c] = "idle"
      BY <1>0, <2>1, <2>2 DEF LastHolder
    <3>3. Load(c)' <= 1
      BY <3>1, <3>2, OneOperation, OwnFrom
    <3>4. ProcessorHeld(c)'
      BY <3>1, OneOperation DEF ProcessorHeld
    <3> QED
      BY <2>1, <2>2, <3>3, <3>4
  <2>3. CASE ~(LastHolder(c, h) /\ ProcessorHeld(c) /\ conn[c] = "http")
    <3>1. UNCHANGED pending
      BY <1>3, <2>3 DEF ReleaseResponder, DestroyResponder
    <3>2. Load(c)' <= 1
      BY <2>1, <3>1, OwnFrom
    <3>3. ProcessorHeld(c)' <=> ProcessorHeld(c)
      BY <2>1, <3>1 DEF ProcessorHeld
    <3> QED
      BY <2>1, <3>1, <3>2, <3>3
  <2> QED
    BY <2>2, <2>3
<1>4. ASSUME NEW h \in Holder, ReleaseReader(c, h)
      PROVE  Own(c)'
  <2>1. UNCHANGED <<pending, exec, responders>> /\ Settle(c, metrics)
    BY <1>4 DEF ReleaseReader
  <2>2. Load(c)' <= 1
    BY <2>1 DEF Load, ResponderHeld
  <2>3. conn[c] # "http" => UNCHANGED conn
    BY <2>1 DEF Settle
  <2>4. conn[c] = "http" => \/ conn'[c] = "http" /\ ProcessorHeld(c)'
                            \/ conn'[c] = "destroyed" /\ ~ProcessorHeld(c)'
    BY <2>1 DEF Settle, TypeOK
  <2>5. ~ProcessorHeld(c)' => pending'[c] = NoOps /\ exec'[c] = "idle"
    <3> SUFFICES ASSUME ~ProcessorHeld(c)'
                 PROVE  pending'[c] = NoOps /\ exec'[c] = "idle"
      OBVIOUS
    <3>1. pending'[c] \in Ops
      BY DEF TypeOK
    <3>2. /\ ~(pending'[c].handshake + pending'[c].read + pending'[c].write > 0)
          /\ exec'[c] = "idle"
      BY DEF ProcessorHeld
    <3> QED
      BY <3>1, <3>2 DEF Ops, NoOps
  <2> QED
    BY <2>1, <2>2, <2>3, <2>4, <2>5
<1> QED
    BY <1>1, <1>2, <1>3, <1>4 DEF UserCode, Release

LEMMA ClientOwn ==
    ASSUME NEW c \in Conn, Own(c), Client(c)
    PROVE  Own(c)'
<1>1. UNCHANGED <<conn, pending, exec, responders, readers>>
    BY DEF Client, ClientSends, ClientLeaves
<1> QED
    BY <1>1 DEF Own, Load, ResponderHeld, ProcessorHeld

(* A step of another connection changes nothing that Own looks at.         *)
LEMMA ElsewhereOwn ==
    ASSUME NEW c \in Conn, NEW d \in Conn \ {c}, Elsewhere(c), Own(d)
    PROVE  Own(d)'
<1>1. /\ conn'[d] = conn[d] /\ pending'[d] = pending[d] /\ exec'[d] = exec[d]
      /\ responders'[d] = responders[d] /\ readers'[d] = readers[d]
    BY DEF Elsewhere
<1> QED
    BY <1>1 DEF Own, Load, ResponderHeld, ProcessorHeld

IInv == TypeOK /\ \A c \in Conn : Own(c)

LEMMA InitIInv == Init => IInv
<1> SUFFICES ASSUME Init, NEW c \in Conn PROVE Own(c)
    BY InitType DEF IInv
<1>1. /\ conn[c] = "none" /\ pending[c] = NoOps /\ exec[c] = "idle"
      /\ responders[c] = {}
    BY DEF Init
<1> QED
    BY <1>1 DEF Own, Load, ResponderHeld, NoOps

LEMMA IInvStep == IInv /\ [Next]_vars => IInv'
<1> SUFFICES ASSUME IInv, [Next]_vars
             PROVE  IInv'
    OBVIOUS
<1>1. TypeOK'
    BY TypeStep DEF IInv
<1>2. CASE UNCHANGED vars
    BY <1>1, <1>2 DEF IInv, vars, Own, Load, ResponderHeld, ProcessorHeld
<1>3. CASE Next
  <2>1. PICK c \in Conn : Step(c)
    BY <1>3 DEF Next, Step
  <2>2. Own(c)'
    BY <1>1, <2>1, ServerOwn, UserCodeOwn, ClientOwn DEF IInv, Step
  <2>3. ASSUME NEW d \in Conn \ {c} PROVE Own(d)'
    BY <2>1, <2>3, OneConnection, ElsewhereOwn DEF IInv
  <2> QED
    BY <1>1, <2>2, <2>3 DEF IInv
<1> QED
    BY <1>2, <1>3

(* The inductive invariant holds in every reachable state.                 *)
THEOREM Inductive == Spec => []IInv
    BY InitIInv, IInvStep, PTL DEF Spec

(* A handshake, a read, a request in the hands of user code, a write and a *)
(* TLS shutdown of one connection exclude each other, whatever thread      *)
(* drops the last responder and however many connections there are.        *)
THEOREM HalfDuplex == Spec => []OneInFlight
<1>1. IInv => OneInFlight
    BY DEF IInv, Own, OneInFlight
<1> QED
    BY <1>1, Inductive, PTL

(* No connection is leaked, and none is destroyed or upgraded under an     *)
(* outstanding operation or a running handler.                             *)
THEOREM Owned == Spec => []OwnedWhileOpen
<1>1. IInv => OwnedWhileOpen
    BY DEF IInv, Own, OwnedWhileOpen
<1> QED
    BY <1>1, Inductive, PTL


-----------------------------------------------------------------------------
(* The response under a write.                                             *)

LEMMA WriteKeepsResponse ==
    ASSUME TypeOK, NEW c \in Conn, Own(c), Step(c),
           pending[c].write > 0, ctx'[c].response # ctx[c].response
    PROVE  WriteHandler(c)
<1>1. /\ conn[c] = "http" /\ exec[c] = "idle" /\ responders[c] = {}
      /\ pending[c] = [NoOps EXCEPT !.write = 1]
    BY Busy
<1>2. ~(pending[c].handshake > 0) /\ ~(pending[c].read > 0)
    BY <1>1 DEF NoOps
<1>3. CASE Accept(c) \/ HandshakeSucceeds(c) \/ HandshakeFails(c) \/ ReadHandler(c)
    BY <1>1, <1>2, <1>3 DEF Accept, Open, OpenThrows, HandshakeSucceeds, HandshakeFails, ReadHandler,
       ReadRejected, ReadDispatched, ReadUpgraded, ReadThrows, ReadFails, ReadCompletes
<1>4. CASE HandlerReturns(c) \/ ShutdownReturns(c) \/ SessionThrows(c) \/ SessionEnds(c)
    BY <1>1, <1>4 DEF HandlerReturns, ShutdownReturns, SessionThrows, SessionEnds
<1>5. CASE UserCode(c)
    BY <1>1, <1>5 DEF UserCode, Release, TakeKeeper, KeepResponder, SetResponse,
       ResponderHeld, ReleaseResponder, ReleaseReader
<1>6. CASE Client(c)
    BY <1>6 DEF Client, ClientSends, ClientLeaves
<1> QED
    BY <1>3, <1>4, <1>5, <1>6 DEF Step, Server, Established

LEMMA WriteFinishes ==
    ASSUME TypeOK, NEW c \in Conn, Own(c), WriteHandler(c)
    PROVE  pending'[c].write < pending[c].write
<1>1. pending[c] = [NoOps EXCEPT !.write = 1] /\ pending[c].write = 1
    BY Busy DEF WriteHandler, WriteSucceeds, WriteThrows, WriteFails, WriteCompletes, NoOps
<1>2. Finish("write", pending[c]) = NoOps
    BY <1>1, OneOperation
<1>3. pending'[c] \in {NoOps, Start("read", NoOps)}
    BY <1>2 DEF WriteHandler, WriteSucceeds, WriteThrows, WriteFails, AsyncReadNextRequest,
                TypeOK
<1> QED
    BY <1>1, <1>3 DEF Start, NoOps

(* The message given to async_write is not touched before the write has    *)
(* completed: not by the Reset of another completion handler, and not by   *)
(* user code, which has no responder left by then.                         *)
THEOREM StableResponse == Spec => ResponseStableDuringWrite
<1>1. ASSUME IInv, [Next]_vars, NEW d \in Conn,
             pending[d].write > 0, ctx'[d].response # ctx[d].response
      PROVE  pending'[d].write < pending[d].write
  <2>1. PICK c \in Conn : Step(c)
    BY <1>1 DEF vars, Next, Step
  <2>2. c = d
    BY <1>1, <2>1, OneConnection DEF IInv, Elsewhere
  <2> QED
    BY <1>1, <2>1, <2>2, WriteKeepsResponse, WriteFinishes DEF IInv
<1>2. IInv /\ [Next]_vars =>
         [\A c \in Conn : pending[c].write > 0 /\ ctx'[c].response # ctx[c].response
                             => pending'[c].write < pending[c].write]_vars
    BY <1>1
<1> QED
    BY <1>2, Inductive, PTL DEF Spec, ResponseStableDuringWrite

-----------------------------------------------------------------------------
(* Connections that are done.                                              *)

(* Nothing is started any more on a connection that has no operation, no   *)
(* handler and no responder: it can only be destroyed, and a thread leaves *)
(* run() in it only when it became a session, one of whose callbacks       *)
(* throws.                                                                 *)
LEMMA Exhausted ==
    ASSUME TypeOK, NEW c \in Conn, Step(c), conn[c] # "none",
           pending[c] = NoOps, exec[c] = "idle", responders[c] = {}
    PROVE  /\ UNCHANGED <<pending, exec, responders, heard>>
           /\ \/ conn'[c] = conn[c] /\ UNCHANGED threads
              \/ conn[c] = "ws" /\ conn'[c] = "deaf" /\ LeaveRun(TRUE)
              \/ conn[c] # "lost" /\ conn'[c] = "destroyed" /\ UNCHANGED threads
<1>1. ~(pending[c].handshake > 0) /\ ~(pending[c].read > 0) /\ ~(pending[c].write > 0)
    BY DEF NoOps
<1>2. \/ SessionThrows(c) \/ SessionEnds(c) \/ Client(c)
      \/ \E h \in Holder : ReleaseReader(c, h)
    BY <1>1 DEF ReadCompletes, WriteCompletes, ResponderHeld, Step, Server, Accept,
       Established, UserCode, Open, OpenThrows, HandshakeSucceeds, HandshakeFails,
       ReadHandler, ReadRejected, ReadDispatched, ReadUpgraded, ReadThrows, ReadFails,
       HandlerReturns, WriteHandler, WriteSucceeds, WriteThrows, WriteFails,
       ShutdownReturns, Release, TakeKeeper, KeepResponder, SetResponse, ReleaseResponder
<1>3. UNCHANGED <<pending, exec, responders, heard>>
    BY <1>2 DEF SessionThrows, SessionEnds, Client, ClientSends, ClientLeaves, ReleaseReader
<1>4. CASE SessionThrows(c)
    BY <1>4 DEF SessionThrows, TypeOK
<1>5. CASE SessionEnds(c)
    BY <1>5 DEF SessionEnds, TypeOK
<1>6. CASE Client(c)
    BY <1>6 DEF Client, ClientSends, ClientLeaves
<1>7. ASSUME NEW h \in Holder, ReleaseReader(c, h)
      PROVE  /\ UNCHANGED threads
             /\ conn'[c] = conn[c] \/ (conn[c] = "http" /\ conn'[c] = "destroyed")
    BY <1>7 DEF ReleaseReader, Settle, TypeOK
<1> QED
    BY <1>2, <1>3, <1>4, <1>5, <1>6, <1>7

-----------------------------------------------------------------------------
(* The last response.                                                      *)

Final(c) == wire[c] # <<>> /\ ~wire[c][Len(wire[c])].response.keepAlive

(* Once a response has closed the connection, the send side is shut, or is *)
(* being shut, or nothing will ever be started on the connection again.    *)
Muted(c) == Final(c) =>
    \/ "send" \in shut[c]
    \/ exec[c] = "shutdown"
    \/ pending[c] = NoOps /\ exec[c] = "idle" /\ responders[c] = {} /\ conn[c] # "none"

ClosedLast(c) == \A i \in 1 .. Len(wire[c]) - 1 : wire[c][i].response.keepAlive

(* Appending to a sequence in which nothing is final leaves only its last  *)
(* element possibly so.                                                    *)
LEMMA AppendLast ==
    ASSUME TypeOK, NEW c \in Conn, ClosedLast(c), ~Final(c),
           wire' = [wire EXCEPT ![c] = Append(@, Reply(c))]
    PROVE  /\ ClosedLast(c)'
           /\ Final(c)' => ~ctx[c].response.keepAlive
<1> DEFINE S == [for : Nat, response : Response]
           w == wire[c]
<1>1. wire \in [Conn -> Seq(S)] /\ ctx[c] \in Context
    BY DEF TypeOK
<1>2. Reply(c) \in S
    BY <1>1 DEF Reply, Context
<1> HIDE DEF S
<1>3. w \in Seq(S) /\ wire'[c] = Append(w, Reply(c))
    BY <1>1
<1>4. /\ Len(wire'[c]) = Len(w) + 1 /\ Len(w) \in Nat
      /\ \A i \in 1 .. Len(w) : wire'[c][i] = w[i]
      /\ wire'[c][Len(w) + 1] = Reply(c)
    BY <1>2, <1>3
<1>5. w # <<>> <=> Len(w) # 0
    BY <1>3
<1>6. \A i \in 1 .. Len(w) : w[i].response.keepAlive
    BY <1>4, <1>5 DEF ClosedLast, Final
<1>7. ClosedLast(c)'
    BY <1>4, <1>6 DEF ClosedLast
<1>8. Final(c)' => ~Reply(c).response.keepAlive
    BY <1>4 DEF Final
<1> QED
    BY <1>7, <1>8 DEF Reply

LEMMA MutedStep ==
    ASSUME TypeOK, TypeOK', NEW c \in Conn, Own(c), Step(c), Muted(c), ClosedLast(c)
    PROVE  Muted(c)' /\ ClosedLast(c)'
<1>0. /\ shut[c] \in SUBSET {"send", "recv"} /\ exec[c] \in {"idle", "handler", "shutdown"}
      /\ pending[c] \in Ops
    BY DEF TypeOK
<1>1. CASE WriteSucceeds(c) \/ WriteThrows(c)
  <2>1. /\ "send" \notin shut[c] /\ pending[c].write > 0
        /\ wire' = [wire EXCEPT ![c] = Append(@, Reply(c))]
    BY <1>1 DEF WriteSucceeds, WriteThrows, WriteCompletes
  <2>2. exec[c] = "idle" /\ responders[c] = {} /\ pending[c] # NoOps /\ conn[c] = "http"
    BY <2>1, Busy DEF NoOps
  <2>3. ~Final(c)
    BY <2>1, <2>2 DEF Muted
  <2>4. ClosedLast(c)' /\ (Final(c)' => ~ctx[c].response.keepAlive)
    BY <2>1, <2>3, AppendLast
  <2>5. CASE WriteSucceeds(c) /\ ~ctx[c].response.keepAlive
    <3>1. CASE Secure
      BY <2>4, <2>5, <3>1 DEF WriteSucceeds, Muted, TypeOK
    <3>2. CASE ~Secure
      BY <2>4, <2>5, <3>2 DEF WriteSucceeds, ShutdownSend, Muted, TypeOK
    <3> QED
      BY <3>1, <3>2
  <2>6. CASE WriteThrows(c)
    <3>1. Finish("write", pending[c]) = NoOps
      BY <2>1, Busy, OneOperation
    <3>2. pending'[c] = NoOps /\ exec'[c] = "idle" /\ responders'[c] = {}
      BY <2>2, <2>6, <3>1 DEF WriteThrows, TypeOK
    <3>3. conn'[c] # "none"
      BY <2>2, <2>6 DEF WriteThrows, Settle, TypeOK
    <3> QED
      BY <2>4, <3>2, <3>3 DEF Muted
  <2> QED
    BY <1>1, <2>4, <2>5, <2>6 DEF Muted
<1>2. CASE ~(WriteSucceeds(c) \/ WriteThrows(c))
  <2>1. UNCHANGED wire
    BY <1>2 DEF Step, Server, Accept, Established, UserCode, Client, Open, OpenThrows,
       HandshakeSucceeds, HandshakeFails, ReadHandler, ReadRejected, ReadDispatched,
       ReadUpgraded, ReadThrows, ReadFails, HandlerReturns, WriteHandler, WriteFails,
       ShutdownReturns, SessionThrows, SessionEnds, Release, TakeKeeper, KeepResponder,
       SetResponse, ReleaseResponder, ReleaseReader, ClientSends, ClientLeaves, clientVars
  <2>2. ClosedLast(c)' /\ (Final(c)' <=> Final(c))
    BY <2>1 DEF ClosedLast, Final
  <2>3. CASE WriteFails(c) \/ ShutdownReturns(c)
    BY <2>2, <2>3 DEF WriteFails, ShutdownReturns, ShutdownBoth, ShutdownSend, Muted, TypeOK
  <2>4. CASE ~(WriteFails(c) \/ ShutdownReturns(c))
    <3>1. UNCHANGED shut
      BY <1>2, <2>4 DEF Step, Server, Accept, Established, UserCode, Client, Open,
         OpenThrows, HandshakeSucceeds, HandshakeFails, ReadHandler, ReadRejected,
         ReadDispatched, ReadUpgraded, ReadThrows, ReadFails, HandlerReturns,
         WriteHandler, SessionThrows, SessionEnds, Release, TakeKeeper, KeepResponder,
         SetResponse, ReleaseResponder, ReleaseReader, ClientSends, ClientLeaves
    <3>2. exec[c] = "shutdown" => exec'[c] = "shutdown"
      BY <1>2, <2>4, Busy DEF NoOps, CanRun, ReadCompletes, Step, Server, Accept,
         Established, UserCode, Client, Open, OpenThrows, HandshakeSucceeds,
         HandshakeFails, ReadHandler, ReadRejected, ReadDispatched, ReadUpgraded,
         ReadThrows, ReadFails, HandlerReturns, WriteHandler, SessionThrows, SessionEnds,
         Release, TakeKeeper, KeepResponder, SetResponse, ReleaseResponder,
         ReleaseReader, ClientSends, ClientLeaves
    <3>3. ASSUME pending[c] = NoOps, exec[c] = "idle", responders[c] = {},
                 conn[c] # "none"
          PROVE  pending'[c] = NoOps /\ exec'[c] = "idle" /\ responders'[c] = {}
                 /\ conn'[c] # "none"
      BY <3>3, Exhausted
    <3> QED
      BY <2>2, <3>1, <3>2, <3>3 DEF Muted
  <2> QED
    BY <2>2, <2>3, <2>4
<1> QED
    BY <1>1, <1>2

LEMMA ElsewhereMuted ==
    ASSUME NEW c \in Conn, NEW d \in Conn \ {c}, Elsewhere(c), Muted(d), ClosedLast(d)
    PROVE  Muted(d)' /\ ClosedLast(d)'
<1>1. /\ conn'[d] = conn[d] /\ pending'[d] = pending[d] /\ exec'[d] = exec[d]
      /\ responders'[d] = responders[d] /\ shut'[d] = shut[d] /\ wire'[d] = wire[d]
    BY DEF Elsewhere
<1> QED
    BY <1>1 DEF Muted, ClosedLast, Final

MutedInv == \A c \in Conn : Muted(c) /\ ClosedLast(c)

LEMMA MutedInvStep == IInv /\ MutedInv /\ [Next]_vars => MutedInv'
<1> SUFFICES ASSUME IInv, MutedInv, [Next]_vars
             PROVE  MutedInv'
    OBVIOUS
<1>1. CASE UNCHANGED vars
    BY <1>1 DEF vars, MutedInv, Muted, ClosedLast, Final
<1>2. CASE Next
  <2>1. PICK c \in Conn : Step(c)
    BY <1>2 DEF Next, Step
  <2>2. Muted(c)' /\ ClosedLast(c)'
    BY <2>1, IInvStep, MutedStep DEF IInv, MutedInv
  <2>3. ASSUME NEW d \in Conn \ {c} PROVE Muted(d)' /\ ClosedLast(d)'
    BY <2>1, <2>3, OneConnection, ElsewhereMuted DEF IInv, MutedInv
  <2> QED
    BY <2>2, <2>3 DEF MutedInv
<1> QED
    BY <1>1, <1>2

(* After a response that closes the connection the client gets no other,   *)
(* although the server reads on: the send side is shut first, or the       *)
(* completion handler has thrown and nothing is started any more.          *)
THEOREM LastWord == Spec => []CloseIsLast
<1>1. Init => MutedInv
    BY DEF Init, MutedInv, Muted, ClosedLast, Final
<1>2. MutedInv => CloseIsLast
    BY DEF MutedInv, ClosedLast, CloseIsLast
<1> QED
    BY <1>1, <1>2, Inductive, MutedInvStep, PTL DEF Spec

=============================================================================
