------------------------ MODULE HttpResponses_proofs ------------------------
(***************************************************************************)
(* Proofs about the responses of HttpConnection: what the server hears,    *)
(* what it answers, what a response carries, which version it says, how    *)
(* requests and responses are counted, and what they cost in threads.      *)
(* Every step of a connection has one of six effects on its responses.     *)
(***************************************************************************)
EXTENDS HttpConnection_proofs, SequenceTheorems, FiniteSetTheorems

-----------------------------------------------------------------------------
(* The inductive invariant, for one connection.                            *)

(* The request in service is the last one heard; as long as there may be   *)
(* another response everything heard before it has been answered.          *)
Numbers(c) ==
    /\ Len(wire[c]) <= Len(heard[c])
    /\ InService(c) => ctx[c].cur = Len(heard[c]) /\ Len(heard[c]) > 0
    /\ "send" \notin shut[c] =>
          /\ conn[c] = "none" \/ pending[c].handshake > 0 => Len(heard[c]) = 0
          /\ pending[c].read > 0 => Len(heard[c]) = Len(wire[c])
          /\ InService(c) => Len(heard[c]) = Len(wire[c]) + 1

(* What a response carries that was begun for what was heard as r.         *)
MadeFor(c, response, r) ==
    /\ response.body = IF response.status = 500 THEN 0 ELSE r
    /\ response.keepAlive = heard[c][r].request.keepAlive

(* A read finds a response that Reset has made; the request in service has *)
(* a response of its own.                                                  *)
Made(c) ==
    /\ pending[c].read > 0 => ctx[c].response.status = 500 /\ ctx[c].response.body = 0
    /\ InService(c) => MadeFor(c, ctx[c].response, ctx[c].cur)

(* The version of the last request that was answered.                      *)
LastVersion(c) ==
    IF wire[c] = <<>> THEN 11 ELSE heard[c][wire[c][Len(wire[c])].for].request.version

(* As long as there may be another response, it says the version of the    *)
(* request that was answered last.                                         *)
Lag(c) == "send" \notin shut[c] =>
    /\ conn[c] = "none" \/ pending[c].handshake > 0 => ctx[c].version = 11
    /\ pending[c].read > 0 => ctx[c].response.version = LastVersion(c)
    /\ InService(c) =>
          /\ ctx[c].response.version = LastVersion(c)
          /\ ctx[c].version = heard[c][ctx[c].cur].request.version

(* What the client was told.                                               *)
Told(c) == \A i \in 1 .. Len(wire[c]) :
    /\ wire[c][i].for = i
    /\ MadeFor(c, wire[c][i].response, i)
    /\ wire[c][i].response.version =
          IF i = 1 THEN 11 ELSE heard[c][wire[c][i - 1].for].request.version

Answering(c) == Numbers(c) /\ Made(c) /\ Lag(c) /\ Told(c)

(* The stream is taken in order, and from its beginning: what was heard as *)
(* a request of the client is one of those taken off the stream.           *)
Hearing(c) ==
    /\ ctx[c].taken <= Len(sent[c])
    /\ Len(heard[c]) = 0 => ctx[c].taken = 0 /\ ~ctx[c].inside
    /\ \A j \in 1 .. Len(heard[c]) : heard[c][j].of <= ctx[c].taken
    /\ HeardInOrder(c)

(* Without bare responders, whoever holds a responder of an open           *)
(* connection holds its processor.                                         *)
Kept(c) == ~AllowBare /\ conn[c] = "http" => responders[c] \subseteq readers[c]

Balance == metrics.requests + refused - metrics.responses

Serving == {c \in Conn : InService(c)}

In(phases) == {c \in Conn : conn[c] \in phases}

Counts ==
    /\ Cardinality(Serving) <= Balance
    /\ Balance <= Cardinality(Serving)
                     + IF AllowBare THEN Cardinality(In({"destroyed"})) ELSE 0

AnswerInv == IInv /\ \A c \in Conn : Answering(c) /\ Hearing(c) /\ Kept(c)

-----------------------------------------------------------------------------
(* What a step of a connection does to its responses.                      *)

(* Nothing; a connection may come, or go with the request it serves when   *)
(* only a bare responder is left.                                          *)
Quiet(c) ==
    /\ ctx'[c] = ctx[c] /\ heard'[c] = heard[c]
    /\ wire'[c] = wire[c] /\ shut'[c] = shut[c]
    /\ \/ conn'[c] = conn[c] \/ conn'[c] = "destroyed"
       \/ conn[c] = "none" /\ conn'[c] \in {"http", "lost"}
       \/ conn[c] = "ws" /\ conn'[c] = "deaf"
    /\ InService(c)' <=> InService(c) /\ conn'[c] = "http"
    /\ InService(c) /\ conn'[c] # "http" => ~(responders'[c] \subseteq readers'[c])
    /\ pending'[c].read > 0 => pending[c].read > 0
    /\ pending'[c].handshake > 0 => pending[c].handshake > 0 \/ conn[c] = "none"
    /\ Balance' = Balance

(* User code fills the response of the request in service.                 *)
Fills(c) ==
    /\ InService(c) /\ InService(c)'
    /\ ctx'[c] = Respond(ctx[c], 200)
    /\ conn'[c] = conn[c] /\ pending'[c] = pending[c] /\ heard'[c] = heard[c]
    /\ wire'[c] = wire[c] /\ shut'[c] = shut[c]
    /\ Balance' = Balance

(* What is read next is taken into service, and may be rejected at once.   *)
Takes(c) ==
    /\ ~InService(c) /\ InService(c)'
    /\ conn[c] = "http" /\ conn'[c] = "http"
    /\ pending[c].read > 0 /\ pending'[c].read = 0 /\ pending'[c].handshake = 0
    /\ \E m \in Arriving(c), p \in Cuts(c) :
          /\ Hear(c, m)
          /\ \/ ctx'[c] = Parsed(c, m, p)
             \/ \E status \in {404, 405} : ctx'[c] = Respond(Parsed(c, m, p), status)
    /\ wire'[c] = wire[c] /\ shut'[c] = shut[c]
    /\ UNCHANGED sent
    /\ Balance' = Balance + 1

(* What is taken off the stream, and up to where.                          *)
Hears(c, m, p) ==
    /\ Hear(c, m)
    /\ ctx'[c].cur = Len(heard[c]) + 1
    /\ ctx'[c].taken = p.upTo /\ ctx'[c].inside = p.inside

(* What is read is not answered by this connection.                        *)
Abandons(c) ==
    /\ ~InService(c) /\ ~InService(c)'
    /\ conn[c] = "http" /\ conn'[c] \in {"http", "ws", "destroyed"}
    /\ pending[c].read > 0 /\ pending'[c] = NoOps
    /\ \E m \in Arriving(c), p \in Cuts(c) : Hears(c, m, p)
    /\ wire'[c] = wire[c] /\ shut'[c] = shut[c]
    /\ UNCHANGED sent
    /\ Balance' = Balance

(* The client gets no answer: the first read is started, or the one after  *)
(* a TLS shutdown or a failed write, or the TLS shutdown after the latter. *)
Resets(c) ==
    /\ ~InService(c)' /\ conn'[c] = "http"
    /\ \/ ctx'[c] = ResetContext(ctx[c]) /\ pending'[c] = [NoOps EXCEPT !.read = 1]
       \/ ctx'[c] = ctx[c] /\ pending'[c] = NoOps
    /\ heard'[c] = heard[c] /\ wire'[c] = wire[c]
    /\ UNCHANGED sent
    /\ \/ /\ conn[c] = "none" \/ (conn[c] = "http" /\ pending[c].handshake > 0)
          /\ ~InService(c) /\ shut'[c] = shut[c] /\ Balance' = Balance
       \/ /\ conn[c] = "http" /\ exec[c] = "shutdown"
          /\ ~InService(c) /\ "send" \in shut'[c] /\ Balance' = Balance
       \/ /\ conn[c] = "http" /\ InService(c) /\ Balance' = Balance - 1
          /\ \/ "send" \in shut'[c]
             \/ pending'[c] = NoOps /\ exec'[c] = "shutdown" /\ shut'[c] = shut[c]

(* The client receives a response, and the next read is started, or a TLS  *)
(* shutdown, or nothing when the write handler throws.                     *)
Replies(c) ==
    /\ InService(c) /\ ~InService(c)'
    /\ "send" \notin shut[c] /\ pending[c].write > 0
    /\ wire'[c] = Append(wire[c], Reply(c)) /\ heard'[c] = heard[c]
    /\ conn'[c] \in {"http", "destroyed"}
    /\ \/ ctx'[c] = ctx[c] /\ pending'[c] = NoOps
       \/ ctx'[c] = ResetContext(ctx[c]) /\ pending'[c] = [NoOps EXCEPT !.read = 1]
    /\ shut'[c] = shut[c] \/ ~ctx[c].response.keepAlive
    /\ UNCHANGED sent
    /\ Balance' = Balance - 1

Effect(c) == Quiet(c) \/ Fills(c) \/ Takes(c) \/ Abandons(c) \/ Resets(c) \/ Replies(c)

-----------------------------------------------------------------------------
(* The counters.                                                           *)

(* What counting does to the balance.                                      *)
LEMMA BalanceCounted ==
    ASSUME TypeOK
    PROVE  /\ Balance \in Int
           /\ metrics' = Counted("responses") /\ UNCHANGED refused => Balance' = Balance - 1
           /\ \A field \in {"connections", "sessions"} :
                 metrics' = Counted(field) /\ UNCHANGED refused => Balance' = Balance
           /\ UNCHANGED <<metrics, refused>> => Balance' = Balance
<1>1. /\ metrics \in Metrics /\ refused \in Nat
      /\ metrics.requests \in Int /\ metrics.responses \in Int
    BY DEF TypeOK, Metrics
<1>2. metrics' = Counted("responses")
         => metrics'.requests = metrics.requests /\ metrics'.responses = metrics.responses + 1
    BY <1>1 DEF Counted, Metrics
<1>3. ASSUME NEW field \in {"connections", "sessions"}, metrics' = Counted(field)
      PROVE  metrics'.requests = metrics.requests /\ metrics'.responses = metrics.responses
    BY <1>1, <1>3 DEF Counted, Metrics
<1> QED
    BY <1>1, <1>2, <1>3 DEF Balance

(* A request that is not upgraded counts for one, as a request or as one   *)
(* of the upgrades that were refused.                                      *)
LEMMA BalanceRequest ==
    ASSUME TypeOK, NEW r, metrics' = CountRequest(r), CountRefused(r)
    PROVE  Balance' = Balance + 1
<1>1. /\ metrics \in Metrics /\ refused \in Nat
      /\ metrics.requests \in Int /\ metrics.responses \in Int
    BY DEF TypeOK, Metrics
<1>2. CASE r.upgrade
    BY <1>1, <1>2 DEF CountRequest, CountRefused, Balance
<1>3. CASE ~r.upgrade
  <2>1. metrics'.requests = metrics.requests + 1 /\ metrics'.responses = metrics.responses
    BY <1>1, <1>3 DEF CountRequest, Counted, Metrics
  <2> QED
    BY <1>1, <1>3, <2>1 DEF CountRefused, Balance
<1> QED
    BY <1>2, <1>3

(* The destructor of a processor leaves the balance alone, and decides     *)
(* whether the connection stays open.                                      *)
LEMMA BalanceSettle ==
    ASSUME TypeOK, NEW c \in Conn, NEW m \in Metrics, Settle(c, m), UNCHANGED refused
    PROVE  /\ Balance' = m.requests + refused - m.responses
           /\ conn[c] # "http" => conn'[c] = conn[c]
           /\ conn[c] = "http" => conn'[c] = IF ProcessorHeld(c)' THEN "http" ELSE "destroyed"
<1>1. CASE ProcessorHeld(c)' \/ conn[c] # "http"
    BY <1>1 DEF Settle, Balance
<1>2. CASE ~(ProcessorHeld(c)' \/ conn[c] # "http")
  <2>1. /\ metrics' = [m EXCEPT !.connections = @ - 1, !.finished = @ + 1]
        /\ conn' = [conn EXCEPT ![c] = "destroyed"]
    BY <1>2 DEF Settle
  <2>2. metrics'.requests = m.requests /\ metrics'.responses = m.responses
    BY <2>1 DEF Metrics
  <2> QED
    BY <1>2, <2>1, <2>2 DEF Balance, TypeOK
<1> QED
    BY <1>1, <1>2

-----------------------------------------------------------------------------
(* Every step has one of the effects.                                      *)

(* What the client has sent stays, only its own connection gets more, and  *)
(* that while the window allows it, by a step that does nothing else.      *)
SentGrows(c) ==
    /\ UNCHANGED sent \/ \E r \in Request : ClientSends(c, r)
    /\ Len(sent[c]) <= Len(sent'[c])
    /\ sent'[c] # sent[c] => /\ Len(sent'[c]) = Len(sent[c]) + 1
                            /\ Len(sent[c]) - Len(wire[c]) < Window
                            /\ wire'[c] = wire[c]
    /\ \A i \in 1 .. Len(sent[c]) : sent'[c][i] = sent[c][i]
    /\ \A d \in Conn \ {c} : sent'[d] = sent[d]

LEMMA SentStep ==
    ASSUME TypeOK, NEW c \in Conn, Step(c)
    PROVE  SentGrows(c)
<1>1. CASE UNCHANGED sent
  <2>1. sent[c] \in Seq(Request)
    BY DEF TypeOK
  <2>2. Len(sent[c]) \in Nat
    BY <2>1
  <2> QED
    BY <1>1, <2>2 DEF SentGrows
<1>2. ASSUME NEW r \in Request, ClientSends(c, r)
      PROVE  SentGrows(c)
  <2>1. sent[c] \in Seq(Request) /\ sent'[c] = Append(sent[c], r)
    BY <1>2 DEF ClientSends, TypeOK
  <2>2. /\ Len(sent'[c]) = Len(sent[c]) + 1 /\ Len(sent[c]) \in Nat
        /\ \A i \in 1 .. Len(sent[c]) : sent'[c][i] = sent[c][i]
    BY <2>1
  <2>3. \A d \in Conn \ {c} : sent'[d] = sent[d]
    BY <1>2 DEF ClientSends, TypeOK
  <2>4. Len(sent[c]) - Len(wire[c]) < Window /\ wire'[c] = wire[c]
    BY <1>2 DEF ClientSends
  <2>5. Len(sent[c]) <= Len(sent'[c])
    BY <2>2
  <2> QED
    BY <1>2, <2>2, <2>3, <2>4, <2>5 DEF SentGrows
<1>3. CASE ~\E r \in Request : ClientSends(c, r)
  <2>1. UNCHANGED sent
    BY <1>3 DEF Step, Server, Accept, Established, UserCode, Client, Open, OpenThrows,
       HandshakeSucceeds, HandshakeFails, ReadHandler, ReadRejected, ReadDispatched,
       ReadUpgraded, ReadThrows, ReadFails, HandlerReturns, WriteHandler, WriteSucceeds,
       WriteThrows, WriteFails, ShutdownReturns, SessionThrows, SessionEnds, Release,
       TakeKeeper, KeepResponder, SetResponse, ReleaseResponder, ReleaseReader,
       ClientLeaves, clientVars
  <2> QED
    BY <1>1, <2>1
<1> QED
    BY <1>2, <1>3

(* What a connection has outstanding that has one operation, or none.      *)
LEMMA OneOpFields ==
    /\ NoOps.handshake = 0 /\ NoOps.read = 0 /\ NoOps.write = 0
    /\ \A op \in {"handshake", "read", "write"} :
          LET p == [NoOps EXCEPT ![op] = 1] IN
          /\ p.handshake = IF op = "handshake" THEN 1 ELSE 0
          /\ p.read = IF op = "read" THEN 1 ELSE 0
          /\ p.write = IF op = "write" THEN 1 ELSE 0
    BY DEF NoOps

(* Accepting, and the TLS handshake.                                       *)
LEMMA AcceptEffect ==
    ASSUME TypeOK, NEW c \in Conn, Own(c),
           Accept(c) \/ HandshakeSucceeds(c) \/ HandshakeFails(c)
    PROVE  Effect(c)
<1> USE DEF Own
<1>0. UNCHANGED <<metrics, refused>> => Balance' = Balance
    BY BalanceCounted
<1>1. CASE Open(c)
  <2>1. /\ conn[c] = "none" /\ conn'[c] = "http" /\ pending[c] = NoOps
        /\ exec[c] = "idle" /\ exec'[c] = "idle" /\ responders'[c] = {}
        /\ heard'[c] = heard[c] /\ wire'[c] = wire[c] /\ shut'[c] = shut[c]
        /\ UNCHANGED sent
    BY <1>1 DEF Open, TypeOK, clientVars
  <2>2. Balance' = Balance
    BY <1>1, BalanceCounted DEF Open
  <2>3. CASE Secure
    <3>1. pending'[c] = [NoOps EXCEPT !.handshake = 1] /\ ctx'[c] = ctx[c]
      BY <1>1, <2>1, <2>3, OneOperation DEF Open, StartAsyncRead, TypeOK
    <3>2. pending'[c].read = 0 /\ pending'[c].write = 0
      BY <3>1, OneOpFields
    <3>3. ~InService(c) /\ ~InService(c)'
      BY <2>1, <3>2 DEF InService, ResponderHeld
    <3>4. Quiet(c)
      BY <2>1, <2>2, <3>1, <3>2, <3>3 DEF Quiet, InService, ResponderHeld
    <3> QED
      BY <3>4 DEF Effect
  <2>4. CASE ~Secure
    <3>1. pending'[c] = [NoOps EXCEPT !.read = 1] /\ ctx'[c] = ResetContext(ctx[c])
      BY <1>1, <2>1, <2>4, OneOperation
      DEF Open, StartAsyncRead, AsyncReadNextRequest, TypeOK
    <3>2. pending'[c].write = 0
      BY <3>1, OneOpFields
    <3>3. ~InService(c) /\ ~InService(c)'
      BY <2>1, <3>2 DEF InService, ResponderHeld
    <3>4. Resets(c)
      BY <2>1, <2>2, <3>1, <3>3 DEF Resets
    <3> QED
      BY <3>4 DEF Effect
  <2> QED
    BY <2>3, <2>4
<1>2. CASE OpenThrows(c)
  <2>1. /\ conn[c] = "none" /\ conn'[c] = "lost"
        /\ pending'[c] = pending[c] /\ ctx'[c] = ctx[c]
        /\ heard'[c] = heard[c] /\ wire'[c] = wire[c] /\ shut'[c] = shut[c]
    BY <1>2 DEF OpenThrows, TypeOK
  <2>2. Balance' = Balance
    BY <1>0, <1>2 DEF OpenThrows
  <2>3. ~InService(c) /\ ~InService(c)'
    BY <2>1 DEF InService
  <2>4. Quiet(c)
    BY <2>1, <2>2, <2>3 DEF Quiet
  <2> QED
    BY <2>4 DEF Effect
<1>3. CASE HandshakeSucceeds(c)
  <2>1. /\ conn[c] = "http" /\ conn'[c] = "http" /\ pending[c].handshake > 0
        /\ pending[c] = [NoOps EXCEPT !.handshake = 1]
        /\ exec[c] = "idle" /\ exec'[c] = "idle"
        /\ responders[c] = {} /\ responders'[c] = {}
        /\ heard'[c] = heard[c] /\ wire'[c] = wire[c] /\ shut'[c] = shut[c]
        /\ UNCHANGED sent
    BY <1>3, Busy DEF HandshakeSucceeds, clientVars
  <2>2. pending'[c] = [NoOps EXCEPT !.read = 1] /\ ctx'[c] = ResetContext(ctx[c])
    <3>1. Finish("handshake", pending[c]) = NoOps
      BY <2>1, OneOperation
    <3>2. pending'[c] = Start("read", NoOps) /\ ctx'[c] = ResetContext(ctx[c])
      BY <1>3, <3>1 DEF HandshakeSucceeds, AsyncReadNextRequest, TypeOK
    <3> QED
      BY <3>2, OneOperation
  <2>3. pending[c].write = 0 /\ pending'[c].write = 0
    BY <2>1, <2>2, OneOpFields
  <2>4. ~InService(c) /\ ~InService(c)'
    BY <2>1, <2>3 DEF InService, ResponderHeld
  <2>5. Balance' = Balance
    BY <1>0, <1>3 DEF HandshakeSucceeds
  <2>6. Resets(c)
    BY <2>1, <2>2, <2>4, <2>5 DEF Resets
  <2> QED
    BY <2>6 DEF Effect
<1>4. CASE HandshakeFails(c)
  <2>1. /\ conn[c] = "http" /\ pending[c] = [NoOps EXCEPT !.handshake = 1]
        /\ exec[c] = "idle" /\ exec'[c] = "idle"
        /\ responders[c] = {} /\ responders'[c] = {}
        /\ ctx'[c] = ctx[c] /\ heard'[c] = heard[c]
        /\ wire'[c] = wire[c] /\ shut'[c] = shut[c]
        /\ metrics \in Metrics
    BY <1>4, Busy DEF HandshakeFails, TypeOK
  <2>2. pending'[c] = NoOps
    BY <1>4, <2>1, OneOperation DEF HandshakeFails, TypeOK
  <2>3. pending[c].write = 0 /\ pending'[c].write = 0 /\ pending'[c].read = 0
        /\ pending'[c].handshake = 0
    BY <2>1, <2>2, OneOpFields
  <2>4. ~InService(c) /\ ~InService(c)'
    BY <2>1, <2>3 DEF InService, ResponderHeld
  <2>5. conn'[c] \in {"http", "destroyed"} /\ Balance' = Balance
    BY <1>4, <2>1, BalanceSettle DEF HandshakeFails, Balance
  <2>6. Quiet(c)
    BY <2>1, <2>3, <2>4, <2>5 DEF Quiet
  <2> QED
    BY <2>6 DEF Effect
<1> QED
    BY <1>1, <1>2, <1>3, <1>4 DEF Accept

(* A request that is parsed and given to somebody.                         *)
LEMMA TakeEffect ==
    ASSUME TypeOK, NEW c \in Conn, Own(c), ReadRejected(c) \/ ReadDispatched(c)
    PROVE  Takes(c)
<1>1. /\ conn[c] = "http" /\ pending[c] = [NoOps EXCEPT !.read = 1]
      /\ exec[c] = "idle" /\ responders[c] = {} /\ responders'[c] = {}
      /\ conn'[c] = "http" /\ wire'[c] = wire[c] /\ shut'[c] = shut[c]
      /\ UNCHANGED sent
    BY Busy DEF ReadRejected, ReadDispatched, ReadCompletes, clientVars
<1>2. pending[c].read > 0 /\ pending[c].write = 0 /\ Finish("read", pending[c]) = NoOps
  <2>1. pending[c].read = 1 /\ pending[c].write = 0
    BY <1>1, OneOpFields
  <2>2. Finish("read", pending[c]) = NoOps
    BY <1>1, OneOperation
  <2> QED
    BY <2>1, <2>2
<1>3. ~InService(c)
    BY <1>1, <1>2 DEF InService, ResponderHeld
<1>4. Balance' = Balance + 1
  <2>1. PICK m \in Arriving(c), p \in Cuts(c) :
           metrics' = CountRequest(m.request) /\ CountRefused(m.request)
    BY DEF ReadRejected, ReadDispatched
  <2> QED
    BY <2>1, BalanceRequest
<1>5. CASE ReadRejected(c)
  <2>1. pending'[c] = [NoOps EXCEPT !.write = 1]
    BY <1>2, <1>5, OneOperation DEF ReadRejected, TypeOK
  <2>2. pending'[c].write > 0 /\ pending'[c].read = 0 /\ pending'[c].handshake = 0
    BY <2>1, OneOpFields
  <2>3. \E m \in Arriving(c), p \in Cuts(c) :
           /\ Hear(c, m)
           /\ \E status \in {404, 405} : ctx'[c] = Respond(Parsed(c, m, p), status)
    BY <1>5 DEF ReadRejected, TypeOK
  <2>4. InService(c)'
    BY <1>1, <2>2 DEF InService
  <2> QED
    BY <1>1, <1>2, <1>3, <1>4, <2>2, <2>3, <2>4 DEF Takes
<1>6. CASE ReadDispatched(c)
  <2>1. pending'[c] = NoOps /\ exec'[c] = "handler"
    BY <1>2, <1>6 DEF ReadDispatched, TypeOK
  <2>2. pending'[c].read = 0 /\ pending'[c].handshake = 0
    BY <2>1, OneOpFields
  <2>3. \E m \in Arriving(c), p \in Cuts(c) : Hear(c, m) /\ ctx'[c] = Parsed(c, m, p)
    BY <1>6 DEF ReadDispatched, TypeOK
  <2>4. InService(c)'
    BY <1>1, <2>1 DEF InService, ResponderHeld
  <2> QED
    BY <1>1, <1>2, <1>3, <1>4, <2>2, <2>3, <2>4 DEF Takes
<1> QED
    BY <1>5, <1>6

(* A request that nobody on this connection will answer.                   *)
LEMMA AbandonEffect ==
    ASSUME TypeOK, NEW c \in Conn, Own(c), ReadUpgraded(c) \/ ReadThrows(c)
    PROVE  Abandons(c)
<1>1. /\ conn[c] = "http" /\ pending[c] = [NoOps EXCEPT !.read = 1]
      /\ exec[c] = "idle" /\ responders[c] = {} /\ responders'[c] = {}
      /\ exec'[c] = "idle"
      /\ wire'[c] = wire[c] /\ shut'[c] = shut[c]
      /\ UNCHANGED sent
      /\ metrics \in Metrics /\ ctx[c] \in Context
    BY Busy DEF ReadUpgraded, ReadThrows, ReadCompletes, clientVars, TypeOK
<1>2. pending[c].read > 0 /\ pending[c].write = 0 /\ Finish("read", pending[c]) = NoOps
  <2>1. pending[c].read = 1 /\ pending[c].write = 0
    BY <1>1, OneOpFields
  <2>2. Finish("read", pending[c]) = NoOps
    BY <1>1, OneOperation
  <2> QED
    BY <2>1, <2>2
<1>3. pending'[c] = NoOps
    BY <1>2 DEF ReadUpgraded, ReadThrows, TypeOK
<1>4. ~InService(c) /\ ~InService(c)'
    BY <1>1, <1>2, <1>3, OneOpFields DEF InService, ResponderHeld
<1>5. Balance' = Balance /\ conn'[c] \in {"http", "ws", "destroyed"}
  <2>1. CASE ReadUpgraded(c)
    BY <2>1, BalanceCounted DEF ReadUpgraded, TypeOK
  <2>2. CASE ReadThrows(c)
    BY <1>1, <2>2, BalanceSettle DEF ReadThrows, Balance
  <2> QED
    BY <2>1, <2>2
<1>6. \E m \in Arriving(c), p \in Cuts(c) : Hears(c, m, p)
  <2>1. CASE ReadUpgraded(c)
    BY <2>1 DEF ReadUpgraded, Parsed, Hears, TypeOK
  <2>2. CASE ReadThrows(c)
    <3>1. PICK m \in Arriving(c), p \in Cuts(c) :
             /\ ctx' = [ctx EXCEPT ![c].cur = Len(heard[c]) + 1, ![c].taken = p.upTo,
                                   ![c].inside = p.inside]
             /\ Hear(c, m)
      BY <2>2 DEF ReadThrows
    <3>2. /\ ctx'[c].cur = Len(heard[c]) + 1
          /\ ctx'[c].taken = p.upTo /\ ctx'[c].inside = p.inside
      BY <1>1, <3>1 DEF TypeOK, Context
    <3> QED
      BY <3>1, <3>2 DEF Hears
  <2> QED
    BY <2>1, <2>2
<1> QED
    BY <1>1, <1>2, <1>3, <1>4, <1>5, <1>6 DEF Abandons

(* The five ends of the read completion handler.                           *)
LEMMA ReadEffect ==
    ASSUME TypeOK, NEW c \in Conn, Own(c), ReadHandler(c)
    PROVE  Effect(c)
<1>1. CASE ReadRejected(c) \/ ReadDispatched(c)
    BY <1>1, TakeEffect DEF Effect
<1>2. CASE ReadUpgraded(c) \/ ReadThrows(c)
    BY <1>2, AbandonEffect DEF Effect
<1>3. CASE ReadFails(c)
  <2>1. /\ conn[c] = "http" /\ pending[c] = [NoOps EXCEPT !.read = 1]
        /\ exec[c] = "idle" /\ exec'[c] = "idle"
        /\ responders[c] = {} /\ responders'[c] = {}
        /\ ctx'[c] = ctx[c] /\ heard'[c] = heard[c]
        /\ wire'[c] = wire[c] /\ shut'[c] = shut[c]
        /\ metrics \in Metrics
    BY <1>3, Busy DEF ReadFails, TypeOK
  <2>2. pending'[c] = NoOps
    BY <1>3, <2>1, OneOperation DEF ReadFails, TypeOK
  <2>3. /\ pending[c].write = 0 /\ pending'[c].write = 0 /\ pending'[c].read = 0
        /\ pending'[c].handshake = 0
    BY <2>1, <2>2, OneOpFields
  <2>4. ~InService(c) /\ ~InService(c)'
    BY <2>1, <2>3 DEF InService, ResponderHeld
  <2>5. conn'[c] \in {"http", "destroyed"} /\ Balance' = Balance
    BY <1>3, <2>1, BalanceSettle DEF ReadFails, Balance
  <2>6. Quiet(c)
    BY <2>1, <2>3, <2>4, <2>5 DEF Quiet
  <2> QED
    BY <2>6 DEF Effect
<1> QED
    BY <1>1, <1>2, <1>3 DEF ReadHandler

(* The client receives the response.                                       *)
LEMMA ReplyEffect ==
    ASSUME TypeOK, NEW c \in Conn, Own(c), WriteSucceeds(c) \/ WriteThrows(c)
    PROVE  Replies(c)
<1>1. /\ conn[c] = "http" /\ pending[c] = [NoOps EXCEPT !.write = 1]
      /\ pending[c].write > 0 /\ "send" \notin shut[c]
      /\ exec[c] = "idle" /\ responders[c] = {} /\ responders'[c] = {}
      /\ wire'[c] = Append(wire[c], Reply(c)) /\ heard'[c] = heard[c] /\ UNCHANGED sent
    BY Busy DEF WriteSucceeds, WriteThrows, WriteCompletes, clientVars, TypeOK
<1>2. InService(c) /\ Finish("write", pending[c]) = NoOps
    BY <1>1, OneOperation DEF InService
<1>3. CASE WriteSucceeds(c) /\ (ctx[c].response.keepAlive \/ ~Secure)
  <2>1. /\ pending'[c] = [NoOps EXCEPT !.read = 1] /\ ctx'[c] = ResetContext(ctx[c])
        /\ conn'[c] = "http" /\ exec'[c] = "idle"
        /\ shut'[c] = shut[c] \/ ~ctx[c].response.keepAlive
    <3>1. /\ AsyncReadNextRequest(c, NoOps) /\ UNCHANGED <<conn, exec>>
          /\ UNCHANGED shut \/ ~ctx[c].response.keepAlive
      BY <1>2, <1>3 DEF WriteSucceeds
    <3>2. DOMAIN pending = Conn /\ DOMAIN ctx = Conn
      BY DEF TypeOK
    <3>3. pending'[c] = Start("read", NoOps) /\ ctx'[c] = ResetContext(ctx[c])
      BY <3>1, <3>2 DEF AsyncReadNextRequest
    <3> QED
      BY <1>1, <3>1, <3>3, OneOperation
  <2>2. ~InService(c)'
    BY <1>1, <2>1, OneOpFields DEF InService, ResponderHeld
  <2>3. Balance' = Balance - 1
    BY <1>3, BalanceCounted DEF WriteSucceeds
  <2> QED
    BY <1>1, <1>2, <2>1, <2>2, <2>3 DEF Replies
<1>4. CASE WriteSucceeds(c) /\ ~(ctx[c].response.keepAlive \/ ~Secure)
  <2>1. /\ pending'[c] = NoOps /\ ctx'[c] = ctx[c]
        /\ conn'[c] = "http" /\ exec'[c] = "shutdown"
        /\ shut'[c] = shut[c]
    BY <1>1, <1>2, <1>4 DEF WriteSucceeds, TypeOK
  <2>2. ~InService(c)'
    BY <1>1, <2>1, OneOpFields DEF InService, ResponderHeld
  <2>3. Balance' = Balance - 1
    BY <1>4, BalanceCounted DEF WriteSucceeds
  <2> QED
    BY <1>1, <1>2, <2>1, <2>2, <2>3 DEF Replies
<1>5. CASE WriteThrows(c)
  <2>1. /\ pending'[c] = NoOps /\ ctx'[c] = ctx[c] /\ shut'[c] = shut[c]
        /\ exec'[c] = "idle"
        /\ Settle(c, Counted("responses")) /\ UNCHANGED refused
    BY <1>1, <1>2, <1>5 DEF WriteThrows, TypeOK
  <2>2. ~InService(c)'
    BY <1>1, <2>1, OneOpFields DEF InService, ResponderHeld
  <2>3. conn'[c] \in {"http", "destroyed"} /\ Balance' = Balance - 1
    <3>1. Counted("responses") \in Metrics
      BY CountedType
    <3>2. /\ Balance' = Counted("responses").requests + refused
                           - Counted("responses").responses
          /\ conn'[c] \in {"http", "destroyed"}
      BY <1>1, <2>1, <3>1, BalanceSettle
    <3>3. /\ Counted("responses").requests = metrics.requests
          /\ Counted("responses").responses = metrics.responses + 1
          /\ metrics.requests \in Int /\ metrics.responses \in Int /\ refused \in Int
      BY DEF Counted, TypeOK, Metrics
    <3> QED
      BY <3>2, <3>3 DEF Balance
  <2> QED
    BY <1>1, <1>2, <2>1, <2>2, <2>3 DEF Replies
<1> QED
    BY <1>3, <1>4, <1>5

(* The write completion handler, and the TLS shutdown that may follow it.  *)
LEMMA WriteEffect ==
    ASSUME TypeOK, NEW c \in Conn, Own(c), WriteHandler(c) \/ ShutdownReturns(c)
    PROVE  Effect(c)
<1>1. CASE WriteSucceeds(c) \/ WriteThrows(c)
    BY <1>1, ReplyEffect DEF Effect
<1>2. CASE WriteFails(c)
  <2>1. /\ conn[c] = "http" /\ pending[c] = [NoOps EXCEPT !.write = 1]
        /\ pending[c].write > 0 /\ conn'[c] = "http"
        /\ exec[c] = "idle" /\ responders'[c] = {}
        /\ heard'[c] = heard[c] /\ wire'[c] = wire[c] /\ UNCHANGED sent
    BY <1>2, Busy DEF WriteFails, WriteCompletes, clientVars
  <2>2. Finish("write", pending[c]) = NoOps
    BY <2>1, OneOperation
  <2>3. \/ /\ pending'[c] = [NoOps EXCEPT !.read = 1] /\ ctx'[c] = ResetContext(ctx[c])
           /\ exec'[c] = "idle" /\ "send" \in shut'[c]
        \/ /\ pending'[c] = NoOps /\ ctx'[c] = ctx[c]
           /\ exec'[c] = "shutdown" /\ shut'[c] = shut[c]
    <3>1. CASE Secure
      BY <1>2, <2>2, <3>1 DEF WriteFails, TypeOK
    <3>2. CASE ~Secure
      <4>1. AsyncReadNextRequest(c, NoOps) /\ ShutdownBoth(c) /\ UNCHANGED exec
        BY <1>2, <2>2, <3>2 DEF WriteFails
      <4>2. pending'[c] = Start("read", NoOps) /\ ctx'[c] = ResetContext(ctx[c])
        BY <4>1 DEF AsyncReadNextRequest, TypeOK
      <4>3. "send" \in shut'[c] /\ exec'[c] = "idle"
        BY <2>1, <4>1 DEF ShutdownBoth, TypeOK
      <4> QED
        BY <4>2, <4>3, OneOperation
    <3> QED
      BY <3>1, <3>2
  <2>4. InService(c) /\ ~InService(c)'
    BY <2>1, <2>3, OneOpFields DEF InService, ResponderHeld
  <2>5. Balance' = Balance - 1
    BY <1>2, BalanceCounted DEF WriteFails
  <2>6. Resets(c)
    BY <2>1, <2>3, <2>4, <2>5 DEF Resets
  <2> QED
    BY <2>6 DEF Effect
<1>3. CASE ShutdownReturns(c)
  <2>1. /\ conn[c] = "http" /\ pending[c] = NoOps /\ conn'[c] = "http"
        /\ exec[c] = "shutdown" /\ exec'[c] = "idle"
        /\ responders[c] = {} /\ responders'[c] = {}
        /\ heard'[c] = heard[c] /\ wire'[c] = wire[c] /\ UNCHANGED sent
    BY <1>3, Busy DEF ShutdownReturns, clientVars, TypeOK
  <2>2. pending'[c] = [NoOps EXCEPT !.read = 1] /\ ctx'[c] = ResetContext(ctx[c])
    BY <1>3, <2>1, OneOperation DEF ShutdownReturns, AsyncReadNextRequest, TypeOK
  <2>3. "send" \in shut'[c]
    BY <1>3 DEF ShutdownReturns, ShutdownSend, TypeOK
  <2>4. ~InService(c) /\ ~InService(c)'
    BY <2>1, <2>2, OneOpFields DEF InService, ResponderHeld
  <2>5. Balance' = Balance
    BY <1>3, BalanceCounted DEF ShutdownReturns
  <2>6. Resets(c)
    BY <2>1, <2>2, <2>3, <2>4, <2>5 DEF Resets
  <2> QED
    BY <2>6 DEF Effect
<1> QED
    BY <1>1, <1>2, <1>3 DEF WriteHandler

(* User code that holds a responder, or lets go of it.                     *)
LEMMA UserCodeEffect ==
    ASSUME TypeOK, NEW c \in Conn, Own(c), UserCode(c)
    PROVE  Effect(c)
<1>0. UNCHANGED <<metrics, refused>> => Balance' = Balance
    BY BalanceCounted
<1>1. ASSUME NEW h \in Holder, TakeKeeper(c, h) \/ KeepResponder(c, h)
      PROVE  Quiet(c)
  <2>1. /\ UNCHANGED <<conn, pending, ctx, heard, wire, shut>>
        /\ ResponderHeld(c) /\ ResponderHeld(c)'
        /\ Balance' = Balance
    BY <1>0, <1>1 DEF TakeKeeper, KeepResponder, ResponderHeld, TypeOK
  <2> QED
    BY <2>1 DEF Quiet, InService
<1>2. CASE SetResponse(c)
  <2>1. /\ UNCHANGED <<conn, pending, exec, responders, heard, wire, shut>>
        /\ conn[c] = "http" /\ ResponderHeld(c)
        /\ ctx'[c] = Respond(ctx[c], 200)
        /\ Balance' = Balance
    BY <1>0, <1>2 DEF SetResponse, TypeOK
  <2>2. Fills(c)
    BY <2>1 DEF Fills, InService, ResponderHeld
  <2> QED
    BY <2>2 DEF Effect
<1>3. ASSUME NEW h \in Holder, ReleaseResponder(c, h)
      PROVE  Quiet(c)
  <2>1. /\ UNCHANGED <<conn, exec, readers, ctx, heard, wire, shut>>
        /\ ResponderHeld(c) /\ pending[c] = NoOps
        /\ responders'[c] = responders[c] \ {h}
        /\ Balance' = Balance
    BY <1>0, <1>3, Busy DEF ReleaseResponder, ResponderHeld, TypeOK
  <2>2. CASE LastHolder(c, h) /\ ProcessorHeld(c) /\ conn[c] = "http"
    <3>1. pending'[c] = [NoOps EXCEPT !.write = 1]
      BY <1>3, <2>1, <2>2, OneOperation DEF ReleaseResponder, DestroyResponder, TypeOK
    <3>2. pending'[c].write > 0 /\ pending'[c].read = 0 /\ pending'[c].handshake = 0
      BY <3>1, OneOpFields
    <3> QED
      BY <2>1, <2>2, <3>2 DEF Quiet, InService
  <2>3. CASE LastHolder(c, h) /\ ~(ProcessorHeld(c) /\ conn[c] = "http")
    <3>1. UNCHANGED pending /\ conn[c] # "http"
      BY <1>3, <2>3 DEF ReleaseResponder, DestroyResponder, Own
    <3> QED
      BY <2>1, <3>1 DEF Quiet, InService
  <2>4. CASE ~LastHolder(c, h)
    <3>1. UNCHANGED pending
      BY <1>3, <2>4 DEF ReleaseResponder
    <3>2. ResponderHeld(c)'
      BY <1>3, <2>1, <2>4 DEF ReleaseResponder, ResponderHeld, LastHolder
    <3> QED
      BY <2>1, <3>1, <3>2 DEF Quiet, InService
  <2> QED
    BY <2>2, <2>3, <2>4
<1>4. ASSUME NEW h \in Holder, ReleaseReader(c, h)
      PROVE  Quiet(c)
  <2>1. /\ UNCHANGED <<pending, exec, responders, ctx, heard, wire, shut>>
        /\ Settle(c, metrics) /\ UNCHANGED refused /\ metrics \in Metrics
        /\ pending[c] \in Ops
    BY <1>4 DEF ReleaseReader, TypeOK
  <2>2. /\ Balance' = Balance
        /\ conn[c] # "http" => conn'[c] = conn[c]
        /\ conn[c] = "http" => conn'[c] = IF ProcessorHeld(c)' THEN "http" ELSE "destroyed"
    BY <2>1, BalanceSettle DEF Balance
  <2>3. ResponderHeld(c)' <=> ResponderHeld(c)
    BY <2>1 DEF ResponderHeld
  <2>4. ASSUME InService(c), conn'[c] # "http"
        PROVE  ~(responders'[c] \subseteq readers'[c])
    <3>1. ~ProcessorHeld(c)'
      BY <2>2, <2>4 DEF InService
    <3>2. /\ pending[c].handshake + pending[c].read + pending[c].write <= 0
          /\ exec[c] = "idle" /\ readers'[c] = {}
      BY <2>1, <3>1 DEF ProcessorHeld, Ops
    <3>3. ~(pending[c].write > 0)
      BY <2>1, <3>2 DEF Ops
    <3>4. responders[c] # {}
      BY <2>4, <3>2, <3>3 DEF InService, ResponderHeld
    <3> QED
      BY <2>1, <3>2, <3>4
  <2>5. InService(c)' <=> InService(c) /\ conn'[c] = "http"
    BY <2>1, <2>2, <2>3 DEF InService
  <2> QED
    BY <2>1, <2>2, <2>4, <2>5 DEF Quiet
<1> QED
    BY <1>1, <1>2, <1>3, <1>4 DEF UserCode, Release, Effect

(* The handler returns: the write is started, or whoever kept the          *)
(* responder goes on.                                                      *)
LEMMA ReturnEffect ==
    ASSUME TypeOK, NEW c \in Conn, Own(c), HandlerReturns(c)
    PROVE  Quiet(c)
<1>1. /\ conn[c] = "http" /\ pending[c] = NoOps /\ exec[c] = "handler"
      /\ exec'[c] = "idle"
      /\ UNCHANGED <<responders, readers, ctx, heard, wire, shut, refused>>
      /\ Settle(c, metrics) /\ metrics \in Metrics
    BY Busy DEF HandlerReturns, TypeOK
<1>2. /\ Balance' = Balance
      /\ conn'[c] = IF ProcessorHeld(c)' THEN "http" ELSE "destroyed"
    BY <1>1, BalanceSettle DEF Balance
<1>3. InService(c)
    BY <1>1 DEF InService, ResponderHeld
<1>4. CASE responders[c] = {}
  <2>1. pending'[c] = [NoOps EXCEPT !.write = 1]
    BY <1>1, <1>4, OneOperation DEF HandlerReturns, DestroyResponder, ProcessorHeld, TypeOK
  <2>2. pending'[c].write > 0 /\ pending'[c].read = 0 /\ pending'[c].handshake = 0
    BY <2>1, OneOpFields
  <2>3. ProcessorHeld(c)'
    BY <2>1, OneOperation DEF ProcessorHeld
  <2> QED
    BY <1>1, <1>2, <1>3, <2>2, <2>3 DEF Quiet, InService
<1>5. CASE responders[c] # {}
  <2>1. UNCHANGED pending
    BY <1>5 DEF HandlerReturns
  <2>2. ResponderHeld(c)'
    BY <1>1, <1>5 DEF ResponderHeld
  <2>3. conn'[c] # "http" => readers'[c] = {}
    BY <1>2 DEF ProcessorHeld
  <2> QED
    BY <1>1, <1>2, <1>3, <1>5, <2>1, <2>2, <2>3 DEF Quiet, InService
<1> QED
    BY <1>4, <1>5

(* What becomes of a websocket session, and everything the client does,    *)
(* leave the responses alone.                                              *)
LEMMA OutsideEffect ==
    ASSUME TypeOK, NEW c \in Conn, SessionThrows(c) \/ SessionEnds(c) \/ Client(c)
    PROVE  Quiet(c)
<1>1. CASE SessionThrows(c)
  <2>1. /\ conn[c] = "ws" /\ conn'[c] = "deaf"
        /\ UNCHANGED <<pending, ctx, heard, wire, shut, metrics, refused>>
    BY <1>1 DEF SessionThrows, TypeOK
  <2> QED
    BY <2>1 DEF Quiet, InService, Balance
<1>2. CASE SessionEnds(c)
  <2>1. /\ conn[c] \in {"ws", "deaf"} /\ conn'[c] = "destroyed"
        /\ UNCHANGED <<pending, ctx, heard, wire, shut, refused>>
        /\ metrics'.requests = metrics.requests /\ metrics'.responses = metrics.responses
    BY <1>2 DEF SessionEnds, TypeOK, Metrics
  <2> QED
    BY <2>1 DEF Quiet, InService, Balance
<1>3. CASE Client(c)
  <2>1. UNCHANGED <<conn, pending, exec, responders, ctx, heard, wire, shut, metrics,
                    refused>>
    BY <1>3 DEF Client, ClientSends, ClientLeaves
  <2> QED
    BY <2>1 DEF Quiet, InService, ResponderHeld, Balance
<1> QED
    BY <1>1, <1>2, <1>3

LEMMA Effects ==
    ASSUME TypeOK, NEW c \in Conn, Own(c), Step(c)
    PROVE  Effect(c)
    BY AcceptEffect, ReadEffect, WriteEffect, UserCodeEffect, ReturnEffect, OutsideEffect
    DEF Step, Server, Established, Effect

-----------------------------------------------------------------------------
(* The fields of a context that an operator of the pipeline leaves.        *)

LEMMA ResetContextFields ==
    ASSUME NEW x \in Context
    PROVE  LET y == ResetContext(x) IN
           /\ y.cur = 0 /\ y.taken = x.taken /\ y.inside = x.inside
           /\ y.version = x.version
           /\ y.response.status = 500 /\ y.response.body = 0
           /\ y.response.version = x.version
    BY DEF ResetContext, FreshResponse, Context

LEMMA RespondFields ==
    ASSUME NEW x \in Context, NEW status
    PROVE  LET y == Respond(x, status) IN
           /\ y.cur = x.cur /\ y.taken = x.taken /\ y.inside = x.inside
           /\ y.version = x.version
           /\ y.response.status = status /\ y.response.body = x.cur
           /\ y.response.version = x.response.version
           /\ y.response.keepAlive = x.response.keepAlive
<1> DEFINE q == x.response
           z == [[q EXCEPT !.status = status] EXCEPT !.body = x.cur]
<1>1. q \in Response
    BY DEF Context
<1>2. /\ z.status = status /\ z.body = x.cur
      /\ z.version = q.version /\ z.keepAlive = q.keepAlive
    BY <1>1 DEF Response
<1> DEFINE v == [x EXCEPT !.response = [q EXCEPT !.status = status]]
<1>3. /\ v.cur = x.cur /\ v.taken = x.taken /\ v.inside = x.inside
      /\ v.version = x.version
      /\ v.response = [q EXCEPT !.status = status] /\ DOMAIN v = DOMAIN x
    BY DEF Context
<1>4. Respond(x, status) = [v EXCEPT !.response = [v.response EXCEPT !.body = x.cur]]
    BY DEF Respond
<1>5. LET y == [v EXCEPT !.response = z] IN
      /\ y.cur = x.cur /\ y.taken = x.taken /\ y.inside = x.inside
      /\ y.version = x.version /\ y.response = z
  <2> HIDE DEF z, v
  <2>1. {"response", "cur", "taken", "inside", "version"} \subseteq DOMAIN v
    BY <1>3 DEF Context
  <2> QED
    BY <1>3, <2>1
<1>6. Respond(x, status) = [v EXCEPT !.response = z]
    BY <1>3, <1>4
<1> HIDE DEF z, v
<1> QED
    BY <1>2, <1>5, <1>6

LEMMA ParsedFields ==
    ASSUME TypeOK, NEW c \in Conn, NEW m, NEW p
    PROVE  LET y == Parsed(c, m, p) IN
           /\ y.cur = Len(heard[c]) + 1 /\ y.taken = p.upTo /\ y.inside = p.inside
           /\ y.version = m.request.version
           /\ y.response.status = ctx[c].response.status
           /\ y.response.body = ctx[c].response.body
           /\ y.response.version = ctx[c].response.version
           /\ y.response.keepAlive = m.request.keepAlive
<1>1. ctx[c].response \in Response
    BY DEF TypeOK, Context
<1> QED
    BY <1>1 DEF Parsed, Response

(* What is taken into service has been heard, up to a cut.                 *)
LEMMA TakesHears ==
    ASSUME TypeOK, NEW c \in Conn, Takes(c)
    PROVE  \E m \in Arriving(c), p \in Cuts(c) : Hears(c, m, p)
<1>1. PICK m \in Arriving(c), p \in Cuts(c) :
         /\ Hear(c, m)
         /\ \/ ctx'[c] = Parsed(c, m, p)
            \/ \E status \in {404, 405} : ctx'[c] = Respond(Parsed(c, m, p), status)
    BY DEF Takes
<1>2. Parsed(c, m, p) \in Context
    BY ParsedType
<1>3. /\ ctx'[c].cur = Len(heard[c]) + 1
      /\ ctx'[c].taken = p.upTo /\ ctx'[c].inside = p.inside
    BY <1>1, <1>2, ParsedFields, RespondFields
<1> QED
    BY <1>1, <1>3 DEF Hears

-----------------------------------------------------------------------------
(* The effects keep the invariant.                                         *)

(* What the types say of the numbers of a connection.                      *)
LEMMA Numerals ==
    ASSUME TypeOK, NEW c \in Conn
    PROVE  /\ ctx[c] \in Context /\ ctx[c].cur \in Nat /\ ctx[c].taken \in Nat
           /\ Len(sent[c]) \in Nat /\ Len(wire[c]) \in Nat /\ Len(heard[c]) \in Nat
           /\ wire[c] = <<>> <=> Len(wire[c]) = 0
           /\ \A j \in 1 .. Len(heard[c]) : heard[c][j].of \in Nat
<1>1. /\ ctx[c] \in Context /\ sent[c] \in Seq(Request)
      /\ heard[c] \in Seq(Heard) /\ wire[c] \in Seq([for : Nat, response : Response])
    BY DEF TypeOK
<1>2. /\ Len(sent[c]) \in Nat /\ Len(wire[c]) \in Nat /\ Len(heard[c]) \in Nat
      /\ wire[c] = <<>> <=> Len(wire[c]) = 0
      /\ \A j \in 1 .. Len(heard[c]) : heard[c][j] \in Heard
    BY <1>1
<1> QED
    BY <1>1, <1>2 DEF Context, Heard

HeardGrows(c) ==
    /\ Len(heard[c]) <= Len(heard'[c])
    /\ \A j \in 1 .. Len(heard[c]) : heard'[c][j] = heard[c][j]

(* One thing more is heard.                                                *)
LEMMA HeardAppend ==
    ASSUME TypeOK, NEW c \in Conn, NEW m \in Arriving(c), Hear(c, m)
    PROVE  /\ HeardGrows(c)
           /\ Len(heard'[c]) = Len(heard[c]) + 1
           /\ heard'[c][Len(heard[c]) + 1] = m
<1>1. m \in Heard
    BY ArrivingType
<1>2. heard[c] \in Seq(Heard) /\ heard'[c] = Append(heard[c], m)
    BY DEF TypeOK, Hear
<1> QED
    BY <1>1, <1>2 DEF HeardGrows

(* What a client was told does not change when the server hears more.      *)
LEMMA SameWire ==
    ASSUME TypeOK, NEW c \in Conn, HeardGrows(c) \/ heard'[c] = heard[c],
           Numbers(c), Told(c), wire'[c] = wire[c]
    PROVE  LastVersion(c)' = LastVersion(c) /\ Told(c)'
<1>1. /\ Len(wire[c]) \in Nat /\ Len(heard[c]) \in Nat
      /\ wire[c] = <<>> <=> Len(wire[c]) = 0
      /\ Len(wire[c]) <= Len(heard[c])
    BY Numerals DEF Numbers
<1>2. \A i \in 1 .. Len(wire[c]) : wire[c][i].for = i /\ heard'[c][i] = heard[c][i]
    BY <1>1 DEF Told, HeardGrows
<1>3. LastVersion(c)' = LastVersion(c)
  <2>1. CASE wire[c] = <<>>
    BY <2>1 DEF LastVersion
  <2>2. CASE wire[c] # <<>>
    <3>1. Len(wire[c]) \in 1 .. Len(wire[c])
      BY <1>1, <2>2
    <3> QED
      BY <1>2, <2>2, <3>1 DEF LastVersion
  <2> QED
    BY <2>1, <2>2
<1>4. Told(c)'
  <2> SUFFICES ASSUME NEW i \in 1 .. Len(wire[c])
               PROVE  /\ wire[c][i].for = i
                      /\ MadeFor(c, wire[c][i].response, i)'
                      /\ wire[c][i].response.version =
                            IF i = 1 THEN 11
                            ELSE heard'[c][wire[c][i - 1].for].request.version
    BY SMTT(30) DEF Told, MadeFor
  <2>1. MadeFor(c, wire[c][i].response, i)'
    BY <1>2 DEF Told, MadeFor
  <2>2. i # 1 => i - 1 \in 1 .. Len(wire[c])
    BY <1>1
  <2> QED
    BY <1>2, <2>1, <2>2 DEF Told
<1> QED
    BY <1>3, <1>4

(* A read is outstanding, or a request is in service, never both.          *)
LEMMA ReadOrServe ==
    ASSUME TypeOK, NEW c \in Conn, Own(c)
    PROVE  ~(InService(c) /\ pending[c].read > 0)
<1> SUFFICES ASSUME pending[c].read > 0 PROVE ~InService(c)
    OBVIOUS
<1>1. exec[c] = "idle" /\ responders[c] = {} /\ pending[c] = [NoOps EXCEPT !.read = 1]
    BY Busy
<1> QED
    BY <1>1, OneOpFields DEF InService, ResponderHeld

LEMMA QuietAnswering ==
    ASSUME TypeOK, NEW c \in Conn, Answering(c), Quiet(c)
    PROVE  Answering(c)'
<1> USE DEF Answering, Quiet
<1>1. Numbers(c)'
    BY DEF Numbers
<1>2. Made(c)'
    BY DEF Made, MadeFor
<1>3. LastVersion(c)' = LastVersion(c) /\ Told(c)'
    BY SameWire
<1>4. Lag(c)'
    BY <1>3 DEF Lag
<1> QED
    BY <1>1, <1>2, <1>3, <1>4

LEMMA FillsAnswering ==
    ASSUME TypeOK, NEW c \in Conn, Own(c), Answering(c), Fills(c)
    PROVE  Answering(c)'
<1> USE DEF Answering, Fills
<1>1. /\ ctx'[c].cur = ctx[c].cur
      /\ ctx'[c].version = ctx[c].version
      /\ ctx'[c].response.status = 200 /\ ctx'[c].response.body = ctx[c].cur
      /\ ctx'[c].response.version = ctx[c].response.version
      /\ ctx'[c].response.keepAlive = ctx[c].response.keepAlive
    BY Numerals, RespondFields
<1>2. Numbers(c)'
    BY <1>1 DEF Numbers
<1>3. Made(c)'
    BY <1>1, ReadOrServe DEF Made, MadeFor
<1>4. LastVersion(c)' = LastVersion(c) /\ Told(c)'
    BY SameWire
<1>5. Lag(c)'
    BY <1>1, <1>4 DEF Lag
<1> QED
    BY <1>2, <1>3, <1>4, <1>5

LEMMA TakesAnswering ==
    ASSUME TypeOK, NEW c \in Conn, Answering(c), Takes(c)
    PROVE  Answering(c)'
<1> USE DEF Answering
<1> DEFINE next == Len(heard[c]) + 1
<1>1. PICK m \in Arriving(c), p \in Cuts(c) :
         /\ Hear(c, m)
         /\ \/ ctx'[c] = Parsed(c, m, p)
            \/ \E status \in {404, 405} : ctx'[c] = Respond(Parsed(c, m, p), status)
    BY DEF Takes
<1>2. /\ Len(heard'[c]) = next /\ heard'[c][next] = m /\ HeardGrows(c)
      /\ Parsed(c, m, p) \in Context
    BY <1>1, HeardAppend, ParsedType
<1>3. /\ ctx'[c].cur = next
      /\ ctx'[c].version = m.request.version
      /\ ctx'[c].response.version = ctx[c].response.version
      /\ ctx'[c].response.keepAlive = m.request.keepAlive
      /\ ctx'[c].response.body = IF ctx'[c].response.status = 500 THEN 0 ELSE next
  <2>1. ctx[c].response.status = 500 /\ ctx[c].response.body = 0
    BY DEF Made, Takes
  <2>2. LET y == Parsed(c, m, p) IN
        /\ y.cur = next /\ y.version = m.request.version
        /\ y.response.status = 500 /\ y.response.body = 0
        /\ y.response.version = ctx[c].response.version
        /\ y.response.keepAlive = m.request.keepAlive
    BY <2>1, ParsedFields
  <2>3. CASE ctx'[c] = Parsed(c, m, p)
    BY <2>2, <2>3
  <2>4. ASSUME NEW status \in {404, 405}, ctx'[c] = Respond(Parsed(c, m, p), status)
        PROVE  /\ ctx'[c].cur = next
               /\ ctx'[c].version = m.request.version
               /\ ctx'[c].response.version = ctx[c].response.version
               /\ ctx'[c].response.keepAlive = m.request.keepAlive
               /\ ctx'[c].response.body = next /\ ctx'[c].response.status # 500
    BY <1>2, <2>2, <2>4, RespondFields
  <2> QED
    BY <1>1, <2>3, <2>4
<1>4. /\ InService(c)' /\ conn'[c] = "http" /\ pending[c].read > 0
      /\ ~(pending'[c].read > 0) /\ ~(pending'[c].handshake > 0)
      /\ shut'[c] = shut[c] /\ wire'[c] = wire[c]
    BY DEF Takes
<1>5. Len(heard[c]) \in Nat /\ Len(wire[c]) \in Nat
    BY Numerals
<1>6. Numbers(c)'
    BY <1>2, <1>3, <1>4, <1>5 DEF Numbers
<1>7. Made(c)'
    BY <1>2, <1>3, <1>4 DEF Made, MadeFor
<1>8. LastVersion(c)' = LastVersion(c) /\ Told(c)'
    BY <1>2, <1>4, SameWire
<1>9. Lag(c)'
    BY <1>2, <1>3, <1>4, <1>8 DEF Lag
<1> QED
    BY <1>6, <1>7, <1>8, <1>9

LEMMA AbandonsAnswering ==
    ASSUME TypeOK, NEW c \in Conn, Answering(c), Abandons(c)
    PROVE  Answering(c)'
<1> USE DEF Answering
<1>1. HeardGrows(c) /\ Len(heard'[c]) = Len(heard[c]) + 1
    BY HeardAppend DEF Abandons, Hears
<1>2. /\ ~(pending'[c].read > 0) /\ ~(pending'[c].handshake > 0) /\ conn'[c] # "none"
      /\ ~InService(c)' /\ wire'[c] = wire[c]
    BY OneOpFields DEF Abandons
<1>3. Len(heard[c]) \in Nat /\ Len(wire[c]) \in Nat
    BY Numerals
<1>4. Numbers(c)'
    BY <1>1, <1>2, <1>3 DEF Numbers
<1>5. Made(c)' /\ Lag(c)'
    BY <1>2 DEF Made, Lag
<1> QED
    BY <1>1, <1>2, <1>4, <1>5, SameWire

LEMMA ResetsAnswering ==
    ASSUME TypeOK, NEW c \in Conn, Answering(c), Resets(c)
    PROVE  Answering(c)'
<1> USE DEF Answering
<1>1. /\ wire'[c] = wire[c] /\ heard'[c] = heard[c] /\ ~InService(c)'
      /\ conn'[c] = "http" /\ ~(pending'[c].handshake > 0)
    BY OneOpFields DEF Resets
<1>2. pending'[c].read > 0 =>
         /\ ctx'[c].response.status = 500 /\ ctx'[c].response.body = 0
         /\ ctx'[c].response.version = ctx[c].version
    BY Numerals, ResetContextFields, OneOpFields DEF Resets
<1>3. pending'[c].read > 0 /\ "send" \notin shut'[c] =>
         /\ conn[c] = "none" \/ pending[c].handshake > 0
         /\ "send" \notin shut[c]
    BY OneOpFields DEF Resets
<1>4. Len(heard[c]) \in Nat /\ Len(wire[c]) \in Nat
      /\ (wire[c] = <<>> <=> Len(wire[c]) = 0)
    BY Numerals
<1>5. Numbers(c)'
    BY <1>1, <1>3, <1>4 DEF Numbers
<1>6. Made(c)'
    BY <1>1, <1>2 DEF Made
<1>7. LastVersion(c)' = LastVersion(c) /\ Told(c)'
    BY <1>1, SameWire
<1>8. Lag(c)'
  <2> SUFFICES ASSUME "send" \notin shut'[c], pending'[c].read > 0
               PROVE  ctx'[c].response.version = LastVersion(c)'
    BY <1>1 DEF Lag
  <2>1. Len(heard[c]) = 0 /\ ctx[c].version = 11 /\ Len(wire[c]) <= Len(heard[c])
    BY <1>3 DEF Numbers, Lag
  <2>2. wire[c] = <<>>
    BY <1>4, <2>1
  <2> QED
    BY <1>2, <1>7, <2>1, <2>2 DEF LastVersion
<1> QED
    BY <1>5, <1>6, <1>7, <1>8

(* The sequence of responses when the client receives one.                 *)
LEMMA WireAppend ==
    ASSUME TypeOK, NEW c \in Conn, Replies(c)
    PROVE  LET n == Len(wire[c]) IN
           /\ Len(wire'[c]) = n + 1
           /\ \A i \in 1 .. n : wire'[c][i] = wire[c][i]
           /\ wire'[c][n + 1].for = ctx[c].cur
           /\ wire'[c][n + 1].response = ctx[c].response
           /\ wire'[c] # <<>>
<1> DEFINE S == [for : Nat, response : Response]
<1>1. wire[c] \in Seq(S) /\ Reply(c) \in S
    BY Numerals DEF TypeOK, Reply, Context
<1>2. wire'[c] = Append(wire[c], Reply(c))
    BY DEF Replies
<1> HIDE DEF S
<1>3. /\ Len(wire'[c]) = Len(wire[c]) + 1 /\ Len(wire[c]) \in Nat
      /\ \A i \in 1 .. Len(wire[c]) : wire'[c][i] = wire[c][i]
      /\ wire'[c][Len(wire[c]) + 1] = Reply(c)
    BY <1>1, <1>2
<1> QED
    BY <1>3 DEF Reply

LEMMA RepliesAnswering ==
    ASSUME TypeOK, NEW c \in Conn, Answering(c), Replies(c)
    PROVE  Answering(c)'
<1> USE DEF Answering
<1> DEFINE n == Len(wire[c])
<1>1. /\ ctx[c] \in Context /\ n \in Nat /\ Len(heard[c]) \in Nat
      /\ (wire[c] = <<>> <=> n = 0)
    BY Numerals
<1>2. /\ Len(heard[c]) = n + 1 /\ ctx[c].cur = n + 1
      /\ heard'[c] = heard[c]
    BY DEF Numbers, Replies
<1>3. /\ Len(wire'[c]) = n + 1
      /\ \A i \in 1 .. n : wire'[c][i] = wire[c][i]
      /\ wire'[c][n + 1].for = n + 1
      /\ wire'[c][n + 1].response = ctx[c].response
      /\ wire'[c] # <<>>
    BY <1>2, WireAppend
<1>4. ~InService(c)' /\ conn'[c] # "none" /\ ~(pending'[c].handshake > 0)
    BY OneOpFields DEF Replies
<1>5. /\ \A i \in 1 .. n + 1 : i \in 1 .. n \/ i = n + 1
      /\ \A i \in 1 .. n : i # 1 => i - 1 \in 1 .. n
    BY <1>1
<1> HIDE DEF n
<1>6. Numbers(c)'
    BY <1>1, <1>2, <1>3, <1>4 DEF Numbers
<1>7. pending'[c].read > 0 => ctx'[c] = ResetContext(ctx[c])
    BY OneOpFields DEF Replies
<1>8. Made(c)'
    BY <1>1, <1>4, <1>7, ResetContextFields DEF Made
<1>9. Lag(c)'
  <2> SUFFICES ASSUME "send" \notin shut'[c], pending'[c].read > 0
               PROVE  ctx'[c].response.version = LastVersion(c)'
    BY <1>4 DEF Lag
  <2>1. ctx'[c].response.version = ctx[c].version
    BY <1>1, <1>7, ResetContextFields
  <2>2. ctx[c].version = heard[c][n + 1].request.version
    BY <1>2 DEF Lag, Replies
  <2>3. LastVersion(c)' = heard[c][n + 1].request.version
    BY <1>2, <1>3 DEF LastVersion
  <2> QED
    BY <2>1, <2>2, <2>3
<1>10. Told(c)'
  <2> SUFFICES ASSUME NEW i \in 1 .. n + 1
               PROVE  /\ wire'[c][i].for = i
                      /\ MadeFor(c, wire[c][i].response, i)'
                      /\ wire'[c][i].response.version =
                            IF i = 1 THEN 11
                            ELSE heard[c][wire'[c][i - 1].for].request.version
    BY <1>2, <1>3, SMTT(30) DEF Told
  <2>1. CASE i \in 1 .. n
    <3>1. wire'[c][i] = wire[c][i] /\ (i # 1 => wire'[c][i - 1] = wire[c][i - 1])
      BY <1>3, <1>5, <2>1
    <3>2. /\ wire[c][i].for = i
          /\ MadeFor(c, wire[c][i].response, i)
          /\ wire[c][i].response.version =
                IF i = 1 THEN 11 ELSE heard[c][wire[c][i - 1].for].request.version
      BY <2>1 DEF Told, n
    <3> QED
      BY <1>2, <3>1, <3>2 DEF MadeFor
  <2>2. CASE i = n + 1
    <3>1. i # 1 => i - 1 = n /\ n \in 1 .. n /\ wire'[c][n] = wire[c][n]
      BY <1>1, <1>3, <2>2
    <3>2. MadeFor(c, wire[c][i].response, i)'
      BY <1>2, <1>3, <2>2 DEF Made, MadeFor, Replies
    <3>3. wire'[c][i].response.version = LastVersion(c)
      BY <1>3, <2>2 DEF Lag, Replies
    <3>4. LastVersion(c) = IF i = 1 THEN 11 ELSE heard[c][wire[c][n].for].request.version
      BY <1>1, <2>2 DEF LastVersion, n
    <3> QED
      BY <1>3, <2>2, <3>1, <3>2, <3>3, <3>4
  <2> QED
    BY <1>5, <2>1, <2>2
<1> QED
    BY <1>6, <1>8, <1>9, <1>10

(* The connection that takes the step keeps its part of the invariant.     *)
LEMMA AnsweringStep ==
    ASSUME TypeOK, NEW c \in Conn, Own(c), Answering(c), Step(c)
    PROVE  Answering(c)'
    BY Effects, QuietAnswering, FillsAnswering, TakesAnswering, AbandonsAnswering,
       ResetsAnswering, RepliesAnswering DEF Effect

(* A step hears something, or takes nothing off the stream.                *)
LEMMA HearEffect ==
    ASSUME TypeOK, NEW c \in Conn, Effect(c)
    PROVE  \/ /\ UNCHANGED sent
              /\ \E m \in Arriving(c), p \in Cuts(c) : Hears(c, m, p)
           \/ /\ heard'[c] = heard[c]
              /\ ctx'[c].taken = ctx[c].taken /\ ctx'[c].inside = ctx[c].inside
<1>1. ctx[c] \in Context
    BY Numerals
<1>2. LET y == ResetContext(ctx[c]) IN y.taken = ctx[c].taken /\ y.inside = ctx[c].inside
    BY <1>1, ResetContextFields
<1>3. LET y == Respond(ctx[c], 200) IN y.taken = ctx[c].taken /\ y.inside = ctx[c].inside
    BY <1>1, RespondFields
<1>4. CASE Takes(c)
    BY <1>4, TakesHears DEF Takes
<1>5. CASE Abandons(c)
    BY <1>5 DEF Abandons
<1>6. CASE Quiet(c) \/ Fills(c) \/ Resets(c) \/ Replies(c)
    BY <1>2, <1>3, <1>6 DEF Quiet, Fills, Resets, Replies
<1> QED
    BY <1>4, <1>5, <1>6 DEF Effect

LEMMA HearingStep ==
    ASSUME TypeOK, NEW c \in Conn, SentGrows(c), Effect(c), Hearing(c)
    PROVE  Hearing(c)'
<1> DEFINE n == Len(heard[c])
           t == ctx[c].taken
<1>1. /\ n \in Nat /\ t \in Nat /\ Len(sent[c]) \in Nat
      /\ \A j \in 1 .. n : heard[c][j].of \in Nat
    BY Numerals
<1>2. CASE heard'[c] = heard[c] /\ ctx'[c].taken = t /\ ctx'[c].inside = ctx[c].inside
  <2>1. Len(sent[c]) <= Len(sent'[c]) /\ Len(sent'[c]) \in Int
    BY <1>1 DEF SentGrows
  <2>2. t <= Len(sent'[c])
    BY <1>1, <2>1 DEF Hearing
  <2>3. \A j \in 1 .. n : heard[c][j].of > 0 =>
           /\ heard[c][j].of <= Len(sent'[c])
           /\ sent'[c][heard[c][j].of] = sent[c][heard[c][j].of]
    BY <1>1, <2>1 DEF Hearing, HeardInOrder, SentGrows
  <2>4. HeardInOrder(c)'
    BY <1>2, <2>3 DEF Hearing, HeardInOrder
  <2> QED
    BY <1>2, <2>2, <2>4 DEF Hearing
<1>3. ASSUME UNCHANGED sent, NEW m \in Arriving(c), NEW p \in Cuts(c), Hears(c, m, p)
      PROVE  Hearing(c)'
  <2>1. /\ Len(heard'[c]) = n + 1 /\ heard'[c][n + 1] = m
        /\ \A j \in 1 .. n : heard'[c][j] = heard[c][j]
    BY <1>3, HeardAppend DEF Hears, HeardGrows
  <2>2. /\ p.upTo \in t .. Len(sent[c])
        /\ p.upTo > t \/ ctx[c].inside
    BY DEF Cuts
  <2>3. \/ ctx[c].inside /\ m.of = 0
        \/ /\ ~ctx[c].inside /\ m.of = t + 1
           /\ m.of <= Len(sent[c]) /\ m.request = sent[c][m.of]
    BY <1>1 DEF Arriving, NextRequest
  <2>4. ctx'[c].taken = p.upTo
    BY <1>3 DEF Hears
  <2>5. \A j \in 1 .. n + 1 : j \in 1 .. n \/ j = n + 1
    BY <1>1
  <2>6. \A j \in 1 .. n : heard[c][j].of <= t
    BY DEF Hearing
  <2>7. \A j \in 1 .. n + 1 : heard'[c][j].of <= p.upTo
    <3>1. m.of <= p.upTo
      BY <1>1, <2>2, <2>3
    <3>2. \A j \in 1 .. n : heard[c][j].of <= p.upTo
      BY <1>1, <2>2, <2>6
    <3> QED
      BY <2>1, <2>5, <3>1, <3>2
  <2>8. HeardInOrder(c)'
    <3> SUFFICES ASSUME NEW j \in 1 .. n + 1
                 PROVE  /\ j = 1 => heard'[c][j].of = 1
                        /\ heard'[c][j].of > 0 =>
                              /\ heard'[c][j].of <= Len(sent[c])
                              /\ heard'[c][j].request = sent[c][heard'[c][j].of]
                              /\ \A k \in 1 .. j - 1 : heard'[c][k].of < heard'[c][j].of
      BY <1>3, <2>1 DEF HeardInOrder
    <3>1. CASE j \in 1 .. n
      <4>1. \A k \in 1 .. j - 1 : k \in 1 .. n
        BY <1>1, <3>1
      <4> QED
        BY <2>1, <3>1, <4>1 DEF Hearing, HeardInOrder
    <3>2. CASE j = n + 1
      <4>1. j = 1 => m.of = 1
        BY <1>1, <2>3, <3>2 DEF Hearing
      <4>2. \A k \in 1 .. j - 1 : k \in 1 .. n /\ heard'[c][k] = heard[c][k]
        <5>1. \A k \in 1 .. j - 1 : k \in 1 .. n
          <6> HIDE DEF n
          <6> QED
            BY <1>1, <3>2
        <5> QED
          BY <2>1, <5>1
      <4>3. ASSUME m.of > 0, NEW k \in 1 .. j - 1
            PROVE  heard'[c][k].of < m.of
        <5>1. /\ k \in 1 .. n /\ heard'[c][k].of = heard[c][k].of
              /\ heard[c][k].of <= t /\ heard[c][k].of \in Nat
          BY <1>1, <2>6, <4>2
        <5>2. m.of = t + 1
          BY <2>3, <4>3
        <5> QED
          BY <1>1, <5>1, <5>2
      <4> QED
        BY <2>1, <2>3, <3>2, <4>1, <4>3
    <3> QED
      BY <2>5, <3>1, <3>2
  <2>9. Len(heard'[c]) # 0
    BY <1>1, <2>1
  <2> QED
    BY <1>3, <2>1, <2>2, <2>4, <2>7, <2>8, <2>9 DEF Hearing
<1> QED
    BY <1>2, <1>3, HearEffect

(* Without bare responders, a holder of the responder of an open           *)
(* connection takes, and gives up, the processor with it.                  *)
LEMMA KeptStep ==
    ASSUME TypeOK, TypeOK', NEW c \in Conn, Own(c), Kept(c), Step(c),
           ~AllowBare, conn[c] \in {"none", "http"}
    PROVE  responders'[c] \subseteq readers'[c]
<1>1. responders[c] \subseteq readers[c]
    BY DEF Own, Kept
<1>2. ASSUME NEW h \in Holder, TakeKeeper(c, h)
      PROVE  responders'[c] \subseteq readers'[c]
  <2>1. conn[c] = "http" /\ ProcessorHeld(c)
    BY <1>2 DEF Own, TakeKeeper
  <2> QED
    BY <1>1, <1>2, <2>1 DEF TakeKeeper, TypeOK
<1>3. ASSUME NEW h \in Holder, ReleaseResponder(c, h)
      PROVE  responders'[c] \subseteq readers'[c]
    BY <1>1, <1>3 DEF ReleaseResponder, TypeOK
<1>4. ASSUME NEW h \in Holder, ReleaseReader(c, h)
      PROVE  responders'[c] \subseteq readers'[c]
    BY <1>1, <1>4 DEF ReleaseReader, TypeOK
<1>5. CASE \A h \in Holder : /\ ~TakeKeeper(c, h) /\ ~ReleaseResponder(c, h)
                             /\ ~ReleaseReader(c, h)
  <2>1. UNCHANGED <<responders, readers>>
    BY <1>5 DEF Step, Server, Accept, Established, UserCode, Client, Open, OpenThrows,
       HandshakeSucceeds, HandshakeFails, ReadHandler, ReadRejected, ReadDispatched,
       ReadUpgraded, ReadThrows, ReadFails, HandlerReturns, WriteHandler, WriteSucceeds,
       WriteThrows, WriteFails, ShutdownReturns, SessionThrows, SessionEnds, Release,
       KeepResponder, SetResponse, ClientSends, ClientLeaves
  <2> QED
    BY <1>1, <2>1
<1> QED
    BY <1>2, <1>3, <1>4, <1>5

(* Only a connection that was not yet accepted, or open, is open next.     *)
LEMMA OpenBefore ==
    ASSUME NEW c \in Conn, TypeOK, Own(c), Effect(c), conn'[c] = "http"
    PROVE  conn[c] \in {"none", "http"}
    BY Busy DEF Effect, Quiet, Fills, Takes, Abandons, Resets, Replies, InService

(* A step of another connection changes nothing of this one.               *)
LEMMA ElsewhereAnswering ==
    ASSUME NEW c \in Conn, NEW d \in Conn \ {c}, Elsewhere(c), SentGrows(c),
           Answering(d), Hearing(d), Kept(d)
    PROVE  Answering(d)' /\ Hearing(d)' /\ Kept(d)'
<1>1. /\ conn'[d] = conn[d] /\ pending'[d] = pending[d] /\ exec'[d] = exec[d]
      /\ responders'[d] = responders[d] /\ readers'[d] = readers[d]
      /\ ctx'[d] = ctx[d] /\ heard'[d] = heard[d] /\ shut'[d] = shut[d]
      /\ wire'[d] = wire[d] /\ sent'[d] = sent[d]
    BY DEF Elsewhere, SentGrows
<1>2. InService(d)' <=> InService(d)
    BY <1>1 DEF InService, ResponderHeld
<1>3. Numbers(d)' /\ Made(d)' /\ Kept(d)'
    BY <1>1, <1>2 DEF Answering, Numbers, Made, MadeFor, Kept
<1>4. LastVersion(d)' = LastVersion(d)
    BY <1>1 DEF LastVersion
<1>5. Lag(d)' /\ Told(d)'
  <2>1. Lag(d)'
    BY <1>1, <1>2, <1>4 DEF Answering, Lag
  <2>2. Told(d)'
    BY <1>1 DEF Answering, Told, MadeFor
  <2> QED
    BY <2>1, <2>2
<1>6. Hearing(d)'
    BY <1>1 DEF Hearing, HeardInOrder
<1> QED
    BY <1>3, <1>5, <1>6 DEF Answering

LEMMA InitAnswerInv == Init => AnswerInv
<1> SUFFICES ASSUME Init, NEW c \in Conn
             PROVE  Answering(c) /\ Hearing(c) /\ Kept(c)
    BY InitIInv DEF AnswerInv
<1>1. /\ conn[c] = "none" /\ pending[c] = NoOps /\ exec[c] = "idle"
      /\ ctx[c] = NewContext /\ heard[c] = <<>> /\ sent[c] = <<>> /\ wire[c] = <<>>
    BY DEF Init
<1>2. /\ ctx[c].taken = 0 /\ ~ctx[c].inside /\ ctx[c].version = 11
      /\ Len(sent[c]) = 0 /\ Len(wire[c]) = 0 /\ Len(heard[c]) = 0
      /\ pending[c].read = 0
    BY <1>1 DEF NewContext, NoOps
<1>3. ~InService(c)
    BY <1>1 DEF InService
<1> QED
    BY <1>1, <1>2, <1>3 DEF Answering, Numbers, Made, Lag, Told, Hearing, HeardInOrder, Kept

LEMMA AnswerInvStep == AnswerInv /\ [Next]_vars => AnswerInv'
<1> SUFFICES ASSUME AnswerInv, [Next]_vars
             PROVE  AnswerInv'
    OBVIOUS
<1>1. IInv'
    BY IInvStep DEF AnswerInv
<1>2. CASE UNCHANGED vars
  <2>1. ASSUME NEW c \in Conn
        PROVE  Answering(c)' /\ Hearing(c)' /\ Kept(c)'
    <3>1. UNCHANGED <<conn, pending, exec, responders, readers, ctx, heard, shut, wire, sent>>
      BY <1>2 DEF vars, clientVars
    <3>2. Answering(c) /\ Hearing(c) /\ Kept(c)
      BY DEF AnswerInv
    <3>3. InService(c)' = InService(c)
      BY <3>1 DEF InService, ResponderHeld
    <3>4. /\ Numbers(c)' = Numbers(c) /\ Made(c)' = Made(c) /\ Lag(c)' = Lag(c)
          /\ Told(c)' = Told(c)
      BY <3>1, <3>3 DEF Numbers, Made, MadeFor, Lag, LastVersion, Told
    <3>5. Kept(c)' = Kept(c) /\ Hearing(c)' = Hearing(c)
      BY <3>1 DEF Kept, Hearing, HeardInOrder
    <3> QED
      BY <3>2, <3>4, <3>5 DEF Answering
  <2> QED
    BY <1>1, <2>1 DEF AnswerInv
<1>3. CASE Next
  <2>1. PICK c \in Conn : Step(c)
    BY <1>3 DEF Next, Step
  <2>2. Answering(c)'
    BY <2>1, AnsweringStep DEF AnswerInv, IInv
  <2>3. Hearing(c)'
    BY <2>1, Effects, SentStep, HearingStep DEF AnswerInv, IInv
  <2>4. Kept(c)'
    BY <1>1, <2>1, Effects, OpenBefore, KeptStep DEF AnswerInv, IInv, Kept
  <2>5. ASSUME NEW d \in Conn \ {c} PROVE Answering(d)' /\ Hearing(d)' /\ Kept(d)'
    BY <2>1, <2>5, OneConnection, SentStep, ElsewhereAnswering DEF AnswerInv, IInv
  <2> QED
    BY <1>1, <2>2, <2>3, <2>4, <2>5 DEF AnswerInv
<1> QED
    BY <1>2, <1>3

(* The inductive invariant of the responses holds in every reachable state.*)
THEOREM AnswersInductive == Spec => []AnswerInv
    BY InitAnswerInv, AnswerInvStep, PTL DEF Spec

(* What the server hears is requests of the client in their order, and     *)
(* pieces of those the stream was cut in; the i-th response is made for    *)
(* the i-th thing heard, whichever thread lets go of the responder last,   *)
(* and takes the body, the status or the keep-alive of no other.           *)
THEOREM OwnResponses == Spec => []OwnResponse
<1>1. ASSUME AnswerInv, NEW c \in Conn, NEW i \in 1 .. Len(wire[c])
      PROVE  /\ wire[c][i].for = i /\ i <= Len(heard[c])
             /\ MadeFor(c, wire[c][i].response, i)
  <2>1. TypeOK /\ Numbers(c) /\ Told(c)
    BY <1>1 DEF AnswerInv, IInv, Answering
  <2>2. Len(heard[c]) \in Nat /\ Len(wire[c]) \in Nat
    BY <2>1, Numerals
  <2>3. i <= Len(heard[c])
    BY <2>1, <2>2 DEF Numbers
  <2> QED
    BY <1>1, <2>1, <2>3 DEF Told
<1>2. AnswerInv => \A c \in Conn : HeardInOrder(c)
    BY DEF AnswerInv, Hearing
<1>3. AnswerInv => OwnResponse
    BY <1>1, <1>2 DEF OwnResponse, MadeFor
<1> QED
    BY <1>3, AnswersInductive, PTL

(* The version of a response is always that of the request answered before *)
(* it: requests that were thrown away, upgraded or lost in between do not  *)
(* change it, and no order of completions lets a response say its own.     *)
THEOREM VersionLags == Spec => []VersionLagsBehind
<1>1. AnswerInv => VersionLagsBehind
    BY DEF AnswerInv, Answering, Told, VersionLagsBehind
<1> QED
    BY <1>1, AnswersInductive, PTL

-----------------------------------------------------------------------------
(* One request at a time.                                                  *)

(* The stream of a client that waits is never cut inside a request.        *)
InStep(c) ==
    /\ Len(sent[c]) <= Len(wire[c]) + 1
    /\ ~ctx[c].inside /\ ctx[c].taken = Len(heard[c])
    /\ \A j \in 1 .. Len(heard[c]) : heard[c][j].of = j

LEMMA InStepStep ==
    ASSUME TypeOK, NEW c \in Conn, Own(c), Numbers(c), InStep(c), Step(c), Window <= 1
    PROVE  InStep(c)'
<1> DEFINE n == Len(wire[c])
           t == Len(heard[c])
<1>1. /\ Len(sent[c]) \in Nat /\ n \in Nat /\ t \in Nat /\ Window \in Nat
      /\ n <= t /\ Len(sent[c]) <= n + 1 /\ ctx[c].taken = t /\ ~ctx[c].inside
    BY Numerals, ConstantsAssumption DEF Numbers, InStep
<1>2. SentGrows(c) /\ Effect(c)
    BY SentStep, Effects
<1>3. Len(sent'[c]) <= Len(wire'[c]) + 1
  <2>1. CASE Replies(c)
    <3>1. Len(wire'[c]) = n + 1 /\ UNCHANGED sent
      BY <2>1, WireAppend DEF Replies
    <3> HIDE DEF n
    <3> QED
      BY <1>1, <3>1
  <2>2. CASE ~Replies(c)
    <3>1. wire'[c] = wire[c]
      BY <1>2, <2>2 DEF Effect, Quiet, Fills, Takes, Abandons, Resets
    <3>2. CASE sent'[c] # sent[c]
      <4>1. Len(sent'[c]) = Len(sent[c]) + 1 /\ Len(sent[c]) - n < Window
        BY <1>2, <3>2 DEF SentGrows
      <4>2. \A a, b, w \in Nat : a - b < w /\ w <= 1 => a + 1 <= b + 1
        OBVIOUS
      <4> HIDE DEF n
      <4>3. Len(sent[c]) + 1 <= n + 1
        BY <1>1, <4>1, <4>2
      <4> QED
        BY <3>1, <4>1, <4>3 DEF n
    <3> QED
      BY <1>1, <3>1, <3>2
  <2> QED
    BY <2>1, <2>2
<1>4. CASE heard'[c] = heard[c] /\ ctx'[c].taken = ctx[c].taken
           /\ ctx'[c].inside = ctx[c].inside
    BY <1>3, <1>4 DEF InStep
<1>5. ASSUME NEW m \in Arriving(c), NEW p \in Cuts(c), Hears(c, m, p)
      PROVE  InStep(c)'
  <2>1. /\ Len(heard'[c]) = t + 1 /\ heard'[c][t + 1] = m
        /\ \A j \in 1 .. t : heard'[c][j] = heard[c][j]
    BY <1>5, HeardAppend DEF Hears, HeardGrows
  <2>2. m.of = t + 1
    BY <1>1 DEF Arriving
  <2>3. /\ p.upTo \in t .. Len(sent[c]) /\ p.upTo > t
        /\ p.inside \in BOOLEAN /\ (p.inside => p.upTo < Len(sent[c]))
    BY <1>1 DEF Cuts
  <2> HIDE DEF n, t
  <2>4. p.upTo = t + 1 /\ ~p.inside
    BY <1>1, <2>3
  <2>5. \A j \in 1 .. t + 1 : j \in 1 .. t \/ j = t + 1
    BY <1>1
  <2>6. \A j \in 1 .. t + 1 : heard'[c][j].of = j
    BY <2>1, <2>2, <2>5 DEF InStep, t
  <2>7. ctx'[c].taken = t + 1 /\ ~ctx'[c].inside
    BY <1>5, <2>4 DEF Hears
  <2> QED
    BY <1>3, <2>1, <2>6, <2>7 DEF InStep
<1> QED
    BY <1>2, <1>4, <1>5, HearEffect

InStepInv == \A c \in Conn : InStep(c)

LEMMA InStepInvStep == Window <= 1 /\ AnswerInv /\ InStepInv /\ [Next]_vars => InStepInv'
<1> SUFFICES ASSUME Window <= 1, AnswerInv, InStepInv, [Next]_vars, NEW d \in Conn
             PROVE  InStep(d)'
    BY DEF InStepInv
<1>1. CASE UNCHANGED vars
    BY <1>1 DEF vars, clientVars, InStepInv, InStep
<1>2. CASE Next
  <2>1. PICK c \in Conn : Step(c)
    BY <1>2 DEF Next, Step
  <2>2. CASE d = c
    BY <2>1, <2>2, InStepStep DEF AnswerInv, IInv, Answering, InStepInv
  <2>3. CASE d # c
    <3>1. /\ wire'[d] = wire[d] /\ sent'[d] = sent[d]
          /\ heard'[d] = heard[d] /\ ctx'[d] = ctx[d]
      <4>1. Elsewhere(c) /\ SentGrows(c)
        BY <2>1, OneConnection, SentStep DEF AnswerInv, IInv
      <4> QED
        BY <2>3, <4>1 DEF Elsewhere, SentGrows
    <3> QED
      BY <3>1 DEF InStepInv, InStep
  <2> QED
    BY <2>2, <2>3
<1> QED
    BY <1>1, <1>2

(* A client that waits for each response before it sends another request   *)
(* gets, as its i-th response, the one made for its i-th request: no       *)
(* request of such a client is passed over, cut, answered twice or left    *)
(* out between two that are answered.                                      *)
THEOREM RespondsInStep ==
    ASSUME Window <= 1
    PROVE  Spec => []ResponsesInStep
<1>1. Init => InStepInv
    BY DEF Init, InStepInv, InStep, NewContext
<1>2. AnswerInv /\ InStepInv /\ [Next]_vars => InStepInv'
    BY InStepInvStep
<1>3. ASSUME AnswerInv, InStepInv, NEW c \in Conn, NEW i \in 1 .. Len(wire[c])
      PROVE  wire[c][i].for = i /\ heard[c][i].of = i
  <2>1. wire[c][i].for = i /\ Len(wire[c]) <= Len(heard[c]) /\ TypeOK
    BY <1>3 DEF AnswerInv, IInv, Answering, Told, Numbers
  <2>2. i \in 1 .. Len(heard[c])
    BY <2>1, Numerals
  <2> QED
    BY <1>3, <2>1, <2>2 DEF InStepInv, InStep
<1>4. AnswerInv /\ InStepInv => ResponsesInStep
    BY <1>3 DEF ResponsesInStep
<1> QED
    BY <1>1, <1>2, <1>4, AnswersInductive, PTL DEF Spec

-----------------------------------------------------------------------------
(* The counters balance.                                                   *)

(* One connection at most enters or leaves the set of those that serve.    *)
LEMMA ServingChange ==
    ASSUME TypeOK, NEW c \in Conn, Elsewhere(c)
    PROVE  /\ Cardinality(Serving) \in Nat
           /\ (InService(c)' <=> InService(c)) => Cardinality(Serving') = Cardinality(Serving)
           /\ InService(c)' /\ ~InService(c)
                 => Cardinality(Serving') = Cardinality(Serving) + 1
           /\ ~InService(c)' /\ InService(c)
                 => Cardinality(Serving') = Cardinality(Serving) - 1
<1>1. IsFiniteSet(Serving) /\ Cardinality(Serving) \in Nat
    BY ConstantsAssumption, FS_Subset, FS_CardinalityType DEF Serving
<1>2. \A d \in Conn \ {c} : InService(d)' <=> InService(d)
    BY DEF Elsewhere, InService, ResponderHeld
<1>3. (InService(c)' <=> InService(c)) => Serving' = Serving
    BY <1>2 DEF Serving
<1>4. InService(c)' /\ ~InService(c) => Serving' = Serving \cup {c} /\ c \notin Serving
    BY <1>2 DEF Serving
<1>5. ~InService(c)' /\ InService(c) => Serving' = Serving \ {c} /\ c \in Serving
    BY <1>2 DEF Serving
<1>6. /\ c \notin Serving => Cardinality(Serving \cup {c}) = Cardinality(Serving) + 1
      /\ c \in Serving => Cardinality(Serving \ {c}) = Cardinality(Serving) - 1
    BY <1>1, FS_AddElement, FS_RemoveElement
<1> QED
    BY <1>1, <1>3, <1>4, <1>5, <1>6

(* One connection at most comes or goes.                                   *)
LEMMA InChange ==
    ASSUME TypeOK, NEW c \in Conn, Elsewhere(c), NEW phases
    PROVE  /\ Cardinality(In(phases)) \in Nat
           /\ (conn'[c] \in phases <=> conn[c] \in phases)
                 => Cardinality(In(phases)') = Cardinality(In(phases))
           /\ conn'[c] \in phases /\ conn[c] \notin phases
                 => Cardinality(In(phases)') = Cardinality(In(phases)) + 1
           /\ conn'[c] \notin phases /\ conn[c] \in phases
                 => Cardinality(In(phases)') = Cardinality(In(phases)) - 1
<1>1. IsFiniteSet(In(phases)) /\ Cardinality(In(phases)) \in Nat
    BY ConstantsAssumption, FS_Subset, FS_CardinalityType DEF In
<1>2. \A d \in Conn \ {c} : conn'[d] = conn[d]
    BY DEF Elsewhere
<1>3. (conn'[c] \in phases <=> conn[c] \in phases) => In(phases)' = In(phases)
    BY <1>2 DEF In
<1>4. conn'[c] \in phases /\ conn[c] \notin phases
         => In(phases)' = In(phases) \cup {c} /\ c \notin In(phases)
    BY <1>2 DEF In
<1>5. conn'[c] \notin phases /\ conn[c] \in phases
         => In(phases)' = In(phases) \ {c} /\ c \in In(phases)
    BY <1>2 DEF In
<1>6. /\ c \notin In(phases) => Cardinality(In(phases) \cup {c}) = Cardinality(In(phases)) + 1
      /\ c \in In(phases) => Cardinality(In(phases) \ {c}) = Cardinality(In(phases)) - 1
    BY <1>1, FS_AddElement, FS_RemoveElement
<1> QED
    BY <1>1, <1>3, <1>4, <1>5, <1>6

(* A step counts what it takes into service and what it lets go of.        *)
LEMMA CountsStep ==
    ASSUME TypeOK, TypeOK', NEW c \in Conn, Own(c), Kept(c), Step(c), Counts
    PROVE  Counts'
<1> DEFINE n == Cardinality(Serving)
           gone == Cardinality(In({"destroyed"}))
<1>1. /\ n \in Nat
      /\ (InService(c)' <=> InService(c)) => n' = n
      /\ InService(c)' /\ ~InService(c) => n' = n + 1
      /\ ~InService(c)' /\ InService(c) => n' = n - 1
    BY OneConnection, ServingChange
<1>2. Balance \in Int /\ Effect(c)
    BY BalanceCounted, Effects
<1>3. /\ gone \in Nat /\ gone' >= gone
      /\ conn[c] = "http" /\ conn'[c] = "destroyed" => gone' = gone + 1
  <2>1. /\ gone \in Nat
        /\ (conn'[c] \in {"destroyed"} <=> conn[c] \in {"destroyed"}) => gone' = gone
        /\ conn'[c] \in {"destroyed"} /\ conn[c] \notin {"destroyed"} => gone' = gone + 1
    BY OneConnection, InChange
  <2>2. conn[c] = "destroyed" => conn'[c] = "destroyed"
    BY <1>2 DEF Effect, Quiet, Fills, Takes, Abandons, Resets, Replies, InService
  <2> HIDE DEF gone
  <2> QED
    BY <2>1, <2>2
<1>4. \/ Balance' = Balance /\ n' = n
      \/ Balance' = Balance + 1 /\ n' = n + 1
      \/ Balance' = Balance - 1 /\ n' = n - 1
      \/ Balance' = Balance /\ n' = n - 1 /\ AllowBare /\ gone' = gone + 1
  <2>1. CASE Quiet(c)
    <3>1. CASE InService(c)' <=> InService(c)
      BY <1>1, <2>1, <3>1 DEF Quiet
    <3>2. CASE ~(InService(c)' <=> InService(c))
      <4>1. InService(c) /\ ~InService(c)' /\ ~(responders'[c] \subseteq readers'[c])
        BY <2>1, <3>2 DEF Quiet
      <4>2. AllowBare
        BY <4>1, KeptStep DEF InService
      <4>3. gone' = gone + 1
        BY <1>3, <2>1, <3>2, <4>1 DEF Quiet, InService
      <4> QED
        BY <1>1, <2>1, <4>1, <4>2, <4>3 DEF Quiet
    <3> QED
      BY <3>1, <3>2
  <2>2. CASE Fills(c)
    BY <1>1, <2>2 DEF Fills
  <2>3. CASE Takes(c)
    BY <1>1, <2>3 DEF Takes
  <2>4. CASE Abandons(c)
    BY <1>1, <2>4 DEF Abandons
  <2>5. CASE Resets(c)
    BY <1>1, <2>5 DEF Resets
  <2>6. CASE Replies(c)
    BY <1>1, <2>6 DEF Replies
  <2> QED
    BY <1>2, <2>1, <2>2, <2>3, <2>4, <2>5, <2>6 DEF Effect
<1>5. n <= Balance /\ Balance <= n + IF AllowBare THEN gone ELSE 0
    BY DEF Counts
<1>6. gone' \in Nat /\ n' \in Int
    BY <1>1, <1>3, <1>4, ConstantsAssumption, FS_Subset, FS_CardinalityType DEF In
<1> HIDE DEF n, gone
<1>7. n' <= Balance' /\ Balance' <= n' + IF AllowBare THEN gone' ELSE 0
  <2>1. CASE AllowBare
    BY <1>1, <1>2, <1>3, <1>4, <1>5, <1>6, <2>1
  <2>2. CASE ~AllowBare
    BY <1>1, <1>2, <1>4, <1>5, <1>6, <2>2
  <2> QED
    BY <2>1, <2>2
<1> QED
    BY <1>7 DEF Counts, n, gone

(* The two request counters never drift: they differ by exactly the        *)
(* requests in service (and the upgrades that were answered over HTTP), on *)
(* every connection together; where handlers keep bare responders a        *)
(* connection that is destroyed under one misses one response, no more.    *)
THEOREM MetricsBalanced == Spec => []MetricsBalance
<1>1. Init => Counts
  <2> SUFFICES ASSUME Init PROVE Counts
    OBVIOUS
  <2>1. Serving = {} /\ In({"destroyed"}) = {}
    BY DEF Init, Serving, InService, In
  <2>2. Cardinality(Serving) = 0 /\ Cardinality(In({"destroyed"})) = 0
    BY <2>1, FS_EmptySet
  <2>3. Balance = 0
    BY DEF Init, Balance
  <2> QED
    BY <2>2, <2>3 DEF Counts
<1>2. AnswerInv /\ Counts /\ [Next]_vars => Counts'
  <2> SUFFICES ASSUME AnswerInv, Counts, [Next]_vars
               PROVE  Counts'
    OBVIOUS
  <2>1. CASE UNCHANGED vars
    <3>1. /\ Serving' = Serving /\ Balance' = Balance
          /\ In({"destroyed"})' = In({"destroyed"})
      BY <2>1 DEF vars, Serving, InService, ResponderHeld, Balance, In
    <3> QED
      BY <3>1 DEF Counts
  <2>2. CASE Next
    <3>1. PICK c \in Conn : Step(c)
      BY <2>2 DEF Next, Step
    <3> QED
      BY <3>1, IInvStep, CountsStep DEF AnswerInv, IInv
  <2> QED
    BY <2>1, <2>2
<1>3. Counts => MetricsBalance
  <2>1. In({"destroyed"}) = {c \in Conn : conn[c] = "destroyed"}
    BY DEF In
  <2> QED
    BY <2>1 DEF Counts, Balance, Serving, MetricsBalance
<1> QED
    BY <1>1, <1>2, <1>3, AnswersInductive, PTL DEF Spec

-----------------------------------------------------------------------------
(* The threads.                                                            *)

(* A connection a thread may have left run() for.                          *)
MayCost(c) == Spent(c) /\ (peer[c] # "open" \/ Upgraded(c))

(* Only what was heard last makes a session of a connection.               *)
SessionUpgraded(c) == conn[c] \in {"ws", "deaf"} => Upgraded(c)

(* An exception that leaves run() is the last thing that happens on a      *)
(* connection, whose client has gone or asked for a session.               *)
LEMMA ThrowsSpend ==
    ASSUME TypeOK, NEW c \in Conn, Own(c), SessionUpgraded(c), Step(c),
           threads' # threads
    PROVE  threads' = threads - 1 /\ ~MayCost(c) /\ MayCost(c)'
<1>1. LeaveRun(FALSE) => UNCHANGED threads
    BY DEF LeaveRun
<1>2. /\ LeaveRun(TRUE)
      /\ OpenThrows(c) \/ ReadThrows(c) \/ ReadFails(c) \/ WriteThrows(c) \/ SessionThrows(c)
  <2>1. OpenThrows(c) \/ ReadThrows(c) \/ ReadFails(c) \/ WriteThrows(c) \/ SessionThrows(c)
    BY <1>1 DEF Step, Server, Accept, Established, UserCode, Client, Open,
       HandshakeSucceeds, HandshakeFails, ReadHandler, ReadRejected, ReadDispatched,
       ReadUpgraded, HandlerReturns, CatchAll, WriteHandler, WriteSucceeds, WriteFails,
       ShutdownReturns, SessionEnds, Release, TakeKeeper, KeepResponder, SetResponse,
       ReleaseResponder, ReleaseReader, ClientSends, ClientLeaves
  <2>2. ReadFails(c) => LeaveRun(TRUE)
    BY <1>1 DEF ReadFails, RemoteEndpointThrows
  <2> QED
    BY <2>1, <2>2 DEF OpenThrows, ReadThrows, WriteThrows, SessionThrows
<1>3. threads' = threads - 1
    BY <1>2 DEF LeaveRun
<1>4. CASE OpenThrows(c)
    BY <1>3, <1>4 DEF OpenThrows, MayCost, Spent, TypeOK, clientVars
<1>5. CASE SessionThrows(c)
  <2>1. conn[c] = "ws" /\ conn'[c] = "deaf" /\ UNCHANGED heard
    BY <1>5 DEF SessionThrows, TypeOK
  <2>2. Upgraded(c)'
    BY <2>1 DEF SessionUpgraded, Upgraded
  <2> QED
    BY <1>3, <2>1, <2>2 DEF MayCost, Spent
<1>6. CASE ReadThrows(c) \/ ReadFails(c) \/ WriteThrows(c)
  <2>1. /\ conn[c] = "http" /\ exec[c] = "idle" /\ responders[c] = {}
        /\ \E op \in {"read", "write"} : pending[c] = [NoOps EXCEPT ![op] = 1]
    BY <1>6, Busy DEF ReadThrows, ReadFails, WriteThrows, ReadCompletes, WriteCompletes
  <2>2. pending[c] # NoOps
    BY <2>1 DEF NoOps
  <2>3. /\ pending'[c] = NoOps
        /\ exec'[c] = "idle" /\ responders'[c] = {} /\ UNCHANGED peer
        /\ conn'[c] \in {"http", "destroyed"}
    <3>1. \E op \in {"read", "write"} : pending'[c] = Finish(op, [NoOps EXCEPT ![op] = 1])
      <4>1. CASE ReadThrows(c) \/ ReadFails(c)
        <5>1. pending[c] = [NoOps EXCEPT !.read = 1]
          BY <4>1, Busy DEF ReadThrows, ReadFails, ReadCompletes
        <5>2. pending' = [pending EXCEPT ![c] = Finish("read", @)]
          BY <4>1 DEF ReadThrows, ReadFails
        <5>3. pending'[c] = Finish("read", pending[c])
          BY <5>2 DEF TypeOK
        <5> QED
          BY <5>1, <5>3
      <4>2. CASE WriteThrows(c)
        <5>1. pending[c] = [NoOps EXCEPT !.write = 1]
          BY <4>2, Busy DEF WriteThrows, WriteCompletes
        <5> QED
          BY <4>2, <5>1 DEF WriteThrows, TypeOK
      <4> QED
        BY <1>6, <4>1, <4>2
    <3>2. exec'[c] = "idle" /\ responders'[c] = {} /\ UNCHANGED peer
      BY <1>6, <2>1 DEF ReadThrows, ReadFails, WriteThrows, clientVars
    <3>3. conn'[c] \in {"http", "destroyed"}
      BY <1>6, <2>1 DEF ReadThrows, ReadFails, WriteThrows, Settle, TypeOK
    <3> QED
      BY <3>1, <3>2, <3>3, OneOperation
  <2>4. peer[c] # "open"
    <3>1. CASE ReadThrows(c) \/ WriteThrows(c)
      BY <3>1 DEF ReadThrows, WriteThrows, RemoteEndpointThrows
    <3>2. CASE ReadFails(c)
      BY <1>1, <3>2 DEF ReadFails, RemoteEndpointThrows
    <3> QED
      BY <1>6, <3>1, <3>2
  <2> QED
    BY <1>3, <2>1, <2>2, <2>3, <2>4 DEF MayCost, Spent
<1> QED
    BY <1>2, <1>4, <1>5, <1>6

(* A connection that is spent stays so, and hears nothing any more.        *)
LEMMA SpentStays ==
    ASSUME TypeOK, NEW c \in Conn, Own(c), Spent(c), Step(c)
    PROVE  Spent(c)' /\ heard'[c] = heard[c]
<1>1. pending[c] = NoOps /\ exec[c] = "idle" /\ conn[c] # "none" /\ conn[c] # "ws"
    BY DEF Spent, Own
<1>2. CASE conn[c] = "http"
  <2>1. /\ responders[c] = {} /\ UNCHANGED <<pending, exec, responders, heard>>
        /\ conn'[c] \in {"http", "destroyed"}
    BY <1>1, <1>2, Exhausted DEF Spent
  <2> QED
    BY <1>1, <1>2, <2>1 DEF Spent
<1>3. CASE conn[c] \in {"lost", "deaf", "destroyed"}
  <2>1. ~(pending[c].handshake > 0) /\ ~(pending[c].read > 0) /\ ~(pending[c].write > 0)
    BY <1>1 DEF NoOps
  <2>2. SessionEnds(c) \/ UserCode(c) \/ Client(c)
    BY <1>1, <1>3, <2>1 DEF Step, Server, Accept, Established, Open, OpenThrows,
       HandshakeSucceeds, HandshakeFails, ReadHandler, ReadRejected, ReadDispatched,
       ReadUpgraded, ReadThrows, ReadFails, ReadCompletes, HandlerReturns, WriteHandler,
       WriteSucceeds, WriteThrows, WriteFails, WriteCompletes, ShutdownReturns,
       SessionThrows
  <2>3. UNCHANGED heard
    BY <2>2 DEF SessionEnds, UserCode, Client, Release, TakeKeeper, KeepResponder,
       SetResponse, ReleaseResponder, ReleaseReader, ClientSends, ClientLeaves
  <2>4. conn'[c] \in {"lost", "deaf", "destroyed"}
    BY <1>3, <2>2 DEF SessionEnds, UserCode, Client, Release, TakeKeeper, KeepResponder,
       SetResponse, ReleaseResponder, ReleaseReader, Settle, ClientSends, ClientLeaves,
       TypeOK
  <2> QED
    BY <2>3, <2>4 DEF Spent
<1> QED
    BY <1>2, <1>3 DEF Spent

(* No client comes back.                                                   *)
LEMMA PeerLeaves ==
    ASSUME TypeOK, NEW c \in Conn, Step(c), peer[c] # "open"
    PROVE  peer'[c] # "open"
<1>1. CASE UNCHANGED peer
    BY <1>1
<1>2. ASSUME NEW how \in {"fin", "reset"}, ClientLeaves(c, how)
      PROVE  peer'[c] # "open"
    BY <1>2 DEF ClientLeaves, TypeOK
<1>3. UNCHANGED peer \/ \E how \in {"fin", "reset"} : ClientLeaves(c, how)
    BY DEF Step, Server, Accept, Established, UserCode, Client, Open, OpenThrows,
       HandshakeSucceeds, HandshakeFails, ReadHandler, ReadRejected, ReadDispatched,
       ReadUpgraded, ReadThrows, ReadFails, HandlerReturns, WriteHandler, WriteSucceeds,
       WriteThrows, WriteFails, ShutdownReturns, SessionThrows, SessionEnds, Release,
       TakeKeeper, KeepResponder, SetResponse, ReleaseResponder, ReleaseReader,
       ClientSends, clientVars
<1> QED
    BY <1>1, <1>2, <1>3

LEMMA SessionUpgradedStep ==
    ASSUME TypeOK, NEW c \in Conn, Own(c), SessionUpgraded(c), Step(c)
    PROVE  SessionUpgraded(c)'
<1>1. CASE ReadUpgraded(c)
  <2>1. PICK m \in Arriving(c) : Hear(c, m) /\ UpgradesTo(m.request)
    BY <1>1 DEF ReadUpgraded
  <2>2. Len(heard'[c]) = Len(heard[c]) + 1 /\ heard'[c][Len(heard[c]) + 1] = m
    BY <2>1, HeardAppend
  <2>3. heard'[c] # <<>>
    BY <2>1 DEF Hear, TypeOK
  <2> QED
    BY <2>1, <2>2, <2>3 DEF SessionUpgraded, Upgraded
<1>2. CASE ~ReadUpgraded(c)
  <2> SUFFICES ASSUME conn'[c] \in {"ws", "deaf"} PROVE Upgraded(c)'
    BY DEF SessionUpgraded
  <2>1. conn[c] \in {"ws", "deaf"}
    BY <1>2 DEF Step, Server, Accept, Established, UserCode, Client, Open, OpenThrows,
       HandshakeSucceeds, HandshakeFails, ReadHandler, ReadRejected, ReadDispatched,
       ReadThrows, ReadFails, HandlerReturns, WriteHandler, WriteSucceeds, WriteThrows,
       WriteFails, ShutdownReturns, SessionThrows, SessionEnds, Release, TakeKeeper,
       KeepResponder, SetResponse, ReleaseResponder, ReleaseReader, Settle, ClientSends,
       ClientLeaves, TypeOK
  <2>2. pending[c] = NoOps /\ exec[c] = "idle"
    BY <2>1 DEF Own
  <2>3. ~(pending[c].read > 0)
    BY <2>2 DEF NoOps
  <2>4. UNCHANGED heard
    BY <2>3 DEF Step, Server, Accept, Established, UserCode, Client, Open, OpenThrows,
       HandshakeSucceeds, HandshakeFails, ReadHandler, ReadRejected, ReadDispatched,
       ReadUpgraded, ReadThrows, ReadCompletes, ReadFails, HandlerReturns, WriteHandler,
       WriteSucceeds, WriteThrows, WriteFails, ShutdownReturns, SessionThrows,
       SessionEnds, Release, TakeKeeper, KeepResponder, SetResponse, ReleaseResponder,
       ReleaseReader, ClientSends, ClientLeaves
  <2> QED
    BY <2>1, <2>4 DEF SessionUpgraded, Upgraded
<1> QED
    BY <1>1, <1>2

Costly == {c \in Conn : MayCost(c)}

ThreadsInv ==
    /\ \A c \in Conn : SessionUpgraded(c)
    /\ Threads - threads <= Cardinality(Costly)

LEMMA ThreadsStep == IInv /\ ThreadsInv /\ [Next]_vars => ThreadsInv'
<1> SUFFICES ASSUME IInv, ThreadsInv, [Next]_vars
             PROVE  ThreadsInv'
    OBVIOUS
<1>1. CASE UNCHANGED vars
  <2>1. UNCHANGED <<conn, pending, exec, responders, heard, peer, threads>>
    BY <1>1 DEF vars, clientVars
  <2>2. \A c \in Conn : SessionUpgraded(c)' = SessionUpgraded(c) /\ MayCost(c)' = MayCost(c)
    BY <2>1 DEF SessionUpgraded, Upgraded, MayCost, Spent
  <2>3. Costly' = Costly
    BY <2>2 DEF Costly
  <2> QED
    BY <2>1, <2>2, <2>3 DEF ThreadsInv
<1>2. CASE Next
  <2>1. PICK c \in Conn : Step(c)
    BY <1>2 DEF Next, Step
  <2>2. TypeOK /\ Own(c) /\ SessionUpgraded(c) /\ Elsewhere(c)
    BY <2>1, OneConnection DEF IInv, ThreadsInv
  <2>3. ASSUME NEW d \in Conn \ {c}
        PROVE  SessionUpgraded(d)' = SessionUpgraded(d) /\ MayCost(d)' = MayCost(d)
    BY <2>2 DEF Elsewhere, SessionUpgraded, Upgraded, MayCost, Spent
  <2>4. \A d \in Conn : SessionUpgraded(d)'
    BY <2>1, <2>2, <2>3, SessionUpgradedStep DEF ThreadsInv
  <2>5. MayCost(c) => MayCost(c)'
    BY <2>1, <2>2, SpentStays, PeerLeaves DEF MayCost, Upgraded
  <2>6. Costly \subseteq Costly'
    BY <2>3, <2>5 DEF Costly
  <2>7. /\ IsFiniteSet(Costly) /\ IsFiniteSet(Costly')
        /\ Cardinality(Costly) \in Nat /\ Cardinality(Costly') \in Nat
        /\ threads \in Int /\ Threads \in Int
    BY <2>2, ConstantsAssumption, FS_Subset, FS_CardinalityType DEF Costly, TypeOK
  <2>8. CASE threads' = threads
    <3>1. Cardinality(Costly) <= Cardinality(Costly')
      BY <2>6, <2>7, FS_Subset
    <3> QED
      BY <2>4, <2>7, <2>8, <3>1 DEF ThreadsInv
  <2>9. CASE threads' # threads
    <3>1. threads' = threads - 1 /\ c \notin Costly /\ c \in Costly'
      BY <2>1, <2>2, <2>9, ThrowsSpend DEF Costly
    <3>2. /\ Cardinality(Costly \cup {c}) = Cardinality(Costly) + 1
          /\ IsFiniteSet(Costly \cup {c}) /\ Costly \cup {c} \subseteq Costly'
      BY <2>6, <2>7, <3>1, FS_AddElement
    <3>3. Cardinality(Costly) + 1 <= Cardinality(Costly')
      BY <2>7, <3>2, FS_Subset
    <3> QED
      BY <2>4, <2>7, <3>1, <3>3 DEF ThreadsInv
  <2> QED
    BY <2>8, <2>9
<1> QED
    BY <1>1, <1>2

(* As many threads have left run() as there are, at most, connections that *)
(* are done and whose client has left or asked for a session: the log      *)
(* lines of each throw once at most, and so do the callbacks of a session; *)
(* what request handlers throw, and refused, malformed or closing          *)
(* requests, take no thread out of run().                                  *)
THEOREM ThreadsKept == Spec => []ThreadsAccounted
<1>1. Init => ThreadsInv
  <2> SUFFICES ASSUME Init PROVE ThreadsInv
    OBVIOUS
  <2>1. Costly = {} /\ \A c \in Conn : SessionUpgraded(c)
    BY DEF Init, Costly, MayCost, Spent, SessionUpgraded
  <2>2. Threads - threads = 0 /\ Cardinality(Costly) = 0
    BY <2>1, FS_EmptySet, ConstantsAssumption DEF Init
  <2> QED
    BY <2>1, <2>2 DEF ThreadsInv
<1>2. ThreadsInv => ThreadsAccounted
    BY DEF ThreadsInv, ThreadsAccounted, Costly, MayCost
<1> QED
    BY <1>1, <1>2, Inductive, ThreadsStep, PTL DEF Spec

-----------------------------------------------------------------------------
(* The gauges.                                                             *)

(* The counters of connections and sessions are those of the objects that  *)
(* exist, and as many connections have finished as were destroyed.         *)
Gauges ==
    /\ metrics.connections = Cardinality(In({"http", "ws", "deaf"}))
    /\ metrics.sessions = Cardinality(In({"ws", "deaf"}))
    /\ metrics.finished = Cardinality(In({"destroyed"}))

(* What a step adds to the gauges.                                         *)
Adds(connections, sessions, finished) ==
    /\ metrics'.connections = metrics.connections + connections
    /\ metrics'.sessions = metrics.sessions + sessions
    /\ metrics'.finished = metrics.finished + finished

(* A connection and the gauges change together.                            *)
Gauged(c) ==
    \/ conn'[c] = conn[c] /\ Adds(0, 0, 0)
    \/ conn[c] = "none" /\ conn'[c] = "lost" /\ Adds(0, 0, 0)
    \/ conn[c] = "none" /\ conn'[c] = "http" /\ Adds(1, 0, 0)
    \/ conn[c] = "http" /\ conn'[c] = "ws" /\ Adds(0, 1, 0)
    \/ conn[c] = "http" /\ conn'[c] = "destroyed" /\ Adds(-1, 0, 1)
    \/ conn[c] = "ws" /\ conn'[c] = "deaf" /\ Adds(0, 0, 0)
    \/ conn[c] \in {"ws", "deaf"} /\ conn'[c] = "destroyed" /\ Adds(-1, -1, 1)

(* The counters of requests and responses are no gauges.                   *)
LEMMA CountedGauges ==
    ASSUME TypeOK
    PROVE  /\ metrics \in Metrics
           /\ metrics.connections \in Int /\ metrics.sessions \in Int
           /\ metrics.finished \in Int
           /\ \A field \in {"requests", "responses"} :
                 /\ Counted(field) \in Metrics
                 /\ Counted(field).connections = metrics.connections
                 /\ Counted(field).sessions = metrics.sessions
                 /\ Counted(field).finished = metrics.finished
           /\ metrics' = Counted("connections") => Adds(1, 0, 0)
           /\ metrics' = Counted("sessions") => Adds(0, 1, 0)
           /\ metrics' = metrics => Adds(0, 0, 0)
<1>1. /\ metrics \in Metrics
      /\ metrics.connections \in Int /\ metrics.sessions \in Int
      /\ metrics.finished \in Int
    BY DEF TypeOK, Metrics
<1>2. ASSUME NEW field \in {"requests", "responses"}
      PROVE  /\ Counted(field) \in Metrics
             /\ Counted(field).connections = metrics.connections
             /\ Counted(field).sessions = metrics.sessions
             /\ Counted(field).finished = metrics.finished
  <2>1. Counted(field) \in Metrics
    BY CountedType
  <2> QED
    BY <1>1, <2>1 DEF Counted, Metrics
<1>3. metrics' = Counted("connections") => Adds(1, 0, 0)
    BY <1>1 DEF Counted, Metrics, Adds
<1>4. metrics' = Counted("sessions") => Adds(0, 1, 0)
    BY <1>1 DEF Counted, Metrics, Adds
<1> QED
    BY <1>1, <1>2, <1>3, <1>4 DEF Adds

LEMMA SettleGauged ==
    ASSUME TypeOK, NEW c \in Conn, conn[c] # "none", NEW m \in Metrics, Settle(c, m),
           m.connections = metrics.connections, m.sessions = metrics.sessions,
           m.finished = metrics.finished
    PROVE  Gauged(c)
<1>1. /\ metrics.connections \in Int /\ metrics.sessions \in Int
      /\ metrics.finished \in Int
    BY CountedGauges
<1>2. CASE ProcessorHeld(c)' \/ conn[c] # "http"
  <2>1. metrics' = m /\ UNCHANGED conn
    BY <1>2 DEF Settle
  <2> QED
    BY <1>1, <2>1 DEF Gauged, Adds
<1>3. CASE ~(ProcessorHeld(c)' \/ conn[c] # "http")
  <2>1. /\ metrics' = [m EXCEPT !.connections = @ - 1, !.finished = @ + 1]
        /\ conn'[c] = "destroyed" /\ conn[c] = "http"
    BY <1>3 DEF Settle, TypeOK
  <2>2. Adds(-1, 0, 1)
    BY <1>1, <2>1 DEF Metrics, Adds
  <2> QED
    BY <2>1, <2>2 DEF Gauged
<1> QED
    BY <1>2, <1>3

LEMMA StepGauged ==
    ASSUME TypeOK, NEW c \in Conn, Own(c), Step(c)
    PROVE  Gauged(c)
<1>0. UNCHANGED <<conn, metrics>> => Gauged(c)
    BY CountedGauges DEF Gauged
<1>1. CASE Open(c)
    BY <1>1, CountedGauges DEF Open, Gauged, TypeOK
<1>2. CASE OpenThrows(c) \/ SessionThrows(c)
    BY <1>2, CountedGauges DEF OpenThrows, SessionThrows, Gauged, TypeOK
<1>3. CASE ReadUpgraded(c)
  <2>1. conn[c] = "http"
    BY <1>3, Busy DEF ReadUpgraded, ReadCompletes
  <2> QED
    BY <1>3, <2>1, CountedGauges DEF ReadUpgraded, Gauged, TypeOK
<1>4. CASE SessionEnds(c)
  <2>1. Adds(-1, -1, 1)
    BY <1>4, CountedGauges DEF SessionEnds, Adds, Metrics
  <2> QED
    BY <1>4, <2>1 DEF SessionEnds, Gauged, TypeOK
<1>5. CASE HandshakeFails(c) \/ ReadThrows(c) \/ ReadFails(c) \/ HandlerReturns(c)
           \/ \E h \in Holder : ReleaseReader(c, h)
  <2>1. Settle(c, metrics)
    BY <1>5 DEF HandshakeFails, ReadThrows, ReadFails, HandlerReturns, ReleaseReader
  <2>2. CASE conn[c] # "none"
    BY <2>1, <2>2, CountedGauges, SettleGauged
  <2>3. CASE conn[c] = "none"
    BY <1>0, <2>1, <2>3 DEF Settle
  <2> QED
    BY <2>2, <2>3
<1>6. CASE WriteThrows(c)
  <2>1. conn[c] = "http" /\ Settle(c, Counted("responses"))
    BY <1>6, Busy DEF WriteThrows, WriteCompletes
  <2> QED
    BY <2>1, CountedGauges, SettleGauged
<1>7. CASE WriteSucceeds(c) \/ WriteFails(c)
  <2>1. metrics' = Counted("responses") /\ UNCHANGED conn
    BY <1>7 DEF WriteSucceeds, WriteFails
  <2> QED
    BY <2>1, CountedGauges DEF Gauged, Adds
<1>8. CASE ReadRejected(c) \/ ReadDispatched(c)
  <2>1. (metrics' = Counted("requests") \/ metrics' = metrics) /\ UNCHANGED conn
    BY <1>8 DEF ReadRejected, ReadDispatched, CountRequest
  <2> QED
    BY <1>0, <2>1, CountedGauges DEF Gauged, Adds
<1>9. CASE HandshakeSucceeds(c) \/ ShutdownReturns(c) \/ Client(c) \/ SetResponse(c)
           \/ \E h \in Holder : \/ TakeKeeper(c, h) \/ KeepResponder(c, h)
                                \/ ReleaseResponder(c, h)
    BY <1>0, <1>9 DEF HandshakeSucceeds, ShutdownReturns, Client, ClientSends, ClientLeaves,
                SetResponse, TakeKeeper, KeepResponder, ReleaseResponder
<1> QED
    BY <1>1, <1>2, <1>3, <1>4, <1>5, <1>6, <1>7, <1>8, <1>9
    DEF Step, Server, Accept, Established, ReadHandler, WriteHandler, UserCode, Release

LEMMA GaugesStep ==
    ASSUME TypeOK, NEW c \in Conn, Own(c), Step(c), Gauges
    PROVE  Gauges'
<1> DEFINE live == Cardinality(In({"http", "ws", "deaf"}))
           upgraded == Cardinality(In({"ws", "deaf"}))
           gone == Cardinality(In({"destroyed"}))
<1>1. Elsewhere(c) /\ Gauged(c)
    BY OneConnection, StepGauged
<1>2. live \in Nat /\ upgraded \in Nat /\ gone \in Nat
    BY <1>1, InChange
<1>3. \/ live' = live /\ upgraded' = upgraded /\ gone' = gone /\ Adds(0, 0, 0)
      \/ live' = live + 1 /\ upgraded' = upgraded /\ gone' = gone /\ Adds(1, 0, 0)
      \/ live' = live /\ upgraded' = upgraded + 1 /\ gone' = gone /\ Adds(0, 1, 0)
      \/ live' = live - 1 /\ upgraded' = upgraded /\ gone' = gone + 1 /\ Adds(-1, 0, 1)
      \/ live' = live - 1 /\ upgraded' = upgraded - 1 /\ gone' = gone + 1 /\ Adds(-1, -1, 1)
  <2>1. /\ (conn'[c] \in {"http", "ws", "deaf"} <=> conn[c] \in {"http", "ws", "deaf"})
              => live' = live
        /\ conn'[c] \in {"http", "ws", "deaf"} /\ conn[c] \notin {"http", "ws", "deaf"}
              => live' = live + 1
        /\ conn'[c] \notin {"http", "ws", "deaf"} /\ conn[c] \in {"http", "ws", "deaf"}
              => live' = live - 1
    BY <1>1, InChange
  <2>2. /\ (conn'[c] \in {"ws", "deaf"} <=> conn[c] \in {"ws", "deaf"})
              => upgraded' = upgraded
        /\ conn'[c] \in {"ws", "deaf"} /\ conn[c] \notin {"ws", "deaf"}
              => upgraded' = upgraded + 1
        /\ conn'[c] \notin {"ws", "deaf"} /\ conn[c] \in {"ws", "deaf"}
              => upgraded' = upgraded - 1
    BY <1>1, InChange
  <2>3. /\ (conn'[c] \in {"destroyed"} <=> conn[c] \in {"destroyed"}) => gone' = gone
        /\ conn'[c] \in {"destroyed"} /\ conn[c] \notin {"destroyed"} => gone' = gone + 1
    BY <1>1, InChange
  <2> HIDE DEF live, upgraded, gone
  <2> QED
    BY <1>1, <2>1, <2>2, <2>3 DEF Gauged
<1>4. metrics.connections = live /\ metrics.sessions = upgraded /\ metrics.finished = gone
    BY DEF Gauges
<1> HIDE DEF live, upgraded, gone
<1>5. metrics'.connections = live' /\ metrics'.sessions = upgraded' /\ metrics'.finished = gone'
    BY <1>2, <1>3, <1>4 DEF Adds
<1> QED
    BY <1>5 DEF Gauges, live, upgraded, gone

(* Whatever ends a connection (its last holder, a failed handshake, an     *)
(* exception, the session it was upgraded to) it is counted off once, and  *)
(* one that is open is counted: the gauges do not drift.                   *)
THEOREM GaugesExact == Spec => []Gauges
<1>1. Init => Gauges
  <2> SUFFICES ASSUME Init PROVE Gauges
    OBVIOUS
  <2>1. In({"http", "ws", "deaf"}) = {} /\ In({"ws", "deaf"}) = {} /\ In({"destroyed"}) = {}
    BY DEF Init, In
  <2>2. metrics.connections = 0 /\ metrics.sessions = 0 /\ metrics.finished = 0
    BY DEF Init
  <2> QED
    BY <2>1, <2>2, FS_EmptySet DEF Gauges
<1>2. IInv /\ Gauges /\ [Next]_vars => Gauges'
  <2> SUFFICES ASSUME IInv, Gauges, [Next]_vars
               PROVE  Gauges'
    OBVIOUS
  <2>1. CASE UNCHANGED vars
    BY <2>1 DEF vars, Gauges, In
  <2>2. CASE Next
    BY <2>2, GaugesStep DEF Next, Step, IInv
  <2> QED
    BY <2>1, <2>2
<1> QED
    BY <1>1, <1>2, Inductive, PTL DEF Spec

=============================================================================
