-------------------------- MODULE HttpServer_proofs --------------------------
(***************************************************************************)
(* The accept loop feeds the pipeline of HttpConnection and nothing else:  *)
(* every behaviour of the server is one of HttpConnection, whose theorems  *)
(* therefore hold of the server.  Then the invariants of the loop itself.  *)
(***************************************************************************)
EXTENDS HttpServer, HttpExchange_proofs

-----------------------------------------------------------------------------
(* A step of the server is a step of the pipeline or leaves it alone.      *)
LEMMA ServerStep == [ServerNext]_serverVars => [Next]_vars
<1> SUFFICES ASSUME [ServerNext]_serverVars
             PROVE  [Next]_vars
    OBVIOUS
<1>1. CASE UNCHANGED serverVars
    BY <1>1 DEF serverVars
<1>2. CASE StartServer \/ StopBegins \/ StopCloses \/ AcceptErrs \/ AcceptFails
    BY <1>2 DEF StartServer, StopBegins, StopCloses, AcceptErrs, AcceptFails
<1>3. ASSUME NEW c \in Conn, Arrives(c) \/ AcceptCompletes(c)
      PROVE  UNCHANGED vars
    BY <1>3 DEF Arrives, AcceptCompletes
<1>4. ASSUME NEW c \in Conn, AcceptSucceeds(c) \/ AcceptThrows(c)
      PROVE  Next
  <2>1. Accept(c)
    BY <1>4 DEF AcceptSucceeds, AcceptThrows, Accept
  <2> QED
    BY <2>1 DEF Next, Server
<1>5. ASSUME NEW c \in Conn, Pipeline(c)
      PROVE  Next
    BY <1>5 DEF Pipeline, Next, Server
<1> QED
    BY <1>1, <1>2, <1>3, <1>4, <1>5 DEF ServerNext, AcceptHandler

(* The server with its accept loop implements HttpConnection, in which     *)
(* connections come out of nowhere.                                        *)
THEOREM ServerImplementsPipeline == ServerSpec => Spec
<1>1. ServerInit => Init
    BY DEF ServerInit
<1> QED
    BY <1>1, ServerStep, PTL DEF ServerSpec, Spec

(* So what is proved of the pipeline is true of every connection the       *)
(* server accepts: its ownership, its threads, its responses, its metrics. *)
THEOREM ServerSafety ==
    ServerSpec => [](/\ OneInFlight /\ OwnedWhileOpen /\ CloseIsLast
                     /\ ThreadsAccounted
                     /\ OwnResponse /\ VersionLagsBehind /\ MetricsBalance /\ Gauges)
    BY ServerImplementsPipeline, HalfDuplex, Owned, LastWord, ThreadsKept, OwnResponses,
       VersionLags, MetricsBalanced, GaugesExact, PTL

(* The server gives every client it accepts the exchange it promises.      *)
THEOREM ServerImplementsExchange == ServerSpec => ImplementsExchange
    BY ServerImplementsPipeline, PipelineImplementsExchange

-----------------------------------------------------------------------------
(* The accept loop.                                                        *)

(* Every variable of the accept loop has its type.                         *)
THEOREM ServerTypeCorrect == ServerSpec => []ServerTypeOK
<1>1. ServerInit => ServerTypeOK
    BY DEF ServerInit, ServerTypeOK
<1>2. ServerTypeOK /\ [ServerNext]_serverVars => ServerTypeOK'
  <2> SUFFICES ASSUME ServerTypeOK, [ServerNext]_serverVars
               PROVE  ServerTypeOK'
    OBVIOUS
  <2> USE DEF ServerTypeOK
  <2>1. CASE UNCHANGED serverVars
    BY <2>1 DEF serverVars, acceptVars
  <2>2. CASE StartServer \/ StopBegins \/ StopCloses \/ AcceptErrs
    BY <2>2 DEF StartServer, StopBegins, StopCloses, AcceptErrs
  <2>3. CASE AcceptHandler
    BY <2>3 DEF AcceptHandler, AcceptSucceeds, AcceptThrows, AcceptFails, StartAccept
  <2>4. ASSUME NEW c \in Conn, Arrives(c) \/ AcceptCompletes(c) \/ Pipeline(c)
        PROVE  ServerTypeOK'
    BY <2>4 DEF Arrives, AcceptCompletes, Pipeline, acceptVars
  <2> QED
    BY <2>1, <2>2, <2>3, <2>4 DEF ServerNext
<1> QED
    BY <1>1, <1>2, PTL DEF ServerSpec

(* A connection that was never made stays that way.                        *)
LEMMA LostStays ==
    ASSUME IInv, [Next]_vars, NEW d \in Conn, conn[d] = "lost"
    PROVE  conn'[d] = "lost"
<1>1. CASE UNCHANGED vars
    BY <1>1 DEF vars
<1>2. ASSUME NEW c \in Conn, Step(c)
      PROVE  conn'[d] = "lost"
  <2>1. CASE c # d
    BY <1>2, <2>1, OneConnection DEF Elsewhere, IInv
  <2>2. CASE c = d
    <3>1. pending[d] = NoOps /\ exec[d] = "idle"
      BY DEF IInv, Own
    <3>2. ~(pending[d].handshake > 0) /\ ~(pending[d].read > 0) /\ ~(pending[d].write > 0)
      BY <3>1 DEF NoOps
    <3>3. ~Established(d)
      BY <3>1, <3>2 DEF Established, HandshakeSucceeds, HandshakeFails, ReadHandler,
         ReadRejected, ReadDispatched, ReadUpgraded, ReadThrows, ReadFails, ReadCompletes,
         HandlerReturns, WriteHandler, WriteSucceeds, WriteThrows, WriteFails,
         WriteCompletes, ShutdownReturns, SessionThrows, SessionEnds
    <3>4. ~Accept(d)
      BY DEF Accept, Open, OpenThrows
    <3>5. CASE UserCode(d)
      BY <3>5 DEF UserCode, Release, TakeKeeper, KeepResponder, SetResponse,
         ReleaseResponder, ReleaseReader, Settle
    <3>6. CASE Client(d)
      BY <3>6 DEF Client, ClientSends, ClientLeaves
    <3> QED
      BY <1>2, <2>2, <3>3, <3>4, <3>5, <3>6 DEF Step, Server
  <2> QED
    BY <2>1, <2>2
<1> QED
    BY <1>1, <1>2 DEF Next, Step

(* A server that listens and was not stopped has an accept outstanding, or *)
(* its handler about to run, unless a handler has thrown: every other way  *)
(* through the handler, the failures included, ends in StartAccept.        *)
THEOREM ServerArmed == ServerSpec => []Armed
<1>1. ServerInit => Armed
    BY DEF ServerInit, Armed
<1>2. IInv /\ ServerTypeOK /\ Armed /\ [ServerNext]_serverVars => Armed'
  <2> SUFFICES ASSUME IInv, ServerTypeOK, Armed, [ServerNext]_serverVars,
                      acceptor' = "listening", stop' = "unset", accept' = "none"
               PROVE  \E c \in Conn : conn'[c] = "lost"
    BY DEF Armed
  <2>1. ASSUME acceptor = "listening", stop = "unset", accept = "none"
        PROVE  \E c \in Conn : conn'[c] = "lost"
    BY <2>1, ServerStep, LostStays DEF Armed
  <2>2. CASE UNCHANGED serverVars
    BY <2>1, <2>2 DEF serverVars, acceptVars
  <2>3. CASE StartServer \/ StopBegins \/ StopCloses \/ AcceptErrs
    BY <2>3 DEF StartServer, StopBegins, StopCloses, AcceptErrs
  <2>4. ASSUME AcceptFails \/ \E c \in Conn : AcceptSucceeds(c)
        PROVE  FALSE
    BY <2>4 DEF AcceptFails, AcceptSucceeds, StartAccept, ShouldStop
  <2>5. ASSUME NEW c \in Conn, AcceptThrows(c)
        PROVE  conn'[c] = "lost"
    BY <2>5 DEF AcceptThrows, OpenThrows, IInv, TypeOK
  <2>6. ASSUME NEW c \in Conn, Arrives(c) \/ AcceptCompletes(c) \/ Pipeline(c)
        PROVE  acceptor = "listening" /\ stop = "unset" /\ accept = "none"
    BY <2>6, ServerAssumption DEF Arrives, AcceptCompletes, Pipeline, acceptVars
  <2> QED
    BY <2>1, <2>2, <2>3, <2>4, <2>5, <2>6 DEF ServerNext, AcceptHandler
<1> QED
    BY <1>1, <1>2, ServerImplementsPipeline, Inductive, ServerTypeCorrect, PTL DEF ServerSpec

(* After Stop no accept waits for a client again: the one that waited is   *)
(* aborted when the acceptor is closed, and a handler that still read      *)
(* FALSE from _shouldStop armed it before that.                            *)
THEOREM ServerStops == ServerSpec => []StopIsFinal
<1>1. ServerInit => StopIsFinal
    BY DEF ServerInit, StopIsFinal
<1>2. ServerTypeOK /\ StopIsFinal /\ [ServerNext]_serverVars => StopIsFinal'
  <2> SUFFICES ASSUME ServerTypeOK, StopIsFinal, [ServerNext]_serverVars, stop' = "stopped"
               PROVE  accept' # "waiting"
    BY DEF StopIsFinal
  <2>1. CASE UNCHANGED serverVars
    BY <2>1 DEF serverVars, acceptVars, StopIsFinal
  <2>2. CASE StartServer \/ StopBegins \/ StopCloses \/ AcceptErrs
    BY <2>2 DEF StartServer, StopBegins, StopCloses, AcceptErrs, StopIsFinal
  <2>3. CASE AcceptHandler
    BY <2>3 DEF AcceptHandler, AcceptSucceeds, AcceptThrows, AcceptFails, StartAccept,
                ShouldStop
  <2>4. ASSUME NEW c \in Conn, Arrives(c) \/ AcceptCompletes(c) \/ Pipeline(c)
        PROVE  accept' # "waiting"
    BY <2>4, ServerAssumption DEF Arrives, AcceptCompletes, Pipeline, acceptVars, StopIsFinal
  <2> QED
    BY <2>1, <2>2, <2>3, <2>4 DEF ServerNext
<1> QED
    BY <1>1, <1>2, ServerTypeCorrect, PTL DEF ServerSpec

-----------------------------------------------------------------------------
(* Destroying the server.                                                  *)

(* A processor that is gone, or was never made, does not come back: only   *)
(* the accept handler makes one.                                           *)
LEMMA ReleasedStays ==
    ASSUME TypeOK, NEW c \in Conn, ~ProcessorHeld(c), NEW d \in Conn,
           Established(d) \/ UserCode(d) \/ Client(d)
    PROVE  ~ProcessorHeld(c)'
<1>1. /\ pending[c] \in Ops
      /\ exec[c] = "idle" /\ readers[c] = {}
    BY DEF ProcessorHeld, TypeOK
<1>2. ~(pending[c].handshake > 0) /\ ~(pending[c].read > 0) /\ ~(pending[c].write > 0)
    BY <1>1 DEF ProcessorHeld, Ops
<1> SUFFICES pending'[c] = pending[c] /\ exec'[c] = exec[c] /\ readers'[c] = readers[c]
    BY DEF ProcessorHeld
<1>3. CASE c # d
    BY <1>3, OneConnection DEF Step, Server, Elsewhere
<1>4. CASE c = d /\ Established(d)
  <2>1. SessionThrows(d) \/ SessionEnds(d)
    BY <1>1, <1>2, <1>4 DEF Established, HandshakeSucceeds, HandshakeFails, ReadHandler,
       ReadRejected, ReadDispatched, ReadUpgraded, ReadThrows, ReadFails, ReadCompletes,
       HandlerReturns, WriteHandler, WriteSucceeds, WriteThrows, WriteFails,
       WriteCompletes, ShutdownReturns
  <2> QED
    BY <2>1 DEF SessionThrows, SessionEnds
<1>5. CASE c = d /\ UserCode(d)
  <2>1. ~\E h \in Holder : ReleaseReader(c, h)
    BY <1>1 DEF ReleaseReader
  <2>2. ASSUME NEW h \in Holder, TakeKeeper(c, h) \/ KeepResponder(c, h)
        PROVE  UNCHANGED <<pending, exec, readers>>
    BY <1>1, <2>2 DEF TakeKeeper, KeepResponder
  <2>3. ASSUME NEW h \in Holder, ReleaseResponder(c, h)
        PROVE  UNCHANGED <<pending, exec, readers>>
    BY <2>3 DEF ReleaseResponder, DestroyResponder
  <2> QED
    BY <1>5, <2>1, <2>2, <2>3 DEF UserCode, Release, SetResponse
<1>6. CASE Client(d)
    BY <1>6 DEF Client, ClientSends, ClientLeaves
<1> QED
    BY <1>3, <1>4, <1>5, <1>6

(* Once nothing refers to a stopped server nothing ever will, whatever     *)
(* clients, keepers and a second Start do: it may be destroyed.            *)
THEOREM ServerReleased == ServerSpec => QuiescentForEver
<1>1. TypeOK /\ ServerTypeOK /\ Quiescent /\ [ServerNext]_serverVars => Quiescent'
  <2> SUFFICES ASSUME TypeOK, ServerTypeOK, Quiescent, [ServerNext]_serverVars
               PROVE  Quiescent'
    OBVIOUS
  <2> USE DEF Quiescent
  <2>1. CASE UNCHANGED serverVars
    BY <2>1 DEF serverVars, acceptVars, vars, ProcessorHeld
  <2>2. CASE StartServer \/ StopBegins \/ StopCloses \/ AcceptErrs
    BY <2>2 DEF StartServer, StopBegins, StopCloses, AcceptErrs, vars, ProcessorHeld
  <2>3. ~AcceptHandler
    BY ServerAssumption DEF AcceptHandler, AcceptSucceeds, AcceptThrows, AcceptFails
  <2>4. ASSUME NEW c \in Conn, Arrives(c)
        PROVE  Quiescent'
    BY <2>4 DEF Arrives, vars, ProcessorHeld
  <2>5. ~\E c \in Conn : AcceptCompletes(c)
    BY DEF AcceptCompletes
  <2>6. ASSUME NEW d \in Conn, Pipeline(d)
        PROVE  Quiescent'
    BY <2>6, ReleasedStays DEF Pipeline, acceptVars
  <2> QED
    BY <2>1, <2>2, <2>3, <2>4, <2>5, <2>6 DEF ServerNext
<1> QED
    BY <1>1, ServerImplementsPipeline, TypeCorrect, ServerTypeCorrect, PTL
    DEF ServerSpec, QuiescentForEver

=============================================================================
