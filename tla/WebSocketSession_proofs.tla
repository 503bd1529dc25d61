----------------------- MODULE WebSocketSession_proofs -----------------------
(***************************************************************************)
(* Proofs about WebSocketSession: one reader, one writer that follows the  *)
(* queue, callbacks in protocol order and no message lost, for any set of  *)
(* callbacks and any number of messages; and that its sending side is a    *)
(* MessageChannel, liveness apart.                                         *)
(***************************************************************************)
EXTENDS WebSocketSession, SequenceTheorems, TLAPS

-----------------------------------------------------------------------------
(* The inductive invariant.                                                *)

(* Until the accept is done nobody has the session; a stream that is being *)
(* torn down is so by its read.                                            *)
Chain ==
    /\ OneReader
    /\ pending.accept > 0 => keepers = {} /\ events = <<>>
    /\ stream = "closing" => pending.read > 0

(* The chain that reads on has called onConnect, and neither onDisconnect  *)
(* nor a callback that threw; the callback the strand is in was the last   *)
(* to be called.                                                           *)
Calls ==
    /\ CallbackProtocol
    /\ \A i \in 1 .. Len(inbound) : inbound[i].id = i
    /\ \A i \in 1 .. Len(events) : events[i].id <= got
    /\ running # "idle" => events # <<>> /\ events[Len(events)].name = running
    /\ pending.read > 0 \/ running # "idle" =>
          /\ "connect" \in Handlers => events # <<>>
          /\ \A i \in 1 .. Len(events) : ~events[i].threw
    /\ pending.read > 0 => \A i \in 1 .. Len(events) : events[i].name # "disconnect"

SessionInv == TypeOK /\ Chain /\ WriterFollowsQueue /\ NothingLost /\ Calls

CallbackName == {"connect", "text", "binary", "disconnect"}
Event == [name : CallbackName, id : Nat, threw : BOOLEAN]

-----------------------------------------------------------------------------
(* Operators.                                                              *)

LEMMA StartType ==
    ASSUME NEW p \in Ops, NEW op \in {"accept", "read", "write"}
    PROVE  /\ Start(op, p) \in Ops
           /\ Start(op, p)[op] = p[op] + 1
           /\ \A o \in {"accept", "read", "write"} \ {op} : Start(op, p)[o] = p[o]
    BY DEF Ops, Start

LEMMA FinishType ==
    ASSUME NEW p \in Ops, NEW op \in {"accept", "read", "write"}, p[op] > 0
    PROVE  /\ Finish(op, p) \in Ops
           /\ Finish(op, p)[op] = p[op] - 1
           /\ \A o \in {"accept", "read", "write"} \ {op} : Finish(op, p)[o] = p[o]
    BY DEF Ops, Finish

(* A callback is the last event.                                           *)
LEMMA CallType ==
    ASSUME TypeOK, NEW name \in CallbackName, NEW id \in Nat, Call(name, id)
    PROVE  /\ running' = name
           /\ events' \in Seq(Event)
           /\ Len(events') = Len(events) + 1
           /\ \A i \in 1 .. Len(events) : events'[i] = events[i]
           /\ events'[Len(events) + 1] = [name |-> name, id |-> id, threw |-> FALSE]
<1>1. events \in Seq(Event) /\ [name |-> name, id |-> id, threw |-> FALSE] \in Event
    BY DEF TypeOK, Event, CallbackName
<1> QED
    BY <1>1 DEF Call

(* DoWrite keeps the types, whatever queue it is given.                    *)
LEMMA DoWriteType ==
    ASSUME TypeOK, NEW p \in Ops, NEW queue \in Seq(Message), DoWrite(p, queue)
    PROVE  /\ pending' \in Ops /\ text' \in BOOLEAN
           /\ pending'.accept = p.accept /\ pending'.read = p.read
           /\ queue = <<>> => pending'.write = p.write
           /\ queue # <<>> => pending'.write = p.write + 1 /\ text' = ~Head(queue).binary
<1>1. CASE queue = <<>>
    BY <1>1 DEF DoWrite, TypeOK
<1>2. CASE queue # <<>>
  <2>1. Head(queue) \in Message
    BY <1>2
  <2>2. pending' = Start("write", p) /\ text' = ~Head(queue).binary
    BY <1>2 DEF DoWrite
  <2> QED
    BY <1>2, <2>1, <2>2, StartType DEF Message
<1> QED
    BY <1>1, <1>2

-----------------------------------------------------------------------------
(* What the handlers do to the outstanding operations.                     *)

LEMMA AcceptOps ==
    ASSUME TypeOK, AcceptSucceeds \/ AcceptFails
    PROVE  /\ pending' \in Ops
           /\ pending.accept > 0 /\ pending'.accept = pending.accept - 1
           /\ pending'.write = pending.write
           /\ pending'.read = IF AcceptSucceeds /\ "connect" \notin Handlers
                              THEN pending.read + 1 ELSE pending.read
<1> DEFINE p == Finish("accept", pending)
<1>1. /\ pending.accept > 0 /\ pending \in Ops
      /\ p \in Ops /\ p.accept = pending.accept - 1
      /\ p.read = pending.read /\ p.write = pending.write
    BY FinishType DEF AcceptSucceeds, AcceptFails, TypeOK
<1>2. /\ Start("read", p) \in Ops
      /\ Start("read", p).read = p.read + 1
      /\ Start("read", p).accept = p.accept /\ Start("read", p).write = p.write
    BY <1>1, StartType
<1>3. CASE AcceptSucceeds /\ "connect" \notin Handlers
  <2>1. pending' = Start("read", p)
    BY <1>3 DEF AcceptSucceeds, DoRead
  <2> QED
    BY <1>1, <1>2, <1>3, <2>1
<1>4. CASE ~(AcceptSucceeds /\ "connect" \notin Handlers)
  <2>1. pending' = p
    BY <1>4 DEF AcceptSucceeds, AcceptFails
  <2> QED
    BY <1>1, <1>4, <2>1
<1> QED
    BY <1>3, <1>4

LEMMA ReadOps ==
    ASSUME TypeOK, Chain, ReadSucceeds \/ ReadFails \/ TeardownEnds
    PROVE  /\ pending' \in Ops
           /\ pending.read > 0 /\ pending.accept = 0
           /\ pending'.accept = 0 /\ pending'.write = pending.write
           /\ pending'.read = IF ReadSucceeds /\ ~Wanted(inbound[got + 1])
                              THEN pending.read ELSE pending.read - 1
<1> DEFINE p == Finish("read", pending)
<1>1. pending \in Ops /\ pending.read > 0
    BY DEF ReadSucceeds, ReadFails, TeardownEnds, TypeOK, Chain
<1>2. pending.accept = 0 /\ pending.read = 1
    BY <1>1 DEF Chain, OneReader, Ops
<1>3. /\ p \in Ops /\ p.read = pending.read - 1
      /\ p.accept = pending.accept /\ p.write = pending.write
    BY <1>1, FinishType
<1>4. /\ Start("read", p) \in Ops
      /\ Start("read", p).read = p.read + 1
      /\ Start("read", p).accept = p.accept /\ Start("read", p).write = p.write
    BY <1>3, StartType
<1>5. CASE ReadSucceeds /\ ~Wanted(inbound[got + 1])
  <2>1. pending' = Start("read", p)
    BY <1>5 DEF ReadSucceeds, DoRead
  <2> QED
    BY <1>1, <1>2, <1>3, <1>4, <1>5, <2>1
<1>6. CASE ~(ReadSucceeds /\ ~Wanted(inbound[got + 1]))
  <2>1. pending' = p
    BY <1>6 DEF ReadSucceeds, ReadFails, TeardownEnds, OnError
  <2> QED
    BY <1>1, <1>2, <1>3, <1>6, <2>1
<1> QED
    BY <1>5, <1>6

LEMMA CallbackOps ==
    ASSUME TypeOK, Chain, CallbackReturns \/ CallbackThrows
    PROVE  /\ pending' \in Ops
           /\ pending.accept = 0 /\ pending.read = 0 /\ running # "idle"
           /\ pending'.accept = 0 /\ pending'.write = pending.write
           /\ pending'.read = IF CallbackReturns /\ pending' # pending THEN 1 ELSE 0
           /\ pending' # pending => running # "disconnect"
<1>1. pending \in Ops /\ running # "idle"
    BY DEF CallbackReturns, CallbackThrows, TypeOK
<1>2. pending.accept = 0 /\ pending.read = 0
    BY <1>1 DEF Chain, OneReader, Ops
<1>3. /\ Start("read", pending) \in Ops
      /\ Start("read", pending).read = 1
      /\ Start("read", pending).accept = 0
      /\ Start("read", pending).write = pending.write
    BY <1>1, <1>2, StartType
<1>4. CASE pending' = pending
    BY <1>1, <1>2, <1>4
<1>5. CASE pending' # pending
  <2>1. CallbackReturns /\ running # "disconnect" /\ pending' = Start("read", pending)
    BY <1>5 DEF CallbackReturns, CallbackThrows, DoRead
  <2> QED
    BY <1>1, <1>2, <1>3, <1>5, <2>1
<1> QED
    BY <1>4, <1>5

(* A write ends, and when it succeeds the next one begins; or a send finds *)
(* the queue empty and begins one.                                         *)
LEMMA WriteEnds ==
    ASSUME TypeOK, WriterFollowsQueue, WriteSucceeds \/ WriteFails
    PROVE  /\ pending.write = 1 /\ sendQueue # <<>>
           /\ Head(sendQueue) \in Message /\ text = ~Head(sendQueue).binary
           /\ Tail(sendQueue) \in Seq(Message)
           /\ Finish("write", pending) \in Ops
           /\ Finish("write", pending).accept = pending.accept
           /\ Finish("write", pending).read = pending.read
           /\ Finish("write", pending).write = 0
<1>1. pending \in Ops /\ pending.write > 0 /\ sendQueue \in Seq(Message)
    BY DEF WriteSucceeds, WriteFails, TypeOK
<1>2. pending.write = 1 /\ sendQueue # <<>> /\ text = ~Head(sendQueue).binary
    BY <1>1 DEF WriterFollowsQueue, Ops
<1>3. Head(sendQueue) \in Message /\ Tail(sendQueue) \in Seq(Message)
    BY <1>1, <1>2
<1> QED
    BY <1>1, <1>2, <1>3, FinishType

LEMMA WriteOps ==
    ASSUME TypeOK, WriterFollowsQueue, WriteSucceeds \/ WriteFails \/ RunPosted
    PROVE  /\ pending' \in Ops /\ text' \in BOOLEAN
           /\ pending'.accept = pending.accept /\ pending'.read = pending.read
           /\ sendQueue' \in Seq(Message)
           /\ WriterFollowsQueue'
<1>1. CASE WriteSucceeds
  <2>1. /\ sendQueue' = Tail(sendQueue) /\ stream' = stream
        /\ DoWrite(Finish("write", pending), Tail(sendQueue))
    BY <1>1 DEF WriteSucceeds, streamVars
  <2> DEFINE p == Finish("write", pending)
  <2>a. /\ p \in Ops /\ Tail(sendQueue) \in Seq(Message)
        /\ p.accept = pending.accept /\ p.read = pending.read /\ p.write = 0
    BY <1>1, WriteEnds
  <2>b. DoWrite(p, Tail(sendQueue))
    BY <2>1
  <2> HIDE DEF p
  <2>2. /\ pending' \in Ops /\ text' \in BOOLEAN
        /\ pending'.accept = p.accept /\ pending'.read = p.read
        /\ Tail(sendQueue) = <<>> => pending'.write = p.write
        /\ Tail(sendQueue) # <<>> => /\ pending'.write = p.write + 1
                                     /\ text' = ~Head(Tail(sendQueue)).binary
    BY <2>a, <2>b, DoWriteType
  <2> QED
    BY <2>a, <2>1, <2>2 DEF WriterFollowsQueue
<1>2. CASE WriteFails
    BY <1>2, WriteEnds DEF WriteFails, FailStream, WriterFollowsQueue, TypeOK
<1>3. CASE RunPosted
  <2>1. /\ posted # <<>> /\ Head(posted) \in Message /\ sendQueue \in Seq(Message)
        /\ sendQueue' = Append(sendQueue, Head(posted)) /\ stream' = stream
        /\ pending \in Ops /\ text \in BOOLEAN
    BY <1>3 DEF RunPosted, TypeOK, streamVars
  <2>2. /\ sendQueue' \in Seq(Message) /\ sendQueue' # <<>>
        /\ Head(sendQueue') = IF sendQueue = <<>> THEN Head(posted) ELSE Head(sendQueue)
    BY <2>1, HeadTailAppend
  <2>3. CASE sendQueue = <<>>
    <3>1. DoWrite(pending, sendQueue') /\ pending.write = 0
      BY <1>3, <2>1, <2>3 DEF RunPosted, WriterFollowsQueue, Ops
    <3> DEFINE queue == Append(sendQueue, Head(posted))
    <3>a. queue \in Seq(Message) /\ queue # <<>> /\ DoWrite(pending, queue) /\ pending \in Ops
      BY <2>1, <2>2, <3>1
    <3> HIDE DEF queue
    <3>b. /\ pending' \in Ops /\ text' \in BOOLEAN
          /\ pending'.accept = pending.accept /\ pending'.read = pending.read
          /\ pending'.write = pending.write + 1 /\ text' = ~Head(queue).binary
      BY <3>a, DoWriteType
    <3>2. /\ pending' \in Ops /\ text' \in BOOLEAN
          /\ pending'.accept = pending.accept /\ pending'.read = pending.read
          /\ pending'.write = 1 /\ text' = ~Head(sendQueue').binary
      BY <2>1, <3>1, <3>b DEF queue
    <3> QED
      BY <2>2, <3>2 DEF WriterFollowsQueue
  <2>4. CASE sendQueue # <<>>
    <3>1. UNCHANGED <<pending, text>>
      BY <1>3, <2>4 DEF RunPosted
    <3> QED
      BY <2>1, <2>2, <2>4, <3>1 DEF WriterFollowsQueue
  <2> QED
    BY <2>3, <2>4
<1> QED
    BY <1>1, <1>2, <1>3

(* The callback that throws is the last event.                             *)
LEMMA ThrowType ==
    ASSUME TypeOK, Calls, CallbackThrows
    PROVE  /\ events' \in Seq(Event) /\ events # <<>>
           /\ Len(events') = Len(events)
           /\ \A i \in 1 .. Len(events) :
                 /\ events'[i].name = events[i].name /\ events'[i].id = events[i].id
                 /\ i # Len(events) => events'[i].threw = events[i].threw
<1> DEFINE last == [events[Len(events)] EXCEPT !.threw = TRUE]
<1>1. /\ events \in Seq(Event) /\ events # <<>>
      /\ events' = [events EXCEPT ![Len(events)] = last]
    BY DEF TypeOK, Calls, CallbackThrows, Event, CallbackName
<1>2. Len(events) \in 1 .. Len(events) /\ events[Len(events)] \in Event
    BY <1>1
<1>3. last \in Event /\ last.name = events[Len(events)].name /\ last.id = events[Len(events)].id
    BY <1>2 DEF Event
<1> HIDE DEF last
<1>4. /\ events' \in Seq(Event) /\ Len(events') = Len(events)
      /\ \A i \in 1 .. Len(events) : events'[i] = IF i = Len(events) THEN last ELSE events[i]
    BY <1>1, <1>2, <1>3
<1> QED
    BY <1>1, <1>3, <1>4

-----------------------------------------------------------------------------
(* Types.                                                                  *)

LEMMA TypeStep ==
    ASSUME TypeOK, Chain, WriterFollowsQueue, Calls, [Next]_vars
    PROVE  TypeOK'
<1> USE DEF TypeOK, streamVars, userVars
<1>1. CASE UNCHANGED vars
    BY <1>1 DEF vars
<1>2. CASE AcceptSucceeds
  <2>1. CASE "connect" \in Handlers
    <3>1. running' = "connect" /\ events' \in Seq(Event)
      BY <1>2, <2>1, CallType DEF AcceptSucceeds, CallbackName
    <3> QED
      BY <1>2, <3>1, AcceptOps DEF AcceptSucceeds, Event, CallbackName
  <2>2. CASE "connect" \notin Handlers
    BY <1>2, <2>2, AcceptOps DEF AcceptSucceeds
  <2> QED
    BY <2>1, <2>2
<1>3. CASE AcceptFails
    BY <1>3, AcceptOps DEF AcceptFails
<1>4. CASE ReadSucceeds
  <2> DEFINE m == inbound[got + 1]
  <2>1. m \in Frame /\ got + 1 <= Len(inbound)
    BY <1>4 DEF ReadSucceeds
  <2>2. CASE Wanted(m)
    <3>1. Call(IF IsTextFrame(m) THEN "text" ELSE "binary", m.id) /\ m.id \in Nat
      BY <1>4, <2>1, <2>2 DEF ReadSucceeds, Frame
    <3>2. running' \in CallbackName /\ events' \in Seq(Event)
      BY <3>1, CallType DEF CallbackName
    <3> QED
      BY <1>4, <2>1, <3>2, ReadOps DEF ReadSucceeds, Event, CallbackName
  <2>3. CASE ~Wanted(m)
    BY <1>4, <2>1, <2>3, ReadOps DEF ReadSucceeds
  <2> QED
    BY <2>2, <2>3
<1>5. CASE ReadFails \/ TeardownEnds
  <2>1. pending' \in Ops /\ stream' \in {"failed", "closed"}
    BY <1>5, ReadOps DEF ReadFails, TeardownEnds, OnError
  <2>2. CASE "disconnect" \in Handlers
    <3>1. Call("disconnect", 0)
      BY <1>5, <2>2 DEF ReadFails, TeardownEnds, OnError
    <3>2. running' = "disconnect" /\ events' \in Seq(Event)
      BY <3>1, CallType DEF CallbackName
    <3> QED
      BY <1>5, <2>1, <3>2 DEF ReadFails, TeardownEnds, Event, CallbackName
  <2>3. CASE "disconnect" \notin Handlers
    BY <1>5, <2>1, <2>3 DEF ReadFails, TeardownEnds, OnError
  <2> QED
    BY <2>2, <2>3
<1>6. CASE ReadCloses \/ ReadRejects
    BY <1>6 DEF ReadCloses, ReadRejects, TearDown
<1>7. CASE CallbackReturns
    BY <1>7, CallbackOps DEF CallbackReturns
<1>8. CASE CallbackThrows
  <2>1. events' \in Seq(Event)
    BY <1>8, ThrowType
  <2> QED
    BY <1>8, <2>1 DEF CallbackThrows, Event, CallbackName
<1>9. CASE WriteSucceeds
  <2>1. [id |-> Head(sendQueue).id, binary |-> ~text] \in Message
    BY <1>9, WriteEnds DEF Message
  <2>2. wire' \in Seq(Message)
    BY <1>9, <2>1 DEF WriteSucceeds
  <2> QED
    BY <1>9, <2>2, WriteOps DEF WriteSucceeds
<1>10. CASE WriteFails
    BY <1>10, WriteOps DEF WriteFails, FailStream
<1>11. CASE RunPosted
    BY <1>11, WriteOps DEF RunPosted
<1>12. ASSUME NEW binary \in BOOLEAN, Send(binary)
       PROVE  TypeOK'
  <2>1. [id |-> Len(sent) + 1, binary |-> binary] \in Message
    BY DEF Message
  <2> QED
    BY <1>12, <2>1 DEF Send
<1>13. ASSUME NEW k \in Keeper, Keep(k) \/ Drop(k)
       PROVE  TypeOK'
    BY <1>13 DEF Keep, Drop
<1>14. ASSUME NEW binary \in BOOLEAN, NEW valid \in BOOLEAN, PeerSends(binary, valid)
       PROVE  TypeOK'
  <2>1. [id |-> Len(inbound) + 1, binary |-> binary, valid |-> valid] \in Frame
    BY DEF Frame
  <2> QED
    BY <1>14, <2>1 DEF PeerSends
<1>15. ASSUME NEW how \in {"closed", "lost"}, PeerLeaves(how)
       PROVE  TypeOK'
    BY <1>15 DEF PeerLeaves
<1> QED
    BY <1>1, <1>2, <1>3, <1>4, <1>5, <1>6, <1>7, <1>8, <1>9, <1>10, <1>11, <1>12, <1>13, <1>14,
       <1>15 DEF Next, Strand, User, Peer

-----------------------------------------------------------------------------
(* The chain of accept, reads and callbacks.                               *)

LEMMA ChainStep ==
    ASSUME TypeOK, TypeOK', Chain, WriterFollowsQueue, [Next]_vars
    PROVE  Chain'
<1>0. /\ pending.accept \in Nat /\ pending.read \in Nat /\ pending.write \in Nat
      /\ pending'.accept \in Nat /\ pending'.read \in Nat /\ pending'.write \in Nat
    BY DEF TypeOK, Ops
<1>a. ASSUME pending'.accept = 0, stream' # "closing",
             pending'.read = 0 \/ (pending'.read = 1 /\ running' = "idle")
      PROVE  Chain'
  <2>1. CASE running' = "idle"
    BY <1>a, <2>1 DEF Chain, OneReader
  <2>2. CASE running' # "idle"
    BY <1>a, <2>2 DEF Chain, OneReader
  <2> QED
    BY <2>1, <2>2
<1> USE <1>0 DEF Chain, OneReader, streamVars, userVars
<1>1. CASE UNCHANGED vars
    BY <1>1 DEF vars
<1>2. CASE AcceptSucceeds \/ AcceptFails
  <2>1. pending.accept = 1 /\ pending'.accept = 0 /\ pending.read = 0 /\ running = "idle"
    BY <1>2, AcceptOps
  <2>2. IF AcceptSucceeds /\ "connect" \notin Handlers
        THEN pending'.read = 1 /\ running' = "idle"
        ELSE pending'.read = 0
    BY <1>2, <2>1, AcceptOps DEF AcceptSucceeds
  <2>3. stream' # "closing"
    BY <1>2, <2>1 DEF AcceptSucceeds, AcceptFails
  <2> QED
    BY <1>a, <2>1, <2>2, <2>3
<1>3. CASE ReadSucceeds \/ ReadFails \/ TeardownEnds
  <2>1. pending.read = 1 /\ pending'.accept = 0 /\ running = "idle"
    BY <1>3, ReadOps
  <2>2. IF ReadSucceeds /\ ~Wanted(inbound[got + 1])
        THEN pending'.read = 1 /\ running' = "idle"
        ELSE pending'.read = 0
    BY <1>3, <2>1, ReadOps DEF ReadSucceeds
  <2>3. stream' # "closing"
    BY <1>3 DEF ReadSucceeds, ReadFails, TeardownEnds, OnError, TypeOK
  <2> QED
    BY <1>a, <2>1, <2>2, <2>3
<1>4. CASE ReadCloses \/ ReadRejects
    BY <1>4 DEF ReadCloses, ReadRejects, TearDown
<1>5. CASE CallbackReturns \/ CallbackThrows
  <2>1. stream' # "closing" /\ running' = "idle"
    BY <1>5, CallbackOps DEF CallbackReturns, CallbackThrows
  <2> QED
    BY <1>5, <1>a, <2>1, CallbackOps
<1>6. CASE WriteSucceeds \/ WriteFails \/ RunPosted
  <2>1. pending'.accept = pending.accept /\ pending'.read = pending.read
    BY <1>6, WriteOps
  <2>2. pending.accept = 0
    BY <1>6 DEF WriteSucceeds, WriteFails, RunPosted
  <2> QED
    BY <1>6, <2>1, <2>2 DEF WriteSucceeds, WriteFails, FailStream, RunPosted
<1>7. ASSUME NEW binary \in BOOLEAN, NEW valid \in BOOLEAN,
             Send(binary) \/ PeerSends(binary, valid)
      PROVE  Chain'
    BY <1>7 DEF Send, PeerSends
<1>8. ASSUME NEW k \in Keeper, Keep(k) \/ Drop(k)
      PROVE  Chain'
    BY <1>8 DEF Keep, Drop
<1>9. ASSUME NEW how \in {"closed", "lost"}, PeerLeaves(how)
      PROVE  Chain'
    BY <1>9 DEF PeerLeaves
<1> QED
    BY <1>1, <1>2, <1>3, <1>4, <1>5, <1>6, <1>7, <1>8, <1>9 DEF Next, Strand, User, Peer

-----------------------------------------------------------------------------
(* The writer.                                                             *)

LEMMA WriterStep ==
    ASSUME TypeOK, Chain, WriterFollowsQueue, [Next]_vars
    PROVE  WriterFollowsQueue'
<1> USE DEF streamVars, userVars
<1>1. CASE WriteSucceeds \/ WriteFails \/ RunPosted
    BY <1>1, WriteOps
<1>2. CASE /\ UNCHANGED <<sendQueue, text>> /\ pending'.write = pending.write
           /\ stream # "open" => stream' # "open"
    BY <1>2 DEF WriterFollowsQueue
<1>3. CASE UNCHANGED vars
    BY <1>2, <1>3 DEF vars
<1>4. CASE AcceptSucceeds \/ AcceptFails
    BY <1>2, <1>4, AcceptOps DEF AcceptSucceeds, AcceptFails
<1>5. CASE ReadSucceeds \/ ReadFails \/ TeardownEnds
    BY <1>2, <1>5, ReadOps DEF ReadSucceeds, ReadFails, TeardownEnds, OnError
<1>6. CASE ReadCloses \/ ReadRejects
    BY <1>2, <1>6 DEF ReadCloses, ReadRejects, TearDown
<1>7. CASE CallbackReturns \/ CallbackThrows
    BY <1>2, <1>7, CallbackOps DEF CallbackReturns, CallbackThrows
<1>8. ASSUME NEW binary \in BOOLEAN, NEW valid \in BOOLEAN,
             Send(binary) \/ PeerSends(binary, valid)
      PROVE  WriterFollowsQueue'
    BY <1>2, <1>8 DEF Send, PeerSends
<1>9. ASSUME NEW k \in Keeper, Keep(k) \/ Drop(k)
      PROVE  WriterFollowsQueue'
    BY <1>2, <1>9 DEF Keep, Drop
<1>10. ASSUME NEW how \in {"closed", "lost"}, PeerLeaves(how)
       PROVE  WriterFollowsQueue'
    BY <1>2, <1>10 DEF PeerLeaves
<1> QED
    BY <1>1, <1>3, <1>4, <1>5, <1>6, <1>7, <1>8, <1>9, <1>10 DEF Next, Strand, User, Peer

-----------------------------------------------------------------------------
(* The way of a message.                                                   *)

(* The first element of the second sequence may as well be the last of the *)
(* first one.                                                              *)
LEMMA MoveHead ==
    ASSUME NEW S, NEW a \in Seq(S), NEW b \in Seq(S), b # <<>>
    PROVE  Append(a, Head(b)) \o Tail(b) = a \o b
<1>1. Head(b) \in S /\ Tail(b) \in Seq(S) /\ <<Head(b)>> \in Seq(S)
    BY HeadTailProperties
<1>2. <<Head(b)>> \o Tail(b) = b
  <2>1. /\ <<Head(b)>> \o Tail(b) \in Seq(S)
        /\ Len(<<Head(b)>> \o Tail(b)) = Len(b)
        /\ \A i \in 1 .. Len(b) : (<<Head(b)>> \o Tail(b))[i] = b[i]
    BY <1>1, HeadTailProperties
  <2> QED
    BY <2>1, SeqEqual
<1>3. Append(a, Head(b)) = a \o <<Head(b)>>
    BY <1>1, AppendIsConcat
<1> QED
    BY <1>1, <1>2, <1>3, ConcatAssociative

LEMMA AppendLast ==
    ASSUME NEW S, NEW a \in Seq(S), NEW b \in Seq(S), NEW e \in S
    PROVE  Append(a \o b, e) = a \o Append(b, e)
<1>1. a \o b \in Seq(S) /\ <<e>> \in Seq(S)
    BY ConcatProperties
<1>2. Append(a \o b, e) = (a \o b) \o <<e>> /\ Append(b, e) = b \o <<e>>
    BY <1>1, AppendIsConcat
<1> QED
    BY <1>1, <1>2, ConcatAssociative

(* The first elements of a concatenation, one past the first sequence.     *)
LEMMA NextOfConcat ==
    ASSUME NEW S, NEW a \in Seq(S), NEW b \in Seq(S), b # <<>>
    PROVE  /\ Len(a) < Len(a \o b)
           /\ SubSeq(a \o b, 1, Len(a) + 1) = Append(a, Head(b))
<1>1. /\ a \o b \in Seq(S) /\ Len(a \o b) = Len(a) + Len(b) /\ Len(b) > 0
      /\ \A i \in 1 .. Len(a) : (a \o b)[i] = a[i]
      /\ (a \o b)[Len(a) + 1] = Head(b) /\ Head(b) \in S
    BY ConcatProperties
<1> DEFINE s == a \o b
           n == Len(a) + 1
<1>2. s \in Seq(S) /\ n \in 1 .. Len(s)
    BY <1>1
<1>3. /\ SubSeq(s, 1, n) \in Seq(S) /\ Len(SubSeq(s, 1, n)) = n
      /\ \A i \in 1 .. n : SubSeq(s, 1, n)[i] = s[i]
    BY <1>2, SubSeqProperties
<1>4. /\ Append(a, Head(b)) \in Seq(S) /\ Len(Append(a, Head(b))) = n
      /\ \A i \in 1 .. n : Append(a, Head(b))[i] = s[i]
    BY <1>1
<1>5. SubSeq(s, 1, n) = Append(a, Head(b))
    BY <1>3, <1>4, SeqEqual
<1> QED
    BY <1>1, <1>5

LEMMA LossStep ==
    ASSUME TypeOK, WriterFollowsQueue, NothingLost, [Next]_vars
    PROVE  NothingLost'
<1>0. /\ wire \in Seq(Message) /\ sendQueue \in Seq(Message) /\ posted \in Seq(Message)
      /\ wire \o sendQueue \in Seq(Message) /\ sent = wire \o sendQueue \o posted
    BY ConcatProperties DEF TypeOK, NothingLost
<1> USE DEF streamVars, userVars
<1>1. CASE UNCHANGED <<wire, sendQueue, posted, sent>>
    BY <1>1 DEF NothingLost
<1>2. CASE WriteSucceeds
  <2>1. sendQueue # <<>> /\ Head(sendQueue) \in Message /\ text = ~Head(sendQueue).binary
    BY <1>2, WriteEnds
  <2>2. [id |-> Head(sendQueue).id, binary |-> ~text] = Head(sendQueue)
    BY <2>1 DEF Message
  <2>3. /\ wire' = Append(wire, Head(sendQueue)) /\ sendQueue' = Tail(sendQueue)
        /\ UNCHANGED <<posted, sent>>
    BY <1>2, <2>2 DEF WriteSucceeds
  <2>4. wire' \o sendQueue' = wire \o sendQueue
    BY <1>0, <2>1, <2>3, MoveHead
  <2> QED
    BY <1>0, <2>3, <2>4 DEF NothingLost
<1>3. CASE RunPosted
  <2>1. /\ posted # <<>> /\ Head(posted) \in Message
        /\ sendQueue' = Append(sendQueue, Head(posted)) /\ posted' = Tail(posted)
        /\ UNCHANGED <<wire, sent>>
    BY <1>0, <1>3 DEF RunPosted
  <2>2. wire \o sendQueue' = Append(wire \o sendQueue, Head(posted))
    BY <1>0, <2>1, AppendLast, SMTT(30)
  <2>3. Append(wire \o sendQueue, Head(posted)) \o Tail(posted) = wire \o sendQueue \o posted
    BY <1>0, <2>1, MoveHead
  <2> QED
    BY <1>0, <2>1, <2>2, <2>3 DEF NothingLost
<1>4. ASSUME NEW binary \in BOOLEAN, Send(binary)
      PROVE  NothingLost'
  <2>1. [id |-> Len(sent) + 1, binary |-> binary] \in Message
    BY DEF TypeOK, Message
  <2>2. PICK m \in Message : /\ sent' = Append(sent, m) /\ posted' = Append(posted, m)
                             /\ UNCHANGED <<wire, sendQueue>>
    BY <1>4, <2>1 DEF Send
  <2>3. wire \o sendQueue \o Append(posted, m) = Append(wire \o sendQueue \o posted, m)
    <3>1. wire \o sendQueue \in Seq(Message)
      BY <1>0, ConcatProperties
    <3> QED
      BY <1>0, <3>1, AppendLast
  <2> QED
    BY <1>0, <2>2, <2>3 DEF NothingLost
<1>5. CASE UNCHANGED vars \/ AcceptSucceeds \/ AcceptFails \/ ReadSucceeds \/ ReadFails
           \/ ReadCloses \/ ReadRejects \/ TeardownEnds \/ CallbackReturns
           \/ CallbackThrows \/ WriteFails
    BY <1>1, <1>5 DEF vars, AcceptSucceeds, AcceptFails, ReadSucceeds, ReadFails, ReadCloses,
                      ReadRejects, TearDown, TeardownEnds, CallbackReturns, CallbackThrows,
                      WriteFails
<1>6. ASSUME NEW k \in Keeper, Keep(k) \/ Drop(k)
      PROVE  NothingLost'
    BY <1>1, <1>6 DEF Keep, Drop
<1>7. CASE Peer
    BY <1>1, <1>7 DEF Peer, PeerSends, PeerLeaves
<1> QED
    BY <1>2, <1>3, <1>4, <1>5, <1>6, <1>7 DEF Next, Strand, User

-----------------------------------------------------------------------------
(* The callbacks.                                                          *)

(* A callback that may be called next: it is in order after the others.    *)
LEMMA CallKeeps ==
    ASSUME TypeOK, Calls, \A i \in 1 .. Len(events) : ~events[i].threw,
           \A i \in 1 .. Len(events) : events[i].name # "disconnect",
           NEW name \in CallbackName, NEW id \in Nat, Call(name, id),
           name = "connect" <=> "connect" \in Handlers /\ events = <<>>,
           id > 0 => \A i \in 1 .. Len(events) : events[i].id < id,
           id <= got', got <= got', got' \in Nat,
           UNCHANGED inbound, pending'.read = 0
    PROVE  Calls'
<1> DEFINE n == Len(events)
           e == [name |-> name, id |-> id, threw |-> FALSE]
<1>1. /\ n \in Nat /\ events \in Seq(Event) /\ events' \in Seq(Event)
      /\ Len(events') = n + 1 /\ running' = name
      /\ \A i \in 1 .. n : events'[i] = events[i] /\ events[i] \in Event
      /\ events'[n + 1] = e
  <2>1. events \in Seq(Event)
    BY DEF TypeOK, Event, CallbackName
  <2>2. /\ running' = name
        /\ events' \in Seq(Event)
        /\ Len(events') = Len(events) + 1
        /\ \A i \in 1 .. Len(events) : events'[i] = events[i]
        /\ events'[Len(events) + 1] = [name |-> name, id |-> id, threw |-> FALSE]
    BY CallType
  <2> QED
    BY <2>1, <2>2
<1>2. /\ e.name = name /\ e.id = id /\ e.threw = FALSE
      /\ \A i \in 1 .. n : /\ events'[i] = events[i] /\ i \in 1 .. n + 1 /\ i # n + 1
      /\ \A i \in 1 .. n + 1 : i \in 1 .. n \/ i = n + 1
      /\ n = 0 <=> events = <<>>
    BY <1>1
<1> HIDE DEF n, e
<1>3. CallbackProtocol'
  <2> SUFFICES ASSUME NEW i \in 1 .. n + 1
               PROVE  /\ events'[i].name = "connect" <=> "connect" \in Handlers /\ i = 1
                      /\ events'[i].name = "disconnect" \/ events'[i].threw => i = n + 1
                      /\ \A j \in 1 .. i - 1 :
                            events'[i].id > 0 => events'[j].id < events'[i].id
    BY <1>1 DEF CallbackProtocol
  <2>1. CASE i \in 1 .. n
    <3>1. /\ events[i].name = "connect" <=> "connect" \in Handlers /\ i = 1
          /\ \A j \in 1 .. i - 1 : events[i].id > 0 => events[j].id < events[i].id
          /\ \A j \in 1 .. i - 1 : j \in 1 .. n
      BY <1>1, <2>1 DEF Calls, CallbackProtocol, n
    <3>2. ~events[i].threw /\ events[i].name # "disconnect"
      BY <2>1 DEF n
    <3> QED
      BY <1>1, <2>1, <3>1, <3>2
  <2>2. CASE i = n + 1
    <3>1. name = "connect" <=> "connect" \in Handlers /\ i = 1
      BY <1>1, <1>2, <2>2
    <3>2. \A j \in 1 .. i - 1 : j \in 1 .. n /\ (id > 0 => events[j].id < id)
      BY <1>1, <2>2 DEF n
    <3> QED
      BY <1>1, <1>2, <2>2, <3>1, <3>2
  <2> QED
    BY <1>2, <2>1, <2>2
<1>4. \A i \in 1 .. Len(events') : events'[i].id <= got'
  <2>1. \A i \in 1 .. n : events[i].id <= got /\ events[i].id \in Nat
    BY <1>1 DEF Calls, Event, n
  <2>2. \A i \in 1 .. n : events[i].id <= got'
    BY <2>1 DEF TypeOK
  <2> QED
    BY <1>1, <1>2, <2>2
<1>5. \A i \in 1 .. Len(events') : ~events'[i].threw
  <2>1. \A i \in 1 .. n : ~events[i].threw
    BY DEF n
  <2> QED
    BY <1>1, <1>2, <2>1
<1>6. events' # <<>> /\ events'[Len(events')].name = running'
    BY <1>1, <1>2
<1> QED
    BY <1>3, <1>4, <1>5, <1>6 DEF Calls

(* A step that calls nothing, and begins a read only where one may begin.  *)
LEMMA QuietKeeps ==
    ASSUME TypeOK, Calls, UNCHANGED events, got <= got', got' \in Nat,
           \A i \in 1 .. Len(inbound') : inbound'[i].id = i,
           running' = running \/ running' = "idle",
           pending'.read > 0 => \/ pending.read > 0
                                \/ running \notin {"idle", "disconnect"}
                                \/ events = <<>> /\ "connect" \notin Handlers
    PROVE  Calls'
<1>1. /\ events \in Seq(Event) /\ got \in Nat
      /\ \A i \in 1 .. Len(events) : events[i] \in Event
  <2>1. events \in Seq(Event) /\ got \in Nat
    BY DEF TypeOK, Event, CallbackName
  <2> QED
    BY <2>1
<1>2. CallbackProtocol'
    BY DEF Calls, CallbackProtocol
<1>3. \A i \in 1 .. Len(events') : events'[i].id <= got'
  <2>1. \A i \in 1 .. Len(events) : events[i].id <= got /\ events[i].id \in Nat
    BY <1>1 DEF Calls, Event
  <2> QED
    BY <1>1, <2>1
<1>4. running' # "idle" => events' # <<>> /\ events'[Len(events')].name = running'
    BY DEF Calls
<1>5. pending'.read > 0 \/ running' # "idle" =>
          /\ "connect" \in Handlers => events' # <<>>
          /\ \A i \in 1 .. Len(events') : ~events'[i].threw
    BY DEF Calls
<1>6. pending'.read > 0 => \A i \in 1 .. Len(events') : events'[i].name # "disconnect"
  <2>1. CASE running \notin {"idle", "disconnect"}
    BY <2>1 DEF Calls, CallbackProtocol
  <2> QED
    BY <2>1 DEF Calls
<1> QED
    BY <1>2, <1>3, <1>4, <1>5, <1>6 DEF Calls

LEMMA ThrowKeeps ==
    ASSUME TypeOK, Chain, Calls, CallbackThrows
    PROVE  Calls'
<1>1. /\ events' \in Seq(Event) /\ events \in Seq(Event) /\ events # <<>>
      /\ Len(events') = Len(events)
      /\ \A i \in 1 .. Len(events) :
            /\ events'[i].name = events[i].name /\ events'[i].id = events[i].id
            /\ i # Len(events) => events'[i].threw = events[i].threw
    BY ThrowType DEF TypeOK, Event, CallbackName
<1>2. pending'.read = 0 /\ running' = "idle" /\ UNCHANGED <<inbound, got>>
    BY CallbackOps DEF CallbackThrows
<1>3. CallbackProtocol'
  <2> SUFFICES ASSUME NEW i \in 1 .. Len(events)
               PROVE  /\ events'[i].name = "connect" <=> "connect" \in Handlers /\ i = 1
                      /\ events'[i].name = "disconnect" \/ events'[i].threw => i = Len(events)
                      /\ \A j \in 1 .. i - 1 :
                            events'[i].id > 0 => events'[j].id < events'[i].id
    BY <1>1 DEF CallbackProtocol
  <2>1. /\ events[i].name = "connect" <=> "connect" \in Handlers /\ i = 1
        /\ events[i].name = "disconnect" \/ events[i].threw => i = Len(events)
        /\ \A j \in 1 .. i - 1 : events[i].id > 0 => events[j].id < events[i].id
    BY DEF Calls, CallbackProtocol
  <2>2. \A j \in 1 .. i - 1 : j \in 1 .. Len(events)
    BY <1>1
  <2> QED
    BY <1>1, <2>1, <2>2
<1>4. \A i \in 1 .. Len(events') : events'[i].id <= got'
    BY <1>1, <1>2 DEF Calls
<1> QED
    BY <1>1, <1>2, <1>3, <1>4 DEF Calls

LEMMA CallsStep ==
    ASSUME TypeOK, TypeOK', Chain, WriterFollowsQueue, Calls, [Next]_vars
    PROVE  Calls'
<1> USE DEF streamVars, userVars
<1>0. /\ pending.accept \in Nat /\ pending.read \in Nat /\ got \in Nat /\ got' \in Nat
      /\ \A i \in 1 .. Len(inbound) : inbound[i].id = i
      /\ pending.read > 0 => pending.accept = 0 /\ pending.read = 1 /\ running = "idle"
      /\ pending.accept > 0 => pending.read = 0 /\ running = "idle" /\ events = <<>>
      /\ \A i \in 1 .. Len(events) : events[i].id \in Nat /\ events[i].id <= got
  <2>1. /\ pending.accept \in Nat /\ pending.read \in Nat /\ got \in Nat /\ got' \in Nat
    BY DEF TypeOK, Ops
  <2>2. events \in Seq(Event)
    BY DEF TypeOK, Event, CallbackName
  <2>a. \A i \in 1 .. Len(events) : events[i] \in Event
    BY <2>2
  <2>3. \A i \in 1 .. Len(events) : events[i].id \in Nat
    BY <2>a DEF Event
  <2>4. /\ \A i \in 1 .. Len(inbound) : inbound[i].id = i
        /\ \A i \in 1 .. Len(events) : events[i].id <= got
    BY DEF Calls
  <2>5. /\ pending.read > 0 => pending.accept = 0 /\ pending.read = 1 /\ running = "idle"
        /\ pending.accept > 0 => pending.read = 0 /\ running = "idle" /\ events = <<>>
    BY <2>1 DEF Chain, OneReader
  <2> QED
    BY <2>1, <2>3, <2>4, <2>5
<1>a. ASSUME UNCHANGED <<events, inbound, got, running>>, pending'.read = pending.read
      PROVE  Calls'
    BY <1>0, <1>a, QuietKeeps
<1>1. CASE UNCHANGED vars
    BY <1>1, <1>a DEF vars
<1>2. CASE AcceptSucceeds /\ "connect" \in Handlers
  <2>1. /\ Call("connect", 0) /\ UNCHANGED <<inbound, got>>
        /\ pending'.read = 0 /\ events = <<>>
    BY <1>0, <1>2, AcceptOps DEF AcceptSucceeds
  <2> QED
    BY <1>0, <1>2, <2>1, CallKeeps DEF CallbackName
<1>3. CASE AcceptSucceeds /\ "connect" \notin Handlers
  <2>1. UNCHANGED <<events, inbound, got, running>> /\ events = <<>>
    BY <1>0, <1>3 DEF AcceptSucceeds
  <2> QED
    BY <1>0, <1>3, <2>1, QuietKeeps
<1>4. CASE AcceptFails
  <2>1. pending'.read = pending.read
    BY <1>4, FinishType DEF AcceptFails, TypeOK
  <2> QED
    BY <1>4, <1>a, <2>1 DEF AcceptFails
<1>5. CASE ReadSucceeds /\ Wanted(inbound[got + 1])
  <2>1. pending.read > 0 /\ inbound[got + 1].id = got + 1 /\ got' = got + 1
    BY <1>0, <1>5 DEF ReadSucceeds, TypeOK
  <2>2. Call("text", got + 1) /\ UNCHANGED inbound
    BY <1>5, <2>1 DEF ReadSucceeds, IsTextFrame
  <2>3. pending'.read = 0
    BY <1>0, <1>5, <2>1, ReadOps
  <2>4. /\ \A i \in 1 .. Len(events) : ~events[i].threw
        /\ \A i \in 1 .. Len(events) : events[i].name # "disconnect"
        /\ "connect" \in Handlers => events # <<>>
    BY <2>1 DEF Calls
  <2>5. \A i \in 1 .. Len(events) : events[i].id < got + 1
    BY <1>0
  <2>6. "text" \in CallbackName /\ got + 1 \in Nat
    BY <1>0 DEF CallbackName
  <2> DEFINE m == got + 1
  <2>7. /\ Call("text", m) /\ m \in Nat /\ m <= got' /\ got <= got'
        /\ \A i \in 1 .. Len(events) : events[i].id < m
    BY <1>0, <2>1, <2>2, <2>5, <2>6
  <2> HIDE DEF m
  <2> QED
    BY <1>0, <2>2, <2>3, <2>4, <2>6, <2>7, CallKeeps
<1>6. CASE ReadSucceeds /\ ~Wanted(inbound[got + 1])
  <2>1. UNCHANGED <<events, inbound, running>> /\ got' = got + 1 /\ pending.read > 0
    BY <1>6 DEF ReadSucceeds
  <2> QED
    BY <1>0, <2>1, QuietKeeps
<1>7. CASE ReadFails \/ TeardownEnds
  <2>a. UNCHANGED <<inbound, got>>
    BY <1>7 DEF ReadFails, TeardownEnds
  <2>b. ~ReadSucceeds
    BY <1>0, <2>a DEF ReadSucceeds
  <2>1. pending.read > 0 /\ pending'.read = 0 /\ UNCHANGED <<inbound, got>>
    BY <1>0, <1>7, <2>a, <2>b, ReadOps
  <2>2. CASE "disconnect" \in Handlers
    <3>1. Call("disconnect", 0)
      BY <1>7, <2>2 DEF ReadFails, TeardownEnds, OnError
    <3>2. /\ \A i \in 1 .. Len(events) : ~events[i].threw
          /\ \A i \in 1 .. Len(events) : events[i].name # "disconnect"
          /\ "connect" \in Handlers => events # <<>>
      BY <2>1 DEF Calls
    <3> QED
      BY <1>0, <2>1, <3>1, <3>2, CallKeeps DEF CallbackName
  <2>3. CASE "disconnect" \notin Handlers
    <3>1. UNCHANGED <<events, running>>
      BY <1>7, <2>3 DEF ReadFails, TeardownEnds, OnError
    <3> QED
      BY <1>0, <2>1, <3>1, QuietKeeps
  <2> QED
    BY <2>2, <2>3
<1>8. CASE ReadCloses \/ ReadRejects
    BY <1>8, <1>a DEF ReadCloses, ReadRejects, TearDown
<1>9. CASE CallbackReturns
  <2>1. UNCHANGED <<events, inbound, got>> /\ running' = "idle" /\ running # "idle"
    BY <1>9 DEF CallbackReturns
  <2>2. pending'.read > 0 => running # "disconnect"
    BY <1>9, CallbackOps
  <2> QED
    BY <1>0, <2>1, <2>2, QuietKeeps
<1>10. CASE CallbackThrows
    BY <1>10, ThrowKeeps
<1>11. CASE WriteSucceeds \/ WriteFails \/ RunPosted
    BY <1>11, <1>a, WriteOps DEF WriteSucceeds, WriteFails, RunPosted
<1>12. ASSUME NEW binary \in BOOLEAN, Send(binary)
       PROVE  Calls'
    BY <1>12, <1>a DEF Send
<1>13. ASSUME NEW k \in Keeper, Keep(k) \/ Drop(k)
       PROVE  Calls'
    BY <1>13, <1>a DEF Keep, Drop
<1>14. ASSUME NEW binary \in BOOLEAN, NEW valid \in BOOLEAN, PeerSends(binary, valid)
       PROVE  Calls'
  <2>1. /\ inbound \in Seq(Frame)
        /\ inbound' = Append(inbound, [id |-> Len(inbound) + 1, binary |-> binary,
                                       valid |-> valid])
        /\ UNCHANGED <<events, got, running, pending>>
    BY <1>14 DEF PeerSends, TypeOK
  <2>2. \A i \in 1 .. Len(inbound') : inbound'[i].id = i
    BY <1>0, <2>1
  <2> QED
    BY <1>0, <2>1, <2>2, QuietKeeps
<1>15. ASSUME NEW how \in {"closed", "lost"}, PeerLeaves(how)
       PROVE  Calls'
    BY <1>15, <1>a DEF PeerLeaves
<1> QED
    BY <1>1, <1>2, <1>3, <1>4, <1>5, <1>6, <1>7, <1>8, <1>9, <1>10, <1>11, <1>12, <1>13, <1>14,
       <1>15 DEF Next, Strand, User, Peer

-----------------------------------------------------------------------------
(* Theorems.                                                               *)

(* The invariant is inductive: the accept, the reads and the callbacks     *)
(* follow one another, the writer follows the queue, and the callbacks go  *)
(* by the messages read.                                                   *)
THEOREM SessionInductive == Spec => []SessionInv
<1>1. Init => SessionInv
  <2> SUFFICES ASSUME Init PROVE SessionInv
    OBVIOUS
  <2>1. TypeOK
    BY DEF Init, TypeOK, Ops
  <2>2. Chain /\ WriterFollowsQueue
    BY DEF Init, Chain, OneReader, WriterFollowsQueue
  <2>3. NothingLost
    BY DEF Init, NothingLost
  <2>4. Calls
    BY DEF Init, Calls, CallbackProtocol
  <2> QED
    BY <2>1, <2>2, <2>3, <2>4 DEF SessionInv
<1>2. SessionInv /\ [Next]_vars => SessionInv'
    BY TypeStep, ChainStep, WriterStep, LossStep, CallsStep DEF SessionInv
<1> QED
    BY <1>1, <1>2, PTL DEF Spec

(* Every variable of a session has its type.                               *)
THEOREM SessionTypeCorrect == Spec => []TypeOK
    BY SessionInductive, PTL DEF SessionInv

(* No read is started while another one, the accept or a callback goes on, *)
(* and nothing is written before the accept is done.                       *)
THEOREM OneReaderAlways == Spec => []OneReader
<1>1. SessionInv => OneReader
    BY DEF SessionInv, Chain
<1> QED
    BY <1>1, SessionInductive, PTL

(* One message is written at a time, the one at the front of _sendQueue,   *)
(* with its own type, as long as there is one and no error of a write or a *)
(* read, or a close frame, has ended the stream.                           *)
THEOREM WriterFollowsQueueAlways == Spec => []WriterFollowsQueue
    BY SessionInductive, PTL DEF SessionInv

(* What user code sends is on the wire, queued or posted, in its order.    *)
THEOREM NothingLostAlways == Spec => []NothingLost
    BY SessionInductive, PTL DEF SessionInv

(* onConnect comes first and once, messages in their order and once, and   *)
(* nothing after onDisconnect or a callback that threw.                    *)
THEOREM CallbackProtocolAlways == Spec => []CallbackProtocol
<1>1. SessionInv => CallbackProtocol
    BY DEF SessionInv, Calls
<1> QED
    BY <1>1, SessionInductive, PTL

(* The sending side is a MessageChannel, as far as safety goes: a send is  *)
(* accepted, a write delivers the next message that was accepted, and what *)
(* ends the stream, a failed write or the end of the read, breaks it.      *)
THEOREM ImplementsChannelSafety ==
    Spec => Channel!Init /\ [][Channel!Next]_(Channel!vars)
<1>1. Init => Channel!Init
    BY DEF Init, Channel!Init
<1>2. SessionInv /\ SessionInv' /\ [Next]_vars => [Channel!Next]_(Channel!vars)
  <2> SUFFICES ASSUME SessionInv, SessionInv', [Next]_vars
               PROVE  Channel!Next \/ UNCHANGED <<sent, wire, stream # "open">>
    BY DEF Channel!vars
  <2> USE DEF streamVars, userVars
  <2>0. /\ TypeOK /\ WriterFollowsQueue /\ NothingLost /\ NothingLost'
        /\ wire \in Seq(Message) /\ sendQueue \in Seq(Message) /\ posted \in Seq(Message)
        /\ sent \in Seq(Message)
    BY DEF SessionInv, TypeOK
  <2>1. CASE WriteSucceeds
    <3>1. sendQueue # <<>> /\ Head(sendQueue) \in Message /\ text = ~Head(sendQueue).binary
      BY <2>0, <2>1, WriteEnds
    <3>2. [id |-> Head(sendQueue).id, binary |-> ~text] = Head(sendQueue)
      BY <3>1 DEF Message
    <3>3. wire' = Append(wire, Head(sendQueue)) /\ UNCHANGED <<sent, stream>>
      BY <2>1, <3>2 DEF WriteSucceeds
    <3>4. /\ sent = wire \o (sendQueue \o posted)
          /\ sendQueue \o posted \in Seq(Message) /\ sendQueue \o posted # <<>>
          /\ Head(sendQueue \o posted) = Head(sendQueue)
      <4>1. sent = wire \o sendQueue \o posted
        BY <2>0 DEF NothingLost
      <4>2. sent = wire \o (sendQueue \o posted)
        BY <2>0, <4>1, ConcatAssociative
      <4>3. sendQueue \o posted \in Seq(Message) /\ sendQueue \o posted # <<>>
        BY <2>0, <3>1
      <4>4. Head(sendQueue \o posted) = Head(sendQueue)
        BY <2>0, <3>1
      <4> QED
        BY <4>2, <4>3, <4>4
    <3>5. /\ Len(wire) < Len(sent)
          /\ SubSeq(sent, 1, Len(wire) + 1) = Append(wire, Head(sendQueue))
      BY <2>0, <3>4, NextOfConcat
    <3> QED
      BY <3>3, <3>5 DEF Channel!Next, Channel!Deliver
  <2>2. ASSUME NEW binary \in BOOLEAN, Send(binary)
        PROVE  Channel!Next
    <3>1. [id |-> Len(sent) + 1, binary |-> binary] \in [id : 1 .. MaxSends, binary : BOOLEAN]
      BY <2>0, <2>2, ConstantsAssumption DEF Send
    <3> QED
      BY <2>2, <3>1 DEF Send, Channel!Next, Channel!Accept
  <2>3. CASE WriteFails \/ ReadFails \/ ReadCloses \/ ReadRejects \/ TeardownEnds
    <3>1. stream' # "open" /\ UNCHANGED <<sent, wire>>
      BY <2>3 DEF WriteFails, FailStream, ReadFails, OnError, ReadCloses, ReadRejects,
                  TearDown, TeardownEnds
    <3> QED
      BY <3>1 DEF Channel!Next, Channel!Break
  <2>4. CASE \/ UNCHANGED vars \/ AcceptSucceeds \/ AcceptFails \/ ReadSucceeds
             \/ CallbackReturns \/ CallbackThrows \/ RunPosted
    BY <2>4 DEF vars, AcceptSucceeds, AcceptFails, ReadSucceeds, CallbackReturns,
                CallbackThrows, RunPosted
  <2>5. ASSUME NEW k \in Keeper, Keep(k) \/ Drop(k)
        PROVE  UNCHANGED <<sent, wire, stream>>
    BY <2>5 DEF Keep, Drop
  <2>6. ASSUME NEW binary \in BOOLEAN, NEW valid \in BOOLEAN, PeerSends(binary, valid)
        PROVE  UNCHANGED <<sent, wire, stream>>
    BY <2>6 DEF PeerSends
  <2>7. ASSUME NEW how \in {"closed", "lost"}, PeerLeaves(how)
        PROVE  UNCHANGED <<sent, wire, stream>>
    BY <2>7 DEF PeerLeaves
  <2> QED
    BY <2>1, <2>2, <2>3, <2>4, <2>5, <2>6, <2>7 DEF Next, Strand, User, Peer
<1> QED
  BY <1>1, <1>2, SessionInductive, PTL DEF Spec

=============================================================================
