-------------------------- MODULE WebSocketSession --------------------------
(***************************************************************************)
(* One WebSocketSession of AtlasHttp, from the moment Process has made it, *)
(* given it the registered callbacks and started it.                       *)
(*                                                                         *)
(* Every completion handler and every posted lambda runs on the strand of  *)
(* the connection, one at a time, and so do the callbacks of the user,     *)
(* which they call.  SendText and SendBinary may be called by any thread   *)
(* that holds the session: they only post to the strand.  The session      *)
(* lives as long as an outstanding operation, a posted lambda, a running   *)
(* callback or a keeper holds it.                                          *)
(*                                                                         *)
(* The definitions that nothing uses (DoWriteMutant, WriteFailsPops...)    *)
(* are plausible mistakes in the operator that follows them, kept to show  *)
(* that the properties catch them.                                         *)
(***************************************************************************)
EXTENDS Integers, Sequences, FiniteSets

CONSTANTS
    Handlers,   \* the callbacks registered for the path
    Keeper,     \* places where user code can keep the session
    MayThrow,   \* whether callbacks may throw
    MaxSends,   \* bound: messages user code sends
    MaxFrames   \* bound: messages the peer sends

ASSUME ConstantsAssumption ==
    /\ Handlers \subseteq {"connect", "text", "binary", "disconnect"}
    /\ MayThrow \in BOOLEAN
    /\ MaxSends \in Nat
    /\ MaxFrames \in Nat

VARIABLES
    isSecure,   \* _isSecure, the websocket runs on TLS
    stream,     \* the websocket stream: open, failed (by a write), closing (torn down
                \* by the read that met a close frame or a bad one, as long as it
                \* waits for the peer), closed
    pending,    \* asynchronous operations outstanding on the websocket stream
    running,    \* the callback the strand is in: idle, or its name
    posted,     \* the sends posted to the strand
    sendQueue,  \* _sendQueue
    text,       \* the stream's text option, the type of the next message written
    keepers,    \* who keeps the session
    peer,       \* the peer's end: open, closed (it has sent a close frame), lost
                \* (its TCP or TLS connection is at an end)
    inbound,    \* messages the peer has sent
    got,        \* how many of them have been read
    events,     \* history: the callbacks called, with the message they were given
                \* and whether they threw
    sent,       \* history: messages given to SendText and SendBinary
    wire        \* messages written to the peer

streamVars == <<isSecure, stream>>
userVars == <<keepers, events>>
vars == <<isSecure, stream, pending, running, posted, sendQueue, text, keepers, peer, inbound, got, events,
          sent, wire>>

-----------------------------------------------------------------------------
(* Messages are numbered in the order they are sent.  One of the peer that *)
(* is not valid is too long, no UTF-8, or in frames that break the         *)
(* protocol.                                                               *)

Message == [id : Nat \ {0}, binary : BOOLEAN]
Frame == [id : Nat \ {0}, binary : BOOLEAN, valid : BOOLEAN]

Held ==
    \/ pending.accept + pending.read + pending.write > 0
    \/ running # "idle"
    \/ posted # <<>>
    \/ keepers # {}

StrandFreeMutant == running = "idle" /\ stream # "closing"

(* The strand can run a handler or a posted lambda: no callback is in it,  *)
(* and no TLS teardown, which shuts the socket down synchronously and so   *)
(* keeps the strand, and its thread, until the peer has answered.          *)
StrandFree == running = "idle" /\ ~(isSecure /\ stream = "closing")

Start(op, p) == [p EXCEPT ![op] = @ + 1]
FinishMutant(op, p) == [p EXCEPT !.read = @ - 1]
Finish(op, p) == [p EXCEPT ![op] = @ - 1]

(* DoRead: p are the operations before it.                                 *)
DoRead(p) == pending' = Start("read", p)

DoWriteMutant(p, queue) ==
    IF queue = <<>>
    THEN pending' = p /\ UNCHANGED text
    ELSE pending' = Start("write", p) /\ UNCHANGED text

(* DoWrite, with the queue it finds.                                       *)
DoWrite(p, queue) ==
    IF queue = <<>>
    THEN pending' = p /\ UNCHANGED text
    ELSE pending' = Start("write", p) /\ text' = ~Head(queue).binary

(* A callback is called, when it is registered.                            *)
Call(name, id) ==
    /\ running' = name
    /\ events' = Append(events, [name |-> name, id |-> id, threw |-> FALSE])

-----------------------------------------------------------------------------
(* Completion handlers.                                                    *)

AcceptSucceedsMutant ==
    /\ pending.accept > 0
    /\ StrandFree
    /\ Call("connect", 0)
    /\ DoRead(Finish("accept", pending))
    /\ UNCHANGED <<streamVars, posted, sendQueue, text, keepers, peer, inbound, got, sent, wire>>

AcceptSucceeds ==
    /\ pending.accept > 0
    /\ StrandFree
    /\ IF "connect" \in Handlers
       THEN /\ pending' = Finish("accept", pending)
            /\ Call("connect", 0)
       ELSE /\ DoRead(Finish("accept", pending))
            /\ UNCHANGED <<running, events>>
    /\ UNCHANGED <<streamVars, posted, sendQueue, text, keepers, peer, inbound, got, sent, wire>>

AcceptFails ==
    /\ pending.accept > 0
    /\ StrandFree
    /\ pending' = Finish("accept", pending)
    /\ UNCHANGED <<streamVars, running, posted, sendQueue, text, userVars, peer, inbound, got, sent, wire>>

(* is_message_done(), asked after async_read has read a whole message.     *)
IsTextFrame(m) == TRUE

Wanted(m) ==
    \/ "text" \in Handlers /\ IsTextFrame(m)
    \/ "binary" \in Handlers /\ ~IsTextFrame(m)

(* A message nobody wants is dropped and the next one is read.             *)
ReadSucceeds ==
    LET m == inbound[got + 1] IN
    /\ pending.read > 0
    /\ StrandFree
    /\ stream \in {"open", "failed"}
    /\ got < Len(inbound) /\ m.valid
    /\ got' = got + 1
    /\ IF Wanted(m)
       THEN /\ Call(IF IsTextFrame(m) THEN "text" ELSE "binary", m.id)
            /\ pending' = Finish("read", pending)
       ELSE /\ DoRead(Finish("read", pending))
            /\ UNCHANGED <<running, events>>
    /\ UNCHANGED <<streamVars, posted, sendQueue, text, keepers, peer, inbound, sent, wire>>

OnErrorMutant ==
    /\ pending' = Finish("read", pending)
    /\ stream' = "closed"
    /\ UNCHANGED <<running, events>>

(* The read's handler with an error; the stream takes no more writes.      *)
OnError ==
    /\ pending' = Finish("read", pending)
    /\ stream' = IF stream = "failed" THEN "failed" ELSE "closed"
    /\ IF "disconnect" \in Handlers
       THEN Call("disconnect", 0)
       ELSE UNCHANGED <<running, events>>

(* The connection has ended, or a write has failed the stream.             *)
ReadFails ==
    /\ pending.read > 0
    /\ StrandFree
    /\ (stream = "open" /\ peer = "lost") \/ stream = "failed"
    /\ OnError
    /\ UNCHANGED <<isSecure, posted, sendQueue, text, keepers, peer, inbound, got, sent, wire>>

TearDown ==
    /\ pending.read > 0
    /\ StrandFree
    /\ stream = "open"
    /\ stream' = "closing"
    /\ UNCHANGED <<isSecure, pending, running, posted, sendQueue, text, userVars, peer, inbound,
                   got, sent, wire>>

(* The read meets the close frame, answers it and tears the stream down.   *)
ReadCloses == peer = "closed" /\ got = Len(inbound) /\ TearDown

(* The read meets a message it rejects: it sends a close frame and tears   *)
(* the stream down, whether the peer stays or not.                         *)
ReadRejects == got < Len(inbound) /\ ~inbound[got + 1].valid /\ TearDown

(* async_teardown ends when the peer has ended its side, and with it the   *)
(* read: on TLS inside the strand, on a plain socket on a turn of its own. *)
TeardownEnds ==
    /\ stream = "closing"
    /\ running = "idle"
    /\ peer = "lost"
    /\ OnError
    /\ UNCHANGED <<isSecure, posted, sendQueue, text, keepers, peer, inbound, got, sent, wire>>

CallbackAlwaysReads ==
    /\ running # "idle"
    /\ running' = "idle"
    /\ DoRead(pending)
    /\ UNCHANGED <<streamVars, posted, sendQueue, text, userVars, peer, inbound, got, sent, wire>>

CallbackNeverReads ==
    /\ running # "idle"
    /\ running' = "idle"
    /\ UNCHANGED <<streamVars, pending, posted, sendQueue, text, userVars, peer, inbound, got, sent, wire>>

(* A callback returns: after any but onDisconnect the session reads on.    *)
CallbackReturns ==
    /\ running # "idle"
    /\ running' = "idle"
    /\ IF running = "disconnect" THEN UNCHANGED pending ELSE DoRead(pending)
    /\ UNCHANGED <<streamVars, posted, sendQueue, text, userVars, peer, inbound, got, sent, wire>>

(* A callback throws: the exception leaves run(), and nothing is read.     *)
CallbackThrows ==
    /\ MayThrow
    /\ running # "idle"
    /\ running' = "idle"
    /\ events' = [events EXCEPT ![Len(events)].threw = TRUE]
    /\ UNCHANGED <<streamVars, pending, posted, sendQueue, text, keepers, peer, inbound, got, sent, wire>>

WriteSucceedsMutant ==
    /\ pending.write > 0
    /\ StrandFree
    /\ stream = "open" /\ peer # "lost"
    /\ wire' = Append(wire, [id |-> Head(sendQueue).id, binary |-> ~text])
    /\ sendQueue' = Tail(sendQueue)
    /\ pending' = Finish("write", pending)
    /\ UNCHANGED <<streamVars, running, posted, text, userVars, peer, inbound, got, sent>>

WriteSucceeds ==
    /\ pending.write > 0
    /\ StrandFree
    /\ stream = "open" /\ peer # "lost"
    /\ wire' = Append(wire, [id |-> Head(sendQueue).id, binary |-> ~text])
    /\ sendQueue' = Tail(sendQueue)
    /\ DoWrite(Finish("write", pending), Tail(sendQueue))
    /\ UNCHANGED <<streamVars, running, posted, userVars, peer, inbound, got, sent>>

FailStream == stream' = IF stream = "open" THEN "failed" ELSE stream

WriteFailsRetries ==
    /\ pending.write > 0
    /\ StrandFree
    /\ FailStream
    /\ DoWrite(Finish("write", pending), sendQueue)
    /\ UNCHANGED <<isSecure, running, posted, sendQueue, userVars, peer, inbound, got, sent, wire>>

WriteFailsPops ==
    /\ pending.write > 0
    /\ StrandFree
    /\ FailStream
    /\ sendQueue' = Tail(sendQueue)
    /\ DoWrite(Finish("write", pending), Tail(sendQueue))
    /\ UNCHANGED <<isSecure, running, posted, userVars, peer, inbound, got, sent, wire>>

(* A write fails for any reason, at the latest when the stream is not open *)
(* any more.  The message stays at the front of the queue, and no write is *)
(* started.                                                                *)
WriteFails ==
    /\ pending.write > 0
    /\ StrandFree
    /\ FailStream
    /\ pending' = Finish("write", pending)
    /\ UNCHANGED <<isSecure, running, posted, sendQueue, text, userVars, peer, inbound, got, sent, wire>>

-----------------------------------------------------------------------------
(* SendText and SendBinary, and the lambda they post.                      *)

(* Any thread that holds the session: a callback's, or a keeper's.         *)
Send(binary) ==
    LET m == [id |-> Len(sent) + 1, binary |-> binary] IN
    /\ running # "idle" \/ keepers # {}
    /\ Len(sent) < MaxSends
    /\ sent' = Append(sent, m)
    /\ posted' = Append(posted, m)
    /\ UNCHANGED <<streamVars, pending, running, sendQueue, text, userVars, peer, inbound, got, wire>>

RunPosted ==
    /\ StrandFree
    /\ posted # <<>>
    /\ posted' = Tail(posted)
    /\ sendQueue' = Append(sendQueue, Head(posted))
    /\ IF sendQueue = <<>>
       THEN DoWrite(pending, sendQueue')
       ELSE UNCHANGED <<pending, text>>
    /\ UNCHANGED <<streamVars, running, userVars, peer, inbound, got, sent, wire>>

-----------------------------------------------------------------------------
(* User code keeps the session, from a callback, and lets go of it.        *)

Keep(k) ==
    /\ running # "idle"
    /\ k \notin keepers
    /\ keepers' = keepers \cup {k}
    /\ UNCHANGED <<streamVars, pending, running, posted, sendQueue, text, peer, inbound, got, events,
                   sent, wire>>

Drop(k) ==
    /\ k \in keepers
    /\ keepers' = keepers \ {k}
    /\ UNCHANGED <<streamVars, pending, running, posted, sendQueue, text, peer, inbound, got, events,
                   sent, wire>>

(* The peer.                                                               *)
PeerSends(binary, valid) ==
    /\ peer = "open"
    /\ pending.accept = 0
    /\ Held
    /\ Len(inbound) < MaxFrames
    /\ inbound' = Append(inbound, [id |-> Len(inbound) + 1, binary |-> binary,
                                   valid |-> valid])
    /\ UNCHANGED <<streamVars, pending, running, posted, sendQueue, text, userVars, peer, got, sent, wire>>

PeerLeaves(how) ==
    /\ <<peer, how>> \in {<<"open", "closed">>, <<"open", "lost">>, <<"closed", "lost">>}
    /\ how = "closed" => pending.accept = 0
    /\ peer' = how
    /\ UNCHANGED <<streamVars, pending, running, posted, sendQueue, text, userVars, inbound, got, sent,
                   wire>>

-----------------------------------------------------------------------------
Init ==
    /\ isSecure \in BOOLEAN
    /\ stream = "open"
    /\ pending = [accept |-> 1, read |-> 0, write |-> 0]
    /\ running = "idle"
    /\ posted = <<>>
    /\ sendQueue = <<>>
    /\ text = TRUE
    /\ keepers = {}
    /\ peer = "open"
    /\ inbound = <<>>
    /\ got = 0
    /\ events = <<>>
    /\ sent = <<>>
    /\ wire = <<>>

Strand ==
    \/ AcceptSucceeds
    \/ AcceptFails
    \/ ReadSucceeds
    \/ ReadFails
    \/ ReadCloses
    \/ ReadRejects
    \/ TeardownEnds
    \/ CallbackReturns
    \/ CallbackThrows
    \/ WriteSucceeds
    \/ WriteFails
    \/ RunPosted

User ==
    \/ \E binary \in BOOLEAN : Send(binary)
    \/ \E k \in Keeper : Keep(k) \/ Drop(k)

Peer ==
    \/ \E binary, valid \in BOOLEAN : PeerSends(binary, valid)
    \/ \E how \in {"closed", "lost"} : PeerLeaves(how)

Next == Strand \/ User \/ Peer

Spec == Init /\ [][Next]_vars

(* A read on a failed stream may wait as long as the peer is there.        *)
ReadEnds ==
    /\ stream # "failed" \/ peer = "lost"
    /\ ReadSucceeds \/ ReadFails \/ ReadCloses \/ ReadRejects

(* The strand runs everything that is ready, callbacks return, writes end, *)
(* and a keeper is dropped once the peer has gone.  Nothing makes a peer   *)
(* answer a close frame.                                                   *)
Fairness ==
    /\ WF_vars(AcceptSucceeds \/ AcceptFails)
    /\ WF_vars(ReadEnds)
    /\ WF_vars(TeardownEnds)
    /\ WF_vars(CallbackReturns)
    /\ WF_vars(WriteSucceeds \/ WriteFails)
    /\ WF_vars(RunPosted)
    /\ \A k \in Keeper : WF_vars(peer = "lost" /\ Drop(k))

FairSpec == Spec /\ Fairness

-----------------------------------------------------------------------------
(* Properties.                                                             *)

Ops == [accept : Nat, read : Nat, write : Nat]

(* Every variable has its type.                                            *)
TypeOK ==
    /\ isSecure \in BOOLEAN
    /\ stream \in {"open", "failed", "closing", "closed"}
    /\ pending \in Ops
    /\ running \in {"idle", "connect", "text", "binary", "disconnect"}
    /\ posted \in Seq(Message)
    /\ sendQueue \in Seq(Message)
    /\ text \in BOOLEAN
    /\ keepers \subseteq Keeper
    /\ peer \in {"open", "closed", "lost"}
    /\ inbound \in Seq(Frame)
    /\ got \in Nat /\ got <= Len(inbound)
    /\ events \in Seq([name : {"connect", "text", "binary", "disconnect"}, id : Nat,
                       threw : BOOLEAN])
    /\ sent \in Seq(Message)
    /\ wire \in Seq(Message)

(* The accept, the reads and the callbacks follow one another: one of them *)
(* goes on at a time, so no read overlaps another and _buffer is not       *)
(* consumed under a callback; and nothing is written before the accept.    *)
OneReader ==
    /\ pending.accept + pending.read + (IF running = "idle" THEN 0 ELSE 1) <= 1
    /\ pending.accept > 0 => pending.write = 0 /\ sendQueue = <<>> /\ posted = <<>>

(* One message is being written as long as the queue is not empty, it is   *)
(* the one at the front, and the stream's text option is its type; the     *)
(* queue stands still only on a stream that takes no more writes, which is *)
(* one that a write or a read has failed or that is being closed.          *)
WriterFollowsQueue ==
    /\ pending.write <= 1
    /\ pending.write = 1 => sendQueue # <<>> /\ text = ~Head(sendQueue).binary
    /\ sendQueue # <<>> /\ pending.write = 0 => stream # "open"

(* onConnect is called first and once, messages are passed on in the order *)
(* they came and at most once, and after onDisconnect, or a callback that  *)
(* threw, there is no callback.                                            *)
CallbackProtocol ==
    \A i \in 1 .. Len(events) :
        /\ events[i].name = "connect" <=> "connect" \in Handlers /\ i = 1
        /\ events[i].name = "disconnect" \/ events[i].threw => i = Len(events)
        /\ \A j \in 1 .. i - 1 :
              events[i].id > 0 => events[j].id < events[i].id

(* A message the peer sent as binary is not given to onText.               *)
FramesByOpcode ==
    \A i \in 1 .. Len(events) :
        events[i].name = "text" => ~inbound[events[i].id].binary

(* The messages given to SendText and SendBinary are on the wire, in the   *)
(* queue and on the strand, in this order and none missing.                *)
NothingLost == sent = wire \o sendQueue \o posted

(* The sending side is a MessageChannel: what arrives is a prefix of what  *)
(* was sent, each message with its type, and all of it arrives unless an   *)
(* error of a write or a read, or a close frame, ends the stream.          *)
Channel == INSTANCE MessageChannel WITH
    Message <- [id : 1 .. MaxSends, binary : BOOLEAN],
    accepted <- sent,
    delivered <- wire,
    broken <- stream # "open"

ImplementsChannel == Channel!Spec

Threw == \E i \in 1 .. Len(events) : events[i].threw

(* A peer that goes while its messages are being read is reported to       *)
(* onDisconnect, unless a callback threw.                                  *)
DisconnectReported ==
    (pending.read > 0 /\ peer = "lost")
        ~> Threw \/ \E i \in 1 .. Len(events) : events[i].name = "disconnect"

(* Every message of the peer reaches a callback, also when a close frame   *)
(* follows it, unless the connection is lost first, a write failed, it or  *)
(* one before it is not valid, or a callback threw.                        *)
InboundDelivered ==
    \A n \in 1 .. MaxFrames :
        Len(inbound) >= n ~>
            \/ peer = "lost" \/ stream = "failed" \/ Threw
            \/ \E i \in 1 .. Len(inbound) : i <= n /\ ~inbound[i].valid
            \/ \E i \in 1 .. Len(events) : events[i].id = n

(* When the peer has gone and the keepers are dropped, the session and its *)
(* connection are released.                                                *)
SessionReleased == peer = "lost" ~> ~Held

(* A peer that closes and stays silent does not keep the strand of a plain *)
(* connection: what is posted to it is run.  (On TLS it does: the          *)
(* teardown waits for the peer synchronously.)                             *)
PlainStrandRuns == posted # <<>> /\ ~isSecure ~> posted = <<>>

=============================================================================
