------------------------- MODULE HttpExchange_proofs -------------------------
(***************************************************************************)
(* The request pipeline implements HttpExchange: with the refinement       *)
(* mapping of HttpConnection, every step of a connection is a step of the  *)
(* exchange with its client, or changes nothing the client could tell.     *)
(***************************************************************************)
EXTENDS HttpResponses_proofs

-----------------------------------------------------------------------------
(* Responses that close, and the TLS shutdown.                             *)

(* What a reply leaves of a sequence of responses.                         *)
LEMMA ReplyCloses ==
    ASSUME TypeOK, NEW c \in Conn, Replies(c)
    PROVE  Closes(c)' <=> ~ctx[c].response.keepAlive
<1>1. Len(wire[c]) \in Nat
    BY Numerals
<1> QED
    BY <1>1, WireAppend DEF Closes

(* A shutdown on TLS begins after a write, of a response that closes the   *)
(* connection or of one that was lost, and ends with the send side shut.   *)
Shuts(c) ==
    /\ exec[c] = "shutdown" => exec'[c] = "shutdown" \/ "send" \in shut'[c]
    /\ exec'[c] = "shutdown" =>
          \/ exec[c] = "shutdown"
          \/ /\ InService(c) /\ ~InService(c)' /\ conn'[c] = conn[c]
             /\ ~ctx[c].response.keepAlive \/ wire'[c] = wire[c]

LEMMA ShutdownStep ==
    ASSUME TypeOK, NEW c \in Conn, Own(c), Step(c)
    PROVE  Shuts(c)
<1>1. CASE WriteSucceeds(c) \/ WriteFails(c)
  <2> SUFFICES ASSUME exec'[c] = "shutdown"
               PROVE  /\ InService(c) /\ ~InService(c)' /\ conn'[c] = conn[c]
                      /\ ~ctx[c].response.keepAlive \/ wire'[c] = wire[c]
    BY <1>1 DEF Shuts, WriteSucceeds, WriteFails, WriteCompletes, CanRun
  <2>1. pending[c].write > 0 /\ exec[c] = "idle" /\ UNCHANGED <<conn, responders>>
    BY <1>1 DEF WriteSucceeds, WriteFails, WriteCompletes, CanRun
  <2>2. /\ conn[c] = "http" /\ responders[c] = {}
        /\ pending[c] = [NoOps EXCEPT !.write = 1]
    BY <2>1, Busy
  <2>3. pending'[c] = Finish("write", pending[c])
    BY <1>1, <2>1 DEF WriteSucceeds, WriteFails, TypeOK
  <2>4. ~(pending'[c].write > 0)
    BY <2>2, <2>3 DEF Finish, NoOps
  <2>5. InService(c) /\ ~InService(c)'
    BY <2>1, <2>2, <2>4 DEF InService, ResponderHeld
  <2>6. ~ctx[c].response.keepAlive \/ wire'[c] = wire[c]
    BY <1>1, <2>1 DEF WriteSucceeds, WriteFails
  <2> QED
    BY <2>1, <2>5, <2>6
<1>2. CASE ShutdownReturns(c)
  <2>1. exec' = [exec EXCEPT ![c] = "idle"] /\ ShutdownSend(c)
    BY <1>2 DEF ShutdownReturns
  <2>2. exec'[c] = "idle"
    BY <2>1 DEF TypeOK
  <2>3. "send" \in shut'[c]
    BY <2>1 DEF ShutdownSend, TypeOK
  <2>4. exec'[c] # "shutdown"
    BY <2>2
  <2> QED
    BY <2>3, <2>4 DEF Shuts
<1>3. ASSUME \/ exec'[c] = exec[c]
             \/ exec'[c] \in {"idle", "handler"} /\ exec[c] # "shutdown"
      PROVE  Shuts(c)
    BY <1>3 DEF Shuts
<1>4. CASE Accept(c) \/ UserCode(c) \/ Client(c) \/ SessionThrows(c) \/ SessionEnds(c)
  <2>1. exec' = exec
    <3>1. CASE Accept(c) \/ SessionThrows(c) \/ SessionEnds(c)
      BY <3>1 DEF Accept, Open, OpenThrows, SessionThrows, SessionEnds
    <3>2. CASE UserCode(c)
      BY <3>2 DEF UserCode, Release, TakeKeeper, KeepResponder, SetResponse,
         ReleaseResponder, ReleaseReader
    <3>3. CASE Client(c)
      BY <3>3 DEF Client, ClientSends, ClientLeaves
    <3> QED
      BY <1>4, <3>1, <3>2, <3>3
  <2> QED
    BY <1>3, <2>1
<1>5. CASE HandshakeSucceeds(c) \/ HandshakeFails(c) \/ WriteThrows(c)
    BY <1>3, <1>5 DEF HandshakeSucceeds, HandshakeFails, WriteThrows
<1>6. CASE ReadHandler(c)
  <2>1. exec[c] = "idle"
    BY <1>6 DEF ReadHandler, ReadRejected, ReadDispatched, ReadUpgraded, ReadThrows,
       ReadFails, ReadCompletes, CanRun
  <2>2. exec' = exec \/ exec' = [exec EXCEPT ![c] = "handler"]
    BY <1>6 DEF ReadHandler, ReadRejected, ReadDispatched, ReadUpgraded, ReadThrows,
       ReadFails
  <2>3. exec'[c] \in {"idle", "handler"}
    BY <2>1, <2>2 DEF TypeOK
  <2> QED
    BY <1>3, <2>1, <2>3
<1>7. CASE HandlerReturns(c)
  <2>1. exec[c] = "handler" /\ exec'[c] = "idle"
    BY <1>7 DEF HandlerReturns, TypeOK
  <2> QED
    BY <1>3, <2>1
<1> QED
    BY <1>1, <1>2, <1>4, <1>5, <1>6, <1>7 DEF Step, Server, Established, WriteHandler

ExchangeInv == AnswerInv /\ MutedInv

LEMMA ExchangeInvStep == ExchangeInv /\ [Next]_vars => ExchangeInv'
    BY AnswerInvStep, MutedInvStep DEF ExchangeInv, AnswerInv

LEMMA InitExchangeInv == Init => ExchangeInv
<1>1. Init => MutedInv
    BY DEF Init, MutedInv, Muted, ClosedLast, Final
<1> QED
    BY <1>1, InitAnswerInv DEF ExchangeInv

-----------------------------------------------------------------------------
(* The mapping, one connection at a time.                                  *)

Took(c) == [i \in DOMAIN heard[c] |-> heard[c][i].of]
Silent(c) == "send" \in shut[c] \/ Closes(c) \/ exec[c] = "shutdown"
Answers(c) == [i \in DOMAIN wire[c] |->
                  [for |-> wire[c][i].for, closes |-> ~wire[c][i].response.keepAlive]]

(* The variables of the exchange.                                          *)
stages == [c \in Conn |-> Stage(c)]
lengths == [c \in Conn |-> Len(sent[c])]
tooks == [c \in Conn |-> Took(c)]
lasts == [c \in Conn |-> ctx[c].taken]
cuts == [c \in Conn |-> ctx[c].inside]
silents == [c \in Conn |-> Silent(c)]
answered == [c \in Conn |-> Answers(c)]

exchangeVars == <<stages, lengths, tooks, lasts, cuts, silents, answered>>

(* What becomes of them is what becomes of them at the step's connection.  *)
LEMMA Lift ==
    ASSUME TypeOK, NEW c \in Conn, Elsewhere(c), SentGrows(c)
    PROVE  /\ stages' = [stages EXCEPT ![c] = Stage(c)']
           /\ lengths' = [lengths EXCEPT ![c] = Len(sent'[c])]
           /\ tooks' = [tooks EXCEPT ![c] = Took(c)']
           /\ lasts' = [lasts EXCEPT ![c] = ctx'[c].taken]
           /\ cuts' = [cuts EXCEPT ![c] = ctx'[c].inside]
           /\ silents' = [silents EXCEPT ![c] = Silent(c)']
           /\ answered' = [answered EXCEPT ![c] = Answers(c)']
<1>1. ASSUME NEW d \in Conn \ {c}
      PROVE  /\ Stage(d)' = Stage(d) /\ sent'[d] = sent[d]
             /\ Took(d)' = Took(d) /\ ctx'[d] = ctx[d]
             /\ Silent(d)' = Silent(d) /\ Answers(d)' = Answers(d)
  <2>1. /\ conn'[d] = conn[d] /\ pending'[d] = pending[d] /\ exec'[d] = exec[d]
        /\ responders'[d] = responders[d] /\ ctx'[d] = ctx[d] /\ heard'[d] = heard[d]
        /\ shut'[d] = shut[d] /\ wire'[d] = wire[d] /\ sent'[d] = sent[d]
    BY DEF Elsewhere, SentGrows
  <2>2. InService(d)' <=> InService(d)
    BY <2>1 DEF InService, ResponderHeld
  <2> QED
    BY <2>1, <2>2 DEF Stage, Took, Silent, Closes, Answers
<1>2. stages' = [stages EXCEPT ![c] = Stage(c)']
    BY <1>1 DEF stages
<1>3. lengths' = [lengths EXCEPT ![c] = Len(sent'[c])]
    BY <1>1 DEF lengths
<1>4. tooks' = [tooks EXCEPT ![c] = Took(c)']
    BY <1>1 DEF tooks
<1>5. lasts' = [lasts EXCEPT ![c] = ctx'[c].taken]
    BY <1>1 DEF lasts
<1>6. cuts' = [cuts EXCEPT ![c] = ctx'[c].inside]
    BY <1>1, Zenon DEF cuts
<1>7. silents' = [silents EXCEPT ![c] = Silent(c)']
    BY <1>1, Zenon DEF silents
<1>8. answered' = [answered EXCEPT ![c] = Answers(c)']
    BY <1>1 DEF answered
<1> QED
    BY <1>2, <1>3, <1>4, <1>5, <1>6, <1>7, <1>8

(* What does not change at the step's connection does not change.          *)
LEMMA Unchanged ==
    ASSUME TypeOK, NEW c \in Conn, Elsewhere(c), SentGrows(c)
    PROVE  /\ Stage(c)' = Stage(c) => stages' = stages
           /\ Len(sent'[c]) = Len(sent[c]) => lengths' = lengths
           /\ heard'[c] = heard[c] => tooks' = tooks
           /\ ctx'[c].taken = ctx[c].taken => lasts' = lasts
           /\ ctx'[c].inside = ctx[c].inside => cuts' = cuts
           /\ Silent(c)' = Silent(c) => silents' = silents
           /\ wire'[c] = wire[c] => answered' = answered
<1>1. Stage(c)' = Stage(c) => stages' = stages
    BY Lift DEF stages
<1>2. Len(sent'[c]) = Len(sent[c]) => lengths' = lengths
    BY Lift DEF lengths
<1>3. heard'[c] = heard[c] => tooks' = tooks
  <2>1. heard'[c] = heard[c] => Took(c)' = Took(c)
    BY DEF Took
  <2>2. Took(c)' = Took(c) => tooks' = tooks
    BY Lift DEF tooks
  <2> QED
    BY <2>1, <2>2
<1>4. ctx'[c].taken = ctx[c].taken => lasts' = lasts
    BY Lift DEF lasts
<1>5. ctx'[c].inside = ctx[c].inside => cuts' = cuts
    BY Lift, Zenon DEF cuts
<1>6. Silent(c)' = Silent(c) => silents' = silents
    BY Lift, Zenon DEF silents
<1>7. wire'[c] = wire[c] => answered' = answered
  <2>1. wire'[c] = wire[c] => Answers(c)' = Answers(c)
    BY DEF Answers
  <2>2. Answers(c)' = Answers(c) => answered' = answered
    BY Lift DEF answered
  <2> QED
    BY <2>1, <2>2
<1> QED
    BY <1>1, <1>2, <1>3, <1>4, <1>5, <1>6, <1>7

(* The actions of the exchange, in terms of the mapping.                   *)

Moves(c, from, to) ==
    /\ stages[c] = from
    /\ stages' = [stages EXCEPT ![c] = to]

TakesUpTo(c, p) ==
    /\ p.upTo \in lasts[c] .. lengths[c] /\ p.inside \in BOOLEAN
    /\ p.inside => p.upTo < lengths[c]
    /\ p.upTo > lasts[c] \/ (cuts[c] /\ p.inside)
    /\ lasts' = [lasts EXCEPT ![c] = p.upTo]
    /\ cuts' = [cuts EXCEPT ![c] = p.inside]
    /\ tooks' = [tooks EXCEPT ![c] = Append(@, IF cuts[c] THEN 0 ELSE lasts[c] + 1)]
    /\ UNCHANGED <<lengths, silents, answered>>

EndsService(c) ==
    /\ Moves(c, "serving", "reading") \/ Moves(c, "serving", "closed")
    /\ UNCHANGED <<lengths, tooks, lasts, cuts>>

LEMMA ExchangeActions ==
    ASSUME NEW c \in Conn
    PROVE  /\ Moves(c, "none", "reading")
              /\ UNCHANGED <<lengths, tooks, lasts, cuts, silents, answered>>
                 => Exchange!Connect(c)
           /\ lengths' = [lengths EXCEPT ![c] = @ + 1]
              /\ UNCHANGED <<stages, tooks, lasts, cuts, silents, answered>>
                 => Exchange!Ask(c)
           /\ stages[c] # "closed" /\ stages' = [stages EXCEPT ![c] = "closed"]
              /\ UNCHANGED <<lengths, tooks, lasts, cuts, silents, answered>>
                 => Exchange!Close(c)
           /\ EndsService(c)
              /\ silents' = [silents EXCEPT ![c] = TRUE] /\ UNCHANGED answered
                 => Exchange!Fail(c)
           /\ \A closes \in BOOLEAN :
                 EndsService(c) /\ ~silents[c]
                 /\ answered' = [answered EXCEPT ![c] =
                                    Append(@, [for |-> Len(tooks[c]), closes |-> closes])]
                 /\ silents' = [silents EXCEPT ![c] = closes]
                    => Exchange!Answer(c)
           /\ \A p :
                 /\ Moves(c, "reading", "serving") /\ TakesUpTo(c, p) => Exchange!Serve(c)
                 /\ Moves(c, "reading", "upgraded") /\ TakesUpTo(c, p) => Exchange!Upgrade(c)
                 /\ (Moves(c, "reading", "reading") \/ Moves(c, "reading", "closed"))
                    /\ TakesUpTo(c, p) => Exchange!Abandon(c)
<1> USE DEF Moves, EndsService, stages, lengths, tooks, lasts, cuts, silents, answered,
            Took, Silent, Answers, Exchange!Goes, Exchange!EndsServing
<1>1. Moves(c, "none", "reading")
      /\ UNCHANGED <<lengths, tooks, lasts, cuts, silents, answered>>
         => Exchange!Connect(c)
    BY DEF Exchange!Connect
<1>2. lengths' = [lengths EXCEPT ![c] = @ + 1]
      /\ UNCHANGED <<stages, tooks, lasts, cuts, silents, answered>>
         => Exchange!Ask(c)
    BY DEF Exchange!Ask
<1>3. stages[c] # "closed" /\ stages' = [stages EXCEPT ![c] = "closed"]
      /\ UNCHANGED <<lengths, tooks, lasts, cuts, silents, answered>>
         => Exchange!Close(c)
    BY DEF Exchange!Close
<1>4. EndsService(c) /\ silents' = [silents EXCEPT ![c] = TRUE] /\ UNCHANGED answered
         => Exchange!Fail(c)
    BY DEF Exchange!Fail
<1>5. ASSUME NEW closes \in BOOLEAN, EndsService(c), ~silents[c],
             answered' = [answered EXCEPT ![c] =
                             Append(@, [for |-> Len(tooks[c]), closes |-> closes])],
             silents' = [silents EXCEPT ![c] = closes]
      PROVE  Exchange!Answer(c)
    BY <1>5, Zenon DEF Exchange!Answer
<1>6. ASSUME NEW p, TakesUpTo(c, p)
      PROVE  Exchange!Take(c)
    BY <1>6, Zenon DEF TakesUpTo, Exchange!Take
<1>7. ASSUME NEW p, Moves(c, "reading", "serving"), TakesUpTo(c, p)
      PROVE  Exchange!Serve(c)
    BY <1>6, <1>7, Zenon DEF Exchange!Serve
<1>8. ASSUME NEW p, Moves(c, "reading", "upgraded"), TakesUpTo(c, p)
      PROVE  Exchange!Upgrade(c)
    BY <1>6, <1>8, Zenon DEF Exchange!Upgrade
<1>9. ASSUME NEW p, TakesUpTo(c, p),
             Moves(c, "reading", "reading") \/ Moves(c, "reading", "closed")
      PROVE  Exchange!Abandon(c)
    BY <1>6, <1>9, Zenon DEF Exchange!Abandon
<1> QED
    BY <1>1, <1>2, <1>3, <1>4, <1>5, <1>7, <1>8, <1>9

-----------------------------------------------------------------------------
(* Every effect is a step of the exchange, or none.                        *)

(* The stages of a connection, from where it is and whether it serves.     *)
LEMMA StageOf ==
    ASSUME TypeOK, NEW c \in Conn
    PROVE  /\ conn[c] = "none" => Stage(c) = "none"
           /\ conn[c] \in {"ws", "deaf"} => Stage(c) = "upgraded"
           /\ conn[c] \in {"lost", "destroyed"} => Stage(c) = "closed"
           /\ conn[c] = "http" => Stage(c) = IF InService(c) THEN "serving" ELSE "reading"
           /\ InService(c) => conn[c] = "http"
           /\ conn[c] \in {"none", "ws", "deaf", "lost", "destroyed", "http"}
    BY DEF Stage, InService, TypeOK

(* The mapping at one connection.                                          *)
LEMMA At ==
    ASSUME NEW c \in Conn
    PROVE  /\ stages[c] = Stage(c) /\ lengths[c] = Len(sent[c])
           /\ tooks[c] = Took(c) /\ lasts[c] = ctx[c].taken /\ cuts[c] = ctx[c].inside
           /\ silents[c] = Silent(c) /\ answered[c] = Answers(c)
    BY DEF stages, lengths, tooks, lasts, cuts, silents, answered

(* While nothing is delivered and nothing shut, the client is not told     *)
(* that there will be nothing more.                                        *)
LEMMA Unheard ==
    ASSUME NEW c \in Conn, Shuts(c), wire'[c] = wire[c], shut'[c] = shut[c],
           ~InService(c) \/ InService(c)' \/ conn'[c] # conn[c]
    PROVE  Silent(c)' = Silent(c)
<1>1. exec'[c] = "shutdown" => exec[c] = "shutdown"
    BY DEF Shuts
<1>2. exec[c] = "shutdown" => exec'[c] = "shutdown" \/ "send" \in shut'[c]
    BY DEF Shuts
<1> QED
    BY <1>1, <1>2 DEF Closes, Silent

(* A sequence with one more element.                                       *)
LEMMA OneMore ==
    ASSUME NEW n \in Nat, NEW s, NEW e, s = [i \in 1 .. n |-> s[i]]
    PROVE  /\ Len(s) = n
           /\ Append(s, e) = [i \in 1 .. n + 1 |-> IF i \in 1 .. n THEN s[i] ELSE e]
<1> DEFINE T == {s[i] : i \in 1 .. n} \cup {e}
           longer == Append(s, e)
<1>1. s \in [1 .. n -> T]
    OBVIOUS
<1>2. s \in Seq(T) /\ e \in T /\ Len(s) = n
    BY <1>1
<1> HIDE DEF T
<1>3. /\ longer \in Seq(T) /\ Len(longer) = n + 1
      /\ \A i \in 1 .. n : longer[i] = s[i]
      /\ longer[n + 1] = e
    BY <1>2, AppendProperties
<1> HIDE DEF longer
<1>4. longer \in [1 .. Len(longer) -> T]
    BY <1>3, LenProperties
<1>5. longer = [i \in 1 .. n + 1 |-> longer[i]]
    BY <1>3, <1>4
<1>6. \A i \in 1 .. n + 1 : i \in 1 .. n \/ i = n + 1
    OBVIOUS
<1>7. longer = [i \in 1 .. n + 1 |-> IF i \in 1 .. n THEN s[i] ELSE e]
    BY <1>3, <1>5, <1>6
<1> QED
    BY <1>2, <1>7 DEF longer

(* What is heard is what the exchange takes.                               *)
LEMMA HearsTakes ==
    ASSUME TypeOK, NEW c \in Conn, Elsewhere(c), SentGrows(c), UNCHANGED sent,
           NEW m \in Arriving(c), NEW p \in Cuts(c), Hears(c, m, p),
           wire'[c] = wire[c], Silent(c)' = Silent(c)
    PROVE  TakesUpTo(c, p)
<1> DEFINE n == Len(heard[c])
           next == IF ctx[c].inside THEN 0 ELSE ctx[c].taken + 1
<1>1. n \in Nat /\ DOMAIN heard[c] = 1 .. n
    BY DEF TypeOK
<1>2. m.of = next
    BY DEF Arriving
<1>3. /\ n + 1 = Len(heard'[c]) /\ heard'[c][n + 1] = m
      /\ \A i \in 1 .. n : heard'[c][i] = heard[c][i]
    BY HeardAppend DEF Hears, HeardGrows
<1>4. DOMAIN heard'[c] = 1 .. n + 1
  <2>1. heard[c] \in Seq(Heard) /\ m \in Heard /\ heard'[c] = Append(heard[c], m)
    BY ArrivingType DEF TypeOK, Hears, Hear
  <2> QED
    BY <2>1
<1>5. Took(c) = [i \in 1 .. n |-> Took(c)[i]]
    BY <1>1 DEF Took
<1>6. \A i \in 1 .. n + 1 : i \in 1 .. n \/ (i = n + 1 /\ i \notin 1 .. n)
    BY <1>1
<1> HIDE DEF n, next
<1>7. Took(c)' = [i \in 1 .. n + 1 |-> IF i \in 1 .. n THEN Took(c)[i] ELSE next]
    BY <1>1, <1>2, <1>3, <1>4, <1>6 DEF Took
<1>8. Took(c)' = Append(Took(c), next)
    BY <1>1, <1>5, <1>7, OneMore
<1>9. /\ p.upTo \in ctx[c].taken .. Len(sent[c]) /\ p.inside \in BOOLEAN
      /\ p.inside => p.upTo < Len(sent[c])
      /\ p.upTo > ctx[c].taken \/ (ctx[c].inside /\ p.inside)
    BY DEF Cuts
<1>10. tooks' = [tooks EXCEPT ![c] = Append(@, IF cuts[c] THEN 0 ELSE lasts[c] + 1)]
    BY <1>8, Lift, At DEF next
<1>11. /\ lasts' = [lasts EXCEPT ![c] = p.upTo]
       /\ cuts' = [cuts EXCEPT ![c] = p.inside]
  <2>1. ctx'[c].taken = p.upTo /\ ctx'[c].inside = p.inside
    BY DEF Hears
  <2>2. lasts' = [lasts EXCEPT ![c] = p.upTo]
    BY <2>1, Lift
  <2>3. cuts' = [cuts EXCEPT ![c] = p.inside]
    BY <2>1, Lift, Zenon
  <2> QED
    BY <2>2, <2>3
<1>12. UNCHANGED <<lengths, silents, answered>>
    BY Unchanged
<1> QED
    BY <1>9, <1>10, <1>11, <1>12, At, Zenon DEF TakesUpTo

(* The client sends a request.                                             *)
LEMMA AskStep ==
    ASSUME TypeOK, NEW c \in Conn, Elsewhere(c), SentGrows(c),
           NEW r \in Request, ClientSends(c, r)
    PROVE  Exchange!Next
<1>1. Len(sent'[c]) = Len(sent[c]) + 1
  <2>1. sent[c] \in Seq(Request) /\ sent'[c] = Append(sent[c], r)
    BY DEF ClientSends, TypeOK
  <2> QED
    BY <2>1
<1>2. UNCHANGED <<conn, pending, exec, responders, ctx, heard, shut, wire>>
    BY DEF ClientSends
<1>3. Stage(c)' = Stage(c) /\ Silent(c)' = Silent(c)
    BY <1>2 DEF Stage, InService, ResponderHeld, Silent, Closes
<1>4. UNCHANGED <<stages, tooks, lasts, cuts, silents, answered>>
    BY <1>2, <1>3, Unchanged
<1>5. lengths' = [lengths EXCEPT ![c] = @ + 1]
    BY <1>1, Lift, At
<1> QED
    BY <1>4, <1>5, ExchangeActions DEF Exchange!Next

(* A connection comes, goes, or is left alone.                             *)
LEMMA QuietStep ==
    ASSUME TypeOK, NEW c \in Conn, Elsewhere(c), SentGrows(c), Shuts(c), Quiet(c)
    PROVE  Exchange!Next \/ UNCHANGED exchangeVars
<1>1. CASE \E r \in Request : ClientSends(c, r)
    BY <1>1, AskStep
<1>2. CASE UNCHANGED sent
  <2>1. Silent(c)' = Silent(c)
    <3>1. InService(c) => InService(c)' \/ conn'[c] # conn[c]
      BY StageOf DEF Quiet
    <3> QED
      BY <3>1, Unheard DEF Quiet
  <2>2. UNCHANGED <<lengths, tooks, lasts, cuts, silents, answered>>
    BY <1>2, <2>1, Unchanged DEF Quiet
  <2>3. CASE Stage(c)' = Stage(c)
    BY <2>2, <2>3, Unchanged DEF exchangeVars
  <2>4. CASE conn[c] = "none" /\ conn'[c] = "http"
    <3>1. Stage(c) = "none" /\ Stage(c)' = "reading"
      BY <2>4, StageOf DEF Quiet, Stage
    <3>2. Moves(c, "none", "reading")
      BY <3>1, At, Lift DEF Moves
    <3> QED
      BY <2>2, <3>2, ExchangeActions DEF Exchange!Next
  <2>5. CASE Stage(c)' # Stage(c) /\ conn'[c] \in {"lost", "destroyed"}
    <3>1. Stage(c)' = "closed"
      BY <2>5 DEF Stage
    <3> QED
      BY <2>2, <2>5, <3>1, At, Lift, ExchangeActions DEF Exchange!Next
  <2>6. CASE conn'[c] = conn[c]
    <3>1. Stage(c)' = Stage(c)
      BY <2>6, StageOf DEF Quiet, Stage
    <3> QED
      BY <2>3, <3>1
  <2>7. CASE conn[c] = "ws" /\ conn'[c] = "deaf"
    <3>1. Stage(c)' = Stage(c)
      BY <2>7 DEF Stage
    <3> QED
      BY <2>3, <3>1
  <2> QED
    BY <2>3, <2>4, <2>5, <2>6, <2>7 DEF Quiet
<1> QED
    BY <1>1, <1>2 DEF SentGrows

(* User code fills in a response that the client has not been sent.        *)
LEMMA FillsStep ==
    ASSUME TypeOK, NEW c \in Conn, Elsewhere(c), SentGrows(c), Shuts(c), Fills(c)
    PROVE  Exchange!Next \/ UNCHANGED exchangeVars
<1>1. CASE \E r \in Request : ClientSends(c, r)
    BY <1>1, AskStep
<1>2. CASE UNCHANGED sent
  <2>1. ctx'[c].taken = ctx[c].taken /\ ctx'[c].inside = ctx[c].inside
    BY RespondFields, Numerals DEF Fills
  <2>2. Stage(c)' = Stage(c) /\ Silent(c)' = Silent(c)
    BY Unheard DEF Fills, Stage
  <2> QED
    BY <1>2, <2>1, <2>2, Unchanged DEF Fills, exchangeVars
<1> QED
    BY <1>1, <1>2 DEF SentGrows

(* What is read is taken into service.                                     *)
LEMMA TakesStep ==
    ASSUME TypeOK, NEW c \in Conn, Elsewhere(c), SentGrows(c), Shuts(c), Takes(c)
    PROVE  Exchange!Next
<1>1. PICK m \in Arriving(c), p \in Cuts(c) : Hears(c, m, p)
    BY TakesHears
<1>2. Silent(c)' = Silent(c)
    BY Unheard DEF Takes
<1>3. TakesUpTo(c, p)
    BY <1>1, <1>2, HearsTakes DEF Takes
<1>4. Moves(c, "reading", "serving")
    BY At, Lift DEF Moves, Takes, Stage
<1> QED
    BY <1>3, <1>4, ExchangeActions DEF Exchange!Next

(* Something is taken that nobody will answer, or it upgrades.             *)
LEMMA AbandonsStep ==
    ASSUME TypeOK, NEW c \in Conn, Elsewhere(c), SentGrows(c), Shuts(c), Abandons(c)
    PROVE  Exchange!Next
<1>1. PICK m \in Arriving(c), p \in Cuts(c) : Hears(c, m, p)
    BY DEF Abandons
<1>2. Silent(c)' = Silent(c)
    BY Unheard DEF Abandons
<1>3. TakesUpTo(c, p)
    BY <1>1, <1>2, HearsTakes DEF Abandons
<1>4. \/ Moves(c, "reading", "reading") \/ Moves(c, "reading", "closed")
      \/ Moves(c, "reading", "upgraded")
  <2>1. Stage(c) = "reading" /\ Stage(c)' \in {"reading", "upgraded", "closed"}
    BY DEF Abandons, Stage
  <2> QED
    BY <2>1, At, Lift DEF Moves
<1> QED
    BY <1>3, <1>4, ExchangeActions DEF Exchange!Next

(* The first read of a connection, the read after a TLS shutdown, and what *)
(* follows a write that failed.                                            *)
LEMMA ResetsStep ==
    ASSUME TypeOK, NEW c \in Conn, Own(c), Elsewhere(c), SentGrows(c), Shuts(c), Resets(c)
    PROVE  Exchange!Next \/ UNCHANGED exchangeVars
<1>1. UNCHANGED <<lengths, tooks, lasts, cuts, answered>>
  <2>1. ctx'[c].taken = ctx[c].taken /\ ctx'[c].inside = ctx[c].inside
    BY ResetContextFields, Numerals DEF Resets
  <2> QED
    BY <2>1, Unchanged DEF Resets
<1>2. Stage(c)' = "reading"
    BY DEF Resets, Stage
<1>3. CASE InService(c)
  <2>1. Stage(c) = "serving" /\ Silent(c)' = TRUE
    BY <1>3 DEF Resets, Stage, InService, Silent
  <2>2. EndsService(c) /\ silents' = [silents EXCEPT ![c] = TRUE]
    BY <1>1, <1>2, <2>1, At, Lift DEF Moves, EndsService
  <2> QED
    BY <1>1, <2>2, ExchangeActions DEF Exchange!Next
<1>4. CASE ~InService(c)
  <2>1. UNCHANGED silents
    <3>1. CASE shut'[c] = shut[c]
      BY <1>4, <3>1, Unheard, Unchanged DEF Resets
    <3>2. CASE exec[c] = "shutdown" /\ "send" \in shut'[c]
      BY <3>2, Unchanged DEF Silent
    <3> QED
      BY <1>4, <3>1, <3>2 DEF Resets
  <2>2. CASE conn[c] = "none"
    <3>1. Moves(c, "none", "reading")
      BY <1>2, <2>2, StageOf, At, Lift DEF Moves
    <3> QED
      BY <1>1, <2>1, <3>1, ExchangeActions DEF Exchange!Next
  <2>3. CASE conn[c] = "http"
    <3>1. Stage(c)' = Stage(c)
      BY <1>2, <1>4, <2>3, StageOf
    <3> QED
      BY <1>1, <2>1, <3>1, Unchanged DEF exchangeVars
  <2> QED
    BY <2>2, <2>3 DEF Resets
<1> QED
    BY <1>3, <1>4

(* The client receives the answer to what was taken last.                  *)
LEMMA RepliesStep ==
    ASSUME TypeOK, NEW c \in Conn, Own(c), Numbers(c), Muted(c), Elsewhere(c),
           SentGrows(c), Shuts(c), Replies(c)
    PROVE  Exchange!Next
<1> DEFINE closes == ~ctx[c].response.keepAlive
           answer == [for |-> Len(tooks[c]), closes |-> closes]
           n == Len(wire[c])
<1>1. UNCHANGED <<lengths, tooks, lasts, cuts>>
  <2>1. ctx'[c].taken = ctx[c].taken /\ ctx'[c].inside = ctx[c].inside
    BY ResetContextFields, Numerals DEF Replies
  <2> QED
    BY <2>1, Unchanged DEF Replies
<1>2. Stage(c) = "serving" /\ Stage(c)' \in {"reading", "closed"}
    BY DEF Replies, Stage, InService
<1>3. pending[c].write > 0 /\ "send" \notin shut[c] /\ exec[c] = "idle" /\ pending[c] # NoOps
    BY Busy DEF NoOps, Replies
<1>4. ~silents[c]
    BY <1>3, At DEF Muted, Final, Closes, Silent
<1>5. Silent(c)' = closes
  <2>1. Closes(c)' <=> closes
    BY ReplyCloses
  <2>2. "send" \in shut'[c] => closes
    BY <1>3 DEF Replies
  <2>3. exec'[c] = "shutdown" => closes
    <3>1. wire'[c] # wire[c]
      BY WireAppend, Numerals
    <3> QED
      BY <1>3, <3>1 DEF Shuts
  <2> QED
    BY <2>1, <2>2, <2>3 DEF Silent
<1>6. Answers(c)' = Append(Answers(c), answer)
  <2>1. ctx[c].cur = Len(tooks[c])
    <3>1. heard[c] \in Seq(Heard)
      BY DEF TypeOK
    <3>2. Len(heard[c]) \in Nat /\ Took(c) = [i \in 1 .. Len(heard[c]) |-> Took(c)[i]]
      BY <3>1 DEF Took
    <3>3. Len(Took(c)) = Len(heard[c])
      BY <3>2, OneMore
    <3> QED
      BY <3>3, At DEF Numbers, Replies
  <2>2. /\ n \in Nat /\ DOMAIN wire[c] = 1 .. n /\ DOMAIN wire'[c] = 1 .. n + 1
    <3> DEFINE S == [for : Nat, response : Response]
    <3>1. wire[c] \in Seq(S) /\ Reply(c) \in S /\ wire'[c] = Append(wire[c], Reply(c))
      BY Numerals DEF TypeOK, Reply, Context, Replies
    <3> HIDE DEF S
    <3> QED
      BY <3>1
  <2>3. /\ \A i \in 1 .. n : wire'[c][i] = wire[c][i]
        /\ wire'[c][n + 1].for = ctx[c].cur
        /\ wire'[c][n + 1].response = ctx[c].response
    BY WireAppend
  <2>4. \A i \in 1 .. n + 1 : i \in 1 .. n \/ (i = n + 1 /\ i \notin 1 .. n)
    BY <2>2
  <2> HIDE DEF n
  <2>5. Answers(c) = [i \in 1 .. n |-> Answers(c)[i]]
    BY <2>2 DEF Answers
  <2>6. Answers(c)' = [i \in 1 .. n + 1 |->
            IF i \in 1 .. n THEN Answers(c)[i] ELSE answer]
    BY <2>1, <2>2, <2>3, <2>4 DEF Answers
  <2> HIDE DEF answer
  <2> QED
    BY <2>2, <2>5, <2>6, OneMore
<1>7. answered' = [answered EXCEPT ![c] = Append(@, answer)]
    BY <1>6, Lift, At
<1>8. silents' = [silents EXCEPT ![c] = closes]
    BY <1>5, Lift, Zenon
<1>9. EndsService(c)
  <2>1. Moves(c, "serving", "reading") \/ Moves(c, "serving", "closed")
    BY <1>2, At, Lift DEF Moves
  <2> QED
    BY <1>1, <2>1 DEF EndsService
<1>10. closes \in BOOLEAN
    OBVIOUS
<1>11. Exchange!Answer(c)
    BY <1>4, <1>7, <1>8, <1>9, <1>10, ExchangeActions, Zenon
<1> QED
    BY <1>11 DEF Exchange!Next

(* Every step of a connection is a step of its exchange, or none.          *)
LEMMA ExchangeStep ==
    ASSUME ExchangeInv, NEW c \in Conn, Step(c)
    PROVE  Exchange!Next \/ UNCHANGED exchangeVars
<1>1. TypeOK /\ Own(c) /\ Numbers(c) /\ Muted(c)
    BY DEF ExchangeInv, AnswerInv, IInv, MutedInv, Answering
<1>2. Elsewhere(c) /\ SentGrows(c) /\ Shuts(c) /\ Effect(c)
    BY <1>1, OneConnection, SentStep, ShutdownStep, Effects
<1> QED
    BY <1>1, <1>2, QuietStep, FillsStep, TakesStep, AbandonsStep, ResetsStep, RepliesStep
    DEF Effect

(* The pipeline, with its threads, shared pointers and completion handlers,*)
(* implements the exchange: every connection serves what it takes off its  *)
(* client's stream one at a time and in the order it was sent, answers     *)
(* each at most once, and gives no answer after the last word, whoever     *)
(* holds its responders, wherever the stream is cut and whatever the other *)
(* connections do.                                                         *)
THEOREM PipelineImplementsExchange == Spec => ImplementsExchange
<1>1. Init => Exchange!Init
  <2> SUFFICES ASSUME Init PROVE Exchange!Init
    OBVIOUS
  <2>1. ASSUME NEW c \in Conn
        PROVE  /\ Stage(c) = "none" /\ Len(sent[c]) = 0
               /\ ctx[c].taken = 0 /\ ctx[c].inside = FALSE
               /\ ("send" \in shut[c] \/ Closes(c) \/ exec[c] = "shutdown") = FALSE
               /\ heard[c] = <<>> /\ wire[c] = <<>>
    BY <2>1 DEF Init, Stage, InService, NewContext, Closes
  <2>2. \A s : s = <<>> => DOMAIN s = 1 .. 0
    OBVIOUS
  <2>3. ASSUME NEW f, f \in [1 .. 0 -> {}] PROVE f = <<>>
    <3>1. f \in Seq({}) /\ Len(f) = 0
      BY <2>3
    <3> QED
      BY <3>1, EmptySeq
  <2>4. ASSUME NEW c \in Conn
        PROVE  Answers(c) = <<>> /\ Took(c) = <<>>
    <3>1. 1 .. 0 = {}
      OBVIOUS
    <3>2. Answers(c) \in [1 .. 0 -> {}] /\ Took(c) \in [1 .. 0 -> {}]
      BY <2>1, <2>2, <3>1 DEF Answers, Took
    <3> QED
      BY <2>3, <3>2
  <2> QED
    BY <2>1, <2>4 DEF Exchange!Init, Answers, Took
<1>2. ExchangeInv /\ [Next]_vars => [Exchange!Next]_(Exchange!vars)
  <2> SUFFICES ASSUME ExchangeInv, [Next]_vars
               PROVE  Exchange!Next \/ UNCHANGED exchangeVars
    BY DEF Exchange!vars, exchangeVars, stages, lengths, tooks, lasts, cuts, silents,
           answered, Took, Silent, Answers
  <2>1. CASE UNCHANGED vars
    BY <2>1 DEF vars, exchangeVars, stages, lengths, tooks, lasts, cuts, silents,
                answered, Stage, Took, Silent, Closes, Answers, InService, ResponderHeld
  <2>2. CASE Next
    BY <2>2, ExchangeStep DEF Next, Step
  <2> QED
    BY <2>1, <2>2
<1> QED
    BY <1>1, <1>2, InitExchangeInv, ExchangeInvStep, PTL
    DEF Spec, ImplementsExchange, Exchange!Spec

=============================================================================
