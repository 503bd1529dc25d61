-------------------------- MODULE HttpClient_proofs --------------------------
(***************************************************************************)
(* Proofs about HttpClient.  The stages a call goes through are an         *)
(* inductive invariant, from which it follows that every call has one end, *)
(* that a response is earned, and that the calls are those of AsyncCall,   *)
(* its liveness apart.                                                     *)
(***************************************************************************)
EXTENDS HttpClient, TLAPS

-----------------------------------------------------------------------------
(* The inductive invariant.                                                *)

(* The call was not made, or it threw, and nothing of it is left.          *)
NotMade(c) ==
    /\ caller[c] \in {"idle", "threw"}
    /\ runner[c] = "none" /\ op[c] = "none"
    /\ results[c] = <<>> /\ written[c] = 0

(* Its host is being looked up: the thread that passes the result on is    *)
(* about to be made, or there, and has not done so.                        *)
LookingUp(c) ==
    /\ \/ caller[c] = "resolving" /\ runner[c] = "none"
       \/ caller[c] \in {"spawned", "returned"} /\ runner[c] = "running"
    /\ lookup[c] # "none" /\ op[c] = "resolve"
    /\ results[c] = <<>> /\ written[c] = 0

Passed(c) ==
    /\ caller[c] \in {"spawned", "returned"}
    /\ runner[c] = "ended" /\ lookup[c] \in Results

(* The executor has it; past the connect only if the host was found.       *)
OnExecutor(c) ==
    /\ Passed(c)
    /\ results[c] = <<>>
    /\ \/ op[c] = "resolved" /\ written[c] = 0
       \/ op[c] \in {"connect", "handshake", "write"} /\ lookup[c] = "found" /\ written[c] = 0
       \/ op[c] = "read" /\ lookup[c] = "found" /\ written[c] = 1

(* It has been called back.                                                *)
Over(c) ==
    /\ Passed(c)
    /\ op[c] = "none"
    /\ \/ results[c] \in {<<"aborted">>, <<"notFound">>, <<"failed">>}
       \/ results[c] = <<"response">> /\ lookup[c] = "found" /\ written[c] = 1

Stage(c) == NotMade(c) \/ LookingUp(c) \/ OnExecutor(c) \/ Over(c)

IInv == TypeOK /\ \A c \in Call : Stage(c)

Step(c) == Caller(c) \/ Resolution(c) \/ Handler(c)

(* A step of one call leaves the others alone.                             *)
Elsewhere(c) ==
    \A d \in Call \ {c} :
        /\ caller'[d] = caller[d] /\ lookup'[d] = lookup[d] /\ runner'[d] = runner[d]
        /\ op'[d] = op[d] /\ results'[d] = results[d] /\ written'[d] = written[d]

-----------------------------------------------------------------------------
(* Starting an operation and calling back, the two ways a handler ends.    *)

LEMMA ThenEnds ==
    ASSUME TypeOK, NEW c \in Call,
           NEW next \in {"connect", "handshake", "write", "read"}, Then(c, next)
    PROVE  /\ op'[c] = next
           /\ results' = results
           /\ op' \in [Call -> {"none", "resolve", "resolved", "connect", "handshake",
                                "write", "read"}]
           /\ \A d \in Call \ {c} : op'[d] = op[d]
    BY DEF Then, TypeOK

LEMMA CallBackEnds ==
    ASSUME TypeOK, NEW c \in Call, results[c] = <<>>,
           NEW result \in {"aborted", "notFound", "failed", "response"}, CallBack(c, result)
    PROVE  /\ op'[c] = "none"
           /\ results'[c] = <<result>>
           /\ op' \in [Call -> {"none", "resolve", "resolved", "connect", "handshake",
                                "write", "read"}]
           /\ results' \in [Call -> Seq({"aborted", "notFound", "failed", "response"})]
           /\ \A d \in Call \ {c} : op'[d] = op[d] /\ results'[d] = results[d]
<1>1. /\ Append(results[c], result) \in Seq({"aborted", "notFound", "failed", "response"})
      /\ Append(results[c], result) = <<result>>
    BY DEF TypeOK
<1> QED
    BY <1>1 DEF CallBack, TypeOK

-----------------------------------------------------------------------------
(* One step of one call.                                                   *)

LEMMA CallerStep ==
    ASSUME TypeOK, NEW c \in Call, Stage(c), Caller(c)
    PROVE  TypeOK' /\ Stage(c)' /\ Elsewhere(c)
<1> USE DEF TypeOK, Stage, NotMade, LookingUp, OnExecutor, Over, Passed, Elsewhere
<1>1. CASE CallAsync(c)
    BY <1>1 DEF CallAsync
<1>2. CASE UrlThrows(c)
    BY <1>2 DEF UrlThrows
<1>3. CASE SpawnThread(c)
    BY <1>3 DEF SpawnThread
<1>4. CASE SpawnFails(c)
    BY <1>4 DEF SpawnFails
<1>5. CASE CallReturns(c)
    BY <1>5 DEF CallReturns
<1> QED
    BY <1>1, <1>2, <1>3, <1>4, <1>5 DEF Caller

LEMMA ResolutionStep ==
    ASSUME TypeOK, NEW c \in Call, Stage(c), Resolution(c)
    PROVE  TypeOK' /\ Stage(c)' /\ Elsewhere(c)
<1> USE DEF TypeOK, Stage, NotMade, LookingUp, OnExecutor, Over, Passed, Elsewhere, Results
<1>1. CASE LookupRuns(c)
    BY <1>1 DEF LookupRuns
<1>2. CASE LookupEnds(c)
    BY <1>2 DEF LookupEnds
<1>3. CASE RunnerEnds(c)
    BY <1>3 DEF RunnerEnds
<1> QED
    BY <1>1, <1>2, <1>3 DEF Resolution

(* A handler starts the next operation, or calls back and leaves none.     *)
LEMMA HandlerStep ==
    ASSUME TypeOK, NEW c \in Call, Stage(c), Handler(c)
    PROVE  TypeOK' /\ Stage(c)' /\ Elsewhere(c)
<1>0. OnExecutor(c) /\ results[c] = <<>> /\ lookup[c] \in Results
    BY DEF Stage, NotMade, LookingUp, OnExecutor, Over, Passed, Handler, ResolveHandler,
           ConnectHandler, HandshakeHandler, WriteHandler, ReadHandler
<1> USE <1>0 DEF TypeOK, Stage, OnExecutor, Over, Passed, Elsewhere
<1>1. CASE ResolveHandler(c)
  <2>1. CASE lookup[c] = "found" /\ Then(c, "connect")
    BY <1>1, <2>1, ThenEnds DEF ResolveHandler
  <2>2. CASE lookup[c] \in {"aborted", "notFound"} /\ CallBack(c, lookup[c])
    BY <1>1, <2>2, CallBackEnds DEF ResolveHandler
  <2> QED
    BY <1>1, <2>1, <2>2 DEF ResolveHandler, Results
<1>2. CASE ConnectHandler(c)
  <2>1. CASE CallBack(c, "failed") /\ UNCHANGED crashed
    BY <1>2, <2>1, CallBackEnds DEF ConnectHandler
  <2>2. CASE Then(c, "handshake") /\ UNCHANGED crashed
    BY <1>2, <2>2, ThenEnds DEF ConnectHandler
  <2>3. CASE Then(c, "write") /\ crashed' \in BOOLEAN
    BY <1>2, <2>3, ThenEnds DEF ConnectHandler
  <2> QED
    BY <1>2, <2>1, <2>2, <2>3 DEF ConnectHandler
<1>3. CASE HandshakeHandler(c)
  <2>1. CASE CallBack(c, "failed")
    BY <1>3, <2>1, CallBackEnds DEF HandshakeHandler
  <2>2. CASE Then(c, "write")
    BY <1>3, <2>2, ThenEnds DEF HandshakeHandler
  <2> QED
    BY <1>3, <2>1, <2>2 DEF HandshakeHandler
<1>4. CASE WriteHandler(c)
  <2>1. CASE CallBack(c, "failed") /\ UNCHANGED written
    BY <1>4, <2>1, CallBackEnds DEF WriteHandler
  <2>2. CASE Then(c, "read") /\ written' = [written EXCEPT ![c] = @ + 1]
    BY <1>4, <2>2, ThenEnds DEF WriteHandler
  <2> QED
    BY <1>4, <2>1, <2>2 DEF WriteHandler
<1>5. CASE ReadHandler(c)
  <2>1. CASE CallBack(c, "failed")
    BY <1>5, <2>1, CallBackEnds DEF ReadHandler
  <2>2. CASE CallBack(c, "response")
    BY <1>5, <2>2, CallBackEnds DEF ReadHandler
  <2> QED
    BY <1>5, <2>1, <2>2 DEF ReadHandler
<1> QED
    BY <1>1, <1>2, <1>3, <1>4, <1>5 DEF Handler

LEMMA StepPreserves ==
    ASSUME IInv, NEW c \in Call, Step(c)
    PROVE  IInv'
<1>1. TypeOK' /\ Stage(c)' /\ Elsewhere(c)
    BY CallerStep, ResolutionStep, HandlerStep DEF IInv, Step
<1>2. ASSUME NEW d \in Call \ {c} PROVE Stage(d)'
    BY <1>1, <1>2 DEF IInv, Elsewhere, Stage, NotMade, LookingUp, OnExecutor, Over, Passed
<1> QED
    BY <1>1, <1>2 DEF IInv

-----------------------------------------------------------------------------
(* A call is in one of its stages at all times.                            *)
THEOREM ClientInductive == Spec => []IInv
<1>1. Init => IInv
  <2> SUFFICES ASSUME Init
               PROVE  IInv
    OBVIOUS
  <2>1. <<>> \in Seq({"aborted", "notFound", "failed", "response"})
    OBVIOUS
  <2>2. TypeOK
    BY <2>1 DEF Init, TypeOK
  <2>3. ASSUME NEW c \in Call PROVE NotMade(c)
    BY DEF Init, NotMade
  <2> QED
    BY <2>2, <2>3 DEF IInv, Stage
<1>2. IInv /\ [Next]_vars => IInv'
  <2> SUFFICES ASSUME IInv, [Next]_vars
               PROVE  IInv'
    OBVIOUS
  <2>1. CASE UNCHANGED vars
    BY <2>1 DEF vars, IInv, TypeOK, Stage, NotMade, LookingUp, OnExecutor, Over, Passed
  <2>2. CASE Next
    BY <2>2, StepPreserves DEF Next, Step
  <2> QED
    BY <2>1, <2>2
<1> QED
    BY <1>1, <1>2, PTL DEF Spec

(* Every variable of the client has its type.                              *)
THEOREM ClientTypeCorrect == Spec => []TypeOK
<1>1. IInv => TypeOK
    BY DEF IInv
<1> QED
    BY <1>1, ClientInductive, PTL

(* A call waits for one thing, or has been called back, once, or threw:    *)
(* the steps of CallAsync, of the lookup, of the detached thread and of    *)
(* the executor may come in any order.                                     *)
THEOREM OneEndAlways == Spec => []OneEnd
<1>1. IInv => OneEnd
  <2> SUFFICES ASSUME IInv, NEW c \in Call
               PROVE  (IF op[c] # "none" THEN 1 ELSE 0) + Len(results[c])
                          = IF caller[c] \in {"idle", "threw"} THEN 0 ELSE 1
    BY DEF OneEnd
  <2>1. Stage(c)
    BY DEF IInv
  <2>2. CASE NotMade(c)
    BY <2>2 DEF NotMade
  <2>3. CASE LookingUp(c) \/ OnExecutor(c)
    <3>1. results[c] = <<>> /\ op[c] # "none" /\ caller[c] \notin {"idle", "threw"}
      BY <2>3 DEF LookingUp, OnExecutor, Passed
    <3>2. Len(results[c]) = 0
      BY <3>1
    <3> QED
      BY <3>1, <3>2
  <2>4. CASE Over(c)
    <3>1. Len(results[c]) = 1
      BY <2>4 DEF Over
    <3> QED
      BY <2>4, <3>1 DEF Over, Passed
  <2> QED
    BY <2>1, <2>2, <2>3, <2>4 DEF Stage
<1> QED
    BY <1>1, ClientInductive, PTL

(* A response is for a request that was written, once, to a host that was  *)
(* found.                                                                  *)
THEOREM ResponsesEarned == Spec => []ResponseEarned
<1>1. IInv => ResponseEarned
    BY DEF IInv, ResponseEarned, Stage, NotMade, LookingUp, OnExecutor, Over, Passed
<1> QED
    BY <1>1, ClientInductive, PTL

-----------------------------------------------------------------------------
(* The refinement of AsyncCall.                                            *)

(* What a step of a call does to what AsyncCall knows of it.               *)
LEMMA StepStatus ==
    ASSUME IInv, NEW c \in Call, Step(c)
    PROVE  /\ \/ Status(c)' = Status(c) /\ crashed' \in {crashed, TRUE}
              \/ /\ ~crashed /\ crashed' = crashed
                 /\ <<Status(c), Status(c)'>> \in
                       {<<"idle", "pending">>, <<"idle", "threw">>, <<"pending", "threw">>,
                        <<"pending", "calledBack">>}
           /\ \A d \in Call \ {c} : Status(d)' = Status(d)
<1>1. Stage(c) /\ TypeOK
    BY DEF IInv
<1>2. TypeOK' /\ Stage(c)' /\ Elsewhere(c)
    BY <1>1, CallerStep, ResolutionStep, HandlerStep DEF Step
<1>3. \A d \in Call \ {c} : Status(d)' = Status(d)
    BY <1>2 DEF Elsewhere, Status
<1>4. CASE CallAsync(c)
    BY <1>1, <1>2, <1>3, <1>4 DEF CallAsync, Status, TypeOK, Stage, NotMade, LookingUp, OnExecutor,
                                  Over, Passed
<1>5. CASE UrlThrows(c)
    BY <1>1, <1>3, <1>5 DEF UrlThrows, Status, TypeOK
<1>6. CASE SpawnFails(c)
    BY <1>1, <1>3, <1>6 DEF SpawnFails, Status, TypeOK, Stage, NotMade, LookingUp, OnExecutor,
                            Over, Passed
<1>7. CASE SpawnThread(c) \/ CallReturns(c) \/ Resolution(c)
    BY <1>1, <1>3, <1>7 DEF SpawnThread, CallReturns, Resolution, LookupRuns, LookupEnds,
                            RunnerEnds, Status, TypeOK
<1>8. CASE Handler(c)
  <2>1. /\ ~crashed /\ caller' = caller
        /\ caller[c] \in {"spawned", "returned"}
        /\ results[c] = <<>>
    BY <1>1, <1>8 DEF Stage, NotMade, LookingUp, OnExecutor, Over, Passed, Handler, ResolveHandler,
                      ConnectHandler, HandshakeHandler, WriteHandler, ReadHandler
  <2>2. Status(c) = "pending" /\ Status(c)' \in {"pending", "calledBack"}
    BY <2>1 DEF Status
  <2>3. results' = results => Status(c)' = Status(c)
    BY <2>1 DEF Status
  <2>4. CASE ConnectHandler(c)
    <3>1. crashed' = crashed \/ (results' = results /\ crashed' \in BOOLEAN)
      BY <2>4 DEF ConnectHandler, Then
    <3>2. CASE crashed' = crashed
      BY <1>3, <2>1, <2>2, <3>2
    <3>3. CASE results' = results /\ crashed' \in BOOLEAN
      BY <1>1, <1>3, <2>1, <2>3, <3>3 DEF TypeOK
    <3> QED
      BY <3>1, <3>2, <3>3
  <2>5. CASE ~ConnectHandler(c)
    <3>1. crashed' = crashed
      BY <1>8, <2>5 DEF Handler, ResolveHandler, HandshakeHandler, WriteHandler, ReadHandler
    <3> QED
      BY <1>3, <2>1, <2>2, <3>1
  <2> QED
    BY <2>4, <2>5
<1> QED
    BY <1>4, <1>5, <1>6, <1>7, <1>8 DEF Step, Caller

(* Every step of a call is a step of AsyncCall, or changes nothing there.  *)
THEOREM ImplementsAsyncCallSafety == Spec => Abstract!Init /\ [][Abstract!Next]_(Abstract!vars)
<1>1. Init => Abstract!Init
    BY DEF Init, Abstract!Init, Status
<1>2. IInv /\ [Next]_vars => [Abstract!Next]_(Abstract!vars)
  <2> SUFFICES ASSUME IInv, [Next]_vars
               PROVE  [Abstract!Next]_(Abstract!vars)
    OBVIOUS
  <2> DEFINE status == [c \in Call |-> Status(c)]
  <2>1. CASE UNCHANGED vars
    BY <2>1 DEF vars, Abstract!vars, Status
  <2>2. CASE Next
    <3>1. PICK c \in Call : Step(c)
      BY <2>2 DEF Next, Step
    <3>2. \A d \in Call \ {c} : Status(d)' = Status(d)
      BY <3>1, StepStatus
    <3>3. CASE Status(c)' = Status(c) /\ crashed' \in {crashed, TRUE}
      <4>1. status' = status
        BY <3>2, <3>3
      <4> QED
        BY <3>3, <4>1 DEF Abstract!Next, Abstract!Crash, Abstract!vars
    <3>4. CASE /\ ~crashed /\ crashed' = crashed
               /\ <<Status(c), Status(c)'>> \in
                     {<<"idle", "pending">>, <<"idle", "threw">>, <<"pending", "threw">>,
                      <<"pending", "calledBack">>}
      <4>1. status' = [status EXCEPT ![c] = Status(c)']
        BY <3>2
      <4>2. Abstract!Becomes(c, Status(c)')
        BY <3>4, <4>1 DEF Abstract!Becomes
      <4> QED
        BY <3>4, <4>2 DEF Abstract!Next, Abstract!Begin, Abstract!Throw, Abstract!CallBack
    <3> QED
      BY <3>1, <3>3, <3>4, StepStatus
  <2> QED
    BY <2>1, <2>2
<1> QED
    BY <1>1, <1>2, ClientInductive, PTL DEF Spec

=============================================================================
