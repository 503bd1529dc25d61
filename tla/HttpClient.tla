----------------------------- MODULE HttpClient -----------------------------
(***************************************************************************)
(* Calls of HttpClient::CallAsync.  A call resolves its host in an         *)
(* io_context of its own, which a detached thread runs, and goes on from   *)
(* there on the executor of the client: connect, handshake for https,      *)
(* write, read, each started by the completion handler of the one before.  *)
(*                                                                         *)
(* Four parties take part in the start of a call: the caller, which may be *)
(* any thread; the thread inside Asio's resolver service, which looks the  *)
(* host up; the detached thread; and the executor.  The resolver is a      *)
(* local of CallAsync: it dies when CallAsync returns, and cancels a       *)
(* lookup that has not begun.  The io_context it belongs to dies when the  *)
(* detached thread ends.                                                   *)
(*                                                                         *)
(* The definitions that nothing uses (ReadHandlerForgets...) are plausible *)
(* mistakes in the operator that follows them, kept to show that the       *)
(* properties catch them.                                                  *)
(***************************************************************************)
EXTENDS Naturals, Sequences

CONSTANTS
    Call,     \* the calls made
    Https     \* those of them whose URL has the scheme https

ASSUME ClientAssumption == Https \subseteq Call

VARIABLES
    caller,    \* the thread in CallAsync: idle, resolving, spawned, returned, threw
    lookup,    \* the resolver's operation: none, queued, running; or its result
    runner,    \* the detached thread: none, running, ended
    op,        \* what the call waits for on the executor
    results,   \* what the callback was called with
    written,   \* how often the request was written
    crashed    \* whether the process has crashed

vars == <<caller, lookup, runner, op, results, written, crashed>>

-----------------------------------------------------------------------------
(* CallAsync, on the thread of the caller.                                 *)

Results == {"aborted", "notFound", "found"}

CallAsync(c) ==
    /\ ~crashed
    /\ caller[c] = "idle"
    /\ caller' = [caller EXCEPT ![c] = "resolving"]
    /\ lookup' = [lookup EXCEPT ![c] = "queued"]
    /\ op' = [op EXCEPT ![c] = "resolve"]
    /\ UNCHANGED <<runner, results, written, crashed>>

(* ParseUrl finds no scheme, or no number for the port.                    *)
UrlThrows(c) ==
    /\ ~crashed
    /\ caller[c] = "idle"
    /\ caller' = [caller EXCEPT ![c] = "threw"]
    /\ UNCHANGED <<lookup, runner, op, results, written, crashed>>

SpawnThread(c) ==
    /\ ~crashed
    /\ caller[c] = "resolving"
    /\ caller' = [caller EXCEPT ![c] = "spawned"]
    /\ runner' = [runner EXCEPT ![c] = "running"]
    /\ UNCHANGED <<lookup, op, results, written, crashed>>

(* No thread can be had: the exception destroys the io_context with the    *)
(* resolution and its handler in it.                                       *)
SpawnFails(c) ==
    /\ ~crashed
    /\ caller[c] = "resolving"
    /\ caller' = [caller EXCEPT ![c] = "threw"]
    /\ lookup' = [lookup EXCEPT ![c] = "none"]
    /\ op' = [op EXCEPT ![c] = "none"]
    /\ UNCHANGED <<runner, results, written, crashed>>

(* The resolver is destroyed, and the token that tells the lookup whether  *)
(* it is still wanted.  The detached thread may have been faster, and the  *)
(* io_context be gone: the destructor needs no more than the token.        *)
CallReturns(c) ==
    /\ ~crashed
    /\ caller[c] = "spawned"
    /\ caller' = [caller EXCEPT ![c] = "returned"]
    /\ UNCHANGED <<lookup, runner, op, results, written, crashed>>

-----------------------------------------------------------------------------
(* Resolving.                                                              *)

(* The resolver service takes up the lookup, and looks whether it has been *)
(* cancelled; once it runs it cannot be.                                   *)
LookupRuns(c) ==
    /\ ~crashed
    /\ lookup[c] = "queued"
    /\ lookup' = [lookup EXCEPT
                    ![c] = IF caller[c] = "returned" THEN "aborted" ELSE "running"]
    /\ UNCHANGED <<caller, runner, op, results, written, crashed>>

LookupEnds(c) ==
    /\ ~crashed
    /\ lookup[c] = "running"
    /\ \E r \in {"found", "notFound"} : lookup' = [lookup EXCEPT ![c] = r]
    /\ UNCHANGED <<caller, runner, op, results, written, crashed>>

(* The detached thread passes the result on to the executor, and run()     *)
(* returns for want of work.                                               *)
RunnerEnds(c) ==
    /\ ~crashed
    /\ runner[c] = "running"
    /\ lookup[c] \in Results
    /\ runner' = [runner EXCEPT ![c] = "ended"]
    /\ op' = [op EXCEPT ![c] = "resolved"]
    /\ UNCHANGED <<caller, lookup, results, written, crashed>>

-----------------------------------------------------------------------------
(* The chain of completion handlers on the executor.                       *)

Then(c, next) ==
    /\ op' = [op EXCEPT ![c] = next]
    /\ UNCHANGED results

CallBack(c, result) ==
    /\ op' = [op EXCEPT ![c] = "none"]
    /\ results' = [results EXCEPT ![c] = Append(@, result)]

ResolveHandlerInverted(c) ==
    /\ ~crashed
    /\ op[c] = "resolved"
    /\ IF lookup[c] # "found" THEN Then(c, "connect") ELSE CallBack(c, lookup[c])
    /\ UNCHANGED <<caller, lookup, runner, written, crashed>>

ResolveHandler(c) ==
    /\ ~crashed
    /\ op[c] = "resolved"
    /\ IF lookup[c] = "found" THEN Then(c, "connect") ELSE CallBack(c, lookup[c])
    /\ UNCHANGED <<caller, lookup, runner, written, crashed>>

(* SendRequestAsyncPlain gives *request to async_write in the same call    *)
(* whose handler takes the pointer away; in which order is unspecified.    *)
ConnectHandler(c) ==
    /\ ~crashed
    /\ op[c] = "connect"
    /\ \/ CallBack(c, "failed") /\ UNCHANGED crashed
       \/ c \in Https /\ Then(c, "handshake") /\ UNCHANGED crashed
       \/ c \notin Https /\ Then(c, "write") /\ crashed' \in BOOLEAN
    /\ UNCHANGED <<caller, lookup, runner, written>>

HandshakeHandler(c) ==
    /\ ~crashed
    /\ op[c] = "handshake"
    /\ Then(c, "write") \/ CallBack(c, "failed")
    /\ UNCHANGED <<caller, lookup, runner, written, crashed>>

WriteHandlerGoesOn(c) ==
    /\ ~crashed
    /\ op[c] = "write"
    /\ \/ Then(c, "read") /\ written' = [written EXCEPT ![c] = @ + 1]
       \/ /\ op' = [op EXCEPT ![c] = "read"]
          /\ results' = [results EXCEPT ![c] = Append(@, "failed")]
          /\ UNCHANGED written
    /\ UNCHANGED <<caller, lookup, runner, crashed>>

WriteHandler(c) ==
    /\ ~crashed
    /\ op[c] = "write"
    /\ \/ Then(c, "read") /\ written' = [written EXCEPT ![c] = @ + 1]
       \/ CallBack(c, "failed") /\ UNCHANGED written
    /\ UNCHANGED <<caller, lookup, runner, crashed>>

ReadHandlerForgets(c) ==
    /\ ~crashed
    /\ op[c] = "read"
    /\ CallBack(c, "response") \/ (op' = [op EXCEPT ![c] = "none"] /\ UNCHANGED results)
    /\ UNCHANGED <<caller, lookup, runner, written, crashed>>

ReadHandler(c) ==
    /\ ~crashed
    /\ op[c] = "read"
    /\ CallBack(c, "response") \/ CallBack(c, "failed")
    /\ UNCHANGED <<caller, lookup, runner, written, crashed>>

-----------------------------------------------------------------------------
Init ==
    /\ caller = [c \in Call |-> "idle"]
    /\ lookup = [c \in Call |-> "none"]
    /\ runner = [c \in Call |-> "none"]
    /\ op = [c \in Call |-> "none"]
    /\ results = [c \in Call |-> <<>>]
    /\ written = [c \in Call |-> 0]
    /\ crashed = FALSE

Caller(c) == CallAsync(c) \/ UrlThrows(c) \/ SpawnThread(c) \/ SpawnFails(c) \/ CallReturns(c)

Resolution(c) == LookupRuns(c) \/ LookupEnds(c) \/ RunnerEnds(c)

Handler(c) ==
    \/ ResolveHandler(c)
    \/ ConnectHandler(c)
    \/ HandshakeHandler(c)
    \/ WriteHandler(c)
    \/ ReadHandler(c)

Next == \E c \in Call : Caller(c) \/ Resolution(c) \/ Handler(c)

Spec == Init /\ [][Next]_vars

(* CallAsync runs to its end, lookups and the threads that wait for them   *)
(* go on, and every network operation ends: the client has no timeouts, so *)
(* this is asked of the network.                                           *)
Fairness(c) ==
    /\ WF_vars(SpawnThread(c) \/ SpawnFails(c))
    /\ WF_vars(CallReturns(c))
    /\ WF_vars(Resolution(c))
    /\ WF_vars(Handler(c))

FairSpec == Spec /\ \A c \in Call : Fairness(c)

-----------------------------------------------------------------------------
(* Properties.                                                             *)

(* Every variable has its type.                                            *)
TypeOK ==
    /\ caller \in [Call -> {"idle", "resolving", "spawned", "returned", "threw"}]
    /\ lookup \in [Call -> {"none", "queued", "running"} \cup Results]
    /\ runner \in [Call -> {"none", "running", "ended"}]
    /\ op \in [Call -> {"none", "resolve", "resolved", "connect", "handshake", "write",
                        "read"}]
    /\ results \in [Call -> Seq({"aborted", "notFound", "failed", "response"})]
    /\ written \in [Call -> Nat]
    /\ crashed \in BOOLEAN

(* A call has one thing going on: it waits for a step, or it has been      *)
(* called back, or it has thrown; so no callback comes after another or    *)
(* after an exception, whichever thread was faster.                        *)
OneEnd ==
    \A c \in Call :
        (IF op[c] # "none" THEN 1 ELSE 0) + Len(results[c])
            = IF caller[c] \in {"idle", "threw"} THEN 0 ELSE 1

(* A response is reported only for a request that was written, once, after *)
(* its host was found.                                                     *)
ResponseEarned ==
    \A c \in Call : results[c] = <<"response">> => written[c] = 1 /\ lookup[c] = "found"

(* The calls are calls of AsyncCall.                                       *)
Status(c) ==
    CASE caller[c] = "idle" -> "idle"
      [] caller[c] = "threw" -> "threw"
      [] OTHER -> IF results[c] = <<>> THEN "pending" ELSE "calledBack"

Abstract == INSTANCE AsyncCall WITH status <- [c \in Call |-> Status(c)]

(* A call throws or is called back, once and never both, and comes to an   *)
(* end, unless the process crashes.                                        *)
ImplementsAsyncCall == Abstract!Spec

(* A call is not aborted: nobody but the client itself could have done it. *)
NeverAborted == \A c \in Call : results[c] # <<"aborted">>

(* A request lives as long as it is being sent: no call crashes.           *)
RequestKept == ~crashed

=============================================================================
