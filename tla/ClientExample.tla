--------------------------- MODULE ClientExample ---------------------------
(***************************************************************************)
(* The client example: main makes its calls, all of them https, and then   *)
(* one thread runs the io_context.  The callback of the first call makes   *)
(* another one, on that thread.                                            *)
(*                                                                         *)
(* Nothing but the calls keeps the io_context at work.  When run() returns *)
(* for want of work the context is stopped for good: the thread calls      *)
(* run() again and again, without restart(), and each returns at once.     *)
(*                                                                         *)
(* The definitions that nothing uses (WorkOfHandlers...) are plausible     *)
(* mistakes in the operator that follows them, kept to show that the       *)
(* properties catch them.                                                  *)
(***************************************************************************)
EXTENDS HttpClient

CONSTANTS
    MainCalls,   \* the calls main makes, in this order
    Nested       \* the call the callback of the first of them makes

ASSUME ExampleAssumption ==
    /\ Https = Call
    /\ MainCalls \in Seq(Call \ {Nested}) /\ MainCalls # <<>>
    /\ Nested \in Call

VARIABLES
    made,      \* how many of its calls main has made
    context    \* the io_context: created, running, stopped; or dead, when an
               \* exception has left main

exampleVars == <<vars, made, context>>

-----------------------------------------------------------------------------
First == MainCalls[1]

(* The steps of CallAsync for a URL that is well formed.                   *)
Calling(c) == CallAsync(c) \/ SpawnThread(c) \/ SpawnFails(c) \/ CallReturns(c)

(* The thread is in the callback of the first call, which calls on.        *)
InCallback ==
    /\ results[First] = <<"response">>
    /\ caller[Nested] \notin {"returned", "threw"}

WorkOfHandlers == {c \in Call : op[c] \notin {"none", "resolve"}}

(* What keeps run() from returning: a resolution counts as well, because   *)
(* its handler is bound to the executor of the client.                     *)
Work == {c \in Call : op[c] # "none"}

(* main makes its calls one after the other; it catches nothing.           *)
MainCalling ==
    /\ context # "dead"
    /\ made < Len(MainCalls)
    /\ LET c == MainCalls[made + 1] IN
        /\ Calling(c)
        /\ made' = IF caller'[c] = "returned" THEN made + 1 ELSE made
        /\ context' = IF caller'[c] = "threw" THEN "dead" ELSE context

RunStartsFirst ==
    /\ context = "created"
    /\ context' = "running"
    /\ UNCHANGED <<vars, made>>

(* The thread that calls run() is started last.                            *)
RunStarts ==
    /\ context = "created"
    /\ made = Len(MainCalls)
    /\ context' = "running"
    /\ UNCHANGED <<vars, made>>

RunHandler ==
    /\ context = "running"
    /\ ~InCallback
    /\ \E c \in Call : Handler(c)
    /\ UNCHANGED <<made, context>>

(* An exception leaves the callback and run(), which is called again.      *)
CallbackCalling ==
    /\ context = "running"
    /\ InCallback
    /\ Calling(Nested)
    /\ UNCHANGED <<made, context>>

RunReturns ==
    /\ context = "running"
    /\ ~InCallback
    /\ Work = {}
    /\ context' = "stopped"
    /\ UNCHANGED <<vars, made>>

Resolving ==
    /\ context # "dead"
    /\ \E c \in Call : Resolution(c)
    /\ UNCHANGED <<made, context>>

-----------------------------------------------------------------------------
ExampleInit ==
    /\ Init
    /\ made = 0
    /\ context = "created"

ExampleNext ==
    \/ MainCalling
    \/ RunStarts
    \/ RunHandler
    \/ CallbackCalling
    \/ RunReturns
    \/ Resolving

ExampleSpec == ExampleInit /\ [][ExampleNext]_exampleVars

(* main and the thread go on, lookups end, and so does every network       *)
(* operation, whose handler is then run.                                   *)
ExampleFairSpec ==
    /\ ExampleSpec
    /\ WF_exampleVars(MainCalling)
    /\ WF_exampleVars(RunStarts)
    /\ WF_exampleVars(CallbackCalling)
    /\ WF_exampleVars(RunReturns)
    /\ \A c \in Call :
        /\ WF_exampleVars(Resolving /\ Resolution(c))
        /\ WF_exampleVars(RunHandler /\ Handler(c))

-----------------------------------------------------------------------------
(* Properties.                                                             *)

(* The io_context never stops under a call: when it is stopped every call  *)
(* has thrown or been called back, the one made in a callback included.    *)
StoppedIsDone ==
    context = "stopped" =>
        /\ made = Len(MainCalls)
        /\ \A c \in Call : caller[c] # "idle" => caller[c] = "threw" \/ results[c] # <<>>
        /\ results[First] = <<"response">> => caller[Nested] # "idle"

(* Every call main has made is called back, and the example then comes to  *)
(* rest.                                                                   *)
EveryCallEnds ==
    /\ \A c \in Call : caller[c] = "returned" ~> results[c] # <<>> \/ context = "dead"
    /\ <>(context \in {"stopped", "dead"})

=============================================================================
