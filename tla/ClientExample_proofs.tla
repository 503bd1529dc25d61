------------------------ MODULE ClientExample_proofs ------------------------
(***************************************************************************)
(* Proofs about ClientExample: its calls are those of HttpClient, and the  *)
(* io_context does not stop under one of them.                             *)
(***************************************************************************)
EXTENDS ClientExample, HttpClient_proofs

(* main has made some of its calls, and all of them when the context runs. *)
Progress ==
    /\ made \in 0 .. Len(MainCalls)
    /\ context \in {"created", "running", "stopped", "dead"}
    /\ context \in {"running", "stopped"} => made = Len(MainCalls)

LEMMA FirstIsCall == First \in Call /\ Nested \in Call
    BY ExampleAssumption DEF First

LEMMA NextIsCall ==
    ASSUME made \in 0 .. Len(MainCalls), made < Len(MainCalls)
    PROVE  MainCalls[made + 1] \in Call
    BY ExampleAssumption

LEMMA ProgressAlways == ExampleSpec => []Progress
<1>1. ExampleInit => Progress
    BY ExampleAssumption DEF ExampleInit, Progress
<1>2. Progress /\ [ExampleNext]_exampleVars => Progress'
  <2> SUFFICES ASSUME Progress, [ExampleNext]_exampleVars
               PROVE  Progress'
    OBVIOUS
  <2>0. Len(MainCalls) \in Nat
    BY ExampleAssumption
  <2> USE <2>0 DEF Progress
  <2>1. CASE UNCHANGED exampleVars
    BY <2>1 DEF exampleVars
  <2>2. CASE MainCalling
    BY <2>2 DEF MainCalling
  <2>3. CASE RunStarts
    BY <2>3 DEF RunStarts
  <2>4. CASE RunHandler \/ CallbackCalling \/ Resolving
    BY <2>4 DEF RunHandler, CallbackCalling, Resolving
  <2>5. CASE RunReturns
    BY <2>5 DEF RunReturns
  <2> QED
    BY <2>1, <2>2, <2>3, <2>4, <2>5 DEF ExampleNext
<1> QED
    BY <1>1, <1>2, PTL DEF ExampleSpec

(* A step of the example is a step of one call, or none of any.            *)
LEMMA ExampleStep ==
    ASSUME Progress, [ExampleNext]_exampleVars
    PROVE  [Next]_vars
<1>1. CASE UNCHANGED exampleVars
    BY <1>1 DEF exampleVars
<1>2. ASSUME NEW c \in Call, Calling(c)
      PROVE  Next
    BY <1>2 DEF Calling, Next, Caller
<1>3. CASE MainCalling
  <2>1. MainCalls[made + 1] \in Call
    BY <1>3, NextIsCall DEF Progress, MainCalling
  <2> QED
    BY <1>2, <1>3, <2>1 DEF MainCalling
<1>4. CASE CallbackCalling
    BY <1>2, <1>4, FirstIsCall DEF CallbackCalling
<1>5. CASE RunStarts \/ RunReturns
    BY <1>5 DEF RunStarts, RunReturns
<1>6. CASE RunHandler \/ Resolving
    BY <1>6 DEF RunHandler, Resolving, Next
<1> QED
    BY <1>1, <1>3, <1>4, <1>5, <1>6 DEF ExampleNext

(* The example makes its calls as HttpClient allows.                       *)
THEOREM ExampleImplementsClient == ExampleSpec => Spec
<1>1. ExampleInit => Init
    BY DEF ExampleInit
<1>2. Progress /\ [ExampleNext]_exampleVars => [Next]_vars
    BY ExampleStep
<1> QED
    BY <1>1, <1>2, ProgressAlways, PTL DEF ExampleSpec, Spec

(* The io_context never stops under a call, although nothing but the calls *)
(* keeps it at work: each step of a call is outstanding work, the lookup   *)
(* that another thread makes included.                                     *)
THEOREM NeverStopsEarly == ExampleSpec => []StoppedIsDone
<1>1. ExampleInit => StoppedIsDone
    BY DEF ExampleInit, StoppedIsDone
<1>2. IInv /\ Progress /\ StoppedIsDone /\ [ExampleNext]_exampleVars => StoppedIsDone'
  <2> SUFFICES ASSUME IInv, Progress, StoppedIsDone, [ExampleNext]_exampleVars,
                      context' = "stopped"
               PROVE  StoppedIsDone'
    BY DEF StoppedIsDone
  <2>1. CASE UNCHANGED exampleVars
    BY <2>1 DEF exampleVars, vars, StoppedIsDone, First
  <2>2. CASE RunReturns
    <3>1. ASSUME NEW c \in Call, caller[c] # "idle"
          PROVE  caller[c] = "threw" \/ results[c] # <<>>
      <4>1. op[c] = "none" /\ Stage(c)
        BY <2>2 DEF RunReturns, Work, IInv
      <4> QED
        BY <3>1, <4>1 DEF Stage, NotMade, LookingUp, OnExecutor, Over
    <3>2. results[First] = <<"response">> => caller[Nested] # "idle"
      BY <2>2 DEF RunReturns, InCallback
    <3> QED
      BY <2>2, <3>1, <3>2 DEF RunReturns, Progress, StoppedIsDone, vars, First
  <2>3. CASE Resolving
    <3>1. UNCHANGED <<caller, results, made, context>>
      BY <2>3 DEF Resolving, Resolution, LookupRuns, LookupEnds, RunnerEnds
    <3> QED
      BY <3>1 DEF StoppedIsDone, First
  <2>4. CASE MainCalling \/ RunStarts \/ RunHandler \/ CallbackCalling
    <3>1. Len(MainCalls) \in Nat
      BY ExampleAssumption
    <3> QED
      BY <2>4, <3>1 DEF MainCalling, RunStarts, RunHandler, CallbackCalling, Progress
  <2> QED
    BY <2>1, <2>2, <2>3, <2>4 DEF ExampleNext
<1> QED
    BY <1>1, <1>2, ClientInductive, ExampleImplementsClient, ProgressAlways, PTL DEF ExampleSpec

=============================================================================
