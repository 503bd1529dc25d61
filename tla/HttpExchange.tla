---------------------------- MODULE HttpExchange ----------------------------
(***************************************************************************)
(* What an AtlasHttp connection promises its client, with none of the      *)
(* objects and threads that keep the promise: requests are served one at a *)
(* time and in the order they were sent, each served request is answered   *)
(* at most once, and after an answer that closes the connection, or one    *)
(* that could not be delivered, there is no other.                         *)
(*                                                                         *)
(* A client that waits for each answer is served all its requests.  One    *)
(* that pipelines is promised less: with a request the server also takes   *)
(* whatever has arrived behind it, which may end inside another request,   *)
(* and it then reads the rest of that one as if it were requests.          *)
(***************************************************************************)
EXTENDS Naturals, Sequences

CONSTANT Conn

VARIABLES
    stage,    \* none, reading, serving, upgraded, closed
    asked,    \* how many requests the client has sent
    taken,    \* what the server has taken for requests, in order: the number of
              \* the client's request, or 0 for a piece of one
    past,     \* the last request the server has taken or passed over
    cut,      \* whether the server has taken the beginning of the one after it
    muted,    \* no further answer will be delivered
    answers   \* what the client has been answered

vars == <<stage, asked, taken, past, cut, muted, answers>>

Init ==
    /\ stage = [c \in Conn |-> "none"]
    /\ asked = [c \in Conn |-> 0]
    /\ taken = [c \in Conn |-> <<>>]
    /\ past = [c \in Conn |-> 0]
    /\ cut = [c \in Conn |-> FALSE]
    /\ muted = [c \in Conn |-> FALSE]
    /\ answers = [c \in Conn |-> <<>>]

Goes(c, from, to) ==
    /\ stage[c] = from
    /\ stage' = [stage EXCEPT ![c] = to]

Connect(c) ==
    /\ Goes(c, "none", "reading")
    /\ UNCHANGED <<asked, taken, past, cut, muted, answers>>

Ask(c) ==
    /\ asked' = [asked EXCEPT ![c] = @ + 1]
    /\ UNCHANGED <<stage, taken, past, cut, muted, answers>>

(* The server takes the next request, or a piece of the one it was cut in, *)
(* and passes over what else has arrived behind it, up to another cut.     *)
Take(c) ==
    /\ \E upTo \in past[c] .. asked[c], inside \in BOOLEAN :
          /\ inside => upTo < asked[c]
          /\ upTo > past[c] \/ (cut[c] /\ inside)
          /\ past' = [past EXCEPT ![c] = upTo]
          /\ cut' = [cut EXCEPT ![c] = inside]
    /\ taken' = [taken EXCEPT ![c] = Append(@, IF cut[c] THEN 0 ELSE past[c] + 1)]
    /\ UNCHANGED <<asked, muted, answers>>

Serve(c) == Goes(c, "reading", "serving") /\ Take(c)

Upgrade(c) == Goes(c, "reading", "upgraded") /\ Take(c)

(* A request that is taken but will not be served.                         *)
Abandon(c) ==
    /\ Goes(c, "reading", "reading") \/ Goes(c, "reading", "closed")
    /\ Take(c)

(* Serving ends, and the connection is ready for more or closes at once.   *)
EndsServing(c) ==
    /\ Goes(c, "serving", "reading") \/ Goes(c, "serving", "closed")
    /\ UNCHANGED <<asked, taken, past, cut>>

(* The answer is to what was taken last.                                   *)
Answer(c) ==
    /\ EndsServing(c)
    /\ ~muted[c]
    /\ \E closes \in BOOLEAN :
          /\ answers' = [answers EXCEPT ![c] =
                            Append(@, [for |-> Len(taken[c]), closes |-> closes])]
          /\ muted' = [muted EXCEPT ![c] = closes]

(* The answer cannot be delivered, or is lost.                             *)
Fail(c) ==
    /\ EndsServing(c)
    /\ muted' = [muted EXCEPT ![c] = TRUE]
    /\ UNCHANGED answers

Close(c) ==
    /\ stage[c] # "closed"
    /\ stage' = [stage EXCEPT ![c] = "closed"]
    /\ UNCHANGED <<asked, taken, past, cut, muted, answers>>

Next == \E c \in Conn :
    \/ Connect(c)
    \/ Ask(c)
    \/ Serve(c)
    \/ Upgrade(c)
    \/ Abandon(c)
    \/ Answer(c)
    \/ Fail(c)
    \/ Close(c)

Spec == Init /\ [][Next]_vars

=============================================================================
