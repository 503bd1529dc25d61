----------------------------- MODULE AsyncCall -----------------------------
(***************************************************************************)
(* What an asynchronous call promises: it throws, or it is called back,    *)
(* once and never both; and a call that has begun comes to an end.         *)
(***************************************************************************)
CONSTANT Call

VARIABLES
    status,    \* idle, pending, threw, calledBack
    crashed    \* whether the process has crashed

vars == <<status, crashed>>

Init ==
    /\ status = [c \in Call |-> "idle"]
    /\ crashed = FALSE

Becomes(c, s) ==
    /\ ~crashed
    /\ status' = [status EXCEPT ![c] = s]
    /\ UNCHANGED crashed

Begin(c) == status[c] = "idle" /\ Becomes(c, "pending")
Throw(c) == status[c] \in {"idle", "pending"} /\ Becomes(c, "threw")
CallBack(c) == status[c] = "pending" /\ Becomes(c, "calledBack")
Crash == crashed' = TRUE /\ UNCHANGED status

Next == Crash \/ \E c \in Call : Begin(c) \/ Throw(c) \/ CallBack(c)

Spec == Init /\ [][Next]_vars /\ \A c \in Call : WF_vars(CallBack(c))

=============================================================================
