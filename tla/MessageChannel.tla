--------------------------- MODULE MessageChannel ---------------------------
(***************************************************************************)
(* What the sending side of a websocket session promises its user: the     *)
(* messages handed to it reach the peer in the order they were handed over,*)
(* whole, each with its own type, and none twice; and as long as the       *)
(* channel is not broken every one of them gets there.                     *)
(***************************************************************************)
EXTENDS Naturals, Sequences

CONSTANT Message

VARIABLES
    accepted,   \* the messages handed to the channel
    delivered,  \* the messages that have reached the peer
    broken      \* whether the channel has stopped delivering

vars == <<accepted, delivered, broken>>

Init ==
    /\ accepted = <<>>
    /\ delivered = <<>>
    /\ broken = FALSE

Accept ==
    /\ \E m \in Message : accepted' = Append(accepted, m)
    /\ UNCHANGED <<delivered, broken>>

Deliver ==
    /\ Len(delivered) < Len(accepted)
    /\ delivered' = SubSeq(accepted, 1, Len(delivered) + 1)
    /\ UNCHANGED <<accepted, broken>>

Break ==
    /\ broken' = TRUE
    /\ UNCHANGED <<accepted, delivered>>

Next == Accept \/ Deliver \/ Break

Spec == Init /\ [][Next]_vars /\ WF_vars(~broken /\ Deliver)

=============================================================================
