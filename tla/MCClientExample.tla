-------------------------- MODULE MCClientExample --------------------------
(***************************************************************************)
(* The client example with three of its five calls and the nested one.       *)
(***************************************************************************)
EXTENDS ClientExample

CONSTANTS get, post, put, getAgain

MCCall == {get, post, put, getAgain}
MCMainCalls == <<get, post, put>>

=============================================================================
