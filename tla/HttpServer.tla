----------------------------- MODULE HttpServer -----------------------------
(***************************************************************************)
(* The accept loop of an HTTPServer over the connections of                *)
(* HttpConnection: StartAccept and its handler, which makes a connection   *)
(* of every socket accepted and arms the next accept; and Start and Stop,  *)
(* which another thread calls.                                             *)
(*                                                                         *)
(* Start is called for a server that does not listen; a Start that throws  *)
(* leaves the server as it was.                                            *)
(*                                                                         *)
(* The definitions that nothing uses (StopForgetsAccept, AcceptsOnce...)   *)
(* are plausible mistakes in the operator that follows them, kept to show  *)
(* that the properties catch them.                                         *)
(***************************************************************************)
EXTENDS HttpConnection

CONSTANT MaxErrors    \* bound: accepts that fail while the server listens

ASSUME ServerAssumption ==
    /\ MaxErrors \in Nat
    /\ Conn \cap {"none", "waiting", "failed"} = {}

VARIABLES
    acceptor,   \* _acceptor: closed or listening
    stop,       \* _shouldStop: unset, stopping (set, and Stop still runs), stopped
    accept,     \* the outstanding accept: none, waiting, failed, or the
                \* connection accepted, whose handler has not run yet
    backlog,    \* clients connected to the listening socket, not yet accepted
    errors      \* accepts that have failed

acceptVars == <<acceptor, stop, accept, backlog, errors>>
serverVars == <<vars, acceptVars>>

-----------------------------------------------------------------------------
(* _shouldStop is a plain bool: a handler that runs while Stop does may    *)
(* read it before or after it is set.                                      *)
ShouldStop ==
    CASE stop = "unset" -> {FALSE}
      [] stop = "stopping" -> BOOLEAN
      [] stop = "stopped" -> {TRUE}

StartAcceptIgnoresStop ==
    accept' = IF acceptor = "listening" THEN "waiting" ELSE "failed"

(* StartAccept, as the accept handler calls it at its end.  An accept on a *)
(* closed acceptor fails.                                                  *)
StartAccept ==
    \E shouldStop \in ShouldStop :
        accept' = IF shouldStop THEN "none"
                  ELSE IF acceptor = "listening" THEN "waiting" ELSE "failed"

StartServerArms ==
    /\ acceptor = "closed"
    /\ stop # "stopping"
    /\ acceptor' = "listening"
    /\ accept' = "waiting"
    /\ UNCHANGED <<vars, stop, backlog, errors>>

(* A stopped server that is started again listens and does not accept.     *)
StartServer ==
    /\ acceptor = "closed"
    /\ stop # "stopping"
    /\ acceptor' = "listening"
    /\ accept' = IF stop = "unset" THEN "waiting" ELSE accept
    /\ UNCHANGED <<vars, stop, backlog, errors>>

(* The first Stop sets the flag.                                           *)
StopBegins ==
    /\ stop = "unset"
    /\ stop' = "stopping"
    /\ UNCHANGED <<vars, acceptor, accept, backlog, errors>>

StopForgetsAccept ==
    /\ \/ stop = "stopping"
       \/ stop = "stopped" /\ acceptor = "listening"
    /\ stop' = "stopped"
    /\ acceptor' = "closed"
    /\ backlog' = {}
    /\ UNCHANGED <<vars, accept, errors>>

(* Closing the acceptor aborts the accept that waits and drops the backlog.*)
StopCloses ==
    /\ \/ stop = "stopping"
       \/ stop = "stopped" /\ acceptor = "listening"
    /\ stop' = "stopped"
    /\ acceptor' = "closed"
    /\ accept' = IF accept = "waiting" THEN "failed" ELSE accept
    /\ backlog' = {}
    /\ UNCHANGED <<vars, errors>>

-----------------------------------------------------------------------------
(* The operating system: clients arrive, and accepts complete.             *)

Arrives(c) ==
    /\ acceptor = "listening"
    /\ conn[c] = "none" /\ peer[c] = "open"
    /\ c \notin backlog /\ accept # c
    /\ backlog' = backlog \cup {c}
    /\ UNCHANGED <<vars, acceptor, stop, accept, errors>>

AcceptCompletes(c) ==
    /\ accept = "waiting"
    /\ c \in backlog
    /\ accept' = c
    /\ backlog' = backlog \ {c}
    /\ UNCHANGED <<vars, acceptor, stop, errors>>

AcceptErrs ==
    /\ accept = "waiting"
    /\ errors < MaxErrors
    /\ accept' = "failed"
    /\ errors' = errors + 1
    /\ UNCHANGED <<vars, acceptor, stop, backlog>>

-----------------------------------------------------------------------------
(* The accept handler.                                                     *)

AcceptsOnce(c) ==
    /\ accept = c
    /\ Open(c)
    /\ accept' = "none"
    /\ UNCHANGED <<acceptor, stop, backlog, errors>>

AcceptSucceeds(c) ==
    /\ accept = c
    /\ Open(c)
    /\ StartAccept
    /\ UNCHANGED <<acceptor, stop, backlog, errors>>

(* The exception passes by the call of StartAccept.                        *)
AcceptThrows(c) ==
    /\ accept = c
    /\ OpenThrows(c)
    /\ accept' = "none"
    /\ UNCHANGED <<acceptor, stop, backlog, errors>>

AcceptGivesUp ==
    /\ accept = "failed"
    /\ FreeThread
    /\ accept' = "none"
    /\ UNCHANGED <<vars, acceptor, stop, backlog, errors>>

AcceptFails ==
    /\ accept = "failed"
    /\ FreeThread
    /\ StartAccept
    /\ UNCHANGED <<vars, acceptor, stop, backlog, errors>>

AcceptHandler ==
    \/ \E c \in Conn : AcceptSucceeds(c) \/ AcceptThrows(c)
    \/ AcceptFails

-----------------------------------------------------------------------------
ServerInit ==
    /\ Init
    /\ acceptor = "closed"
    /\ stop = "unset"
    /\ accept = "none"
    /\ backlog = {}
    /\ errors = 0

Arrived(c) == conn[c] # "none" \/ c \in backlog \/ accept = c

(* Everything a connection does once it is there.                          *)
Pipeline(c) ==
    /\ Arrived(c)
    /\ Established(c) \/ UserCode(c) \/ Client(c)
    /\ UNCHANGED acceptVars

ServerNext ==
    \/ StartServer
    \/ StopBegins
    \/ StopCloses
    \/ AcceptErrs
    \/ AcceptHandler
    \/ \E c \in Conn : Arrives(c) \/ AcceptCompletes(c) \/ Pipeline(c)

ServerSpec == ServerInit /\ [][ServerNext]_serverVars

(* What the strand of a connection runs, whatever the client does.         *)
Strand(c) ==
    \/ HandshakeSucceeds(c)
    \/ HandshakeFails(c)
    \/ ReadEnds(c)
    \/ WriteHandler(c)
    \/ HandlerReturns(c)

(* The accept and its handler are served, and a Stop that has begun        *)
(* returns; every connection's strand runs what is ready, a TLS shutdown   *)
(* ends once its peer leaves, and keepers are dropped.                     *)
ServerFairSpec ==
    /\ ServerSpec
    /\ WF_serverVars(stop = "stopping" /\ StopCloses)
    /\ WF_serverVars(\E c \in Conn : AcceptCompletes(c))
    /\ WF_serverVars(AcceptHandler)
    /\ \A c \in Conn :
        /\ WF_serverVars(Strand(c) /\ UNCHANGED acceptVars)
        /\ WF_serverVars(peer[c] # "open" /\ ShutdownReturns(c) /\ UNCHANGED acceptVars)
        /\ WF_serverVars(Release(c) /\ UNCHANGED acceptVars)

-----------------------------------------------------------------------------
(* Properties.                                                             *)

(* Every variable of the accept loop has its type.                         *)
ServerTypeOK ==
    /\ acceptor \in {"closed", "listening"}
    /\ stop \in {"unset", "stopping", "stopped"}
    /\ accept \in {"none", "waiting", "failed"} \cup Conn
    /\ backlog \subseteq Conn
    /\ errors \in Nat

(* A server that has been started and not stopped always has an accept     *)
(* outstanding or a handler about to arm the next one; it is deaf only     *)
(* when the handler of a client that had reset already has thrown.         *)
Armed ==
    acceptor = "listening" /\ stop = "unset" /\ accept = "none"
        => \E c \in Conn : conn[c] = "lost"

(* Once Stop has returned no accept waits for a client, whatever the       *)
(* handler it raced with has read from _shouldStop, and however often the  *)
(* server is started again.                                                *)
StopIsFinal == stop = "stopped" => accept # "waiting"

(* A client that stays is accepted, unless the server is stopped or deaf.  *)
ClientsAdmitted ==
    \A c \in Conn :
        c \in backlog ~>
            \/ conn[c] = "http" \/ peer[c] # "open"
            \/ stop # "unset"
            \/ \E d \in Conn : conn[d] = "lost"

(* Nothing refers to the server any more: no accept handler, which has     *)
(* captured it, and no processor, which has references to its handler      *)
(* tables, is left.                                                        *)
Quiescent ==
    /\ stop = "stopped"
    /\ accept = "none"
    /\ \A c \in Conn : ~ProcessorHeld(c)

(* And nothing will: no step of a client, of user code that still keeps a  *)
(* responder, or of a second Start brings a reference back.  A server may  *)
(* be destroyed, also while the io_context runs, when it is quiescent (not *)
(* as soon as Stop has returned).                                          *)
QuiescentForEver == [][Quiescent => Quiescent']_serverVars

(* A stopped server whose clients have gone gets there, and leaves the     *)
(* io_context without work, so that run() returns.                         *)
Drains ==
    (/\ stop = "stopped" /\ accept \notin Conn
     /\ \A c \in Conn : conn[c] = "http" => peer[c] # "open")
        ~> Quiescent

=============================================================================
