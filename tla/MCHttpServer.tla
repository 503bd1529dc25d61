---------------------------- MODULE MCHttpServer ----------------------------
(***************************************************************************)
(* Instances of HttpServer for TLC: the endpoints of MCHttpConnection, and *)
(* clients that send one kind of request.                                  *)
(***************************************************************************)
EXTENDS HttpServer, MCHttpConnection

MCOneRequest == {Ready}

=============================================================================
