-------------------------- MODULE MCHttpConnection --------------------------
(* Small instances of HttpConnection: the configurations give the sizes. *)
EXTENDS HttpConnection
=============================================================================
