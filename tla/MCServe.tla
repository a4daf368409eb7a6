------------------------------ MODULE MCServe -------------------------------
(* Serve on a small instance.                                              *)
EXTENDS Serve
=============================================================================
