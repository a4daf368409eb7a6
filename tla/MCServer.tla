------------------------------ MODULE MCServer ------------------------------
(* Server on a small instance.                                             *)
EXTENDS Server, TLC

CONSTANTS c1, c2, c3, c4

\* Two connections may call and a third may open a stream.  The fourth
\* comes from outside the control plane.
Few == c1 :> {"body"} @@ c2 :> {"body"}
         @@ c3 :> {"streaming", "leaving"} @@ c4 :> {"leaving"}
=============================================================================
