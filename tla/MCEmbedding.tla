---------------------------- MODULE MCEmbedding -----------------------------
(* Each application has a socket and a plug for the other, or for itself,  *)
(* and y has a second plug.                                                *)
EXTENDS Embedding, TLC
CONSTANTS x, y, s1, s2, p1, p2, p3
MCProc == {x, y}
MCSocket == {s1, s2}
MCPlug == {p1, p2, p3}
MCOwner == s1 :> x @@ s2 :> y @@ p1 :> y @@ p2 :> y @@ p3 :> x
MCQuery == 1 .. 2
=============================================================================
