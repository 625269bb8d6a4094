------------------------------ MODULE MCLeasing -----------------------------
(* One-second leases on a clock of quarter seconds.  The wall clock may be *)
(* set once and a callback stalls for at most a second.                    *)
EXTENDS Leasing

BackAndForth == {-1, 2}
=============================================================================
