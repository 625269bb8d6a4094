------------------------------ MODULE MCDRoute ------------------------------
(* One address beside the root's, allocated up to four times, on three     *)
(* references: 2 and 3 are printed with a minus sign, and the counter may  *)
(* wrap.  Two calls, one of which may run inside the other.                *)
EXTENDS DRoute

AllMembers == Calls
=============================================================================
