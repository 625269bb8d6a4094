-------------------------- MODULE ObjectDirectory --------------------------
(***************************************************************************)
(* What the object register of the ATK bridge promises a D-Bus client,     *)
(* with no mention of counters or hash tables.  A name (the D-Bus path of  *)
(* an accessible) is published for one incarnation of one object, names    *)
(* nothing but that incarnation for ever, and is retired when the          *)
(* incarnation is destroyed.                                               *)
(***************************************************************************)
CONSTANTS
  Name,          \* the names a client can be given
  Incarnation,   \* the objects named, one value for each life of an object
  Nobody         \* not an incarnation

VARIABLES
  used,          \* used[n] : every incarnation n was ever given out for
  bound          \* bound[n] : what n resolves to now, or Nobody

dirVars == <<used, bound>>

DirInit ==
  /\ used  = [n \in Name |-> {}]
  /\ bound = [n \in Name |-> Nobody]

\* A fresh name is given to an incarnation that has none.
Publish(n, i) ==
  /\ used[n] = {}
  /\ \A m \in Name : i \notin used[m]
  /\ used'  = [used EXCEPT ![n] = {i}]
  /\ bound' = [bound EXCEPT ![n] = i]

\* The incarnation a name stands for is destroyed.
Retire(n) ==
  /\ bound[n] # Nobody
  /\ bound' = [bound EXCEPT ![n] = Nobody]
  /\ UNCHANGED used

DirNext ==
  \/ \E n \in Name, i \in Incarnation : Publish(n, i)
  \/ \E n \in Name : Retire(n)

DirSpec == DirInit /\ [][DirNext]_dirVars
=============================================================================
