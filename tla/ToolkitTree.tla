---------------------------- MODULE ToolkitTree ----------------------------
(* The toolkit's tree of objects as ATK shows it to the adaptors: the      *)
(* children of an object in their order, its parent, its index among them. *)
EXTENDS AtkObjects, Naturals, Sequences, SequencesExt

CONSTANT Trees  \* functions from objects to sequences of children

\* p and what is below it: what every set has that is closed under children
Subtree(t, p) ==
  {x \in Object : \A S \in SUBSET Object :
                    p \in S /\ (\A y \in S : ToSet(t[y]) \subseteq S) => x \in S}

(* Every object is a child once at most, and none is below itself.  There  *)
(* may be several roots: the objects of an application that is gone.       *)
IsForest(t) ==
  /\ t \in [Object -> Seq(Object)]
  /\ \A p, q \in Object : \A i \in DOMAIN t[p], j \in DOMAIN t[q] :
       t[p][i] = t[q][j] => p = q /\ i = j
  /\ \A p \in Object : \A c \in ToSet(t[p]) : p \notin Subtree(t, c)

ASSUME TreesAssumption == Null \notin Object /\ \A t \in Trees : IsForest(t)

\* atk_object_get_parent and atk_object_get_index_in_parent
Parent(t, o) ==
  IF \E p \in Object : o \in ToSet(t[p])
    THEN CHOOSE p \in Object : o \in ToSet(t[p]) ELSE Null
Index(t, o) == CHOOSE i \in DOMAIN t[Parent(t, o)] : t[Parent(t, o)][i] = o

(* Right of a: in the subtree of a later sibling of a, or of a later       *)
(* sibling of something that a is below.                                   *)
RightOf(t, a) ==
  {b \in Object : \E p \in Object : \E i, j \in DOMAIN t[p] :
     i < j /\ a \in Subtree(t, t[p][i]) /\ b \in Subtree(t, t[p][j])}

Below(t, p) == Subtree(t, p) \ {p}

\* document order: an object, what is below it, its next sibling
Precedes(t, a, b) == b \in Below(t, a) \cup RightOf(t, a)
========================================
