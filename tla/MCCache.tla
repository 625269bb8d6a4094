------------------------------ MODULE MCCache -------------------------------
(* MCCache.cfg: four objects below the root.  a, b and d can form a chain, *)
(* be siblings or hang under each other; d manages its descendants, e is   *)
(* transient.  MCCacheReentrant.cfg: a window a and its child b, from a    *)
(* toolkit that changes its tree while the bridge asks it.                 *)
EXTENDS Cache, FiniteSets

CONSTANTS a, b, d, e

MixedTrees ==
  {<<Root, a>>, <<Root, b>>, <<a, b>>, <<a, d>>, <<b, d>>, <<a, e>>, <<d, e>>}

Chain == {<<Root, a>>, <<a, b>>}

\* every forest that MayHold allows, each object's children in some order
Forests ==
  LET parents == {f \in [Object -> Object \cup {Null}] :
                    \A o \in Object : f[o] # Null => <<f[o], o>> \in MayHold}
  IN  {[p \in Object |-> SetToSeq({o \in Object : f[o] = p})] :
         f \in {g \in parents : g[e] \notin ManagesDescendants}}

RootAlone == {[p \in Object |-> <<>>]}
=============================================================================
