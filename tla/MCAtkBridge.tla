---------------------------- MODULE MCAtkBridge -----------------------------
(* MCAtkBridge.cfg: a window a and its child b, each address allocated up  *)
(* to twice.  MCAtkBridgeManaged.cfg: a manages its descendants, the       *)
(* transient b and the ordinary d, each allocated once, and a reference    *)
(* may be lost.  MCAtkBridgeLoaded.cfg: the bridge is loaded while the     *)
(* window a with its child b is already open.                              *)
EXTENDS AtkBridge

CONSTANTS a, b, d

RootAlone == {[p \in Object |-> <<>>]}
WindowOpen == {[p \in Object |-> IF p = Root THEN <<a>>
                                 ELSE IF p = a THEN <<b>> ELSE <<>>]}

Chain == {<<Root, a>>, <<a, b>>}
Managed == {<<Root, a>>, <<a, b>>, <<a, d>>}
=============================================================================
