------------------------- MODULE MCBridgeLifecycle --------------------------
EXTENDS BridgeLifecycle
CONSTANTS k1, k2
TwoKeys == {k1, k2}
=============================================================================
