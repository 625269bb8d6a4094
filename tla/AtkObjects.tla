----------------------------- MODULE AtkObjects -----------------------------
(* What every part of the bridge has in common: the toolkit's objects.     *)
(* An element of Object is an address: GObject may hand the same address   *)
(* to a new object once the old one is gone.                               *)
CONSTANTS
  Object,        \* addresses at which the toolkit allocates objects
  Root,          \* spi_global_app_data->root
  Null           \* a NULL pointer
=============================================================================
