--------------------------- MODULE MC_SpikeGuard ---------------------------
(* Model-checking instance of SpikeGuard. *)
EXTENDS SpikeGuard
=============================================================================
