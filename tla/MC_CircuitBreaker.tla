------------------------- MODULE MC_CircuitBreaker -------------------------
(* Model-checking instance of CircuitBreaker. *)
EXTENDS CircuitBreaker
=============================================================================
