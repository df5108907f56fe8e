----------------------------- MODULE MCBreaker -----------------------------
(* A few goroutines on one breaker. *)
EXTENDS CircuitBreaker, TLC
CONSTANTS g1, g2, g3
MCCallers == {g1, g2, g3}
=============================================================================
