-------------------------- MODULE MCCircuitBreaker --------------------------
(* Instances of CircuitBreaker for TLC. *)
EXTENDS CircuitBreaker, TLC

\* The handlers are interchangeable; used in safety runs only.
HandlerSymmetry == Permutations(Handlers)
=============================================================================
