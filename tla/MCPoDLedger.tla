---------------------------- MODULE MCPoDLedger -----------------------------
(* Instances of PoDLedger for TLC. *)
EXTENDS PoDLedger, TLC

\* Safety runs only: instances, tenants and intercepts are interchangeable.
PoDSymmetry == Permutations(Instances) \cup Permutations(Tenants) \cup Permutations(Intercepts)
=============================================================================
