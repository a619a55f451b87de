--------------------------- MODULE MCSamlConnections ---------------------------
(* Instances of SamlConnections for TLC. *)
EXTENDS SamlConnections, TLC

\* Safety runs only: domains and handlers are interchangeable.
SamlSymmetry == Permutations(Domains) \cup Permutations(SsoHandlers)
================================================================================
