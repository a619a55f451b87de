---------------------------- MODULE MCAuditChain ----------------------------
(* Instances of AuditChain for TLC. *)
EXTENDS AuditChain, TLC

\* Instances and decisions are interchangeable; used in safety runs only.
ChainSymmetry == Permutations(Instances) \cup Permutations(Decisions)
=============================================================================
