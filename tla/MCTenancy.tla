-------------------------------- MODULE MCTenancy --------------------------------
(* Instances of Tenancy for TLC. *)
EXTENDS Tenancy, TLC

\* Safety runs only.
TenancySymmetry == Permutations(Accounts) \cup Permutations(KeyIds) \cup Permutations(Routes)
==================================================================================
