------------------------------- MODULE MCAccounts -------------------------------
(* Instances of Accounts for TLC. *)
EXTENDS Accounts, TLC

\* Safety runs only.  Idle picks an email, so emails are not interchangeable.
AccountsSymmetry == Permutations(Handlers) \cup Permutations(Tokens)
=================================================================================
