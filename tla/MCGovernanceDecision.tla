------------------------ MODULE MCGovernanceDecision ------------------------
(* Instances of GovernanceDecision for TLC. *)
EXTENDS GovernanceDecision, TLC

\* FREE and STANDARD scaled down, and SOVEREIGN.
MCLimits == {1, 2, Unlimited}
MCTwoLimits == {1, Unlimited}

\* Requests are interchangeable.
RequestSymmetry == Permutations(Requests)
=============================================================================
