------------------------------ MODULE MCAttestation ------------------------------
(* Instances of Attestation for TLC: each tenant has an industry of its own, one *)
(* of them with a profile.                                                       *)
EXTENDS Attestation, TLC

CONSTANTS t1, t2

TwoSubmissions == {[tenant |-> t1, industry |-> "healthcare"],
                   [tenant |-> t2, industry |-> "retail"]}

\* Safety runs only.
AttestationSymmetry == Permutations(Requests) \cup Permutations(Signatures)
==================================================================================
