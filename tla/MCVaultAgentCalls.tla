-------------------------- MODULE MCVaultAgentCalls --------------------------
(* Small instances of VaultAgentCalls for TLC. *)
EXTENDS VaultAgentCalls, TLC

(* Neither clients nor keys are told apart by the code. *)
Symmetry == Permutations(Client) \cup Permutations(Fingerprint)

ClientSymmetry == Permutations(Client)
=============================================================================
