---------------------------- MODULE MCTrustStore ----------------------------
(* Small instances of TrustStore for TLC. *)
EXTENDS TrustStore, TLC

Symmetry == Permutations(Cmds) \cup Permutations(Clients) \cup Permutations(Ids)
=============================================================================
