------------------------- MODULE MCFederatedFollow -------------------------
(* Instances of FederatedFollow for TLC. *)
EXTENDS FederatedFollow, TLC

\* The two sides play the same part.
Symmetry == Permutations(Side)
=============================================================================
