-------------------------- MODULE MCCatalogueMerge --------------------------
(* Instances of CatalogueMerge for TLC. *)
EXTENDS CatalogueMerge, TLC

\* Rows with one natural key differ in nothing else.
Symmetry == Permutations(Request) \cup UNION {Permutations(k) : k \in Alike}
=============================================================================
