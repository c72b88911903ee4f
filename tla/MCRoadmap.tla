------------------------------ MODULE MCRoadmap ------------------------------
(* Instances of Roadmap for TLC. *)
EXTENDS Roadmap, TLC

Symmetry == Permutations(Request) \cup Permutations(Work) \cup Permutations(Copy)
=============================================================================
