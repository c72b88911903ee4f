------------------------- MODULE MCAccountLifecycle -------------------------
(* Small instances of AccountLifecycle for TLC.                            *)
EXTENDS AccountLifecycle, TLC

CONSTANTS u1, u2, a1, a2, a3

(* No account of the instance is linked to a provider.                     *)
NoProvider == <<>>

(* u1 signs in with a provider that asserts a1.                            *)
ProviderOfU1 == u1 :> a1

(* With no provider every set of model values is interchangeable.          *)
Symmetry == Permutations(User) \cup Permutations(Address)
                \cup Permutations(Token) \cup Permutations(Request)
=============================================================================
