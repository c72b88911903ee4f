--------------------------- MODULE MCItemCustody ----------------------------
(* Small instances of ItemCustody for TLC.                                 *)
EXTENDS ItemCustody, TLC

CONSTANTS u1, u2, u3

Body(s, b, n) == [status |-> s, borrower |-> b, named |-> n]

(* A new item without a loan.                                              *)
Plain == {Body("available", Absent, Absent)}

Symmetry == Permutations(Item) \cup Permutations(Loan)
                \cup Permutations(User) \cup Permutations(Request)

(* Federated singles a user out.                                           *)
LoanSymmetry == Permutations(Item) \cup Permutations(Loan) \cup Permutations(Request)
=============================================================================
