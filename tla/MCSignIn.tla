------------------------------- MODULE MCSignIn -------------------------------
(* Instances of SignIn for TLC. *)
EXTENDS SignIn, TLC

Symmetry == Permutations(Request) \cup Permutations(Proc)

Sessions == {"login", "exchange", "call", "logout", "suspend", "fault"}
\* The second factor's settings and the login that it guards, three at a time.
Required == {"login", "enroll", "verify"}
Changed == {"enroll", "verify", "disable"}
Dropped == {"login", "enroll", "disable"}
Replays == {"enroll", "verify", "fault"}
MCMixes == {Sessions, Required, Changed, Dropped, Replays}
=============================================================================
