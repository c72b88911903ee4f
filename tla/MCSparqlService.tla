-------------------------- MODULE MCSparqlService ---------------------------
(* Small instances of SparqlService for TLC.                               *)
EXTENDS SparqlService, TLC

Symmetry == Permutations(Worker) \cup Permutations(Thread)
                \cup Permutations(Job) \cup Permutations(Pid)
=============================================================================
