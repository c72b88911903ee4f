------------------------- MODULE MCFtsReindexQueue -------------------------
(* Instances of FtsReindexQueue for TLC. *)
EXTENDS FtsReindexQueue
=============================================================================
