----------------------------- MODULE RoadmapList -----------------------------
(***************************************************************************)
(* What a reading roadmap promises its reader: a list of entries to which  *)
(* one is appended, in which one is moved to a place and from which one is *)
(* removed, the others keeping their order.  The promise is made until a   *)
(* request acts on a list that has changed since it read it (torn).        *)
(***************************************************************************)
EXTENDS SequencesExt, Naturals

CONSTANT Entry

VARIABLES
  order,  \* the entries, first to last
  torn    \* a request has acted on a list it had not seen

Added == \E e \in Entry \ Range(order) : order' = Append(order, e)
Moved ==
  \E k \in 1..Len(order), n \in 1..Len(order) :
    order' = InsertAt(RemoveAt(order, k), n, order[k])
Removed == \E k \in 1..Len(order) : order' = RemoveAt(order, k)
Cleared == order' = <<>>
Torn == torn' /\ order' = <<>>

Init == order = <<>> /\ torn = FALSE

Next ==
  \/ ~torn /\ ~torn' /\ (Added \/ Moved \/ Removed \/ Cleared)
  \/ Torn

Spec == Init /\ [][Next]_<<order, torn>>
=============================================================================
