------------------------------- MODULE Roadmap -------------------------------
(***************************************************************************)
(* One reading roadmap: api/roadmap.py and db/roadmap.py.  Its entries     *)
(* carry their place in the list as a number, and every request that adds, *)
(* moves or deletes one first reads a number (a count, the entry's place)  *)
(* and then shifts the places of the others, in one transaction but with   *)
(* nothing locked in between.  Each entry targets a row of the catalogue   *)
(* or a copy of the reader, in one of four nullable columns, of which two  *)
(* are modelled: a work, which can be merged into another, and a copy.     *)
(* The target may be deleted or merged, by others, at any time.            *)
(***************************************************************************)
EXTENDS Naturals, FiniteSets

CONSTANTS
  MaxEntry,  \* bound: entries ever created; ids are 1..MaxEntry
  Work,      \* works of the catalogue
  Copy,      \* items of the roadmap's owner
  Request,   \* requests that run at the same time
  None       \* NULL

ASSUME EntryAssumption == MaxEntry \in Nat
ASSUME TargetAssumption == None \notin Work /\ None \notin Copy /\ Work \cap Copy = {}

VARIABLES
  at,       \* at[e]: the position of entry e, for the rows that exist
  ref,      \* ref[e]: its target columns
  made,     \* ids given out
  open,     \* the roadmap exists
  live,     \* works and copies that exist
  request,  \* request[r]: what a request has read, before it writes
  torn      \* history: a request wrote positions that were no longer those it read

vars == <<at, ref, made, open, live, request, torn>>

Entry == 1..MaxEntry
Target == Work \cup Copy
Ref == [work : Work \cup {None}, copy : Copy \cup {None}]

Row == DOMAIN at
Total == Cardinality(Row)

\* The columns that name target t.
Refers(t) == [work |-> IF t \in Work THEN t ELSE None,
              copy |-> IF t \in Copy THEN t ELSE None]

Named(c) == {c.work, c.copy} \ {None}

Idle == [op |-> "idle"]
Place == Nat \ {0}

TypeOK ==
  /\ Row \subseteq 1..made
  /\ at \in [Row -> Place]
  /\ ref \in [Row -> Ref]
  /\ made \in 0..MaxEntry
  /\ open \in BOOLEAN /\ torn \in BOOLEAN
  /\ live \subseteq Target
  /\ request \in [Request ->
       {Idle}
         \cup [op : {"add"}, want : Ref, count : Nat]
         \cup [op : {"move"}, e : Entry, old : Place, to : Place, count : Nat]
         \cup [op : {"delete"}, e : Entry, old : Place]
         \cup [op : {"retarget"}, e : Entry, base : Ref, want : Ref]]

Init ==
  /\ at = <<>> /\ ref = <<>>
  /\ made = 0
  /\ open = TRUE
  /\ live = Target
  /\ request = [r \in Request |-> Idle]
  /\ torn = FALSE

Become(r, q) == request' = [request EXCEPT ![r] = q]

-----------------------------------------------------------------------------
(* What a request reads. *)

\* _validate_target_payload: the target exists (and the copy is the reader's).
ReadAdd(r, t) ==
  /\ request[r] = Idle
  /\ open /\ t \in live
  /\ Become(r, [op |-> "add", want |-> Refers(t), count |-> Total])
  /\ UNCHANGED <<at, ref, made, open, live, torn>>

\* Positions that a client may ask for: beyond the end too, below 1 never.
Asked == 1..MaxEntry + 1

\* Mutant: a position beyond the end is taken as it is.
ClampNone(p) == p

\* max(1, min(new_position, total_items))
Clamp(p) == CASE p > Total /\ Total > 0 -> Total [] p < 1 \/ Total = 0 -> 1 [] OTHER -> p

\* Nothing is written when the entry is already there.
ReadMove(r, e, p) ==
  /\ request[r] = Idle
  /\ e \in Row
  /\ at[e] # Clamp(p)
  /\ Become(r, [op |-> "move", e |-> e, old |-> at[e], to |-> Clamp(p),
                count |-> Total])
  /\ UNCHANGED <<at, ref, made, open, live, torn>>

ReadDelete(r, e) ==
  /\ request[r] = Idle
  /\ e \in Row
  /\ Become(r, [op |-> "delete", e |-> e, old |-> at[e]])
  /\ UNCHANGED <<at, ref, made, open, live, torn>>

ReadRetarget(r, e, t) ==
  /\ request[r] = Idle
  /\ e \in Row
  /\ t \in live
  /\ Become(r, [op |-> "retarget", e |-> e, base |-> ref[e], want |-> Refers(t)])
  /\ UNCHANGED <<at, ref, made, open, live, torn>>

-----------------------------------------------------------------------------
(* What it writes. *)

\* What q read is still so (a list that has grown since leaves a move or a
\* deletion right).  The code does not ask; the history does.
Current(q) ==
  CASE q.op = "add" -> q.count = Total
    [] q.op = "move" -> q.e \in Row /\ at[q.e] = q.old /\ q.count <= Total
    [] q.op = "delete" -> q.e \in Row /\ at[q.e] = q.old

Tear(q) == torn' = (torn \/ ~Current(q))

\* A foreign key or the check constraint refuses the write; so does a worker
\* that dies, and a deadlock.
Fail(r) ==
  /\ request[r] # Idle
  /\ Become(r, Idle)
  /\ UNCHANGED <<at, ref, made, open, live, torn>>

WriteAdd(r) ==
  LET q == request[r] e == made + 1 IN
  /\ q.op = "add"
  /\ open /\ Named(q.want) \subseteq live
  /\ made < MaxEntry
  /\ made' = e
  /\ at' = [x \in Row \cup {e} |-> IF x = e THEN q.count + 1 ELSE at[x]]
  /\ ref' = [x \in Row \cup {e} |-> IF x = e THEN q.want ELSE ref[x]]
  /\ Tear(q)
  /\ Become(r, Idle)
  /\ UNCHANGED <<open, live>>

\* Mutant: the entry changes places with the one that is there.
Swapped(q) ==
  [x \in Row |-> CASE x = q.e -> q.to [] x # q.e /\ at[x] = q.to -> q.old [] OTHER -> at[x]]

\* The range between the old place and the new shifts by one, and the entry
\* takes the new place.
Shifted(q) ==
  [x \in Row |-> CASE x = q.e -> q.to
                   [] x # q.e /\ at[x] \in q.to..(q.old - 1) -> at[x] + 1
                   [] x # q.e /\ at[x] \in (q.old + 1)..q.to -> at[x] - 1
                   [] OTHER -> at[x]]

\* An entry deleted meanwhile makes the flush fail (Fail).
WriteMove(r) ==
  LET q == request[r] IN
  /\ q.op = "move"
  /\ q.e \in Row
  /\ at' = Shifted(q)
  /\ Tear(q)
  /\ Become(r, Idle)
  /\ UNCHANGED <<ref, made, open, live>>

\* Mutant: all the others close up.
CompactedAll(q) == [x \in Row \ {q.e} |-> at[x] - 1]

Compacted(q) == [x \in Row \ {q.e} |-> IF at[x] > q.old THEN at[x] - 1 ELSE at[x]]

\* The DELETE, then the entries beyond the old place close up: also when the
\* entry was deleted meanwhile, for a DELETE of no row is no error.
WriteDelete(r) ==
  LET q == request[r] IN
  /\ q.op = "delete"
  /\ at' = Compacted(q)
  /\ ref' = [x \in Row \ {q.e} |-> ref[x]]
  /\ Tear(q)
  /\ Become(r, Idle)
  /\ UNCHANGED <<made, open, live>>

\* The UPDATE of the columns in which want differs from what was loaded.
Merged(now, base, want) ==
  [work |-> IF want.work = base.work THEN now.work ELSE want.work,
   copy |-> IF want.copy = base.copy THEN now.copy ELSE want.copy]

\* Mutant: no check constraint.
Unconstrained(c) == TRUE

\* check_roadmap_item_single_frbr_level
Single(c) == Cardinality(Named(c)) = 1

WriteRetarget(r) ==
  LET q == request[r] new == Merged(ref[q.e], q.base, q.want) IN
  /\ q.op = "retarget"
  /\ q.e \in Row
  /\ Single(new) /\ Named(new) \subseteq live
  /\ ref' = [ref EXCEPT ![q.e] = new]
  /\ Become(r, Idle)
  /\ UNCHANGED <<at, made, open, live, torn>>

\* The whole roadmap, with the entries by cascade.
DeleteRoadmap ==
  /\ open
  /\ open' = FALSE
  /\ at' = <<>> /\ ref' = <<>>
  /\ UNCHANGED <<made, live, request, torn>>

-----------------------------------------------------------------------------
(* Others. *)

\* ON DELETE RESTRICT
Deletable(t) == t \in live /\ \A e \in Row : t \notin Named(ref[e])

DeleteTarget(t) ==
  /\ Deletable(t)
  /\ live' = live \ {t}
  /\ UNCHANGED <<at, ref, made, open, request, torn>>

\* A merge repoints work_id and deletes the source.
MergeWorks(s, t) ==
  /\ {s, t} \subseteq live /\ s # t
  /\ ref' = [e \in Row |-> IF ref[e].work = s THEN [ref[e] EXCEPT !.work = t] ELSE ref[e]]
  /\ live' = live \ {s}
  /\ UNCHANGED <<at, made, open, request, torn>>

Read(r) ==
  \/ \E t \in Target : ReadAdd(r, t)
  \/ \E e \in Entry : \E p \in Asked : ReadMove(r, e, p)
  \/ \E e \in Entry : ReadDelete(r, e)
  \/ \E e \in Entry : \E t \in Target : ReadRetarget(r, e, t)

Write(r) == WriteAdd(r) \/ WriteMove(r) \/ WriteDelete(r) \/ WriteRetarget(r) \/ Fail(r)

Next ==
  \/ \E r \in Request : Read(r) \/ Write(r)
  \/ DeleteRoadmap
  \/ \E t \in Target : DeleteTarget(t)
  \/ \E s \in Work : \E t \in Work : MergeWorks(s, t)

Spec == Init /\ [][Next]_vars

-----------------------------------------------------------------------------
(* Properties. *)

\* Until a request writes on positions that have changed since it read them,
\* the positions are 1 to the number of entries, each once, whatever
\* retargets, merges and deletions of targets come between: the arithmetic of
\* the appends, moves and compactions in api/roadmap.py.
Contiguous ==
  ~torn =>
    /\ \A e \in Row : at[e] \in 1..Total
    /\ \A e \in Row : \A f \in Row : at[e] = at[f] => e = f

\* Each entry has exactly one target, and it exists, whatever retargets
\* overlap with one another, with merges and with deletions: the UPDATE writes
\* only the columns that the request changed.
TargetsStand == \A e \in Row : \E t \in live : ref[e] = Refers(t)

\* The entry at each place.
Order == [i \in 1..Total |-> CHOOSE e \in Row : at[e] = i]

List == INSTANCE RoadmapList WITH order <- IF torn THEN <<>> ELSE Order

\* Shifting positions amounts to appending, moving and removing in a list:
\* the others keep their order, and an entry lands where it was asked to, or
\* last.
ActsAsList == List!Spec
=============================================================================
