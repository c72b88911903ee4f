--------------------------- MODULE CatalogueMerge ---------------------------
(***************************************************************************)
(* Merging duplicate entities of one FRBR tier (works, say, whose children *)
(* are expressions): core/frbr_merge.py, the merge, split and reassign     *)
(* operations of core/frbr_service.py, and the review queue of             *)
(* core/duplicate_service.py.  A merge reads both rows, locks them in the  *)
(* order of their ids, moves what refers to the source onto the target,    *)
(* leaves a tombstone and deletes the source, in one transaction; a merge  *)
(* out of the review queue then marks the candidate in another.  Children  *)
(* stand for every table the merge repoints whose column is a foreign key  *)
(* with ON DELETE CASCADE; metadata is a set of facts, so that it matters  *)
(* which facts a row has and not what they say.  Entities and children are *)
(* not deleted other than by a merge here.                                 *)
(***************************************************************************)
EXTENDS Naturals, FiniteSets

CONSTANTS
  MaxEntity,     \* bound: entities ever created; ids are 1..MaxEntity
  Initial,       \* entities 1..Initial exist at the start
  Child,         \* rows with a foreign key to an entity
  Given,         \* children that exist at the start
  Alike,         \* sets of children with one natural key: they say the same of a parent
  Fact,          \* what an entity's metadata may say
  Request,       \* requests that run at the same time
  Similar,       \* pairs of entities that a scan takes for duplicates
  MaxHops        \* how far a tombstone is followed

ASSUME SizeAssumption == MaxEntity \in Nat /\ Initial \in 0..MaxEntity
ASSUME KeyAssumption == UNION Alike \subseteq Child
ASSUME BoundAssumption == MaxHops \in Nat

VARIABLES
  live,     \* ids of the rows that exist
  meta,     \* meta[e]: facts in e's committed metadata
  parent,   \* parent[c]: the entity c refers to, None if there is no row c
  tomb,     \* tomb[e]: target of e's merge_... audit row, None if none
  cand,     \* cand[p]: status of the candidate for the pair p
  request   \* request[r]: an operation between two of its steps

vars == <<live, meta, parent, tomb, cand, request>>

Entity == 1..MaxEntity
None == 0
Pair == {p \in SUBSET Entity : Cardinality(p) = 2}

\* Expressions, items and the like have no natural key, contributions and the like do.
Keyed == UNION Alike
Same(c, d) == c # d /\ \E k \in Alike : {c, d} \subseteq k

Idle == [pc |-> "idle"]

Merge == [pc : {"loaded", "first", "locked", "moved", "decide"},
          from : Entity, to : Entity, review : BOOLEAN,
          brought : SUBSET Fact, base : SUBSET Fact,  \* as loaded, source and target
          fresh : BOOLEAN,    \* history: the rows were as loaded when locked
          moved : SUBSET Child]
Save == [pc : {"save"}, e : Entity, base : SUBSET Fact]
Split == [pc : {"split"}, children : SUBSET (Child \ Keyed)]
Scan == [pc : {"scan"}, pair : Pair]
Dismissal == [pc : {"dismiss"}, pair : Pair]

TypeOK ==
  /\ live \subseteq Entity
  /\ meta \in [Entity -> SUBSET Fact]
  /\ parent \in [Child -> Entity \cup {None}]
  /\ tomb \in [Entity -> Entity \cup {None}]
  /\ \A e \in Entity : e \in live => tomb[e] = None
  /\ cand \in [Pair -> {"none", "pending", "merged", "dismissed"}]
  /\ request \in [Request -> {Idle} \cup Merge \cup Save \cup Split \cup Scan \cup Dismissal]

Init ==
  /\ live = 1..Initial
  /\ meta = [e \in Entity |-> {}]
  /\ parent \in [Child -> 1..Initial \cup {None}]
  /\ \A c \in Child : parent[c] # None <=> c \in Given
  /\ tomb = [e \in Entity |-> None]
  /\ cand = [p \in Pair |-> "none"]
  /\ request = [r \in Request |-> Idle]

Become(r, q) == request' = [request EXCEPT ![r] = q]

-----------------------------------------------------------------------------
(* Row locks. *)

\* Mutant: the source is locked before the target.
FirstSource(q) == q.from

\* ORDER BY id FOR UPDATE.
First(q) == IF q.from < q.to THEN q.from ELSE q.to

Second(q) == IF First(q) = q.from THEN q.to ELSE q.from

Holds(q) ==
  CASE q.pc = "first" -> {First(q)}
    [] q.pc \in {"locked", "moved"} -> {q.from, q.to}
    [] OTHER -> {}

Held == UNION {Holds(request[r]) : r \in Request}

\* Children whose rows a merge has updated and not yet committed.
Moving == UNION {request[r].moved : r \in {s \in Request : request[s].pc = "moved"}}

-----------------------------------------------------------------------------
(* A merge. *)

\* Both rows are read, with their metadata, before any lock.
Begin(r, s, t, review) ==
  /\ request[r] = Idle
  /\ s # t /\ {s, t} \subseteq live
  /\ review => cand[{s, t}] = "pending"
  /\ Become(r, [pc |-> "loaded", from |-> s, to |-> t, review |-> review,
                brought |-> meta[s], base |-> meta[t], fresh |-> FALSE, moved |-> {}])
  /\ UNCHANGED <<live, meta, parent, tomb, cand>>

\* Mutant: a row that is gone is not noticed.
PresentAny(e) == TRUE

\* len(locked) != 2: a row that was deleted while it was waited for is not
\* returned.
Present(e) == e \in live

LockFirst(r) ==
  LET q == request[r] IN
  /\ q.pc = "loaded"
  /\ First(q) \notin Held
  /\ Become(r, IF Present(First(q)) THEN [q EXCEPT !.pc = "first"] ELSE Idle)
  /\ UNCHANGED <<live, meta, parent, tomb, cand>>

LockSecond(r) ==
  LET q == request[r] IN
  /\ q.pc = "first"
  /\ Second(q) \notin Held
  /\ Become(r, IF Present(Second(q))
                 THEN [q EXCEPT !.pc = "locked",
                                !.fresh = meta[q.from] = q.brought /\ meta[q.to] = q.base]
                 ELSE Idle)
  /\ UNCHANGED <<live, meta, parent, tomb, cand>>

\* repoint_unique_child, repoint_semantic_links: one row after the other goes to the
\* target, unless one that says the same is there or has just gone there.
Collapses(q, moved) ==
  moved = {c \in Child : parent[c] = q.from /\
             ~\E d \in Child : Same(c, d) /\ (parent[d] = q.to \/ d \in moved)}

\* repoint_references: the rows that refer to the source are updated, and so
\* locked, or deleted; nobody else sees it yet.
Repoint(r) ==
  LET q == request[r] IN
  /\ q.pc = "locked"
  /\ \E moved \in SUBSET Child :
       /\ Collapses(q, moved)
       /\ Become(r, [q EXCEPT !.pc = "moved", !.moved = moved])
  /\ UNCHANGED <<live, meta, parent, tomb, cand>>

\* Mutant: the tombstone of a survivor is written instead of the source's.
BuryTarget(q) == tomb' = [tomb EXCEPT ![q.to] = q.from]

\* record_merge_tombstone.
Bury(q) == tomb' = [tomb EXCEPT ![q.from] = q.to]

\* The target's metadata is written if the merge of what was loaded changes it;
\* the source is deleted, and with it what refers to it still; so are the
\* children that were not moved.
CommitMerge(r) ==
  LET q == request[r]
      all == q.brought \cup q.base IN
  /\ q.pc = "moved"
  /\ meta' = [meta EXCEPT ![q.to] = IF all # q.base THEN all ELSE @, ![q.from] = {}]
  /\ parent' = [c \in Child |-> IF c \in q.moved THEN q.to
                                ELSE IF parent[c] = q.from THEN None ELSE parent[c]]
  /\ live' = live \ {q.from}
  /\ Bury(q)
  /\ Become(r, IF q.review THEN [q EXCEPT !.pc = "decide", !.moved = {}] ELSE Idle)
  /\ UNCHANGED cand

\* resolve_candidate_merge goes on: the candidate is marked whatever its status
\* has become.
Decide(r) ==
  LET q == request[r] IN
  /\ q.pc = "decide"
  /\ cand' = [cand EXCEPT ![{q.from, q.to}] = "merged"]
  /\ Become(r, Idle)
  /\ UNCHANGED <<live, meta, parent, tomb>>

\* Mutant: the merge is rolled back, and its exception not raised again.
FailSwallowed(r) ==
  LET q == request[r] IN
  /\ q # Idle
  /\ Become(r, IF q.pc = "moved" /\ q.review THEN [q EXCEPT !.pc = "decide", !.moved = {}] ELSE Idle)
  /\ UNCHANGED <<live, meta, parent, tomb, cand>>

\* Any failure, or the death of the process: what is not committed is undone.
Fail(r) ==
  /\ request[r] # Idle
  /\ Become(r, Idle)
  /\ UNCHANGED <<live, meta, parent, tomb, cand>>

-----------------------------------------------------------------------------
(* What else changes entities and their children. *)

\* Mutant: rows are not locked for the update.
EditUnlocked(e, f) ==
  /\ e \in live
  /\ meta' = [meta EXCEPT ![e] = @ \cup {f}]
  /\ UNCHANGED <<live, parent, tomb, cand, request>>

\* apply_custodian_provider_merge: lock, read again, write.
Edit(e, f) ==
  /\ e \in live \ Held
  /\ meta' = [meta EXCEPT ![e] = @ \cup {f}]
  /\ UNCHANGED <<live, parent, tomb, cand, request>>

\* The other editors read the row without a lock ...
LoadSave(r, e) ==
  /\ request[r] = Idle
  /\ e \in live
  /\ Become(r, [pc |-> "save", e |-> e, base |-> meta[e]])
  /\ UNCHANGED <<live, meta, parent, tomb, cand>>

\* ... and write it whole; if it is gone the UPDATE fails.
WriteSave(r, f) ==
  LET q == request[r] IN
  /\ q.pc = "save"
  /\ q.e \notin Held
  /\ meta' = IF q.e \in live THEN [meta EXCEPT ![q.e] = q.base \cup {f}] ELSE meta
  /\ Become(r, Idle)
  /\ UNCHANGED <<live, parent, tomb, cand>>

\* Mutant: the foreign key is not checked against the lock of the new parent.
AdoptUnlocked(c, e) ==
  /\ e \in live
  /\ c \notin Moving /\ (c \in Keyed => parent[c] = None)
  /\ parent' = [parent EXCEPT ![c] = e]
  /\ UNCHANGED <<live, meta, tomb, cand, request>>

\* A child is added under e, or reassign_frbr_parent, which knows no children
\* with a natural key, gives it e: the foreign key waits for whoever has e's row locked, and e must be there then.
Adopt(c, e) ==
  /\ e \in live \ Held
  /\ c \notin Moving /\ (c \in Keyed => parent[c] = None)
  /\ parent' = [parent EXCEPT ![c] = e]
  /\ UNCHANGED <<live, meta, tomb, cand, request>>

\* split_frbr_entity reads the children that are to go, which have no natural key ...
BeginSplit(r, s, cs) ==
  /\ request[r] = Idle
  /\ s \in live
  /\ cs # {} /\ \A c \in cs : parent[c] = s
  /\ Become(r, [pc |-> "split", children |-> cs])
  /\ UNCHANGED <<live, meta, parent, tomb, cand>>

Unused == {e \in Entity : e \notin live /\ tomb[e] = None}

\* ... and gives them to a new entity, wherever they are by now.
CommitSplit(r) ==
  LET q == request[r] IN
  /\ q.pc = "split"
  /\ q.children \cap Moving = {}
  /\ \E e \in Unused :
       /\ \A x \in Unused : e <= x
       /\ live' = live \cup {e}
       /\ parent' = [c \in Child |-> IF c \in q.children THEN e ELSE parent[c]]
  /\ Become(r, Idle)
  /\ UNCHANGED <<meta, tomb, cand>>

-----------------------------------------------------------------------------
(* The review queue. *)

\* run_detection: known pairs are passed over, the others screened.
Screen(r, p) ==
  /\ request[r] = Idle
  /\ p \in Similar /\ p \subseteq live
  /\ cand[p] = "none"
  /\ Become(r, [pc |-> "scan", pair |-> p])
  /\ UNCHANGED <<live, meta, parent, tomb, cand>>

\* record_candidate: the unique index has the last word.
Record(r) ==
  LET q == request[r] IN
  /\ q.pc = "scan"
  /\ cand' = [cand EXCEPT ![q.pair] = IF @ = "none" THEN "pending" ELSE @]
  /\ Become(r, Idle)
  /\ UNCHANGED <<live, meta, parent, tomb>>

BeginDismiss(r, p) ==
  /\ request[r] = Idle
  /\ cand[p] = "pending"
  /\ Become(r, [pc |-> "dismiss", pair |-> p])
  /\ UNCHANGED <<live, meta, parent, tomb, cand>>

\* dismiss_candidate writes without looking again.
Dismiss(r) ==
  LET q == request[r] IN
  /\ q.pc = "dismiss"
  /\ cand' = [cand EXCEPT ![q.pair] = "dismissed"]
  /\ Become(r, Idle)
  /\ UNCHANGED <<live, meta, parent, tomb>>

-----------------------------------------------------------------------------
MergeStep(r) ==
  \/ \E s, t \in live, review \in BOOLEAN : Begin(r, s, t, review)
  \/ LockFirst(r) \/ LockSecond(r) \/ Repoint(r) \/ CommitMerge(r) \/ Decide(r)

EditStep(r) ==
  \/ \E e \in live : LoadSave(r, e)
  \/ \E f \in Fact : WriteSave(r, f)
  \/ \E s \in live, cs \in SUBSET (Child \ Keyed) : BeginSplit(r, s, cs)
  \/ CommitSplit(r)

ReviewStep(r) ==
  \/ \E p \in Pair : Screen(r, p) \/ BeginDismiss(r, p)
  \/ Record(r) \/ Dismiss(r)

Next ==
  \/ \E r \in Request : MergeStep(r) \/ EditStep(r) \/ ReviewStep(r) \/ Fail(r)
  \/ \E e \in Entity : (\E f \in Fact : Edit(e, f)) \/ (\E c \in Child : Adopt(c, e))

Spec == Init /\ [][Next]_vars

-----------------------------------------------------------------------------
\* One hop: the target of e's tombstone, or e if it has none.
Follow(e) == IF tomb[e] = None THEN e ELSE tomb[e]

\* get_entity_tombstone: the tombstones of e are followed MaxHops times.  (It
\* would stop at an entity it has visited; CatalogueMergeProofs shows that it
\* meets none.)
Resolve(e) ==
  LET hop[n \in 0..MaxHops] == IF n = 0 THEN e ELSE Follow(hop[n - 1])
  IN  hop[MaxHops]

Merged == {e \in Entity : tomb[e] # None}

\* Whoever follows the tombstones of a merged entity comes to one that exists,
\* however merges of the same and of overlapping pairs, in either direction,
\* run into one another - as long as no more were merged than MaxHops.
SurvivorFound == Cardinality(Merged) <= MaxHops => \A e \in Merged : Resolve(e) \in live

\* lock_pair: no two merges ever wait for each other's rows.
NoMutualWait ==
  \A r, s \in Request :
    request[r].pc = "first" /\ request[s].pc = "first" =>
      ~(Second(request[r]) \in Holds(request[s]) /\ Second(request[s]) \in Holds(request[r]))

\* A merge destroys a child only where the survivor has one that says the same:
\* whatever else is added or reassigned to the source while the merge runs is
\* moved along, or not accepted.
ChildrenSurvive ==
  [][\A c \in Child : parent[c] # None /\ parent'[c] = None =>
       LET e == tomb'[parent[c]] IN
       e # None /\ \E d \in Child : Same(c, d) /\ parent'[d] = e]_vars

\* A candidate is marked merged only when one of its two entities is gone: a
\* refused or failed merge leaves it in the queue.
MergedIsMerged == \A p \in Pair : cand[p] = "merged" => ~(p \subseteq live)

\* A pair that was decided is not queued again, whatever scans were under way.
DecisionsStand ==
  [][\A p \in Pair : cand[p] \in {"merged", "dismissed"} => cand'[p] # "pending"]_vars

\* What an edit commits between the locks of a merge and its commit is not
\* lost: if the rows were as loaded when they were locked, the survivor has the
\* facts of both as they are at the commit.
MergeKeepsFacts ==
  [][\A r \in Request :
       LET q == request[r] IN
       q.pc = "moved" /\ q.from \in live \ live' /\ q.fresh
         => meta[q.from] \cup meta[q.to] \subseteq meta'[q.to]]_vars
=============================================================================
