------------------------ MODULE CatalogueMergeProofs ------------------------
(***************************************************************************)
(* Proofs about CatalogueMerge, for any numbers of entities, children,     *)
(* facts, candidates and overlapping requests.                             *)
(***************************************************************************)
EXTENDS CatalogueMerge, FiniteSetTheorems, WellFoundedInduction, TLAPS

Operation == {Idle} \cup Merge \cup Save \cup Split \cup Scan \cup Dismissal

(* A merge is of two entities.                                             *)
Distinct == \A r \in Request : request[r] \in Merge => request[r].from # request[r].to

(* Two requests never have the same row locked, and a locked row exists.   *)
LocksExclusive ==
  \A r, s \in Request : r # s => Holds(request[r]) \cap Holds(request[s]) = {}
LocksLive == \A r \in Request : Holds(request[r]) \subseteq live

(* What repoint_references has found stays so until the commit: it moves    *)
(* whatever refers to the source, unless a row that says the same refers   *)
(* to the target, or will.                                                 *)
NoStrays ==
  \A r \in Request : request[r].pc = "moved" => Collapses(request[r], request[r].moved)

(* Locked rows are as they were when the second lock was taken.            *)
Frozen ==
  \A r \in Request : request[r].pc \in {"locked", "moved"} /\ request[r].fresh =>
    /\ meta[request[r].from] = request[r].brought
    /\ meta[request[r].to] = request[r].base

(* A candidate is marked for the sake of a tombstone.                      *)
Buried ==
  /\ \A r \in Request : request[r].pc = "decide" => tomb[request[r].from] # None
  /\ \A p \in Pair : cand[p] = "merged" => \E e \in p : tomb[e] # None

IInv ==
  /\ TypeOK /\ Distinct /\ LocksExclusive /\ LocksLive /\ NoStrays /\ Frozen /\ Buried

-----------------------------------------------------------------------------
(* What kind of operation a program counter belongs to.                    *)
LEMMA PcKind ==
  ASSUME NEW q \in Operation
  PROVE  /\ q.pc \in {"loaded", "first", "locked", "moved", "decide"} <=> q \in Merge
         /\ q.pc = "save" <=> q \in Save
         /\ q.pc = "split" <=> q \in Split
         /\ q.pc = "scan" <=> q \in Scan
         /\ q.pc = "dismiss" <=> q \in Dismissal
         /\ q.pc = "idle" <=> q = Idle
  BY DEF Operation, Idle, Merge, Save, Split, Scan, Dismissal

(* The two rows of a merge, in the order in which they are locked.         *)
LEMMA RowOrder ==
  ASSUME NEW q \in Merge, q.from # q.to
  PROVE  /\ First(q) \in Entity /\ Second(q) \in Entity
         /\ First(q) < Second(q)
         /\ {First(q), Second(q)} = {q.from, q.to}
  BY SizeAssumption DEF Merge, First, Second, Entity

LEMMA HoldsOf ==
  ASSUME NEW q
  PROVE  /\ q.pc = "first" => Holds(q) = {First(q)}
         /\ q.pc \in {"locked", "moved"} => Holds(q) = {q.from, q.to}
         /\ q.pc \notin {"first", "locked", "moved"} => Holds(q) = {}
  BY DEF Holds

(* A row nobody has locked is not among those of a request.                *)
LEMMA NotHeld ==
  ASSUME NEW e, e \notin Held, NEW r \in Request
  PROVE  e \notin Holds(request[r])
  BY DEF Held

LEMMA PairMember ==
  ASSUME NEW p \in Pair, NEW e \in p
  PROVE  e \in Entity
  BY DEF Pair

-----------------------------------------------------------------------------
LEMMA InitIInv == Init => IInv
<1> SUFFICES ASSUME Init PROVE IInv
    OBVIOUS
<1>1. 1..Initial \subseteq Entity
    BY SizeAssumption DEF Entity
<1>2. TypeOK
    BY <1>1 DEF Init, TypeOK
<1>3. \A r \in Request : request[r].pc = "idle" /\ request[r] = Idle
    BY DEF Init, Idle
<1>4. Idle \notin Merge
    BY DEF Idle, Merge
<1> QED
    BY <1>2, <1>3, <1>4, HoldsOf DEF IInv, Distinct, LocksExclusive, LocksLive, NoStrays,
       Frozen, Buried, Init

(* Types.                                                                  *)
LEMMA StepType == IInv /\ [Next]_vars => TypeOK'
<1> SUFFICES ASSUME IInv, [Next]_vars PROVE TypeOK'
    OBVIOUS
<1>0. /\ TypeOK
      /\ \A r \in Request : request[r] \in Operation
    BY DEF IInv, TypeOK, Operation
<1>a. ASSUME NEW r \in Request, NEW q \in Operation, Become(r, q)
      PROVE  request' \in [Request -> Operation]
    BY <1>0, <1>a DEF Become, TypeOK, Operation
<1>b. Idle \in Operation
    BY DEF Operation
<1> USE DEF TypeOK
<1>1. ASSUME NEW r \in Request, NEW s \in live, NEW t \in live, NEW review \in BOOLEAN,
             Begin(r, s, t, review)
      PROVE  TypeOK'
  <2> DEFINE q == [pc |-> "loaded", from |-> s, to |-> t, review |-> review,
                   brought |-> meta[s], base |-> meta[t], fresh |-> FALSE, moved |-> {}]
  <2>1. q \in Merge
      BY <1>0 DEF Merge
  <2>2. Become(r, q)
      BY <1>1 DEF Begin
  <2>3. request' \in [Request -> Operation]
      BY <2>1, <2>2, <1>a DEF Operation
  <2> QED
      BY <1>0, <1>1, <2>3 DEF Begin, Operation
<1>2. ASSUME NEW r \in Request, LockFirst(r) PROVE TypeOK'
  <2>1. request[r] \in Merge
      BY <1>0, <1>2, PcKind DEF LockFirst
  <2>2. [request[r] EXCEPT !.pc = "first"] \in Merge
      BY <2>1 DEF Merge
  <2>3. request' \in [Request -> Operation]
      BY <1>2, <2>2, <1>a, <1>b DEF LockFirst, Operation
  <2> QED
      BY <1>0, <1>2, <2>3 DEF LockFirst, Operation
<1>3. ASSUME NEW r \in Request, LockSecond(r) PROVE TypeOK'
  <2>1. request[r] \in Merge
      BY <1>0, <1>3, PcKind DEF LockSecond
  <2>2. \A b \in BOOLEAN : [request[r] EXCEPT !.pc = "locked", !.fresh = b] \in Merge
      BY <2>1 DEF Merge
  <2>3. request' \in [Request -> Operation]
      BY <1>3, <2>2, <1>a, <1>b DEF LockSecond, Operation
  <2> QED
      BY <1>0, <1>3, <2>3 DEF LockSecond, Operation
<1>4. ASSUME NEW r \in Request, Repoint(r) PROVE TypeOK'
  <2>1. request[r] \in Merge
      BY <1>0, <1>4, PcKind DEF Repoint
  <2>2. \A cs \in SUBSET Child :
          [request[r] EXCEPT !.pc = "moved", !.moved = cs] \in Merge
      BY <2>1 DEF Merge
  <2>3. PICK cs \in SUBSET Child :
               Become(r, [request[r] EXCEPT !.pc = "moved", !.moved = cs])
      BY <1>4 DEF Repoint
  <2>4. request' \in [Request -> Operation]
      BY <2>2, <2>3, <1>a DEF Operation
  <2> QED
      BY <1>0, <1>4, <2>4 DEF Repoint, Operation
<1>5. ASSUME NEW r \in Request, CommitMerge(r) PROVE TypeOK'
  <2> DEFINE q == request[r]
  <2>1. q \in Merge /\ q.from \in Entity /\ q.to \in Entity
        /\ q.brought \subseteq Fact /\ q.base \subseteq Fact
      BY <1>0, <1>5, PcKind DEF CommitMerge, Merge
  <2>2. [q EXCEPT !.pc = "decide", !.moved = {}] \in Merge
      BY <2>1 DEF Merge
  <2>3. request' \in [Request -> Operation]
      BY <1>5, <2>2, <1>a, <1>b DEF CommitMerge, Operation
  <2>4. q.to \in live /\ q.from # q.to
      BY <1>5, <2>1, HoldsOf DEF CommitMerge, IInv, LocksLive, Distinct
  <2>5. meta' \in [Entity -> SUBSET Fact]
      BY <1>0, <1>5, <2>1 DEF CommitMerge
  <2>6. parent' \in [Child -> Entity \cup {None}]
      BY <1>0, <1>5, <2>1 DEF CommitMerge
  <2>7. live' \subseteq Entity /\ tomb' \in [Entity -> Entity \cup {None}]
      BY <1>0, <1>5, <2>1 DEF CommitMerge, Bury
  <2>8. \A e \in Entity : e \in live' => tomb'[e] = None
      BY <1>0, <1>5, <2>1 DEF CommitMerge, Bury
  <2> QED
      BY <1>0, <1>5, <2>3, <2>5, <2>6, <2>7, <2>8 DEF CommitMerge, Operation
<1>6. ASSUME NEW r \in Request, Decide(r) PROVE TypeOK'
  <2>1. request' \in [Request -> Operation]
      BY <1>6, <1>a, <1>b DEF Decide
  <2> QED
      BY <1>0, <1>6, <2>1 DEF Decide, Operation
<1>7. ASSUME NEW r \in Request, Fail(r) PROVE TypeOK'
  <2>1. request' \in [Request -> Operation]
      BY <1>7, <1>a, <1>b DEF Fail
  <2> QED
      BY <1>0, <1>7, <2>1 DEF Fail, Operation
<1>8. ASSUME NEW e \in Entity, NEW f \in Fact, Edit(e, f) PROVE TypeOK'
    BY <1>0, <1>8 DEF Edit
<1>9. ASSUME NEW e \in Entity, NEW c \in Child, Adopt(c, e) PROVE TypeOK'
    BY <1>0, <1>9 DEF Adopt
<1>10. ASSUME NEW r \in Request, NEW e \in live, LoadSave(r, e) PROVE TypeOK'
  <2>1. [pc |-> "save", e |-> e, base |-> meta[e]] \in Operation
      BY <1>0 DEF Operation, Save
  <2>2. request' \in [Request -> Operation]
      BY <1>10, <1>a, <2>1 DEF LoadSave
  <2> QED
      BY <1>0, <1>10, <2>2 DEF LoadSave, Operation
<1>11. ASSUME NEW r \in Request, NEW f \in Fact, WriteSave(r, f) PROVE TypeOK'
  <2>1. request[r].base \subseteq Fact
      BY <1>0, <1>11, PcKind DEF WriteSave, Save
  <2>2. request' \in [Request -> Operation]
      BY <1>11, <1>a, <1>b DEF WriteSave
  <2> QED
      BY <1>0, <1>11, <2>1, <2>2 DEF WriteSave, Operation
<1>12. ASSUME NEW r \in Request, NEW s \in live, NEW cs \in SUBSET (Child \ Keyed),
              BeginSplit(r, s, cs)
       PROVE  TypeOK'
  <2>1. [pc |-> "split", children |-> cs] \in Operation
      BY DEF Operation, Split
  <2>2. request' \in [Request -> Operation]
      BY <1>12, <1>a, <2>1 DEF BeginSplit
  <2> QED
      BY <1>0, <1>12, <2>2 DEF BeginSplit, Operation
<1>13. ASSUME NEW r \in Request, CommitSplit(r) PROVE TypeOK'
  <2>1. PICK e \in Unused :
          /\ live' = live \cup {e}
          /\ parent' = [c \in Child |-> IF c \in request[r].children THEN e ELSE parent[c]]
      BY <1>13 DEF CommitSplit
  <2>2. e \in Entity /\ tomb[e] = None
      BY DEF Unused
  <2>3. request' \in [Request -> Operation]
      BY <1>13, <1>a, <1>b DEF CommitSplit
  <2> QED
      BY <1>0, <1>13, <2>1, <2>2, <2>3 DEF CommitSplit, Operation
<1>14. ASSUME NEW r \in Request, NEW p \in Pair, Screen(r, p) PROVE TypeOK'
  <2>1. [pc |-> "scan", pair |-> p] \in Operation
      BY DEF Operation, Scan
  <2>2. request' \in [Request -> Operation]
      BY <1>14, <1>a, <2>1 DEF Screen
  <2> QED
      BY <1>0, <1>14, <2>2 DEF Screen, Operation
<1>15. ASSUME NEW r \in Request, Record(r) PROVE TypeOK'
  <2>1. request' \in [Request -> Operation]
      BY <1>15, <1>a, <1>b DEF Record
  <2> QED
      BY <1>0, <1>15, <2>1 DEF Record, Operation
<1>16. ASSUME NEW r \in Request, NEW p \in Pair, BeginDismiss(r, p) PROVE TypeOK'
  <2>1. [pc |-> "dismiss", pair |-> p] \in Operation
      BY DEF Operation, Dismissal
  <2>2. request' \in [Request -> Operation]
      BY <1>16, <1>a, <2>1 DEF BeginDismiss
  <2> QED
      BY <1>0, <1>16, <2>2 DEF BeginDismiss, Operation
<1>17. ASSUME NEW r \in Request, Dismiss(r) PROVE TypeOK'
  <2>1. request' \in [Request -> Operation]
      BY <1>17, <1>a, <1>b DEF Dismiss
  <2> QED
      BY <1>0, <1>17, <2>1 DEF Dismiss, Operation
<1>18. CASE UNCHANGED vars
    BY <1>0, <1>18 DEF vars
<1> QED
    BY <1>1, <1>2, <1>3, <1>4, <1>5, <1>6, <1>7, <1>8, <1>9, <1>10, <1>11, <1>12, <1>13,
       <1>14, <1>15, <1>16, <1>17, <1>18 DEF Next, MergeStep, EditStep, ReviewStep

-----------------------------------------------------------------------------
(* Only request r takes a step, and q is what it becomes.                  *)
LEMMA OneBecomes ==
  ASSUME TypeOK, NEW r \in Request, NEW q, Become(r, q)
  PROVE  /\ request'[r] = q
         /\ \A s \in Request : s # r => request'[s] = request[s]
  BY DEF Become, TypeOK

(* What a merge that has moved the references has become.                  *)
LEMMA Repointed ==
  ASSUME TypeOK, NEW r \in Request, Repoint(r)
  PROVE  /\ request[r] \in Merge /\ request[r].pc = "locked"
         /\ Become(r, request'[r]) /\ request'[r].pc = "moved"
         /\ Collapses(request[r], request'[r].moved)
         /\ request'[r].from = request[r].from /\ request'[r].to = request[r].to
         /\ request'[r].brought = request[r].brought /\ request'[r].base = request[r].base
         /\ request'[r].fresh = request[r].fresh
<1>1. request[r] \in Operation /\ request[r].pc = "locked"
    BY DEF Repoint, TypeOK, Operation
<1>2. request[r] \in Merge
    BY <1>1, PcKind
<1>3. PICK moved \in SUBSET Child : /\ Collapses(request[r], moved)
             /\ Become(r, [request[r] EXCEPT !.pc = "moved", !.moved = moved])
    BY DEF Repoint
<1> DEFINE q == [request[r] EXCEPT !.pc = "moved", !.moved = moved]
<1>4. /\ q.pc = "moved" /\ q.moved = moved /\ q.from = request[r].from
      /\ q.to = request[r].to
    BY <1>2 DEF Merge
<1>5. /\ q.brought = request[r].brought /\ q.base = request[r].base
      /\ q.fresh = request[r].fresh
    BY <1>2 DEF Merge
<1>6. Become(r, q) /\ Collapses(request[r], moved)
    BY <1>3
<1> HIDE DEF q
<1>7. request'[r] = q
    BY <1>6, OneBecomes
<1> QED
    BY <1>1, <1>2, <1>4, <1>5, <1>6, <1>7

(* r takes a step after which it has nothing locked.                       *)
Quiet(r) ==
  \E q \in Operation :
    /\ Become(r, q)
    /\ q.pc \notin {"first", "locked", "moved"}
    /\ q \in Merge => q.from # q.to

(* The steps, by what they do to the locks.                                *)
LEMMA LockCases ==
  ASSUME IInv, [Next]_vars
  PROVE  \/ request' = request
         \/ \E r \in Request :
              \/ Quiet(r)
              \/ (LockFirst(r) /\ First(request[r]) \in live)
              \/ (LockSecond(r) /\ Second(request[r]) \in live)
              \/ Repoint(r)
<1>0. /\ TypeOK
      /\ \A r \in Request : request[r] \in Operation
      /\ \A r \in Request : request[r] \in Merge => request[r].from # request[r].to
    BY DEF IInv, TypeOK, Operation, Distinct
<1>a. Idle \in Operation /\ Idle.pc = "idle" /\ Idle \notin Merge
    BY DEF Operation, Idle, Merge
<1>b. ASSUME NEW r \in Request, Become(r, Idle) PROVE Quiet(r)
    BY <1>a, <1>b DEF Quiet
<1>1. ASSUME NEW r \in Request, NEW s \in live, NEW t \in live, NEW review \in BOOLEAN,
             Begin(r, s, t, review)
      PROVE  Quiet(r)
  <2> DEFINE q == [pc |-> "loaded", from |-> s, to |-> t, review |-> review,
                   brought |-> meta[s], base |-> meta[t], fresh |-> FALSE, moved |-> {}]
  <2>1. q \in Merge
      BY <1>0 DEF Merge, TypeOK
  <2>2. Become(r, q) /\ s # t
      BY <1>1 DEF Begin
  <2>3. q \in Operation /\ q.pc = "loaded" /\ q.from # q.to
      BY <2>1, <2>2 DEF Operation
  <2> QED
      BY <2>2, <2>3 DEF Quiet
<1>2. ASSUME NEW r \in Request, LockFirst(r)
      PROVE  Quiet(r) \/ First(request[r]) \in live
    BY <1>2, <1>b DEF LockFirst, Present
<1>3. ASSUME NEW r \in Request, LockSecond(r)
      PROVE  Quiet(r) \/ Second(request[r]) \in live
    BY <1>3, <1>b DEF LockSecond, Present
<1>4. ASSUME NEW r \in Request, CommitMerge(r) PROVE Quiet(r)
  <2>1. request[r] \in Merge /\ request[r].from # request[r].to
      BY <1>0, <1>4, PcKind DEF CommitMerge
  <2> DEFINE q == [request[r] EXCEPT !.pc = "decide", !.moved = {}]
  <2>2. q \in Merge /\ q.pc = "decide" /\ q.from # q.to
      BY <2>1 DEF Merge
  <2>3. Become(r, q) \/ Become(r, Idle)
      BY <1>4 DEF CommitMerge
  <2> QED
      BY <2>2, <2>3, <1>b DEF Quiet, Operation
<1>5. ASSUME NEW r \in Request, NEW e \in live, LoadSave(r, e) PROVE Quiet(r)
  <2> DEFINE q == [pc |-> "save", e |-> e, base |-> meta[e]]
  <2>1. q \in Save /\ q.pc = "save" /\ Become(r, q)
      BY <1>0, <1>5 DEF LoadSave, Save, TypeOK
  <2> QED
      BY <2>1, PcKind DEF Quiet, Operation
<1>6. ASSUME NEW r \in Request, NEW s \in live, NEW cs \in SUBSET (Child \ Keyed),
             BeginSplit(r, s, cs)
      PROVE  Quiet(r)
  <2> DEFINE q == [pc |-> "split", children |-> cs]
  <2>1. q \in Split /\ q.pc = "split" /\ Become(r, q)
      BY <1>6 DEF BeginSplit, Split
  <2> QED
      BY <2>1, PcKind DEF Quiet, Operation
<1>7. ASSUME NEW r \in Request, NEW p \in Pair, Screen(r, p) PROVE Quiet(r)
  <2> DEFINE q == [pc |-> "scan", pair |-> p]
  <2>1. q \in Scan /\ q.pc = "scan" /\ Become(r, q)
      BY <1>7 DEF Screen, Scan
  <2> QED
      BY <2>1, PcKind DEF Quiet, Operation
<1>8. ASSUME NEW r \in Request, NEW p \in Pair, BeginDismiss(r, p) PROVE Quiet(r)
  <2> DEFINE q == [pc |-> "dismiss", pair |-> p]
  <2>1. q \in Dismissal /\ q.pc = "dismiss" /\ Become(r, q)
      BY <1>8 DEF BeginDismiss, Dismissal
  <2> QED
      BY <2>1, PcKind DEF Quiet, Operation
<1>9. ASSUME NEW r \in Request,
             \/ Decide(r) \/ Fail(r) \/ CommitSplit(r) \/ Record(r) \/ Dismiss(r)
             \/ \E f \in Fact : WriteSave(r, f)
      PROVE  Quiet(r)
  <2>1. Become(r, Idle)
      BY <1>9 DEF Decide, Fail, CommitSplit, Record, Dismiss, WriteSave
  <2> QED
      BY <2>1, <1>b
<1>10. ASSUME NEW e \in Entity,
              (\E f \in Fact : Edit(e, f)) \/ (\E c \in Child : Adopt(c, e))
       PROVE  request' = request
    BY <1>10 DEF Edit, Adopt
<1> QED
    BY <1>1, <1>2, <1>3, <1>4, <1>5, <1>6, <1>7, <1>8, <1>9, <1>10
    DEF Next, MergeStep, EditStep, ReviewStep, vars

(* What a merge holds and that its rows differ.                            *)
LEMMA StepLocks == IInv /\ [Next]_vars => Distinct' /\ LocksExclusive'
<1> SUFFICES ASSUME IInv, [Next]_vars PROVE Distinct' /\ LocksExclusive'
    OBVIOUS
<1>0. TypeOK /\ Distinct /\ LocksExclusive /\ \A r \in Request : request[r] \in Operation
    BY DEF IInv, TypeOK, Operation
<1>1. CASE request' = request
    BY <1>0, <1>1 DEF Distinct, LocksExclusive, Holds, First, Second
<1>2. ASSUME NEW r \in Request, NEW H, NEW q, Become(r, q), Holds(q) = H,
             \A s \in Request : s # r => Holds(request[s]) \cap H = {},
             q \in Merge => q.from # q.to
      PROVE  Distinct' /\ LocksExclusive'
  <2>1. request'[r] = q /\ \A s \in Request : s # r => request'[s] = request[s]
      BY <1>0, <1>2, OneBecomes
  <2>2. Distinct'
      BY <1>0, <1>2, <2>1 DEF Distinct
  <2>3. \A s \in Request : s # r => Holds(request'[s]) = Holds(request[s])
      BY <2>1
  <2>4. Holds(request'[r]) = H
      BY <1>2, <2>1
  <2>5. LocksExclusive'
      BY <1>0, <1>2, <2>3, <2>4 DEF LocksExclusive
  <2> QED
      BY <2>2, <2>5
<1>3. ASSUME NEW r \in Request, Quiet(r) PROVE Distinct' /\ LocksExclusive'
  <2>1. PICK q \in Operation : /\ Become(r, q)
                               /\ q.pc \notin {"first", "locked", "moved"}
                               /\ q \in Merge => q.from # q.to
      BY <1>3 DEF Quiet
  <2>2. Holds(q) = {}
      BY <2>1, HoldsOf
  <2> QED
      BY <1>2, <2>1, <2>2
<1>4. ASSUME NEW r \in Request, LockFirst(r), First(request[r]) \in live
      PROVE  Distinct' /\ LocksExclusive'
  <2> DEFINE q == [request[r] EXCEPT !.pc = "first"]
  <2>1. request[r] \in Merge /\ request[r].from # request[r].to
      BY <1>0, <1>4, PcKind DEF LockFirst, Distinct
  <2>2. q.from = request[r].from /\ q.to = request[r].to /\ q.pc = "first"
      BY <2>1 DEF Merge
  <2>3. Holds(q) = {First(request[r])}
      BY <2>2, HoldsOf DEF First
  <2>4. Become(r, q) /\ First(request[r]) \notin Held
      BY <1>4 DEF LockFirst, Present
  <2>5. \A s \in Request : s # r => Holds(request[s]) \cap {First(request[r])} = {}
      BY <2>4, NotHeld
  <2> HIDE DEF q
  <2> QED
      BY <1>2, <2>1, <2>2, <2>3, <2>4, <2>5
<1>5. ASSUME NEW r \in Request, LockSecond(r), Second(request[r]) \in live
      PROVE  Distinct' /\ LocksExclusive'
  <2> DEFINE q == [request[r] EXCEPT !.pc = "locked",
                     !.fresh = /\ meta[request[r].from] = request[r].brought
                               /\ meta[request[r].to] = request[r].base]
  <2>1. request[r] \in Merge /\ request[r].from # request[r].to /\ request[r].pc = "first"
      BY <1>0, <1>5, PcKind DEF LockSecond, Distinct
  <2>2. q.from = request[r].from /\ q.to = request[r].to /\ q.pc = "locked"
      BY <2>1 DEF Merge
  <2>3. Holds(q) = {First(request[r]), Second(request[r])}
      BY <2>1, <2>2, HoldsOf, RowOrder
  <2>4. Become(r, q) /\ Second(request[r]) \notin Held
      BY <1>5 DEF LockSecond, Present
  <2>5. \A s \in Request : s # r => Second(request[r]) \notin Holds(request[s])
      BY <2>4, NotHeld
  <2>6. \A s \in Request : s # r => First(request[r]) \notin Holds(request[s])
      BY <1>0, <2>1, HoldsOf DEF LocksExclusive
  <2> HIDE DEF q
  <2> QED
      BY <1>2, <2>1, <2>2, <2>3, <2>4, <2>5, <2>6
<1>6. ASSUME NEW r \in Request, Repoint(r) PROVE Distinct' /\ LocksExclusive'
  <2> DEFINE q == request'[r]
  <2>1. /\ Become(r, q) /\ q.pc = "moved"
        /\ q.from = request[r].from /\ q.to = request[r].to
      BY <1>0, <1>6, Repointed
  <2>2. request[r].from # request[r].to /\ request[r].pc = "locked"
      BY <1>0, <1>6, Repointed DEF Distinct
  <2>3. Holds(q) = Holds(request[r])
      BY <2>1, <2>2, HoldsOf
  <2>4. \A s \in Request : s # r => Holds(request[s]) \cap Holds(request[r]) = {}
      BY <1>0 DEF LocksExclusive
  <2> HIDE DEF q
  <2> QED
      BY <1>2, <2>1, <2>2, <2>3, <2>4
<1> QED
    BY <1>1, <1>3, <1>4, <1>5, <1>6, LockCases

(* A request that has rows locked was left alone, or has just locked one,  *)
(* or has just updated what refers to its source.                          *)
LEMMA HolderSteps ==
  ASSUME IInv, [Next]_vars, NEW s \in Request,
         request'[s].pc \in {"first", "locked", "moved"}
  PROVE  \/ request'[s] = request[s]
         \/ (LockFirst(s) /\ First(request[s]) \in live)
         \/ (LockSecond(s) /\ Second(request[s]) \in live)
         \/ Repoint(s)
<1>0. TypeOK
    BY DEF IInv
<1>1. ASSUME NEW r \in Request, Quiet(r) PROVE request'[s] = request[s]
    BY <1>0, <1>1, OneBecomes DEF Quiet
<1>2. ASSUME NEW r \in Request, LockFirst(r) \/ LockSecond(r) \/ Repoint(r), s # r
      PROVE  request'[s] = request[s]
    BY <1>0, <1>2, OneBecomes DEF LockFirst, LockSecond, Repoint
<1> QED
    BY <1>1, <1>2, LockCases

(* Steps that change the rows are of five kinds.                           *)
LEMMA RowCases ==
  ASSUME [Next]_vars
  PROVE  \/ UNCHANGED <<live, meta, parent, tomb>>
         \/ \E r \in Request : CommitMerge(r) \/ CommitSplit(r)
         \/ \E r \in Request, f \in Fact : WriteSave(r, f)
         \/ \E e \in Entity, f \in Fact : Edit(e, f)
         \/ \E e \in Entity, c \in Child : Adopt(c, e)
<1>1. ASSUME NEW r \in Request, MergeStep(r)
      PROVE  UNCHANGED <<live, meta, parent, tomb>> \/ CommitMerge(r)
    BY <1>1 DEF MergeStep, Begin, LockFirst, LockSecond, Repoint, Decide
<1>2. ASSUME NEW r \in Request, EditStep(r)
      PROVE  \/ UNCHANGED <<live, meta, parent, tomb>>
             \/ CommitSplit(r)
             \/ \E f \in Fact : WriteSave(r, f)
    BY <1>2 DEF EditStep, LoadSave, BeginSplit
<1>3. ASSUME NEW r \in Request, ReviewStep(r) \/ Fail(r)
      PROVE  UNCHANGED <<live, meta, parent, tomb>>
    BY <1>3 DEF ReviewStep, Screen, BeginDismiss, Record, Dismiss, Fail
<1> QED
    BY <1>1, <1>2, <1>3 DEF Next, vars

(* A merge that commits, or another one that has its rows locked.          *)
LEMMA CommitterHolds ==
  ASSUME IInv, NEW r \in Request, CommitMerge(r)
  PROVE  /\ request[r] \in Merge /\ request[r].from # request[r].to
         /\ request[r].from \in live /\ request[r].to \in live
         /\ \A s \in Request :
              s # r => request[r].from \notin Holds(request[s])
                       /\ request[r].to \notin Holds(request[s])
<1>1. request[r] \in Operation /\ request[r].pc = "moved"
    BY DEF IInv, TypeOK, Operation, CommitMerge
<1>2. request[r] \in Merge /\ Holds(request[r]) = {request[r].from, request[r].to}
    BY <1>1, PcKind, HoldsOf
<1> QED
    BY <1>2 DEF IInv, Distinct, LocksLive, LocksExclusive

LEMMA CommitterDone ==
  ASSUME IInv, NEW r \in Request, CommitMerge(r)
  PROVE  request'[r].pc \in {"decide", "idle"}
<1> DEFINE d == [request[r] EXCEPT !.pc = "decide", !.moved = {}]
<1>1. request[r] \in Merge
    BY CommitterHolds
<1>2. d.pc = "decide"
    BY <1>1 DEF Merge
<1>3. Become(r, d) \/ Become(r, Idle)
    BY DEF CommitMerge
<1> HIDE DEF d
<1>4. request'[r] = d \/ request'[r] = Idle
    BY <1>3, OneBecomes DEF IInv
<1> QED
    BY <1>2, <1>4 DEF Idle

LEMMA StepLive == IInv /\ [Next]_vars => LocksLive'
<1> SUFFICES ASSUME IInv, [Next]_vars, NEW s \in Request, NEW e \in Holds(request'[s])
             PROVE  e \in live'
    BY DEF LocksLive, Holds, First, Second
<1>0. /\ TypeOK /\ Distinct /\ LocksLive
      /\ \A r \in Request : request[r] \in Operation
    BY DEF IInv, TypeOK, Operation
<1>1. request'[s].pc \in {"first", "locked", "moved"}
    BY HoldsOf
<1>2. CASE request'[s] = request[s]
  <2>1. e \in live
      BY <1>0, <1>2 DEF LocksLive
  <2>2. ASSUME NEW r \in Request, CommitMerge(r) PROVE e \in live'
    <3>1. r # s
      <4>1. request'[r].pc \in {"decide", "idle"}
          BY <2>2, CommitterDone
      <4> QED
          BY <1>1, <4>1
    <3>2. request[r].from # e
        BY <2>2, <3>1, <1>2, CommitterHolds
    <3> QED
        BY <2>1, <2>2, <3>2 DEF CommitMerge
  <2>3. ASSUME NEW r \in Request, CommitSplit(r) PROVE e \in live'
      BY <2>1, <2>3 DEF CommitSplit
  <2> QED
      BY <2>1, <2>2, <2>3, RowCases DEF WriteSave, Edit, Adopt
<1>3. CASE LockFirst(s) /\ First(request[s]) \in live
  <2>1. request[s] \in Merge
      BY <1>0, <1>3, PcKind DEF LockFirst
  <2>2. request'[s] = [request[s] EXCEPT !.pc = "first"]
      BY <1>0, <1>3, OneBecomes DEF LockFirst, Present
  <2>3. request'[s].pc = "first" /\ First(request'[s]) = First(request[s])
      BY <2>1, <2>2 DEF Merge, First
  <2>4. e = First(request[s])
      BY <2>3, HoldsOf
  <2> QED
      BY <1>3, <2>4 DEF LockFirst
<1>4. CASE LockSecond(s) /\ Second(request[s]) \in live
  <2>1. /\ request[s] \in Merge /\ request[s].from # request[s].to
        /\ First(request[s]) \in live
      BY <1>0, <1>4, PcKind, HoldsOf DEF LockSecond, Distinct, LocksLive
  <2>2. request'[s] = [request[s] EXCEPT !.pc = "locked",
                     !.fresh = /\ meta[request[s].from] = request[s].brought
                               /\ meta[request[s].to] = request[s].base]
      BY <1>0, <1>4, OneBecomes DEF LockSecond, Present
  <2>3. /\ request'[s].pc = "locked" /\ request'[s].from = request[s].from
        /\ request'[s].to = request[s].to
      BY <2>1, <2>2 DEF Merge
  <2>4. e \in {First(request[s]), Second(request[s])}
      BY <2>1, <2>3, HoldsOf, RowOrder
  <2> QED
      BY <1>4, <2>1, <2>4 DEF LockSecond
<1>5. CASE Repoint(s)
  <2>1. /\ request[s].pc = "locked" /\ request'[s].pc = "moved"
        /\ request'[s].from = request[s].from /\ request'[s].to = request[s].to
      BY <1>0, <1>5, Repointed
  <2>2. e \in Holds(request[s])
      BY <2>1, HoldsOf
  <2> QED
      BY <1>0, <1>5, <2>2 DEF Repoint, LocksLive
<1> QED
    BY <1>1, <1>2, <1>3, <1>4, <1>5, HolderSteps

(* While a merge has its rows locked and the references moved, nobody else *)
(* changes what refers to its source, nor which rows with a natural key    *)
(* refer to its target.                                                    *)
LEMMA ChildrenStay ==
  ASSUME IInv, [Next]_vars, NEW s \in Request, request'[s] = request[s],
         request[s].pc = "moved", NEW c \in Child
  PROVE  /\ parent'[c] = request[s].from <=> parent[c] = request[s].from
         /\ c \in Keyed => (parent'[c] = request[s].to <=> parent[c] = request[s].to)
<1> DEFINE q == request[s]
<1>0. /\ TypeOK /\ NoStrays /\ LocksLive
      /\ \A r \in Request : request[r] \in Operation
    BY DEF IInv, TypeOK, Operation
<1>1. /\ q.from \in Entity /\ q.to \in Entity
      /\ q.from \in Holds(q) /\ q.to \in Holds(q)
      /\ q.from \in live /\ q.to \in live
      /\ q.from # None /\ q.to # None
    BY <1>0, PcKind, HoldsOf DEF Merge, LocksLive, Entity, None
<1>2. parent[c] = q.from /\ c \notin Keyed => c \in Moving
    BY <1>0 DEF NoStrays, Collapses, Same, Keyed, Moving
<1>3. ASSUME NEW r \in Request, CommitMerge(r)
      PROVE  \A e \in {q.from, q.to} : parent'[c] = e <=> parent[c] = e
  <2>1. r # s
      BY <1>3, CommitterDone
  <2>2. {request[r].from, request[r].to} \cap {q.from, q.to} = {}
      BY <1>1, <1>3, <2>1, CommitterHolds
  <2>3. c \in request[r].moved => parent[c] = request[r].from
      BY <1>0, <1>3 DEF NoStrays, Collapses, CommitMerge
  <2>4. parent'[c] = IF c \in request[r].moved THEN request[r].to
                     ELSE IF parent[c] = request[r].from THEN None ELSE parent[c]
      BY <1>3 DEF CommitMerge
  <2> QED
      BY <1>1, <2>2, <2>3, <2>4
<1>4. ASSUME NEW r \in Request, CommitSplit(r)
      PROVE  /\ parent'[c] = q.from <=> parent[c] = q.from
             /\ c \in Keyed => (parent'[c] = q.to <=> parent[c] = q.to)
  <2>1. request[r].children \cap Keyed = {} /\ request[r].children \cap Moving = {}
      BY <1>0, <1>4, PcKind DEF CommitSplit, Split
  <2>2. PICK e \in Unused :
          parent' = [x \in Child |-> IF x \in request[r].children THEN e ELSE parent[x]]
      BY <1>4 DEF CommitSplit
  <2>3. e \notin {q.from, q.to}
      BY <1>1 DEF Unused
  <2> QED
      BY <1>2, <2>1, <2>2, <2>3
<1>5. ASSUME NEW e \in Entity, NEW d \in Child, Adopt(d, e)
      PROVE  /\ parent'[c] = q.from <=> parent[c] = q.from
             /\ c \in Keyed => (parent'[c] = q.to <=> parent[c] = q.to)
  <2>1. e \notin {q.from, q.to}
      BY <1>1, <1>5, NotHeld DEF Adopt
  <2>2. c # d => parent'[c] = parent[c]
      BY <1>0, <1>5 DEF Adopt, TypeOK
  <2>3. c = d => parent'[c] = e /\ c \notin Moving /\ (c \in Keyed => parent[c] = None)
      BY <1>0, <1>5 DEF Adopt, TypeOK
  <2> QED
      BY <1>1, <1>2, <2>1, <2>2, <2>3
<1> QED
    BY <1>3, <1>4, <1>5, RowCases DEF WriteSave, Edit

LEMMA StepStrays == IInv /\ [Next]_vars => NoStrays'
<1> SUFFICES ASSUME IInv, [Next]_vars, NEW s \in Request, request'[s].pc = "moved"
             PROVE  Collapses(request[s], request[s].moved)'
    BY DEF NoStrays
<1>0. /\ TypeOK /\ NoStrays
      /\ \A r \in Request : request[r] \in Operation
    BY DEF IInv, TypeOK, Operation
<1>1. CASE Repoint(s)
  <2>1. /\ Collapses(request[s], request'[s].moved)
        /\ request'[s].from = request[s].from /\ request'[s].to = request[s].to
      BY <1>0, <1>1, Repointed
  <2>2. parent' = parent
      BY <1>1 DEF Repoint
  <2> QED
      BY <2>1, <2>2 DEF Collapses
<1>2. CASE request'[s] = request[s]
  <2> DEFINE q == request[s]
  <2>1. Collapses(q, q.moved) /\ q.pc = "moved"
      BY <1>0, <1>2 DEF NoStrays
  <2>2. \A c \in Child :
          /\ parent'[c] = q.from <=> parent[c] = q.from
          /\ c \in Keyed => (parent'[c] = q.to <=> parent[c] = q.to)
      BY <1>2, <2>1, ChildrenStay
  <2>3. \A c, d \in Child : Same(c, d) => d \in Keyed
      BY DEF Same, Keyed
  <2> HIDE DEF q
  <2>4. q.moved = {c \in Child : parent'[c] = q.from /\
             ~\E d \in Child : Same(c, d) /\ (parent'[d] = q.to \/ d \in q.moved)}
      BY <2>1, <2>2, <2>3 DEF Collapses
  <2> QED
      BY <1>2, <2>4 DEF Collapses, q
<1> QED
    <2>1. ~(LockFirst(s) /\ First(request[s]) \in live)
      <3> SUFFICES ASSUME LockFirst(s), First(request[s]) \in live PROVE FALSE
          OBVIOUS
      <3>1. request[s] \in Merge
          BY <1>0, PcKind DEF LockFirst
      <3>2. request'[s] = [request[s] EXCEPT !.pc = "first"]
          BY <1>0, OneBecomes DEF LockFirst, Present
      <3> QED
          BY <3>1, <3>2 DEF Merge
    <2>2. ~(LockSecond(s) /\ Second(request[s]) \in live)
      <3> SUFFICES ASSUME LockSecond(s), Second(request[s]) \in live PROVE FALSE
          OBVIOUS
      <3>1. request[s] \in Merge
          BY <1>0, PcKind DEF LockSecond
      <3>2. request'[s] = [request[s] EXCEPT !.pc = "locked",
                     !.fresh = /\ meta[request[s].from] = request[s].brought
                               /\ meta[request[s].to] = request[s].base]
          BY <1>0, OneBecomes DEF LockSecond, Present
      <3> QED
          BY <3>1, <3>2 DEF Merge
    <2> QED
        BY <1>1, <1>2, <2>1, <2>2, HolderSteps

(* Nobody writes the metadata of a row somebody else has locked.           *)
LEMMA LockedMeta ==
  ASSUME IInv, [Next]_vars, NEW s \in Request, request'[s] = request[s],
         request[s].pc \in {"locked", "moved"}
  PROVE  /\ meta'[request[s].from] = meta[request[s].from]
         /\ meta'[request[s].to] = meta[request[s].to]
<1> DEFINE q == request[s]
<1>0. TypeOK /\ \A r \in Request : request[r] \in Operation
    BY DEF IInv, TypeOK, Operation
<1>1. /\ q \in Merge /\ q.from \in Entity /\ q.to \in Entity
      /\ q.from \in Holds(q) /\ q.to \in Holds(q)
    BY <1>0, PcKind, HoldsOf DEF Merge
<1>2. ASSUME NEW r \in Request, CommitMerge(r)
      PROVE  meta'[q.from] = meta[q.from] /\ meta'[q.to] = meta[q.to]
  <2>1. r # s
      BY <1>2, CommitterDone
  <2>2. {request[r].from, request[r].to} \cap {q.from, q.to} = {}
      BY <1>1, <1>2, <2>1, CommitterHolds
  <2> QED
      BY <1>0, <1>1, <1>2, <2>2 DEF CommitMerge, TypeOK
<1>3. ASSUME NEW r \in Request, NEW f \in Fact, WriteSave(r, f)
      PROVE  meta'[q.from] = meta[q.from] /\ meta'[q.to] = meta[q.to]
  <2>1. request[r].e \notin {q.from, q.to}
      BY <1>1, <1>3, NotHeld DEF WriteSave
  <2> QED
      BY <1>0, <1>1, <1>3, <2>1 DEF WriteSave, TypeOK
<1>4. ASSUME NEW e \in Entity, NEW f \in Fact, Edit(e, f)
      PROVE  meta'[q.from] = meta[q.from] /\ meta'[q.to] = meta[q.to]
  <2>1. e \notin {q.from, q.to}
      BY <1>1, <1>4, NotHeld DEF Edit
  <2> QED
      BY <1>0, <1>1, <1>4, <2>1 DEF Edit, TypeOK
<1> QED
    BY <1>2, <1>3, <1>4, RowCases DEF CommitSplit, Adopt

LEMMA StepFrozen == IInv /\ [Next]_vars => Frozen'
<1> SUFFICES ASSUME IInv, [Next]_vars, NEW s \in Request,
                    request'[s].pc \in {"locked", "moved"}, request'[s].fresh
             PROVE  /\ meta'[request'[s].from] = request'[s].brought
                    /\ meta'[request'[s].to] = request'[s].base
    BY DEF Frozen
<1>0. TypeOK /\ Frozen /\ \A r \in Request : request[r] \in Operation
    BY DEF IInv, TypeOK, Operation
<1>1. CASE request'[s] = request[s]
    BY <1>0, <1>1, LockedMeta DEF Frozen
<1>2. CASE LockFirst(s) /\ First(request[s]) \in live
  <2>1. request[s] \in Merge
      BY <1>0, <1>2, PcKind DEF LockFirst
  <2>2. request'[s] = [request[s] EXCEPT !.pc = "first"]
      BY <1>0, <1>2, OneBecomes DEF LockFirst, Present
  <2> QED
      BY <2>1, <2>2 DEF Merge
<1>3. CASE LockSecond(s) /\ Second(request[s]) \in live
  <2> DEFINE b == /\ meta[request[s].from] = request[s].brought
                  /\ meta[request[s].to] = request[s].base
  <2>1. request[s] \in Merge
      BY <1>0, <1>3, PcKind DEF LockSecond
  <2>2. request'[s] = [request[s] EXCEPT !.pc = "locked", !.fresh = b]
      BY <1>0, <1>3, OneBecomes DEF LockSecond, Present
  <2> HIDE DEF b
  <2>3. /\ request'[s].from = request[s].from /\ request'[s].to = request[s].to
        /\ request'[s].brought = request[s].brought /\ request'[s].base = request[s].base
        /\ request'[s].fresh = b
      BY <2>1, <2>2 DEF Merge
  <2>4. b
      BY <2>3
  <2> QED
      BY <1>3, <2>3, <2>4 DEF LockSecond, b
<1>4. CASE Repoint(s)
  <2>1. /\ request[s].pc = "locked"
        /\ request'[s].from = request[s].from /\ request'[s].to = request[s].to
        /\ request'[s].brought = request[s].brought /\ request'[s].base = request[s].base
        /\ request'[s].fresh = request[s].fresh
      BY <1>0, <1>4, Repointed
  <2>2. /\ meta[request[s].from] = request[s].brought
        /\ meta[request[s].to] = request[s].base
      BY <1>0, <2>1 DEF Frozen
  <2> QED
      BY <1>4, <2>1, <2>2 DEF Repoint
<1> QED
    BY <1>1, <1>2, <1>3, <1>4, HolderSteps

(* A tombstone is never taken away.                                        *)
LEMMA TombStays ==
  ASSUME IInv, [Next]_vars, NEW e \in Entity, tomb[e] # None
  PROVE  tomb'[e] # None
<1>1. ASSUME NEW r \in Request, CommitMerge(r) PROVE tomb'[e] # None
  <2>1. request[r].to # None
      BY <1>1, CommitterHolds DEF Merge, Entity, None
  <2> QED
      BY <1>1, <2>1 DEF IInv, TypeOK, CommitMerge, Bury
<1> QED
    BY <1>1, RowCases DEF CommitSplit, WriteSave, Edit, Adopt

LEMMA StepBuried == IInv /\ [Next]_vars => Buried'
<1> SUFFICES ASSUME IInv, [Next]_vars PROVE Buried'
    OBVIOUS
<1>0. TypeOK /\ Buried /\ \A r \in Request : request[r] \in Operation
    BY DEF IInv, TypeOK, Operation
<1>1. ASSUME NEW r \in Request, request'[r].pc = "decide" PROVE tomb'[request'[r].from] # None
  <2>1. CASE request'[r] = request[r]
    <3>1. request[r] \in Merge /\ request[r].from \in Entity
        BY <1>0, <1>1, <2>1, PcKind DEF Merge
    <3> QED
        BY <1>0, <1>1, <2>1, <3>1, TombStays DEF Buried
  <2>2. CASE CommitMerge(r)
    <3> DEFINE d == [request[r] EXCEPT !.pc = "decide", !.moved = {}]
    <3>1. request[r] \in Merge /\ request[r].from \in Entity
          /\ request[r].to \in Entity /\ d.from = request[r].from
        BY <2>2, CommitterHolds DEF Merge
    <3>2. Become(r, d) \/ Become(r, Idle)
        BY <2>2 DEF CommitMerge
    <3> HIDE DEF d
    <3>3. request'[r] = d
        BY <1>0, <1>1, <3>2, OneBecomes DEF Idle
    <3>4. tomb'[request[r].from] = request[r].to /\ request[r].to # None
        BY <1>0, <2>2, <3>1 DEF CommitMerge, Bury, TypeOK, Entity, None
    <3> QED
        BY <3>1, <3>3, <3>4
  <2>3. request'[r] = request[r] \/ CommitMerge(r)
    <3>1. ASSUME NEW s \in Request, NEW q, Become(s, q), q.pc # "decide"
          PROVE  request'[r] = request[r]
        BY <1>0, <1>1, <3>1, OneBecomes
    <3>2. ASSUME NEW s \in Request, CommitMerge(s), s # r PROVE request'[r] = request[r]
        BY <1>0, <3>2, OneBecomes DEF CommitMerge
    <3>3. Idle.pc # "decide"
        BY DEF Idle
    <3>4. ASSUME NEW s \in Request, request[s] \in Merge
          PROVE  /\ [request[s] EXCEPT !.pc = "first"].pc = "first"
                 /\ \A b : [request[s] EXCEPT !.pc = "locked", !.fresh = b].pc = "locked"
                 /\ \A cs : [request[s] EXCEPT !.pc = "moved", !.moved = cs].pc = "moved"
        BY <3>4 DEF Merge
    <3>5. ASSUME NEW s \in Request, LockFirst(s) \/ LockSecond(s) \/ Repoint(s)
          PROVE  request[s] \in Merge
        BY <1>0, <3>5, PcKind DEF LockFirst, LockSecond, Repoint
    <3>6. ASSUME NEW s \in Request, LockFirst(s) PROVE request'[r] = request[r]
        BY <3>1, <3>3, <3>4, <3>5, <3>6 DEF LockFirst
    <3>7. ASSUME NEW s \in Request, LockSecond(s) PROVE request'[r] = request[r]
        BY <3>1, <3>3, <3>4, <3>5, <3>7 DEF LockSecond
    <3>8. ASSUME NEW s \in Request, Repoint(s) PROVE request'[r] = request[r]
        BY <3>1, <3>4, <3>5, <3>8 DEF Repoint
    <3>9. ASSUME NEW s \in Request, NEW a \in live, NEW t \in live, NEW v \in BOOLEAN,
                 Begin(s, a, t, v)
          PROVE  request'[r] = request[r]
        BY <3>1, <3>9 DEF Begin
    <3>10. ASSUME NEW s \in Request,
                  \/ \E e \in live : LoadSave(s, e)
                  \/ \E a \in live, cs \in SUBSET Child : BeginSplit(s, a, cs)
                  \/ \E p \in Pair : Screen(s, p) \/ BeginDismiss(s, p)
           PROVE  request'[r] = request[r]
        BY <3>1, <3>10 DEF LoadSave, BeginSplit, Screen, BeginDismiss
    <3>11. ASSUME NEW s \in Request,
                  \/ Decide(s) \/ Fail(s) \/ CommitSplit(s) \/ Record(s) \/ Dismiss(s)
                  \/ \E f \in Fact : WriteSave(s, f)
           PROVE  request'[r] = request[r]
        BY <3>1, <3>3, <3>11 DEF Decide, Fail, CommitSplit, Record, Dismiss, WriteSave
    <3> QED
        BY <3>2, <3>6, <3>7, <3>8, <3>9, <3>10, <3>11
        DEF Next, MergeStep, EditStep, ReviewStep, vars, Edit, Adopt
  <2> QED
      BY <2>1, <2>2, <2>3
<1>2. ASSUME NEW p \in Pair, cand'[p] = "merged" PROVE \E e \in p : tomb'[e] # None
  <2>1. CASE cand[p] = "merged"
      BY <1>0, <2>1, PairMember, TombStays DEF Buried
  <2>2. ASSUME NEW r \in Request, Decide(r), p = {request[r].from, request[r].to}
        PROVE  \E e \in p : tomb'[e] # None
      BY <1>0, <2>2 DEF Decide, Buried
  <2>3. cand[p] = "merged" \/ \E r \in Request : Decide(r) /\ p = {request[r].from, request[r].to}
    <3>1. ASSUME NEW r \in Request, Decide(r), p # {request[r].from, request[r].to}
          PROVE  cand'[p] = cand[p]
        BY <1>0, <3>1 DEF Decide, TypeOK
    <3>2. ASSUME NEW r \in Request, Record(r) \/ Dismiss(r) PROVE cand[p] = "merged"
        BY <1>0, <1>2, <3>2 DEF Record, Dismiss, TypeOK
    <3> QED
        BY <1>2, <3>1, <3>2, ZenonT(40) DEF Next, vars, MergeStep, EditStep, ReviewStep, Begin, LockFirst,
           LockSecond, Repoint, CommitMerge, Fail, LoadSave, WriteSave, BeginSplit, CommitSplit,
           Screen, BeginDismiss, Edit, Adopt
  <2> QED
      BY <2>1, <2>2, <2>3
<1> QED
    BY <1>1, <1>2 DEF Buried

LEMMA StepIInv == IInv /\ [Next]_vars => IInv'
  BY StepType, StepLocks, StepLive, StepStrays, StepFrozen, StepBuried DEF IInv

LEMMA Invariance == Spec => []IInv
  BY InitIInv, StepIInv, PTL DEF Spec

-----------------------------------------------------------------------------
(* The types of the state, however merges, edits, splits, scans and        *)
(* reviews interleave; in particular no entity that exists has a tombstone.*)
THEOREM TypeCorrect == Spec => []TypeOK
<1>1. IInv => TypeOK
    BY DEF IInv
<1> QED
    BY <1>1, Invariance, PTL

(* lock_pair locks in the order of the ids: any two merges of any pairs    *)
(* never wait for each other.                                              *)
THEOREM MergesNeverDeadlock == Spec => []NoMutualWait
<1>1. IInv => NoMutualWait
  <2> SUFFICES ASSUME IInv, NEW r \in Request, NEW s \in Request,
                      request[r].pc = "first", request[s].pc = "first",
                      Second(request[r]) \in Holds(request[s]),
                      Second(request[s]) \in Holds(request[r])
               PROVE  FALSE
      BY DEF NoMutualWait
  <2>1. /\ request[r] \in Merge /\ request[r].from # request[r].to
        /\ request[s] \in Merge /\ request[s].from # request[s].to
    <3>1. request[r] \in Operation /\ request[s] \in Operation
        BY DEF IInv, TypeOK, Operation
    <3> QED
        BY <3>1, PcKind DEF IInv, Distinct
  <2>2. Second(request[r]) = First(request[s]) /\ Second(request[s]) = First(request[r])
      BY HoldsOf
  <2>3. /\ First(request[r]) \in Nat /\ First(request[s]) \in Nat
        /\ First(request[r]) < Second(request[r]) /\ First(request[s]) < Second(request[s])
      BY <2>1, RowOrder, SizeAssumption DEF Entity
  <2> QED
      BY <2>2, <2>3
<1> QED
    BY <1>1, Invariance, PTL

(* A merge that is refused, fails or dies leaves its candidate unmarked:   *)
(* of a pair marked merged one entity is gone.                             *)
THEOREM MergedMeansMerged == Spec => []MergedIsMerged
<1>1. IInv => MergedIsMerged
    BY PairMember DEF IInv, Buried, TypeOK, MergedIsMerged
<1> QED
    BY <1>1, Invariance, PTL

(* The survivor of c's parent has, from this step on, a row that says what  *)
(* c says.                                                                 *)
Replaced(c) ==
  LET e == tomb'[parent[c]] IN
  e # None /\ \E d \in Child : Same(c, d) /\ parent'[d] = e

(* What is not moved along by a merge has been found on the target, or has *)
(* followed another row there; neither leaves before the commit.           *)
THEOREM NoChildIsLost == Spec => ChildrenSurvive
<1>1. ASSUME IInv, [Next]_vars, NEW c \in Child, parent[c] # None, parent'[c] = None
      PROVE  Replaced(c)
  <2>1. ASSUME NEW r \in Request, CommitMerge(r) PROVE Replaced(c)
    <3> DEFINE q == request[r]
    <3>1. q.to # None /\ q.from # q.to /\ q.from \in Entity /\ q.to \in Entity
        BY <1>1, <2>1, CommitterHolds DEF Merge, Entity, None
    <3>2. \A d \in Child :
            parent'[d] = IF d \in q.moved THEN q.to ELSE IF parent[d] = q.from THEN None ELSE parent[d]
        BY <2>1 DEF CommitMerge
    <3>3. c \notin q.moved /\ parent[c] = q.from
        BY <1>1, <3>1, <3>2
    <3>4. PICK d \in Child : Same(c, d) /\ (parent[d] = q.to \/ d \in q.moved)
        BY <1>1, <2>1, <3>3 DEF CommitMerge, IInv, NoStrays, Collapses
    <3>5. parent'[d] = q.to
        BY <3>1, <3>2, <3>4
    <3>6. tomb'[q.from] = q.to
        BY <1>1, <2>1, <3>1 DEF CommitMerge, Bury, IInv, TypeOK
    <3> QED
        BY <3>1, <3>3, <3>4, <3>5, <3>6 DEF Replaced
  <2>2. ASSUME NEW r \in Request, CommitSplit(r) PROVE FALSE
      BY <1>1, <2>2 DEF CommitSplit, Unused, Entity, None
  <2>3. ASSUME NEW e \in Entity, NEW d \in Child, Adopt(d, e) PROVE FALSE
      BY <1>1, <2>3 DEF Adopt, Entity, None, IInv, TypeOK
  <2> QED
      BY <1>1, <2>1, <2>2, <2>3, RowCases DEF WriteSave, Edit
<1>2. IInv /\ [Next]_vars =>
        [\A c \in Child : parent[c] # None /\ parent'[c] = None =>
           LET e == tomb'[parent[c]] IN
           e # None /\ \E d \in Child : Same(c, d) /\ parent'[d] = e]_vars
    BY <1>1 DEF Replaced
<1> QED
    BY <1>2, Invariance, PTL DEF Spec, ChildrenSurvive

(* A decided pair is never queued again: record_candidate writes only a    *)
(* pair that is not there.                                                 *)
THEOREM DecidedPairsStay == Spec => DecisionsStand
<1>1. ASSUME TypeOK, [Next]_vars, NEW p \in Pair, cand[p] \in {"merged", "dismissed"}
      PROVE  cand'[p] # "pending"
  <2>1. ASSUME NEW r \in Request, Decide(r) \/ Record(r) \/ Dismiss(r) PROVE cand'[p] # "pending"
      BY <1>1, <2>1 DEF Decide, Record, Dismiss, TypeOK
  <2> QED
      BY <1>1, <2>1, ZenonT(40) DEF Next, vars, MergeStep, EditStep, ReviewStep, Begin, LockFirst,
         LockSecond, Repoint, CommitMerge, Fail, LoadSave, WriteSave, BeginSplit, CommitSplit,
         Screen, BeginDismiss, Edit, Adopt
<1>2. IInv /\ [Next]_vars =>
        [\A p \in Pair : cand[p] \in {"merged", "dismissed"} => cand'[p] # "pending"]_vars
    BY <1>1 DEF IInv
<1> QED
    BY <1>2, Invariance, PTL DEF Spec, DecisionsStand

(* What is committed before the locks and read, or kept out by them, is on *)
(* the survivor after the merge.                                           *)
THEOREM FactsSurvive == Spec => MergeKeepsFacts
<1>1. ASSUME IInv, [Next]_vars, NEW r \in Request, request[r].pc = "moved",
             request[r].from \in live \ live', request[r].fresh
      PROVE  meta[request[r].from] \cup meta[request[r].to] \subseteq meta'[request[r].to]
  <2>1. ASSUME NEW s \in Request, CommitMerge(s) PROVE s = r
    <3>1. request[r].from = request[s].from
        BY <1>1, <2>1 DEF CommitMerge
    <3>2. request[r].from \in Holds(request[r])
        BY <1>1, HoldsOf
    <3> QED
        BY <1>1, <2>1, <3>1, <3>2, CommitterHolds
  <2>2. CommitMerge(r)
      BY <1>1, <2>1, RowCases DEF CommitSplit, WriteSave, Edit, Adopt
  <2>3. /\ request[r].from \in Entity /\ request[r].to \in Entity
        /\ request[r].from # request[r].to
      BY <1>1, <2>2, CommitterHolds DEF Merge
  <2>4. /\ meta[request[r].from] = request[r].brought
        /\ meta[request[r].to] = request[r].base
      BY <1>1 DEF IInv, Frozen
  <2>5. meta'[request[r].to] = IF request[r].brought \cup request[r].base # request[r].base
                                THEN request[r].brought \cup request[r].base
                                ELSE meta[request[r].to]
      BY <1>1, <2>2, <2>3 DEF CommitMerge, IInv, TypeOK
  <2> QED
      BY <2>4, <2>5
<1>2. IInv /\ [Next]_vars =>
        [\A r \in Request :
           LET q == request[r] IN
           q.pc = "moved" /\ q.from \in live \ live' /\ q.fresh
             => meta[q.from] \cup meta[q.to] \subseteq meta'[q.to]]_vars
    BY <1>1
<1> QED
    BY <1>2, Invariance, PTL DEF Spec, MergeKeepsFacts
-----------------------------------------------------------------------------
(* Tombstones.  Whatever set of merged entities one takes, the tombstone   *)
(* of some member leads out of it: nobody who follows tombstones returns.  *)
Acyclic == \A S \in SUBSET Merged : S # {} => \E e \in S : tomb[e] \notin S

(* A tombstone leads to an entity that exists or was merged itself.        *)
Leads == \A e \in Merged : tomb[e] \in live \cup Merged

(* A merge that commits adds its source to the merged entities; the target *)
(* is not one of them.                                                     *)
LEMMA TombWritten ==
  ASSUME IInv, NEW r \in Request, CommitMerge(r)
  PROVE  LET s == request[r].from
             t == request[r].to IN
         /\ s \in Entity /\ t \in live /\ s # t
         /\ Merged' = Merged \cup {s} /\ s \notin Merged /\ t \notin Merged'
         /\ tomb'[s] = t /\ \A e \in Merged : tomb'[e] = tomb[e]
         /\ live' = live \ {s}
<1> DEFINE s == request[r].from
           t == request[r].to
<1>1. s \in Entity /\ t \in Entity /\ s \in live /\ t \in live /\ s # t
    BY CommitterHolds DEF Merge
<1>2. tomb' = [tomb EXCEPT ![s] = t] /\ live' = live \ {s}
    BY DEF CommitMerge, Bury
<1>3. /\ tomb \in [Entity -> Entity \cup {None}]
      /\ tomb[s] = None /\ tomb[t] = None /\ t # None
    BY <1>1 DEF IInv, TypeOK, Entity, None
<1> QED
    BY <1>1, <1>2, <1>3 DEF Merged

LEMMA StepTombs == IInv /\ Acyclic /\ Leads /\ [Next]_vars => Acyclic' /\ Leads'
<1> SUFFICES ASSUME IInv, Acyclic, Leads, [Next]_vars PROVE Acyclic' /\ Leads'
    OBVIOUS
<1>1. ASSUME NEW r \in Request, CommitMerge(r) PROVE Acyclic' /\ Leads'
  <2> DEFINE s == request[r].from
             t == request[r].to
  <2>1. /\ t \in live' /\ t \notin Merged' /\ Merged' = Merged \cup {s} /\ s \notin Merged
        /\ tomb'[s] = t /\ \A e \in Merged : tomb'[e] = tomb[e]
        /\ live' = live \ {s}
      BY <1>1, TombWritten
  <2> HIDE DEF s, t
  <2>2. ASSUME NEW S \in SUBSET Merged', S # {} PROVE \E e \in S : tomb'[e] \notin S
    <3>1. CASE s \in S
        BY <2>1, <3>1
    <3>2. CASE s \notin S
        BY <2>1, <2>2, <3>2 DEF Acyclic
    <3> QED
        BY <3>1, <3>2
  <2>3. \A e \in Merged' : tomb'[e] \in live' \cup Merged'
      BY <2>1 DEF Leads
  <2> QED
      BY <2>2, <2>3 DEF Acyclic, Leads
<1>2. ASSUME tomb' = tomb, live \subseteq live' PROVE Acyclic' /\ Leads'
    BY <1>2 DEF Acyclic, Leads, Merged
<1>3. ASSUME NEW r \in Request, CommitSplit(r) PROVE tomb' = tomb /\ live \subseteq live'
    BY <1>3 DEF CommitSplit
<1> QED
    BY <1>1, <1>2, <1>3, RowCases DEF WriteSave, Edit, Adopt

LEMMA Tombs == Spec => [](IInv /\ Acyclic /\ Leads)
<1>1. Init => Acyclic /\ Leads
    BY DEF Init, Acyclic, Leads, Merged
<1> QED
    BY <1>1, InitIInv, StepIInv, StepTombs, PTL DEF Spec

(* Tombstones never lead in a circle, whichever merges of the same or of   *)
(* overlapping pairs run into one another: get_entity_tombstone never      *)
(* meets an entity that it has visited.                                    *)
THEOREM TombstonesNeverCircle == Spec => []Acyclic
<1> QED
    BY Tombs, PTL

(* Every set of numbers has a least one.                                   *)
LEMMA Least ==
  ASSUME NEW T \in SUBSET Nat, T # {}
  PROVE  \E n \in T : \A m \in T : n <= m
<1> DEFINE Less == {p \in Nat \X Nat : p[1] < p[2]}
<1>1. IsWellFoundedOn(Less, Nat)
    BY NatLessThanWellFounded, Zenon DEF OpToRel
<1> HIDE DEF Less
<1>2. PICK n \in T : \A m \in T : ~(<<m, n>> \in Less)
    BY <1>1, WFMin
<1>3. \A m \in T : ~(m < n)
    BY <1>2 DEF Less
<1> QED
    BY <1>3

(* The entities that get_entity_tombstone comes by: hop of Resolve exists, *)
(* as every initial piece of it does.                                      *)
Path(e, n) == {h \in [0..n -> Entity] : h[0] = e /\ \A k \in 1..n : h[k] = Follow(h[k - 1])}

LEMMA FollowType ==
  ASSUME TypeOK, NEW e \in Entity
  PROVE  Follow(e) \in Entity
  BY DEF TypeOK, Follow

LEMMA PathExists ==
  ASSUME TypeOK, NEW e \in Entity, NEW n \in Nat
  PROVE  Path(e, n) # {}
<1> DEFINE Without == {m \in Nat : Path(e, m) = {}}
<1> SUFFICES ASSUME Without # {} PROVE FALSE
    OBVIOUS
<1>1. PICK m \in Without : \A k \in Without : m <= k
  <2> HIDE DEF Without
  <2> QED
      BY Least DEF Without
<1>2. m # 0
  <2>1. [k \in 0..0 |-> e] \in Path(e, 0)
      BY DEF Path
  <2> QED
      BY <2>1
<1>3. m - 1 \in Nat /\ m - 1 \notin Without
    BY <1>1, <1>2
<1>4. PICK h : h \in Path(e, m - 1)
    BY <1>3
<1>5. /\ h \in [0..m - 1 -> Entity] /\ h[0] = e
      /\ \A k \in 1..m - 1 : h[k] = Follow(h[k - 1])
    BY <1>4 DEF Path
<1> DEFINE g == [k \in 0..m |-> IF k = m THEN Follow(h[m - 1]) ELSE h[k]]
<1>6. Follow(h[m - 1]) \in Entity
    BY <1>3, <1>5, FollowType
<1>7. g \in [0..m -> Entity] /\ g[0] = e
    BY <1>2, <1>3, <1>5, <1>6
<1>8. ASSUME NEW k \in 1..m PROVE g[k] = Follow(g[k - 1])
  <2>1. k - 1 \in 0..m - 1 /\ g[k - 1] = h[k - 1]
      BY <1>3
  <2>2. CASE k = m
      BY <2>1, <2>2
  <2>3. CASE k # m
      BY <1>5, <2>1, <2>3
  <2> QED
      BY <2>2, <2>3
<1> HIDE DEF g
<1>9. g \in Path(e, m)
    BY <1>7, <1>8 DEF Path
<1> QED
    BY <1>1, <1>9

(* Resolve returns the end of such a path.                                 *)
LEMMA ResolvePath ==
  ASSUME TypeOK, NEW e \in Entity
  PROVE  \E h \in Path(e, MaxHops) : Resolve(e) = h[MaxHops]
<1> DEFINE Def(h) == [n \in 0..MaxHops |-> IF n = 0 THEN e ELSE Follow(h[n - 1])]
           hop == CHOOSE h : h = Def(h)
<1>1. Resolve(e) = hop[MaxHops]
    BY DEF Resolve
<1>2. PICK p \in Path(e, MaxHops) : TRUE
    BY PathExists, BoundAssumption
<1>3. p = Def(p)
    BY <1>2, BoundAssumption DEF Path
<1>4. hop = Def(hop)
    BY <1>3
<1> HIDE DEF hop
<1>5. hop[0] = e /\ \A k \in 1..MaxHops : hop[k] = Follow(hop[k - 1])
    BY <1>4, BoundAssumption
<1>6. \A k \in 0..MaxHops : hop[k] \in Entity
  <2> DEFINE Off == {k \in 0..MaxHops : hop[k] \notin Entity}
  <2> SUFFICES ASSUME Off # {} PROVE FALSE
      OBVIOUS
  <2>1. PICK k \in Off : \A m \in Off : k <= m
    <3>1. Off \in SUBSET Nat
        BY BoundAssumption
    <3> HIDE DEF Off
    <3> QED
        BY <3>1, Least
  <2>2. k # 0 /\ k \in 1..MaxHops /\ k - 1 \in 0..MaxHops
      BY <1>5, BoundAssumption
  <2>3. k - 1 \notin Off
      BY <2>1, <2>2
  <2>4. hop[k - 1] \in Entity
      BY <2>2, <2>3
  <2> QED
      BY <1>5, <2>2, <2>4, FollowType
<1>7. hop \in [0..MaxHops -> Entity]
    BY <1>4, <1>6
<1>8. hop \in Path(e, MaxHops)
    BY <1>5, <1>7 DEF Path
<1> QED
    BY <1>1, <1>8

(* Of n + 1 entities in a row that were merged two would be the same, if   *)
(* no more than n were; but then what lies between them would be a cycle.  *)
LEMMA PathLeaves ==
  ASSUME TypeOK, Acyclic, NEW e \in Entity, NEW n \in Nat, NEW h \in Path(e, n),
         Cardinality(Merged) <= n
  PROVE  \E k \in 0..n : h[k] \notin Merged
<1> SUFFICES ASSUME \A k \in 0..n : h[k] \in Merged PROVE FALSE
    OBVIOUS
<1>1. h \in [0..n -> Merged]
    BY DEF Path
<1>2. IsFiniteSet(0..n) /\ Cardinality(0..n) = n + 1
    BY FS_Interval
<1>3. IsFiniteSet(Merged) /\ Cardinality(Merged) \in Nat
  <2>1. IsFiniteSet(Entity)
      BY FS_Interval, SizeAssumption DEF Entity
  <2>2. Merged \in SUBSET Entity
      BY DEF Merged
  <2> QED
      BY <2>1, <2>2, FS_Subset, FS_CardinalityType
<1>4. PICK i \in 0..n, j \in 0..n : i # j /\ h[i] = h[j]
    BY <1>1, <1>2, <1>3, FS_PigeonHole
<1>5. PICK a \in 0..n, b \in 0..n : a < b /\ h[a] = h[b]
    BY <1>4
<1> DEFINE S == {h[k] : k \in a..(b - 1)}
<1>6. S \subseteq Merged /\ h[a] \in S
    BY <1>1, <1>5
<1>7. ASSUME NEW k \in a..(b - 1) PROVE tomb[h[k]] \in S
  <2>1. k \in 0..n /\ k + 1 \in 1..n /\ (k + 1) - 1 = k
      BY <1>5
  <2>2. h[k + 1] = Follow(h[k])
      BY <2>1 DEF Path
  <2>3. tomb[h[k]] = h[k + 1]
      BY <1>1, <2>1, <2>2 DEF Follow, Merged
  <2>4. CASE k + 1 \in a..(b - 1)
      BY <2>3, <2>4
  <2>5. CASE k + 1 = b
      BY <1>5, <1>6, <2>3, <2>5
  <2> QED
      BY <1>5, <2>4, <2>5
<1>8. \A x \in S : tomb[x] \in S
    BY <1>7
<1> QED
    BY <1>6, <1>8 DEF Acyclic

(* get_entity_tombstone, given any entity that was merged, comes to one    *)
(* that exists, whatever merges ran into one another before, as long as    *)
(* MaxHops covers them: the tombstones never lead in a circle, and the     *)
(* first entity on the way that has none exists.                           *)
THEOREM SurvivorsAreFound == Spec => []SurvivorFound
<1>1. ASSUME IInv, Acyclic, Leads, Cardinality(Merged) <= MaxHops, NEW e \in Merged
      PROVE  Resolve(e) \in live
  <2>0. TypeOK /\ e \in Entity /\ MaxHops \in Nat
      BY <1>1, BoundAssumption DEF IInv, Merged
  <2>1. PICK h \in Path(e, MaxHops) : Resolve(e) = h[MaxHops]
      BY <2>0, ResolvePath
  <2>2. /\ h \in [0..MaxHops -> Entity] /\ h[0] = e
        /\ \A k \in 1..MaxHops : h[k] = Follow(h[k - 1])
      BY <2>1 DEF Path
  <2> DEFINE Out == {k \in 0..MaxHops : h[k] \notin Merged}
  <2>3. Out \in SUBSET Nat /\ Out # {}
      BY <1>1, <2>0, <2>1, PathLeaves
  <2>4. PICK f \in Out : \A k \in Out : f <= k
    <3> HIDE DEF Out
    <3> QED
        BY <2>3, Least
  <2>5. f \in 1..MaxHops /\ f - 1 \in 0..MaxHops /\ f - 1 \notin Out
      BY <1>1, <2>0, <2>2, <2>4
  <2>6. h[f - 1] \in Merged /\ h[f] = tomb[h[f - 1]] /\ h[f] \notin Merged
      BY <2>2, <2>4, <2>5 DEF Follow, Merged
  <2>7. h[f] \in live
      BY <1>1, <2>6 DEF Leads
  <2> DEFINE Astray == {k \in f..MaxHops : h[k] # h[f]}
  <2>8. Astray = {}
    <3> SUFFICES ASSUME Astray # {} PROVE FALSE
        OBVIOUS
    <3>1. Astray \in SUBSET Nat
        BY <2>0, <2>5
    <3>2. PICK k \in Astray : \A m \in Astray : k <= m
      <4> HIDE DEF Astray
      <4> QED
          BY <3>1, Least
    <3>3. k \in 1..MaxHops /\ k - 1 \in f..MaxHops /\ k - 1 \notin Astray
        BY <2>0, <2>5, <3>2
    <3>4. h[k - 1] = h[f]
        BY <3>3
    <3>5. h[k] = h[f]
        BY <2>2, <2>6, <3>3, <3>4 DEF Follow, Merged
    <3> QED
        BY <3>2, <3>5
  <2>9. MaxHops \in f..MaxHops
      BY <2>0, <2>5
  <2> QED
      BY <2>1, <2>7, <2>8, <2>9
<1>2. IInv /\ Acyclic /\ Leads => SurvivorFound
    BY <1>1 DEF SurvivorFound
<1> QED
    BY <1>2, Tombs, PTL
=============================================================================
