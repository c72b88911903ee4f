------------------------- MODULE ItemCustodyProofs --------------------------
(***************************************************************************)
(* Proofs about ItemCustody, for any sets of items, loan requests, users   *)
(* and overlapping HTTP requests.                                          *)
(***************************************************************************)
EXTENDS ItemCustody, TLAPS

LoanPc == {"resolve", "decide", "flushed", "answered"}
SeenPc == {"update", "return", "link", "decide", "flushed", "answered"}
ItemPc == LoanPc \cup SeenPc \cup {"ask", "delete"}

(* What a request has loaded by the time it is at a program counter.       *)
Loaded(q) ==
    /\ req[q].pc \in ItemPc => req[q].item \in Item /\ req[q].user \in User
    /\ req[q].pc \in LoanPc => /\ req[q].loan \in Loan
                               /\ loan[req[q].loan] # None
                               /\ loan[req[q].loan].item = req[q].item
    /\ req[q].pc \in SeenPc => /\ req[q].seen \in Row
                               /\ req[q].seen.status # "deleted"
    /\ Resolving(q) => req[q].answer \in Answer
    /\ req[q].pc \in {"select", "locked"} => /\ req[q].plan \in Plan
                                             /\ req[q].plan.source # req[q].plan.target
    /\ req[q].pc = "locked" => req[q].scope = req[q].plan.items

LoadedInv == \A q \in Request : Loaded(q)

PreviewInv == preview # None => preview \in Plan /\ preview.source # preview.target

(* What one request checked under its locks.                               *)
Holds(q) ==
    /\ req[q].pc = "locked" => req[q].scope \subseteq OwnedBy(req[q].plan.source)
    /\ Resolving(q) => /\ Exists(req[q].item)
                       /\ loan[req[q].loan].status # "deleted"
                       /\ row[req[q].item].owner # loan[req[q].loan].requester

(* No other request locks what a reassignment has locked.                  *)
Apart(r, q) ==
    req[r].pc = "locked" =>
        /\ req[q].pc = "locked" => req[q].scope \cap req[r].scope = {}
        /\ Resolving(q) => req[q].item \notin req[r].scope

LocksApart == \A r, q \in Request : r # q => Apart(r, q)

IInv == TypeOK /\ LoadedInv /\ PreviewInv /\ LocksHold /\ LocksApart

-----------------------------------------------------------------------------
(* Rows.                                                                   *)

LEMMA LocksHoldSplit == LocksHold <=> \A q \in Request : Holds(q)
  BY DEF LocksHold, Holds

(* An edit never produces a deleted row, nor another owner.                *)
LEMMA EditedType ==
  ASSUME NEW seen \in Row, NEW p \in Payload, seen.status # "deleted"
  PROVE  /\ Edited(seen, p) \in Row
         /\ Edited(seen, p).status # "deleted"
         /\ Edited(seen, p).owner = seen.owner
  <1>1. p \in [status : (Status \ {"deleted"}) \cup {Absent},
               borrower : User \cup {None, Absent},
               named : BOOLEAN \cup {Absent}]
    BY CustodyAssumption
  <1>. DEFINE s == IF p.status = Absent THEN seen.status ELSE p.status
              left == seen.status = "lent" /\ s # "lent"
              b == IF p.borrower # Absent THEN p.borrower
                   ELSE IF left THEN None ELSE seen.borrower
              n == IF p.named # Absent THEN p.named
                   ELSE IF left THEN FALSE ELSE seen.named
  <1>2. s \in Status \ {"deleted"}
    BY <1>1 DEF Row
  <1>3. b \in User \cup {None}
    BY <1>1 DEF Row
  <1>4. n \in BOOLEAN
    <2>1. p.named \in BOOLEAN \cup {Absent} /\ seen.named \in BOOLEAN
      BY <1>1, Zenon DEF Row
    <2>2. QED
      BY <2>1, Zenon
  <1>5. Edited(seen, p) = [owner |-> seen.owner, status |-> s, borrower |-> b, named |-> n]
    BY Zenon DEF Edited
  <1>. HIDE DEF s, b, n
  <1>6. seen.owner \in User
    BY DEF Row
  <1>7. QED
    BY <1>2, <1>3, <1>4, <1>5, <1>6 DEF Row

(* An UPDATE keeps the owner the row has by then, and the row.             *)
LEMMA MergedType ==
  ASSUME NEW now \in Row, NEW seen \in Row, NEW want \in Row,
         now.status # "deleted", want.status # "deleted"
  PROVE  /\ Merged(now, seen, want) \in Row
         /\ Merged(now, seen, want).status # "deleted"
         /\ Merged(now, seen, want).owner = now.owner
  <1>. DEFINE n == IF want.named # seen.named THEN want.named ELSE now.named
  <1>1. n \in BOOLEAN
    BY Zenon DEF Row
  <1>2. Merged(now, seen, want) =
          [owner    |-> now.owner,
           status   |-> IF want.status # seen.status THEN want.status ELSE now.status,
           borrower |-> IF want.borrower # seen.borrower THEN want.borrower ELSE now.borrower,
           named    |-> n]
    BY Zenon DEF Merged
  <1>. HIDE DEF n
  <1>3. QED
    BY <1>1, <1>2 DEF Row

LEMMA NewItemType ==
  ASSUME NEW u \in User
  PROVE  NewItem(u) \in Row /\ NewItem(u).status # "deleted" /\ NewItem(u).owner = u
  BY DEF NewItem, Row, Status

(* What a resolution makes of the item it loaded is a row.                 *)
LEMMA ResolvedType ==
  ASSUME IInv, NEW r \in Request, Resolving(r)
  PROVE  Resolved(r) \in Row /\ Resolved(r).status # "deleted"
  <1>1. /\ req[r].seen \in Row /\ req[r].seen.status # "deleted"
        /\ req[r].loan \in Loan /\ loan[req[r].loan] # None
    BY DEF IInv, LoadedInv, Loaded, Resolving, SeenPc, LoanPc
  <1>2. loan[req[r].loan].requester \in User
    BY <1>1 DEF IInv, TypeOK, LoanRow
  <1>3. QED
    BY <1>1, <1>2 DEF Resolved, Row, Status

(* A row that some request's action turns into another row of its owner.   *)
RowKept(i, x) ==
    /\ Exists(i) /\ x \in Row /\ x.status # "deleted" /\ x.owner = row[i].owner
    /\ row' = [row EXCEPT ![i] = x]

LEMMA UpdateRow ==
  ASSUME IInv, NEW r \in Request, NEW p \in Payload, UpdateCommit(r, p)
  PROVE  /\ req[r].item \in Item
         /\ \E x \in Row : RowKept(req[r].item, x)
  <1>. DEFINE i == req[r].item
              want == Edited(req[r].seen, p)
              x == Merged(row[i], req[r].seen, want)
  <1>1. /\ i \in Item /\ req[r].seen \in Row /\ req[r].seen.status # "deleted"
    BY DEF IInv, LoadedInv, Loaded, UpdateCommit, SeenPc, ItemPc
  <1>2. row[i] \in Row /\ row[i].status # "deleted" /\ Exists(i)
    BY <1>1 DEF IInv, TypeOK, UpdateCommit, Exists
  <1>3. want \in Row /\ want.status # "deleted"
    BY <1>1, EditedType
  <1>4. row' = [row EXCEPT ![i] = x]
    BY DEF UpdateCommit
  <1>. HIDE DEF want
  <1>5. x \in Row /\ x.status # "deleted" /\ x.owner = row[i].owner
    BY <1>1, <1>2, <1>3, MergedType
  <1>6. QED
    BY <1>1, <1>2, <1>4, <1>5 DEF RowKept

LEMMA ReturnRow ==
  ASSUME IInv, NEW r \in Request, ReturnCommit(r)
  PROVE  /\ req[r].item \in Item
         /\ \E x \in Row : RowKept(req[r].item, x)
  <1>. DEFINE i == req[r].item
              want == [req[r].seen EXCEPT !.status = "available", !.borrower = None]
              x == Merged(row[i], req[r].seen, want)
  <1>1. /\ i \in Item /\ req[r].seen \in Row /\ req[r].seen.status # "deleted"
    BY DEF IInv, LoadedInv, Loaded, ReturnCommit, SeenPc, ItemPc
  <1>2. row[i] \in Row /\ row[i].status # "deleted" /\ Exists(i)
    BY <1>1 DEF IInv, TypeOK, ReturnCommit, Exists
  <1>3. want \in Row /\ want.status # "deleted"
    BY <1>1 DEF Row, Status
  <1>4. row' = [row EXCEPT ![i] = x]
    BY DEF ReturnCommit
  <1>. HIDE DEF want
  <1>5. x \in Row /\ x.status # "deleted" /\ x.owner = row[i].owner
    BY <1>1, <1>2, <1>3, MergedType
  <1>6. QED
    BY <1>1, <1>2, <1>4, <1>5 DEF RowKept

LEMMA ResolveRow ==
  ASSUME IInv, NEW r \in Request, ResolveCommit(r)
  PROVE  /\ Resolving(r) /\ req[r].item \in Item
         /\ \E x \in Row : RowKept(req[r].item, x)
  <1>. DEFINE i == req[r].item
              x == Merged(row[i], req[r].seen, Resolved(r))
  <1>1. Resolving(r)
    BY DEF ResolveCommit, Resolving
  <1>2. /\ i \in Item /\ req[r].seen \in Row
    BY <1>1 DEF IInv, LoadedInv, Loaded, Resolving, SeenPc, ItemPc
  <1>3. row[i] \in Row /\ row[i].status # "deleted" /\ Exists(i)
    BY <1>1, <1>2 DEF IInv, TypeOK, LocksHold, Exists
  <1>4. row' = [row EXCEPT ![i] = x]
    BY DEF ResolveCommit
  <1>5. x \in Row /\ x.status # "deleted" /\ x.owner = row[i].owner
    BY <1>1, <1>2, <1>3, ResolvedType, MergedType
  <1>6. QED
    BY <1>1, <1>2, <1>3, <1>4, <1>5 DEF RowKept

-----------------------------------------------------------------------------
(* The frame of a step: what it must leave to the other requests.          *)

ExistsAfter(i) == row'[i] # None /\ row'[i].status # "deleted"

Kept(q) ==
    /\ req[q].pc \in LoanPc => /\ loan'[req[q].loan] # None
                               /\ loan'[req[q].loan].item = req[q].item
    /\ req[q].pc = "locked" => 
          \A i \in req[q].scope : ExistsAfter(i) /\ row'[i].owner = req[q].plan.source
    /\ Resolving(q) => /\ ExistsAfter(req[q].item)
                       /\ loan'[req[q].loan].status # "deleted"
                       /\ row'[req[q].item].owner # loan'[req[q].loan].requester

TablesType ==
    /\ row \in [Item -> Row \cup {None}]
    /\ links \subseteq Item \X User
    /\ loan \in [Loan -> LoanRow \cup {None}]
    /\ transfers \in [Item -> Seq([from : User, to : User])]
    /\ handovers \in [Item -> Seq(Move)]

LEMMA IdleType == Idle \in RequestState /\ Idle.pc = "idle"
  BY DEF Idle, RequestState, Pc

(* A step moves one request, and leaves the others what they rely on.      *)
LEMMA MoveKeeps ==
  ASSUME IInv, NEW r \in Request, NEW new \in RequestState, Start(r, new),
         TablesType', UNCHANGED preview,
         \A q \in Request \ {r} : Kept(q),
         Loaded(r)', Holds(r)',
         \A q \in Request \ {r} : Apart(r, q)' /\ Apart(q, r)'
  PROVE  IInv'
  <1>1. TypeOK'
    BY DEF IInv, TypeOK, TablesType, Start
  <1>2. \A q \in Request \ {r} : req'[q] = req[q]
    BY DEF Start, IInv, TypeOK
  <1>3. LoadedInv'
    <2>1. \A q \in Request \ {r} : Loaded(q)'
      BY <1>2 DEF IInv, LoadedInv, Loaded, Kept, Resolving
    <2>2. QED
      BY <2>1 DEF LoadedInv
  <1>4. LocksHold'
    <2>1. \A q \in Request \ {r} : Holds(q)'
      <3>. SUFFICES ASSUME NEW q \in Request \ {r} PROVE Holds(q)'
        OBVIOUS
      <3>1. req'[q] = req[q] /\ req[q].scope \subseteq Item
        BY <1>2 DEF IInv, TypeOK, RequestState
      <3>2. QED
        BY <3>1 DEF Holds, Kept, Resolving, OwnedBy, Exists, ExistsAfter
    <2>2. \A q \in Request : Holds(q)'
      BY <2>1
    <2>3. QED
      BY <2>2 DEF LocksHold, Holds
  <1>5. LocksApart'
    <2>1. \A p, q \in Request \ {r} : p # q => Apart(p, q)'
      BY <1>2 DEF IInv, LocksApart, Apart, Resolving
    <2>2. QED
      BY <2>1 DEF LocksApart
  <1>6. PreviewInv'
    BY DEF IInv, PreviewInv
  <1>7. QED
    BY <1>1, <1>3, <1>4, <1>5, <1>6 DEF IInv

(* A step that ends its request.                                           *)
LEMMA FinishKeeps ==
  ASSUME IInv, NEW r \in Request, Finish(r), TablesType', UNCHANGED preview,
         \A q \in Request \ {r} : Kept(q)
  PROVE  IInv'
  <1>1. Start(r, Idle)
    BY DEF Start, Finish
  <1>2. req'[r].pc = "idle"
    BY IdleType DEF Finish, IInv, TypeOK
  <1>3. Loaded(r)' /\ Holds(r)'
    BY <1>2 DEF Loaded, Holds, Resolving, ItemPc, LoanPc, SeenPc
  <1>4. \A q \in Request \ {r} : Apart(r, q)' /\ Apart(q, r)'
    BY <1>2 DEF Apart, Resolving
  <1>5. QED
    BY <1>1, <1>3, <1>4, IdleType, MoveKeeps

(* What a request relies on is there before the step.                      *)
LEMMA TablesSame ==
  ASSUME IInv, UNCHANGED <<row, loan>>
  PROVE  \A q \in Request : Kept(q)
  <1>1. \A q \in Request : Loaded(q) /\ Holds(q)
    BY LocksHoldSplit DEF IInv, LoadedInv
  <1>2. QED
    BY <1>1 DEF Loaded, Holds, Kept, OwnedBy, Exists, ExistsAfter

LEMMA TypeSame ==
  ASSUME IInv, UNCHANGED <<row, links, loan, transfers, handovers>>
  PROVE  TablesType'
  BY DEF IInv, TypeOK, TablesType

(* Rows and loans unchanged, and the request holds no locks afterwards.    *)
LEMMA LoadKeeps ==
  ASSUME IInv, NEW r \in Request, NEW new \in RequestState, Start(r, new),
         new.pc \notin {"locked", "flushed", "answered"},
         Loaded(r)',
         UNCHANGED <<row, links, loan, transfers, handovers, preview>>
  PROVE  IInv'
  <1>1. req'[r].pc = new.pc
    BY DEF Start, IInv, TypeOK
  <1>2. Holds(r)'
    BY <1>1 DEF Holds, Resolving
  <1>3. \A q \in Request \ {r} : Apart(r, q)' /\ Apart(q, r)'
    BY <1>1 DEF Apart, Resolving
  <1>4. QED
    BY <1>2, <1>3, TablesSame, TypeSame, MoveKeeps

(* One row becomes another of the same owner.                              *)
LEMMA RowKeptKeeps ==
  ASSUME IInv, NEW i \in Item, NEW x \in Row, RowKept(i, x),
         UNCHANGED loan
  PROVE  /\ row' \in [Item -> Row \cup {None}]
         /\ \A j \in Item : ExistsAfter(j) <=> Exists(j)
         /\ \A j \in Item : Exists(j) => row'[j].owner = row[j].owner
         /\ \A q \in Request : Kept(q)
  <1>1. /\ row' \in [Item -> Row \cup {None}] /\ row'[i] = x /\ x # None
        /\ \A j \in Item \ {i} : row'[j] = row[j]
    BY CustodyAssumption DEF IInv, TypeOK, RowKept
  <1>2. \A j \in Item : ExistsAfter(j) <=> Exists(j)
    BY <1>1 DEF Exists, ExistsAfter, RowKept
  <1>3. \A j \in Item : Exists(j) => row'[j].owner = row[j].owner
    BY <1>1 DEF RowKept
  <1>5. \A q \in Request : Kept(q)
    <2>. SUFFICES ASSUME NEW q \in Request PROVE Kept(q)
      OBVIOUS
    <2>1. Loaded(q) /\ Holds(q)
      BY LocksHoldSplit DEF IInv, LoadedInv
    <2>2. Resolving(q) => req[q].item \in Item
      BY <2>1 DEF Loaded, Resolving, ItemPc, LoanPc
    <2>3. QED
      BY <1>2, <1>3, <2>1, <2>2 DEF Loaded, Holds, Kept, OwnedBy
  <1>6. QED
    BY <1>1, <1>2, <1>3, <1>5

-----------------------------------------------------------------------------
(* A request begins, or loads one more row.                                *)

LEMMA LoadForUpdateKeeps ==
  ASSUME IInv, NEW r \in Request, NEW u \in User, NEW i \in Item, LoadForUpdate(r, u, i)
  PROVE  IInv'
  <1>. DEFINE new == [Idle EXCEPT !.pc = "update", !.user = u, !.item = i, !.seen = row[i]]
  <1>1. row[i] \in Row /\ row[i].status # "deleted"
    BY DEF LoadForUpdate, IInv, TypeOK, Exists
  <1>2. new \in RequestState /\ new.pc = "update"
    BY <1>1 DEF Idle, RequestState, Pc
  <1>3. req'[r] = new
    BY DEF LoadForUpdate, Start, IInv, TypeOK
  <1>4. Loaded(r)'
    BY <1>1, <1>3 DEF LoadForUpdate, Loaded, Idle, Resolving, ItemPc, LoanPc, SeenPc
  <1>5. /\ Start(r, new)
        /\ UNCHANGED <<row, links, loan, transfers, handovers, preview>>
    BY DEF LoadForUpdate
  <1>. HIDE DEF new
  <1>6. QED
    BY <1>2, <1>4, <1>5, LoadKeeps

LEMMA LoadForLinkKeeps ==
  ASSUME IInv, NEW r \in Request, NEW u \in User, NEW i \in Item, LoadForLink(r, u, i)
  PROVE  IInv'
  <1>. DEFINE new == [Idle EXCEPT !.pc = "link", !.user = u, !.item = i, !.seen = row[i]]
  <1>1. row[i] \in Row /\ row[i].status # "deleted"
    BY DEF LoadForLink, IInv, TypeOK, Exists
  <1>2. new \in RequestState /\ new.pc = "link"
    BY <1>1 DEF Idle, RequestState, Pc
  <1>3. req'[r] = new
    BY DEF LoadForLink, Start, IInv, TypeOK
  <1>4. Loaded(r)'
    BY <1>1, <1>3 DEF LoadForLink, Loaded, Idle, Resolving, ItemPc, LoanPc, SeenPc
  <1>5. /\ Start(r, new)
        /\ UNCHANGED <<row, links, loan, transfers, handovers, preview>>
    BY DEF LoadForLink
  <1>. HIDE DEF new
  <1>6. QED
    BY <1>2, <1>4, <1>5, LoadKeeps

LEMMA LoadForReturnKeeps ==
  ASSUME IInv, NEW r \in Request, NEW u \in User, NEW i \in Item, LoadForReturn(r, u, i)
  PROVE  IInv'
  <1>. DEFINE new == [Idle EXCEPT !.pc = "return", !.user = u, !.item = i, !.seen = row[i]]
  <1>1. row[i] \in Row /\ row[i].status # "deleted"
    BY DEF LoadForReturn, IInv, TypeOK, Exists
  <1>2. new \in RequestState /\ new.pc = "return"
    BY <1>1 DEF Idle, RequestState, Pc
  <1>3. req'[r] = new
    BY DEF LoadForReturn, Start, IInv, TypeOK
  <1>4. Loaded(r)'
    BY <1>1, <1>3 DEF LoadForReturn, Loaded, Idle, Resolving, ItemPc, LoanPc, SeenPc
  <1>5. /\ Start(r, new)
        /\ UNCHANGED <<row, links, loan, transfers, handovers, preview>>
    BY DEF LoadForReturn
  <1>. HIDE DEF new
  <1>6. QED
    BY <1>2, <1>4, <1>5, LoadKeeps

LEMMA LoadForDeleteKeeps ==
  ASSUME IInv, NEW r \in Request, NEW u \in User, NEW i \in Item, LoadForDelete(r, u, i)
  PROVE  IInv'
  <1>. DEFINE new == [Idle EXCEPT !.pc = "delete", !.user = u, !.item = i]
  <1>1. row[i] \in Row
    BY DEF LoadForDelete, IInv, TypeOK, Exists
  <1>2. new \in RequestState /\ new.pc = "delete"
    BY <1>1 DEF Idle, RequestState, Pc
  <1>3. req'[r] = new
    BY DEF LoadForDelete, Start, IInv, TypeOK
  <1>4. Loaded(r)'
    BY <1>1, <1>3 DEF LoadForDelete, Loaded, Idle, Resolving, ItemPc, LoanPc, SeenPc
  <1>5. /\ Start(r, new)
        /\ UNCHANGED <<row, links, loan, transfers, handovers, preview>>
    BY DEF LoadForDelete
  <1>. HIDE DEF new
  <1>6. QED
    BY <1>2, <1>4, <1>5, LoadKeeps

LEMMA CheckLoanKeeps ==
  ASSUME IInv, NEW r \in Request, NEW u \in User, NEW i \in Item, CheckLoan(r, u, i)
  PROVE  IInv'
  <1>. DEFINE new == [Idle EXCEPT !.pc = "ask", !.user = u, !.item = i]
  <1>1. row[i] \in Row
    BY DEF CheckLoan, IInv, TypeOK, Exists
  <1>2. new \in RequestState /\ new.pc = "ask"
    BY <1>1 DEF Idle, RequestState, Pc
  <1>3. req'[r] = new
    BY DEF CheckLoan, Start, IInv, TypeOK
  <1>4. Loaded(r)'
    BY <1>1, <1>3 DEF CheckLoan, Loaded, Idle, Resolving, ItemPc, LoanPc, SeenPc
  <1>5. /\ Start(r, new)
        /\ UNCHANGED <<row, links, loan, transfers, handovers, preview>>
    BY DEF CheckLoan
  <1>. HIDE DEF new
  <1>6. QED
    BY <1>2, <1>4, <1>5, LoadKeeps

LEMMA LoadLoanKeeps ==
  ASSUME IInv, NEW r \in Request, NEW u \in User, NEW l \in Loan, LoadLoan(r, u, l)
  PROVE  IInv'
  <1>. DEFINE new == [Idle EXCEPT !.pc = "resolve", !.user = u, !.loan = l,
                                   !.item = loan[l].item]
  <1>1. loan[l] \in LoanRow /\ loan[l] # None /\ loan[l].item \in Item
    BY DEF LoadLoan, IInv, TypeOK, Exists, IsPending, LoanRow
  <1>2. new \in RequestState /\ new.pc = "resolve"
    BY <1>1 DEF Idle, RequestState, Pc
  <1>3. req'[r] = new
    BY DEF LoadLoan, Start, IInv, TypeOK
  <1>4. Loaded(r)'
    BY <1>1, <1>3 DEF LoadLoan, Loaded, Idle, Resolving, ItemPc, LoanPc, SeenPc
  <1>5. /\ Start(r, new)
        /\ UNCHANGED <<row, links, loan, transfers, handovers, preview>>
    BY DEF LoadLoan
  <1>. HIDE DEF new
  <1>6. QED
    BY <1>2, <1>4, <1>5, LoadKeeps

LEMMA BeginKeeps ==
  ASSUME IInv, NEW r \in Request, Begin(r)
  PROVE  IInv'
  BY LoadForUpdateKeeps, LoadForDeleteKeeps, LoadForLinkKeeps, LoadForReturnKeeps,
     CheckLoanKeeps, LoadLoanKeeps DEF Begin

LEMMA LoadLoanItemKeeps ==
  ASSUME IInv, NEW r \in Request, LoadLoanItem(r)
  PROVE  IInv'
  <1>. DEFINE i == req[r].item
              new == [req[r] EXCEPT !.pc = "decide", !.seen = row[i]]
  <1>1. /\ req[r].pc = "resolve" /\ i \in Item /\ req[r].user \in User
        /\ req[r].loan \in Loan /\ loan[req[r].loan] # None
        /\ loan[req[r].loan].item = i
    BY DEF LoadLoanItem, IInv, LoadedInv, Loaded, ItemPc, LoanPc
  <1>2. row[i] \in Row /\ row[i].status # "deleted"
    BY <1>1 DEF LoadLoanItem, IInv, TypeOK, Exists
  <1>3. req[r] \in RequestState
    BY DEF IInv, TypeOK
  <1>4. /\ new \in RequestState /\ new.pc = "decide" /\ new.item = i
        /\ new.user = req[r].user /\ new.loan = req[r].loan /\ new.seen = row[i]
    BY <1>1, <1>2, <1>3 DEF RequestState, Pc
  <1>5. req'[r] = new
    BY DEF LoadLoanItem, Start, IInv, TypeOK
  <1>6. /\ Start(r, new)
        /\ UNCHANGED <<row, links, loan, transfers, handovers, preview>>
    BY DEF LoadLoanItem
  <1>. HIDE DEF new, i
  <1>7. Loaded(r)'
    BY <1>1, <1>2, <1>4, <1>5, <1>6 DEF Loaded, Resolving, ItemPc, LoanPc, SeenPc
  <1>8. QED
    BY <1>4, <1>6, <1>7, LoadKeeps

LEMMA ConfirmKeeps ==
  ASSUME IInv, NEW r \in Request, Confirm(r)
  PROVE  IInv'
  <1>. DEFINE new == [Idle EXCEPT !.pc = "select", !.plan = preview,
                                  !.scope = Target(preview)]
  <1>1. preview \in Plan /\ preview.source # preview.target
    BY DEF Confirm, IInv, PreviewInv
  <1>2. Target(preview) \in SUBSET Item
    BY DEF Target, OwnedBy
  <1>3. new \in RequestState /\ new.pc = "select"
    BY <1>1, <1>2 DEF Idle, RequestState, Pc
  <1>4. req'[r] = new
    BY DEF Confirm, Start, IInv, TypeOK
  <1>5. Loaded(r)'
    BY <1>1, <1>4 DEF Loaded, Idle, Resolving, ItemPc, LoanPc, SeenPc
  <1>6. /\ Start(r, new)
        /\ UNCHANGED <<row, links, loan, transfers, handovers, preview>>
    BY DEF Confirm
  <1>. HIDE DEF new
  <1>7. QED
    BY <1>3, <1>5, <1>6, LoadKeeps

LEMMA AbortKeeps ==
  ASSUME IInv, NEW r \in Request, Abort(r)
  PROVE  IInv'
  <1>1. UNCHANGED <<row, links, loan, transfers, handovers, preview>>
    BY DEF Abort
  <1>2. QED
    BY <1>1, TablesSame, TypeSame, FinishKeeps DEF Abort

-----------------------------------------------------------------------------
(* A request takes its row locks.                                          *)

LEMMA ResolveFlushKeeps ==
  ASSUME IInv, NEW r \in Request, NEW a \in Answer, ResolveFlush(r, a)
  PROVE  IInv'
  <1>. DEFINE i == req[r].item
              l == req[r].loan
              new == [req[r] EXCEPT !.pc = "flushed", !.answer = a]
  <1>1. /\ req[r].pc = "decide" /\ i \in Item /\ req[r].user \in User
        /\ l \in Loan /\ loan[l] # None /\ loan[l].item = i
        /\ req[r].seen \in Row /\ req[r].seen.status # "deleted"
    BY DEF ResolveFlush, IInv, LoadedInv, Loaded, ItemPc, LoanPc, SeenPc
  <1>2. req[r] \in RequestState
    BY DEF IInv, TypeOK
  <1>3. /\ new \in RequestState /\ new.pc = "flushed" /\ new.item = i
        /\ new.user = req[r].user /\ new.loan = l /\ new.seen = req[r].seen
        /\ new.answer = a
    BY <1>2 DEF RequestState, Pc
  <1>4. /\ req'[r] = new
        /\ \A q \in Request \ {r} : req'[q] = req[q]
        /\ Start(r, new)
        /\ UNCHANGED <<row, links, loan, transfers, handovers, preview>>
    BY DEF ResolveFlush, Start, IInv, TypeOK
  <1>5. /\ Exists(i) /\ loan[l].status # "deleted"
        /\ row[i].owner # loan[l].requester
    BY DEF ResolveFlush, TriggerAdmits
  <1>6. \A q \in Request \ {r} : i \notin WriteLocks(q)
    BY DEF ResolveFlush, CanWrite, CanShare
  <1>7. \A q \in Request \ {r} : req[q].pc = "locked" => i \notin req[q].scope
    BY <1>6 DEF WriteLocks
  <1>. HIDE DEF new, i, l
  <1>8. Loaded(r)' /\ Holds(r)'
    BY <1>1, <1>3, <1>4, <1>5 DEF Loaded, Holds, Resolving, ItemPc, LoanPc, SeenPc,
       Exists
  <1>9. \A q \in Request \ {r} : Apart(r, q)' /\ Apart(q, r)'
    BY <1>3, <1>4, <1>7 DEF Apart, Resolving
  <1>10. QED
    BY <1>3, <1>4, <1>8, <1>9, TablesSame, TypeSame, MoveKeeps

LEMMA PostAnswerKeeps ==
  ASSUME IInv, NEW r \in Request, PostAnswer(r)
  PROVE  IInv'
  <1>. DEFINE new == [req[r] EXCEPT !.pc = "answered"]
  <1>1. req[r].pc = "flushed" /\ Loaded(r) /\ Holds(r) /\ req[r] \in RequestState
    BY LocksHoldSplit DEF PostAnswer, IInv, TypeOK, LoadedInv
  <1>2. /\ req[r].loan \in Loan /\ req[r].answer \in Answer
    BY <1>1 DEF Loaded, Resolving, LoanPc
  <1>3. /\ new \in RequestState /\ new.pc = "answered" /\ new.item = req[r].item
        /\ new.user = req[r].user /\ new.loan = req[r].loan
        /\ new.seen = req[r].seen /\ new.answer = req[r].answer
    BY <1>1 DEF RequestState, Pc
  <1>4. /\ req'[r] = new
        /\ \A q \in Request \ {r} : req'[q] = req[q]
        /\ Start(r, new)
        /\ UNCHANGED <<row, links, loan, transfers, handovers, preview>>
    BY DEF PostAnswer, Start, IInv, TypeOK
  <1>. HIDE DEF new
  <1>5. TablesType'
    BY <1>4 DEF TablesType, IInv, TypeOK
  <1>6. Loaded(r)' /\ Holds(r)'
    BY <1>1, <1>3, <1>4 DEF Loaded, Holds, Resolving, ItemPc, LoanPc, SeenPc, Exists
  <1>7. \A q \in Request \ {r} : Apart(r, q) /\ Apart(q, r)
    BY DEF IInv, LocksApart
  <1>8. \A q \in Request \ {r} : Apart(r, q)' /\ Apart(q, r)'
    BY <1>1, <1>3, <1>4, <1>7 DEF Apart, Resolving
  <1>9. QED
    BY <1>3, <1>4, <1>5, <1>6, <1>8, TablesSame, MoveKeeps

LEMMA LockRowsKeeps ==
  ASSUME IInv, NEW r \in Request, LockRows(r)
  PROVE  IInv'
  <1>. DEFINE S == {i \in req[r].scope : i \in OwnedBy(req[r].plan.source)}
              new == [req[r] EXCEPT !.pc = "locked", !.scope = S]
  <1>1. /\ req[r].pc = "select" /\ req[r] \in RequestState
        /\ req[r].plan \in Plan /\ req[r].plan.source # req[r].plan.target
    BY DEF LockRows, IInv, TypeOK, LoadedInv, Loaded
  <1>2. /\ S \in SUBSET Item /\ S = req[r].plan.items
        /\ S \subseteq OwnedBy(req[r].plan.source) /\ S \subseteq req[r].scope
    BY DEF LockRows, AsPreviewed, OwnedBy
  <1>3. /\ req'[r] = new
        /\ \A q \in Request \ {r} : req'[q] = req[q]
        /\ Start(r, new)
        /\ UNCHANGED <<row, links, loan, transfers, handovers, preview>>
    BY DEF LockRows, Start, IInv, TypeOK
  <1>4. \A q \in Request \ {r}, i \in S :
           i \notin WriteLocks(q) /\ i \notin ShareLocks(q)
    BY <1>2 DEF LockRows, CanWrite
  <1>5. \A q \in Request \ {r} :
           /\ req[q].pc = "locked" => req[q].scope \cap S = {}
           /\ Resolving(q) => req[q].item \notin S
    BY <1>4 DEF WriteLocks, ShareLocks
  <1>. HIDE DEF S
  <1>6. /\ new \in RequestState /\ new.pc = "locked" /\ new.scope = S
        /\ new.plan = req[r].plan
    BY <1>1, <1>2 DEF RequestState, Pc
  <1>. HIDE DEF new
  <1>7. Loaded(r)'
    BY <1>1, <1>2, <1>3, <1>6 DEF Loaded, Resolving, ItemPc, LoanPc, SeenPc
  <1>8. Holds(r)'
    <2>1. \A i \in S : i \in Item /\ Exists(i) /\ row[i].owner = req[r].plan.source
      BY <1>2 DEF OwnedBy
    <2>2. /\ req'[r].pc = "locked" /\ req'[r].scope = S
          /\ req'[r].plan = req[r].plan
      BY <1>3, <1>6
    <2>3. QED
      BY <1>3, <2>1, <2>2 DEF Holds, Resolving, OwnedBy, Exists
  <1>9. \A q \in Request \ {r} : Apart(r, q)' /\ Apart(q, r)'
    BY <1>3, <1>5, <1>6 DEF Apart, Resolving
  <1>10. QED
    BY <1>3, <1>6, <1>7, <1>8, <1>9, TablesSame, TypeSame, MoveKeeps

-----------------------------------------------------------------------------
(* Steps outside the requests.                                             *)

(* No request moves.                                                       *)
LEMMA StillKeeps ==
  ASSUME IInv, TablesType', PreviewInv', preview' \in Plan \cup {None},
         UNCHANGED req, \A q \in Request : Kept(q)
  PROVE  IInv'
  <1>1. TypeOK'
    BY DEF IInv, TypeOK, TablesType
  <1>2. LoadedInv'
    BY DEF IInv, LoadedInv, Loaded, Kept, Resolving
  <1>3. \A q \in Request : Holds(q)'
    <2>. SUFFICES ASSUME NEW q \in Request PROVE Holds(q)'
      OBVIOUS
    <2>1. req'[q] = req[q] /\ req[q].scope \subseteq Item
      BY DEF IInv, TypeOK, RequestState
    <2>2. QED
      BY <2>1 DEF Holds, Kept, Resolving, OwnedBy, Exists, ExistsAfter
  <1>4. LocksHold'
    BY <1>3 DEF LocksHold, Holds
  <1>5. LocksApart'
    BY DEF IInv, LocksApart, Apart, Resolving
  <1>6. QED
    BY <1>1, <1>2, <1>4, <1>5 DEF IInv

LEMMA CreateItemKeeps ==
  ASSUME IInv, NEW u \in User, NEW i \in Item, NEW p \in Payload, CreateItem(u, i, p)
  PROVE  IInv'
  <1>. DEFINE x == Edited(NewItem(u), p)
  <1>1. x \in Row
    BY NewItemType, EditedType
  <1>2. row' = [row EXCEPT ![i] = x] /\ row[i] = None
    BY DEF CreateItem
  <1>3. UNCHANGED <<links, loan, transfers, handovers, preview, req>>
    BY DEF CreateItem
  <1>. HIDE DEF x
  <1>4. TablesType' /\ PreviewInv' /\ preview' \in Plan \cup {None}
    BY <1>1, <1>2, <1>3 DEF IInv, TypeOK, TablesType, PreviewInv
  <1>5. \A q \in Request : Kept(q)
    <2>1. \A j \in Item : Exists(j) => row'[j] = row[j]
      BY <1>2 DEF Exists, IInv, TypeOK
    <2>. SUFFICES ASSUME NEW q \in Request PROVE Kept(q)
      OBVIOUS
    <2>2. Loaded(q) /\ Holds(q)
      BY LocksHoldSplit DEF IInv, LoadedInv
    <2>3. Resolving(q) => req[q].item \in Item
      BY <2>2 DEF Loaded, Resolving, ItemPc, LoanPc
    <2>4. QED
      BY <1>3, <2>1, <2>2, <2>3 DEF Loaded, Holds, Kept, OwnedBy, Exists, ExistsAfter
  <1>6. QED
    BY <1>3, <1>4, <1>5, StillKeeps

LEMMA UnlinkKeeps ==
  ASSUME IInv, NEW i \in Item, Unlink(i)
  PROVE  IInv'
  <1>1. TablesType' /\ PreviewInv' /\ preview' \in Plan \cup {None}
    BY DEF Unlink, IInv, TypeOK, TablesType, PreviewInv
  <1>2. QED
    BY <1>1, TablesSame, StillKeeps DEF Unlink

LEMMA PreviewKeeps ==
  ASSUME IInv, NEW s \in User, NEW t \in User, NEW all \in BOOLEAN,
         NEW S \in SUBSET Item, Preview(s, t, all, S)
  PROVE  IInv'
  <1>1. preview' \in Plan /\ preview'.source # preview'.target
    <2>1. /\ preview' = [source |-> s, target |-> t, all |-> all, items |-> S]
          /\ s # t
      BY Zenon DEF Preview
    <2>. DEFINE plan == [source |-> s, target |-> t, all |-> all, items |-> S]
    <2>2. plan \in Plan
      BY Zenon DEF Plan
    <2>3. plan.source = s /\ plan.target = t
      OBVIOUS
    <2>. HIDE DEF plan
    <2>4. QED
      BY <2>1, <2>2, <2>3 DEF plan
  <1>2. UNCHANGED <<row, links, loan, transfers, handovers, req>>
    BY DEF Preview
  <1>3. QED
    BY <1>1, <1>2, TypeSame, TablesSame, StillKeeps DEF PreviewInv

-----------------------------------------------------------------------------
(* A request commits.                                                      *)

LEMMA UpdateCommitKeeps ==
  ASSUME IInv, NEW r \in Request, NEW p \in Payload, UpdateCommit(r, p)
  PROVE  IInv'
  <1>1. PICK x \in Row : req[r].item \in Item /\ RowKept(req[r].item, x)
    BY UpdateRow
  <1>2. UNCHANGED <<links, loan, transfers, handovers, preview>> /\ Finish(r)
    BY DEF UpdateCommit
  <1>3. row' \in [Item -> Row \cup {None}] /\ \A q \in Request : Kept(q)
    BY <1>1, <1>2, RowKeptKeeps
  <1>4. TablesType'
    BY <1>2, <1>3 DEF IInv, TypeOK, TablesType
  <1>5. QED
    BY <1>2, <1>3, <1>4, FinishKeeps

LEMMA ReturnCommitKeeps ==
  ASSUME IInv, NEW r \in Request, ReturnCommit(r)
  PROVE  IInv'
  <1>. DEFINE i == req[r].item
              move == [from |-> req[r].seen.borrower, to |-> req[r].seen.owner]
  <1>1. PICK x \in Row : req[r].item \in Item /\ RowKept(req[r].item, x)
    BY ReturnRow
  <1>2. UNCHANGED <<links, loan, transfers, preview>> /\ Finish(r)
    BY DEF ReturnCommit
  <1>3. row' \in [Item -> Row \cup {None}] /\ \A q \in Request : Kept(q)
    BY <1>1, <1>2, RowKeptKeeps
  <1>4. move \in Move
    BY DEF ReturnCommit, IInv, LoadedInv, Loaded, SeenPc, Row, Move
  <1>5. handovers' = [handovers EXCEPT ![i] = Append(@, move)]
    BY DEF ReturnCommit
  <1>. HIDE DEF move
  <1>6. handovers' \in [Item -> Seq(Move)]
    <2>1. i \in Item /\ handovers \in [Item -> Seq(Move)]
      BY <1>1 DEF IInv, TypeOK
    <2>. HIDE DEF i
    <2>2. Append(handovers[i], move) \in Seq(Move)
      BY <1>4, <2>1
    <2>3. QED
      BY <1>5, <2>1, <2>2
  <1>7. TablesType'
    BY <1>2, <1>3, <1>6 DEF IInv, TypeOK, TablesType
  <1>8. QED
    BY <1>2, <1>3, <1>7, FinishKeeps

LEMMA ResolveCommitKeeps ==
  ASSUME IInv, NEW r \in Request, ResolveCommit(r)
  PROVE  IInv'
  <1>. DEFINE i == req[r].item
              l == req[r].loan
              status == IF req[r].answer = "approve" THEN "approved" ELSE "rejected"
              move == [from |-> req[r].seen.owner, to |-> loan[l].requester]
  <1>1. PICK x \in Row : Resolving(r) /\ i \in Item /\ RowKept(i, x)
    BY ResolveRow
  <1>2. /\ UNCHANGED <<links, transfers, preview>> /\ Finish(r)
        /\ loan' = [loan EXCEPT ![l].status = status]
        /\ handovers' = IF req[r].answer = "approve"
                        THEN [handovers EXCEPT ![i] = Append(@, move)] ELSE handovers
    BY Zenon DEF ResolveCommit
  <1>3. /\ l \in Loan /\ loan[l] \in LoanRow /\ req[r].seen \in Row
    BY <1>1 DEF IInv, TypeOK, LoadedInv, Loaded, Resolving, LoanPc, SeenPc
  <1>4. move \in Move /\ status \in LoanStatus /\ status # "deleted"
    BY <1>3 DEF Move, Row, LoanRow, LoanStatus
  <1>. HIDE DEF status, move, i, l
  <1>5. /\ loan' \in [Loan -> LoanRow \cup {None}]
        /\ \A m \in Loan \ {l} : loan'[m] = loan[m]
        /\ loan'[l] # None /\ loan'[l].item = loan[l].item
        /\ loan'[l].requester = loan[l].requester /\ loan'[l].status # "deleted"
    <2>. DEFINE y == [loan[l] EXCEPT !.status = status]
    <2>1. /\ y \in LoanRow /\ y.item = loan[l].item
          /\ y.requester = loan[l].requester /\ y.status = status
      BY <1>3, <1>4 DEF LoanRow
    <2>2. loan' = [loan EXCEPT ![l] = y]
      BY <1>2, Zenon
    <2>. HIDE DEF y
    <2>3. QED
      BY <1>3, <1>4, <2>1, <2>2, CustodyAssumption DEF IInv, TypeOK
  <1>6. handovers' \in [Item -> Seq(Move)]
    BY <1>1, <1>2, <1>4 DEF IInv, TypeOK
  <1>7. /\ row' \in [Item -> Row \cup {None}]
        /\ \A j \in Item : Exists(j) => ExistsAfter(j) /\ row'[j].owner = row[j].owner
    <2>1. row'[i] = x /\ x # None /\ \A j \in Item \ {i} : row'[j] = row[j]
      BY <1>1, CustodyAssumption DEF IInv, TypeOK, RowKept
    <2>2. QED
      BY <1>1, <2>1 DEF IInv, TypeOK, RowKept, Exists, ExistsAfter
  <1>8. \A q \in Request : Kept(q)
    <2>. SUFFICES ASSUME NEW q \in Request PROVE Kept(q)
      OBVIOUS
    <2>1. Loaded(q) /\ Holds(q)
      BY LocksHoldSplit DEF IInv, LoadedInv
    <2>2. /\ req[q].pc \in LoanPc => req[q].loan \in Loan
          /\ Resolving(q) => req[q].loan \in Loan /\ req[q].item \in Item
      BY <2>1 DEF Loaded, Resolving, ItemPc, LoanPc
    <2>3. QED
      BY <1>5, <1>7, <2>1, <2>2 DEF Loaded, Holds, Kept, OwnedBy
  <1>9. TablesType'
    BY <1>2, <1>5, <1>6, <1>7 DEF IInv, TypeOK, TablesType
  <1>10. QED
    BY <1>2, <1>8, <1>9, FinishKeeps

LEMMA LinkCommitKeeps ==
  ASSUME IInv, NEW r \in Request, LinkCommit(r)
  PROVE  IInv'
  <1>1. req[r].item \in Item /\ req[r].seen.owner \in User
    BY DEF LinkCommit, IInv, LoadedInv, Loaded, ItemPc, SeenPc, Row
  <1>2. UNCHANGED <<row, loan, transfers, handovers, preview>> /\ Finish(r)
    BY DEF LinkCommit
  <1>3. links' \subseteq Item \X User
    BY <1>1 DEF LinkCommit, IInv, TypeOK
  <1>4. TablesType'
    BY <1>2, <1>3 DEF IInv, TypeOK, TablesType
  <1>5. QED
    BY <1>2, <1>4, TablesSame, FinishKeeps

LEMMA AskCommitKeeps ==
  ASSUME IInv, NEW r \in Request, NEW l \in Loan, AskCommit(r, l)
  PROVE  IInv'
  <1>. DEFINE y == [item |-> req[r].item, requester |-> req[r].user, status |-> "pending"]
  <1>1. y \in LoanRow
    BY DEF AskCommit, IInv, LoadedInv, Loaded, ItemPc, LoanRow, LoanStatus
  <1>2. /\ loan[l] = None /\ loan' = [loan EXCEPT ![l] = y]
        /\ UNCHANGED <<row, links, transfers, handovers, preview>> /\ Finish(r)
    BY DEF AskCommit
  <1>. HIDE DEF y
  <1>3. TablesType'
    BY <1>1, <1>2 DEF IInv, TypeOK, TablesType
  <1>4. \A q \in Request : Kept(q)
    <2>. SUFFICES ASSUME NEW q \in Request PROVE Kept(q)
      OBVIOUS
    <2>1. Loaded(q) /\ Holds(q)
      BY LocksHoldSplit DEF IInv, LoadedInv
    <2>2. req[q].pc \in LoanPc \/ Resolving(q) =>
             req[q].loan \in Loan /\ req[q].loan # l /\ loan'[req[q].loan] = loan[req[q].loan]
      BY <1>2, <2>1 DEF Loaded, Resolving, LoanPc, IInv, TypeOK
    <2>3. QED
      BY <1>2, <2>1, <2>2 DEF Loaded, Holds, Kept, OwnedBy, Exists, ExistsAfter
  <1>5. QED
    BY <1>2, <1>3, <1>4, FinishKeeps

LEMMA DeleteCommitKeeps ==
  ASSUME IInv, NEW r \in Request, DeleteCommit(r)
  PROVE  IInv'
  <1>. DEFINE i == req[r].item
              x == [row[i] EXCEPT !.status = "deleted"]
              y(l) == IF loan[l] # None /\ loan[l].item = i
                      THEN [loan[l] EXCEPT !.status = "deleted"] ELSE loan[l]
  <1>1. i \in Item /\ row[i] \in Row
    BY DEF DeleteCommit, IInv, TypeOK, LoadedInv, Loaded, ItemPc, Exists
  <1>2. x \in Row /\ x.owner = row[i].owner
    BY <1>1 DEF Row, Status
  <1>3. row' = [row EXCEPT ![i] = x] /\ loan' = [l \in Loan |-> y(l)]
    BY Zenon DEF DeleteCommit
  <1>4. /\ links' \subseteq links
        /\ transfers' = [transfers EXCEPT ![i] = <<>>]
        /\ handovers' = [handovers EXCEPT ![i] = <<>>]
        /\ UNCHANGED <<preview>> /\ Finish(r)
    BY DEF DeleteCommit
  <1>5. \A l \in Loan : /\ y(l) \in LoanRow \cup {None}
                        /\ loan[l] # None => /\ y(l) # None /\ y(l).item = loan[l].item
                                             /\ y(l).requester = loan[l].requester
                        /\ loan[l].item # i => y(l) = loan[l]
    <2>. SUFFICES ASSUME NEW l \in Loan
                  PROVE  /\ y(l) \in LoanRow \cup {None}
                         /\ loan[l] # None => /\ y(l) # None /\ y(l).item = loan[l].item
                                              /\ y(l).requester = loan[l].requester
                         /\ loan[l].item # i => y(l) = loan[l]
      OBVIOUS
    <2>1. loan[l] \in LoanRow \cup {None}
      BY DEF IInv, TypeOK
    <2>2. QED
      BY <2>1, CustodyAssumption DEF LoanRow, LoanStatus
  <1>6. \A q \in Request \ {r} : i \notin WriteLocks(q) /\ i \notin ShareLocks(q)
    BY DEF DeleteCommit, CanWrite
  <1>. HIDE DEF i, x, y
  <1>7. TablesType'
    <2>1. row' \in [Item -> Row \cup {None}]
      BY <1>2, <1>3 DEF IInv, TypeOK
    <2>2. loan' \in [Loan -> LoanRow \cup {None}]
      BY <1>3, <1>5
    <2>3. transfers' \in [Item -> Seq([from : User, to : User])]
      <3>1. <<>> \in Seq([from : User, to : User])
        OBVIOUS
      <3>2. QED
        BY <1>4, <3>1 DEF IInv, TypeOK
    <2>4. handovers' \in [Item -> Seq(Move)]
      <3>1. <<>> \in Seq(Move)
        OBVIOUS
      <3>2. QED
        BY <1>4, <3>1 DEF IInv, TypeOK
    <2>5. links' \subseteq Item \X User
      BY <1>4 DEF IInv, TypeOK
    <2>6. QED
      BY <2>1, <2>2, <2>3, <2>4, <2>5 DEF TablesType
  <1>8. ASSUME NEW q \in Request \ {r} PROVE Kept(q)
    <2>1. Loaded(q) /\ Holds(q)
      BY LocksHoldSplit DEF IInv, LoadedInv
    <2>2. /\ req[q].pc = "locked" => i \notin req[q].scope
          /\ Resolving(q) => req[q].item # i
      BY <1>6 DEF WriteLocks, ShareLocks
    <2>3. \A j \in Item : j # i => row'[j] = row[j]
      BY <1>3 DEF IInv, TypeOK
    <2>4. /\ req[q].pc \in LoanPc => req[q].loan \in Loan
          /\ Resolving(q) => req[q].loan \in Loan /\ req[q].item \in Item
                             /\ loan[req[q].loan].item = req[q].item
      BY <2>1 DEF Loaded, Resolving, ItemPc, LoanPc
    <2>5. QED
      BY <1>3, <1>5, <2>1, <2>2, <2>3, <2>4
         DEF Loaded, Holds, Kept, OwnedBy, Exists, ExistsAfter
  <1>9. QED
    BY <1>4, <1>7, <1>8, FinishKeeps

LEMMA ReassignCommitKeeps ==
  ASSUME IInv, NEW r \in Request, ReassignCommit(r)
  PROVE  IInv'
  <1>. DEFINE s == req[r].plan.source
              t == req[r].plan.target
              S == req[r].scope
              x(i) == [row[i] EXCEPT !.owner = t]
              move == [from |-> s, to |-> t]
  <1>1. /\ req[r].pc = "locked" /\ s \in User /\ t \in User /\ S \subseteq OwnedBy(s)
    BY DEF ReassignCommit, IInv, LocksHold, LoadedInv, Loaded, Plan
  <1>2. /\ row' = [i \in Item |-> IF i \in S THEN x(i) ELSE row[i]]
        /\ transfers' = [i \in Item |-> IF i \in S THEN Append(transfers[i], move)
                                        ELSE transfers[i]]
    BY Zenon DEF ReassignCommit
  <1>3. /\ links' \subseteq links
        /\ UNCHANGED <<loan, handovers, preview>> /\ Finish(r)
    BY DEF ReassignCommit
  <1>4. \A i \in S : /\ i \in Item /\ row[i] \in Row /\ row[i].status # "deleted"
                     /\ x(i) \in Row /\ x(i).status # "deleted"
    BY <1>1, ZenonT(40) DEF OwnedBy, Exists, IInv, TypeOK, Row
  <1>5. move \in [from : User, to : User]
    BY <1>1
  <1>6. \A q \in Request \ {r} : Apart(r, q)
    BY DEF IInv, LocksApart
  <1>. HIDE DEF x, move, s, t
  <1>7. TablesType'
    <2>. HIDE DEF S
    <2>1. row' \in [Item -> Row \cup {None}]
      BY <1>2, <1>4 DEF IInv, TypeOK
    <2>2. transfers' \in [Item -> Seq([from : User, to : User])]
      <3>. DEFINE Moves == [from : User, to : User]
      <3>1. transfers \in [Item -> Seq(Moves)] /\ move \in Moves
        BY <1>5 DEF IInv, TypeOK
      <3>. HIDE DEF Moves
      <3>2. \A i \in Item : Append(transfers[i], move) \in Seq(Moves)
        BY <3>1
      <3>3. transfers' \in [Item -> Seq(Moves)]
        BY <1>2, <3>1, <3>2
      <3>4. QED
        BY <3>3 DEF Moves
    <2>3. QED
      BY <1>3, <2>1, <2>2 DEF IInv, TypeOK, TablesType
  <1>8. ASSUME NEW q \in Request \ {r} PROVE Kept(q)
    <2>1. Loaded(q) /\ Holds(q)
      BY LocksHoldSplit DEF IInv, LoadedInv
    <2>2. /\ req[q].pc = "locked" => req[q].scope \cap S = {}
          /\ Resolving(q) => req[q].item \notin S
      BY <1>1, <1>6 DEF Apart
    <2>. HIDE DEF S
    <2>3. \A j \in Item : j \notin S => row'[j] = row[j]
      BY <1>2
    <2>4. Resolving(q) => req[q].item \in Item
      BY <2>1 DEF Loaded, Resolving, ItemPc, LoanPc
    <2>5. QED
      BY <1>3, <2>1, <2>2, <2>3, <2>4
         DEF Loaded, Holds, Kept, OwnedBy, Exists, ExistsAfter
  <1>9. QED
    BY <1>3, <1>7, <1>8, FinishKeeps

-----------------------------------------------------------------------------
(* The inductive invariant.                                                *)

LEMMA InitIInv == Init => IInv
  <1>. SUFFICES ASSUME Init PROVE IInv
    OBVIOUS
  <1>1. /\ <<>> \in Seq([from : User, to : User])
        /\ <<>> \in Seq(Move)
    OBVIOUS
  <1>2. TypeOK
    BY <1>1, IdleType DEF Init, TypeOK
  <1>3. \A r \in Request : req[r].pc = "idle"
    BY IdleType DEF Init
  <1>4. LoadedInv /\ LocksHold /\ LocksApart
    BY <1>3 DEF LoadedInv, Loaded, LocksHold, LocksApart, Apart, Resolving,
                ItemPc, LoanPc, SeenPc
  <1>5. PreviewInv
    BY DEF Init, PreviewInv
  <1>6. QED
    BY <1>2, <1>4, <1>5 DEF IInv

LEMMA NextIInv == IInv /\ [Next]_vars => IInv'
  <1>. SUFFICES ASSUME IInv, [Next]_vars PROVE IInv'
    OBVIOUS
  <1>1. CASE \E u \in User, i \in Item, p \in Payload : CreateItem(u, i, p)
    BY <1>1, CreateItemKeeps
  <1>2. CASE \E i \in Item : Unlink(i)
    BY <1>2, UnlinkKeeps
  <1>3. CASE \E s, t \in User, all \in BOOLEAN, S \in SUBSET Item : Preview(s, t, all, S)
    BY <1>3, PreviewKeeps
  <1>4. ASSUME NEW r \in Request, Begin(r) \/ Confirm(r) \/ Abort(r)
        PROVE  IInv'
    BY <1>4, BeginKeeps, ConfirmKeeps, AbortKeeps
  <1>5. ASSUME NEW r \in Request, Proceed(r)
        PROVE  IInv'
    BY <1>5, UpdateCommitKeeps, DeleteCommitKeeps, LinkCommitKeeps, ReturnCommitKeeps,
       AskCommitKeeps, LoadLoanItemKeeps, PostAnswerKeeps, ResolveCommitKeeps,
       ResolveFlushKeeps, LockRowsKeeps, ReassignCommitKeeps DEF Proceed
  <1>6. CASE UNCHANGED vars
    BY <1>6, TypeSame, TablesSame, StillKeeps DEF vars, IInv, PreviewInv, TypeOK
  <1>7. QED
    BY <1>1, <1>2, <1>3, <1>4, <1>5, <1>6 DEF Next

(* The inductive invariant holds in every reachable state.                 *)
THEOREM IInvAlways == Spec => []IInv
  BY InitIInv, NextIInv, PTL DEF Spec

(* The tables and the requests in progress keep their types.               *)
THEOREM TypeCorrect == Spec => []TypeOK
  BY IInvAlways, PTL DEF IInv

(* What a request checked under its row locks (the source's ownership of   *)
(* each item of a reassignment, the trigger's requester and owner of a     *)
(* resolution) is still so when it commits, whatever runs in between.      *)
THEOREM LocksAlwaysHold == Spec => []LocksHold
  BY IInvAlways, PTL DEF IInv

-----------------------------------------------------------------------------
(* Which steps touch owners, transfers and resolutions.                    *)

(* An UPDATE that keeps the owner, whatever else it writes.                *)
OwnersSame ==
    \A j \in Item : /\ ExistsAfter(j) <=> Exists(j)
                    /\ Exists(j) => row'[j].owner = row[j].owner

LEMMA SameRowOwners ==
  ASSUME UNCHANGED row
  PROVE  OwnersSame
  BY DEF OwnersSame, ExistsAfter, Exists

LEMMA RowKeptOwners ==
  ASSUME IInv, NEW i \in Item, NEW x \in Row, RowKept(i, x)
  PROVE  OwnersSame
  <1>1. row'[i] = x /\ x # None /\ \A j \in Item \ {i} : row'[j] = row[j]
    BY CustodyAssumption DEF IInv, TypeOK, RowKept
  <1>2. QED
    BY <1>1 DEF RowKept, OwnersSame, Exists, ExistsAfter

(* Only four actions are left once those that keep every owner are set     *)
(* aside.                                                                  *)
LEMMA OwnerSteps ==
  ASSUME IInv, [Next]_vars
  PROVE  \/ OwnersSame /\ UNCHANGED transfers
         \/ \E u \in User, i \in Item, p \in Payload : CreateItem(u, i, p)
         \/ \E r \in Request : DeleteCommit(r)
         \/ \E r \in Request : ReassignCommit(r)
  <1>1. ASSUME NEW r \in Request, Begin(r) \/ Confirm(r) \/ Abort(r)
        PROVE  UNCHANGED <<row, transfers>>
    BY <1>1, ZenonT(40) DEF Begin, Confirm, Abort, LoadForUpdate, LoadForDelete, LoadForLink,
                LoadForReturn, CheckLoan, LoadLoan
  <1>2. ASSUME NEW r \in Request,
               \/ LinkCommit(r) \/ LoadLoanItem(r) \/ PostAnswer(r) \/ LockRows(r)
               \/ \E l \in Loan : AskCommit(r, l)
               \/ \E a \in Answer : ResolveFlush(r, a)
        PROVE  UNCHANGED <<row, transfers>>
    BY <1>2, ZenonT(40) DEF LinkCommit, LoadLoanItem, PostAnswer, LockRows, AskCommit, ResolveFlush
  <1>3. ASSUME NEW r \in Request,
               \/ ReturnCommit(r) \/ ResolveCommit(r)
               \/ \E p \in Payload : UpdateCommit(r, p)
        PROVE  OwnersSame /\ UNCHANGED transfers
    <2>1. UNCHANGED transfers
      BY <1>3 DEF ReturnCommit, ResolveCommit, UpdateCommit
    <2>2. \E i \in Item, x \in Row : RowKept(i, x)
      BY <1>3, ReturnRow, ResolveRow, UpdateRow
    <2>3. QED
      BY <2>1, <2>2, RowKeptOwners
  <1>4. ASSUME (\E i \in Item : Unlink(i)) \/ UNCHANGED vars
               \/ \E s, t \in User, all \in BOOLEAN, S \in SUBSET Item : Preview(s, t, all, S)
        PROVE  UNCHANGED <<row, transfers>>
    BY <1>4 DEF Unlink, Preview, vars
  <1>5. QED
    BY <1>1, <1>2, <1>3, <1>4, SameRowOwners DEF Next, Proceed

-----------------------------------------------------------------------------
(* The items table implements the ledger.                                  *)

LEMMA LedgerInit == Init => Ledger!Init
  BY DEF Init, Ledger!Init, Holder, Exists

LEMMA CreateRegisters ==
  ASSUME IInv, NEW u \in User, NEW i \in Item, NEW p \in Payload, CreateItem(u, i, p)
  PROVE  Ledger!Register(i, u)
  <1>. DEFINE x == Edited(NewItem(u), p)
  <1>1. x \in Row /\ x.status # "deleted" /\ x.owner = u
    BY NewItemType, EditedType
  <1>2. row' = [row EXCEPT ![i] = x] /\ row[i] = None /\ UNCHANGED transfers
    BY DEF CreateItem
  <1>. HIDE DEF x
  <1>3. x # None
    BY <1>1, CustodyAssumption
  <1>4. row'[i] = x /\ \A j \in Item \ {i} : row'[j] = row[j]
    BY <1>2 DEF IInv, TypeOK
  <1>5. Holder[i] = None
    BY <1>2 DEF Holder, Exists
  <1>6. Holder' = [Holder EXCEPT ![i] = u]
    BY <1>1, <1>3, <1>4 DEF Holder, Exists
  <1>7. QED
    BY <1>2, <1>5, <1>6 DEF Ledger!Register

LEMMA DeleteRemoves ==
  ASSUME IInv, NEW r \in Request, DeleteCommit(r)
  PROVE  Ledger!Remove(req[r].item)
  <1>. DEFINE i == req[r].item
              x == [row[i] EXCEPT !.status = "deleted"]
  <1>1. i \in Item /\ row[i] \in Row
    BY DEF DeleteCommit, IInv, TypeOK, LoadedInv, Loaded, ItemPc, Exists
  <1>2. x.status = "deleted"
    BY <1>1 DEF Row
  <1>3. row' = [row EXCEPT ![i] = x] /\ transfers' = [transfers EXCEPT ![i] = <<>>]
    BY Zenon DEF DeleteCommit
  <1>. HIDE DEF i, x
  <1>4. row'[i] = x /\ \A j \in Item \ {i} : row'[j] = row[j]
    BY <1>1, <1>3 DEF IInv, TypeOK
  <1>5. Holder' = [Holder EXCEPT ![i] = None]
    BY <1>2, <1>4 DEF Holder, Exists
  <1>6. QED
    BY <1>3, <1>5 DEF Ledger!Remove, i

(* What a reassignment does to the rows.                                   *)
LEMMA ReassignRows ==
  ASSUME IInv, NEW r \in Request, ReassignCommit(r)
  PROVE  /\ req[r].plan.source \in User /\ req[r].plan.target \in User
         /\ req[r].plan.source # req[r].plan.target
         /\ req[r].plan # None /\ req[r].scope = req[r].plan.items
         /\ req[r].scope \in SUBSET Item
         /\ \A i \in req[r].scope :
               /\ Exists(i) /\ row[i].owner = req[r].plan.source
               /\ ExistsAfter(i) /\ row'[i].owner = req[r].plan.target
         /\ \A i \in Item \ req[r].scope : row'[i] = row[i]
  <1>. DEFINE s == req[r].plan.source
              t == req[r].plan.target
              S == req[r].scope
              x(i) == [row[i] EXCEPT !.owner = t]
  <1>1. /\ req[r].plan \in Plan /\ s # t /\ S = req[r].plan.items
        /\ S \subseteq OwnedBy(s)
    BY DEF ReassignCommit, IInv, LocksHold, LoadedInv, Loaded
  <1>2. req[r].plan # None
    BY <1>1, CustodyAssumption
  <1>3. s \in User /\ t \in User
    BY <1>1 DEF Plan
  <1>4. row' = [i \in Item |-> IF i \in S THEN x(i) ELSE row[i]]
    BY Zenon DEF ReassignCommit
  <1>5. \A i \in S : /\ i \in Item /\ Exists(i) /\ row[i].owner = s
                     /\ x(i) \in Row /\ x(i).status # "deleted" /\ x(i).owner = t
    BY <1>1, <1>3, ZenonT(40) DEF OwnedBy, Exists, IInv, TypeOK, Row
  <1>. HIDE DEF s, t, S, x
  <1>6. \A i \in S : row'[i] = x(i) /\ x(i) # None
    BY <1>4, <1>5, CustodyAssumption
  <1>7. \A i \in S : ExistsAfter(i) /\ row'[i].owner = t
    BY <1>5, <1>6 DEF ExistsAfter
  <1>8. \A i \in Item \ S : row'[i] = row[i]
    BY <1>4
  <1>9. S \in SUBSET Item
    BY <1>5
  <1>10. QED
    BY <1>1, <1>2, <1>3, <1>5, <1>7, <1>8, <1>9 DEF s, t, S

LEMMA ReassignTransfers ==
  ASSUME IInv, NEW r \in Request, ReassignCommit(r)
  PROVE  Ledger!Transfer(req[r].scope, req[r].plan.source, req[r].plan.target)
  <1>. DEFINE s == req[r].plan.source
              t == req[r].plan.target
              S == req[r].scope
  <1>1. transfers' = [i \in Item |-> IF i \in S
                                     THEN Append(transfers[i], [from |-> s, to |-> t])
                                     ELSE transfers[i]]
    BY Zenon DEF ReassignCommit
  <1>2. /\ s # t /\ S \in SUBSET Item
        /\ \A i \in S : /\ Exists(i) /\ row[i].owner = s
                        /\ ExistsAfter(i) /\ row'[i].owner = t
        /\ \A i \in Item \ S : row'[i] = row[i]
    BY ReassignRows
  <1>. HIDE DEF s, t, S
  <1>3. \A i \in S : Holder[i] = s
    BY <1>2 DEF Holder
  <1>4. Holder' = [i \in Item |-> IF i \in S THEN t ELSE Holder[i]]
    BY <1>2 DEF Holder, Exists, ExistsAfter
  <1>5. QED
    BY <1>1, <1>2, <1>3, <1>4 DEF Ledger!Transfer, s, t, S

LEMMA LedgerStep == IInv /\ [Next]_vars => [Ledger!Next]_(Ledger!ledgerVars)
  <1>. SUFFICES ASSUME IInv, [Next]_vars
                PROVE  [Ledger!Next]_(Ledger!ledgerVars)
    OBVIOUS
  <1>1. CASE OwnersSame /\ UNCHANGED transfers
    <2>1. Holder' = Holder
      BY <1>1 DEF OwnersSame, Holder, Exists, ExistsAfter
    <2>2. QED
      BY <1>1, <2>1 DEF Ledger!ledgerVars
  <1>2. CASE \E u \in User, i \in Item, p \in Payload : CreateItem(u, i, p)
    BY <1>2, CreateRegisters DEF Ledger!Next
  <1>3. ASSUME NEW r \in Request, DeleteCommit(r) PROVE Ledger!Next
    <2>1. req[r].item \in Item
      BY <1>3 DEF DeleteCommit, IInv, LoadedInv, Loaded, ItemPc
    <2>2. QED
      BY <1>3, <2>1, DeleteRemoves DEF Ledger!Next
  <1>4. ASSUME NEW r \in Request, ReassignCommit(r) PROVE Ledger!Next
    BY <1>4, ReassignTransfers, ReassignRows DEF Ledger!Next
  <1>5. QED
    BY <1>1, <1>2, <1>3, <1>4, OwnerSteps

(* Whatever loans, edits, deletions and reassignments overlap, the owners  *)
(* in the items table and the transfers in item_custody_events behave as   *)
(* the ledger: whole batches of one holder change hands, and each transfer *)
(* is recorded with the holder it really had.                              *)
THEOREM ImplementsLedger == Spec => OwnershipLedger
  BY LedgerInit, LedgerStep, IInvAlways, PTL DEF Spec, OwnershipLedger, Ledger!Spec

-----------------------------------------------------------------------------
(* Action properties.                                                      *)

(* Exactly the items the administrator was shown and confirmed change      *)
(* owner, or none does.                                                    *)
THEOREM MovesOnlyAsConfirmed == Spec => MovesAsConfirmed
  <1>. DEFINE moved == {i \in Item : Exists(i) /\ row'[i].owner # row[i].owner}
              Confirmed == \E r \in Request : /\ req[r].plan # None
                                              /\ moved = req[r].plan.items
  <1>1. ASSUME IInv, [Next]_vars, moved # {}
        PROVE  Confirmed
    <2>1. ~ OwnersSame
      BY <1>1 DEF OwnersSame
    <2>2. ASSUME NEW u \in User, NEW i \in Item, NEW p \in Payload, CreateItem(u, i, p)
          PROVE  FALSE
      <3>1. row[i] = None /\ \A j \in Item \ {i} : row'[j] = row[j]
        BY <1>1, <2>2 DEF CreateItem, IInv, TypeOK
      <3>2. QED
        BY <1>1, <3>1 DEF Exists
    <2>3. ASSUME NEW r \in Request, DeleteCommit(r)
          PROVE  FALSE
      <3>. DEFINE i == req[r].item
                  x == [row[i] EXCEPT !.status = "deleted"]
      <3>1. i \in Item /\ row[i] \in Row
        BY <1>1, <2>3 DEF DeleteCommit, IInv, TypeOK, LoadedInv, Loaded, ItemPc, Exists
      <3>2. x.owner = row[i].owner
        BY <3>1 DEF Row
      <3>3. row' = [row EXCEPT ![i] = x]
        BY <2>3, Zenon DEF DeleteCommit
      <3>. HIDE DEF i, x
      <3>4. QED
        BY <1>1, <3>1, <3>2, <3>3 DEF IInv, TypeOK
    <2>4. ASSUME NEW r \in Request, ReassignCommit(r)
          PROVE  Confirmed
      <3>1. moved = req[r].scope
        BY <1>1, <2>4, ReassignRows
      <3>2. QED
        BY <1>1, <2>4, <3>1, ReassignRows
    <2>5. QED
      BY <1>1, <2>1, <2>2, <2>3, <2>4, OwnerSteps
  <1>2. IInv /\ [Next]_vars => [moved # {} => Confirmed]_vars
    BY <1>1
  <1>3. QED
    BY <1>2, IInvAlways, PTL DEF Spec, MovesAsConfirmed

(* A loan that exists is approved only by the commit of a resolution.      *)
LEMMA ApprovedByCommit ==
  ASSUME IInv, [Next]_vars, NEW l \in Loan, loan[l] # None,
         loan[l].status # "approved", loan'[l].status = "approved"
  PROVE  \E r \in Request : ResolveCommit(r) /\ l = req[r].loan
  <1>1. loan' # loan
    OBVIOUS
  <1>2. ASSUME NEW r \in Request, Begin(r) \/ Confirm(r) \/ Abort(r)
        PROVE  FALSE
    BY <1>1, <1>2, ZenonT(40) DEF Begin, Confirm, Abort, LoadForUpdate, LoadForDelete, LoadForLink,
                      LoadForReturn, CheckLoan, LoadLoan
  <1>3. ASSUME NEW r \in Request,
               \/ LinkCommit(r) \/ LoadLoanItem(r) \/ PostAnswer(r) \/ LockRows(r)
               \/ ReassignCommit(r) \/ ReturnCommit(r)
               \/ \E a \in Answer : ResolveFlush(r, a)
               \/ \E p \in Payload : UpdateCommit(r, p)
        PROVE  FALSE
    BY <1>1, <1>3, ZenonT(40) DEF LinkCommit, LoadLoanItem, PostAnswer, LockRows, ReassignCommit,
                      ReturnCommit, ResolveFlush, UpdateCommit
  <1>4. ASSUME (\E i \in Item : Unlink(i)) \/ UNCHANGED vars
               \/ (\E u \in User, i \in Item, p \in Payload : CreateItem(u, i, p))
               \/ \E s, t \in User, all \in BOOLEAN, S \in SUBSET Item : Preview(s, t, all, S)
        PROVE  FALSE
    BY <1>1, <1>4 DEF Unlink, Preview, CreateItem, vars
  <1>5. ASSUME NEW r \in Request, NEW m \in Loan, AskCommit(r, m)
        PROVE  FALSE
    <2>1. loan[m] = None /\ \A k \in Loan \ {m} : loan'[k] = loan[k]
      BY <1>5 DEF AskCommit, IInv, TypeOK
    <2>2. QED
      BY <2>1
  <1>6. ASSUME NEW r \in Request, DeleteCommit(r)
        PROVE  FALSE
    <2>. DEFINE y(m) == IF loan[m] # None /\ loan[m].item = req[r].item
                        THEN [loan[m] EXCEPT !.status = "deleted"] ELSE loan[m]
    <2>1. loan' = [m \in Loan |-> y(m)]
      BY <1>6, Zenon DEF DeleteCommit
    <2>2. loan[l] \in LoanRow
      BY DEF IInv, TypeOK
    <2>3. y(l).status \in {"deleted", loan[l].status}
      BY <2>2 DEF LoanRow
    <2>. HIDE DEF y
    <2>4. QED
      BY <2>1, <2>3
  <1>7. ASSUME NEW r \in Request, ResolveCommit(r)
        PROVE  l = req[r].loan
    BY <1>7 DEF ResolveCommit, IInv, TypeOK
  <1>8. QED
    BY <1>2, <1>3, <1>4, <1>5, <1>6, <1>7 DEF Next, Proceed

(* When an approval commits, the item does not belong to the one who asked *)
(* for it, although its owner may have changed since the request, since    *)
(* the approver loaded it and since the trigger looked at it.              *)
THEOREM NobodyBorrowsTheirOwn == Spec => NoSelfLoan
  <1>1. ASSUME IInv, [Next]_vars, NEW l \in Loan, loan[l] # None,
               loan[l].status # "approved", loan'[l].status = "approved"
        PROVE  row'[loan[l].item].owner # loan[l].requester
    <2>1. PICK r \in Request : ResolveCommit(r) /\ l = req[r].loan
      BY <1>1, ApprovedByCommit
    <2>2. PICK x \in Row : /\ Resolving(r) /\ req[r].item \in Item
                           /\ RowKept(req[r].item, x)
      BY <1>1, <2>1, ResolveRow
    <2>3. /\ row[req[r].item].owner # loan[l].requester
          /\ loan[l].item = req[r].item
      BY <1>1, <2>1, <2>2 DEF IInv, LocksHold, LoadedInv, Loaded, Resolving, LoanPc
    <2>4. row'[req[r].item].owner = row[req[r].item].owner
      BY <1>1, <2>2 DEF RowKept, IInv, TypeOK
    <2>5. QED
      BY <2>3, <2>4
  <1>2. IInv /\ [Next]_vars =>
          [\A l \in Loan :
             loan[l] # None /\ loan[l].status # "approved" /\ loan'[l].status = "approved"
                 => row'[loan[l].item].owner # loan[l].requester]_vars
    BY <1>1
  <1>3. QED
    BY <1>2, IInvAlways, PTL DEF Spec, NoSelfLoan

=============================================================================
