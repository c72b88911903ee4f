---------------------------- MODULE ItemCustody -----------------------------
(***************************************************************************)
(* Who owns a physical item and who has it: loan requests (api/lending.py  *)
(* and the inbound Offer of core/federation_handlers.py), edits, deletion  *)
(* and shelving of an item (api/items.py) and the administrator's          *)
(* ownership reassignment (services/item_reassignment.py).                 *)
(*                                                                         *)
(* Each element of Request is one HTTP request being served.  It is cut    *)
(* after each row it loads and uses later, where it starts to hold row     *)
(* locks, where it posts to a remote inbox and where it commits.  The      *)
(* database is PostgreSQL at READ COMMITTED; a loaded row is not read      *)
(* again before the commit, and the ORM's UPDATE names only the columns    *)
(* that differ from what was loaded.                                       *)
(***************************************************************************)
EXTENDS Sequences, FiniteSets, Naturals

CONSTANTS
    Item,       \* primary keys the items table may hand out
    Loan,       \* primary keys the loan_requests table may hand out
    User,       \* accounts
    Admin,      \* accounts with the admin role
    Federated,  \* shadow accounts of remote borrowers
    Request,    \* request slots: how many requests overlap
    Payload,    \* bodies of item creations and edits that clients send
    MaxEvents,  \* bound on the custody events of an item
    None,       \* SQL NULL / no value
    Absent      \* a field the body leaves out

VARIABLES
    row,        \* inventory.items
    links,      \* <<i, u>>: a collection of u holds item i
    loan,       \* inventory.loan_requests
    transfers,  \* item_custody_events written by a reassignment, per item
    handovers,  \* item_custody_events written by lending and return, per item
    preview,    \* the reassignment an administrator is looking at
    req         \* the requests in progress

vars == <<row, links, loan, transfers, handovers, preview, req>>

(* "lost" stands for every status that is neither available nor lent, and  *)
(* "deleted" for a row that is gone: a primary key is never reused.        *)
Status == {"available", "lent", "lost", "deleted"}
LoanStatus == {"pending", "approved", "rejected", "deleted"}
Answer == {"approve", "reject"}

Row == [owner : User, status : Status, borrower : User \cup {None}, named : BOOLEAN]
LoanRow == [item : Item, requester : User, status : LoanStatus]
Move == [from : User \cup {None}, to : User]
Plan == [source : User, target : User, all : BOOLEAN, items : SUBSET Item]

ASSUME CustodyAssumption ==
    /\ Admin \subseteq User
    /\ Federated \subseteq User
    /\ MaxEvents \in Nat
    /\ Payload \subseteq
         [status : (Status \ {"deleted"}) \cup {Absent},
          borrower : User \cup {None, Absent},
          named : BOOLEAN \cup {Absent}]
    /\ None \notin User \cup Item \cup Loan \cup Row \cup LoanRow \cup Plan \cup Answer

Pc == {"idle", "ask", "resolve", "decide", "flushed", "answered",
       "return", "update", "delete", "link", "select", "locked"}

RequestState ==
    [pc : Pc,
     user : User \cup {None},      \* g.user_id
     item : Item \cup {None},
     loan : Loan \cup {None},
     seen : Row \cup {None},       \* the item as this request loaded it
     answer : Answer \cup {None},
     plan : Plan \cup {None},      \* the confirmed preview
     scope : SUBSET Item]          \* items the SELECT ... FOR UPDATE found

Idle == [pc |-> "idle", user |-> None, item |-> None, loan |-> None, seen |-> None,
         answer |-> None, plan |-> None, scope |-> {}]

TypeOK ==
    /\ row \in [Item -> Row \cup {None}]
    /\ links \subseteq Item \X User
    /\ loan \in [Loan -> LoanRow \cup {None}]
    /\ transfers \in [Item -> Seq([from : User, to : User])]
    /\ handovers \in [Item -> Seq(Move)]
    /\ preview \in Plan \cup {None}
    /\ req \in [Request -> RequestState]

Init ==
    /\ row = [i \in Item |-> None]
    /\ links = {}
    /\ loan = [l \in Loan |-> None]
    /\ transfers = [i \in Item |-> <<>>]
    /\ handovers = [i \in Item |-> <<>>]
    /\ preview = None
    /\ req = [r \in Request |-> Idle]

-----------------------------------------------------------------------------
(* Rows and locks.                                                         *)

Exists(i) == row[i] # None /\ row[i].status # "deleted"
OwnedBy(u) == {i \in Item : Exists(i) /\ row[i].owner = u}

(* Mutant: the UPDATE writes every column.                                 *)
MergedWhole(now, seen, want) == want

(* The UPDATE the ORM issues for an object loaded as seen and now want.    *)
Merged(now, seen, want) ==
    [owner    |-> now.owner,
     status   |-> IF want.status # seen.status THEN want.status ELSE now.status,
     borrower |-> IF want.borrower # seen.borrower THEN want.borrower ELSE now.borrower,
     named    |-> IF want.named # seen.named THEN want.named ELSE now.named]

(* What resolving the request makes of the item it loaded.                 *)
Resolved(q) ==
    IF req[q].answer = "approve"
    THEN [req[q].seen EXCEPT !.status = "lent",
                             !.borrower = loan[req[q].loan].requester]
    ELSE req[q].seen

Resolving(q) == req[q].pc \in {"flushed", "answered"}

(* Items whose row q has locked FOR UPDATE, or changed, and not committed. *)
WriteLocks(q) ==
    IF req[q].pc = "locked" THEN req[q].scope
    ELSE IF Resolving(q) /\ Resolved(q) # req[q].seen THEN {req[q].item}
    ELSE {}

(* The trigger on loan_requests reads the item FOR SHARE.                  *)
ShareLocks(q) == IF Resolving(q) THEN {req[q].item} ELSE {}

CanShare(r, i) == \A q \in Request \ {r} : i \notin WriteLocks(q)
CanWrite(r, i) == \A q \in Request \ {r} : i \notin WriteLocks(q) \cup ShareLocks(q)

LoanFree(r, l) == \A q \in Request \ {r} : ~(Resolving(q) /\ req[q].loan = l)

Start(r, q) == req' = [req EXCEPT ![r] = q]
Finish(r) == req' = [req EXCEPT ![r] = Idle]

-----------------------------------------------------------------------------
(* The owner's items.                                                      *)

(* Mutant: a field the body leaves out is written all the same.            *)
EditedRaw(seen, p) ==
    [owner |-> seen.owner, status |-> p.status, borrower |-> p.borrower,
     named |-> p.named]

(* The fields of the body replace those of the row; leaving the lent state *)
(* clears the borrower fields the body does not mention.                   *)
Edited(seen, p) ==
    LET status == IF p.status = Absent THEN seen.status ELSE p.status
        left == seen.status = "lent" /\ status # "lent" IN
    [owner |-> seen.owner,
     status |-> status,
     borrower |-> IF p.borrower # Absent THEN p.borrower
                  ELSE IF left THEN None ELSE seen.borrower,
     named |-> IF p.named # Absent THEN p.named
               ELSE IF left THEN FALSE ELSE seen.named]

(* "Lent items require either a borrower user ID or a name."               *)
BorrowerGiven(r) == r.status = "lent" => r.borrower # None \/ r.named

NewItem(u) == [owner |-> u, status |-> "available", borrower |-> None, named |-> FALSE]

CreateItem(u, i, p) ==
    /\ row[i] = None /\ u \notin Federated
    /\ BorrowerGiven(Edited(NewItem(u), p))
    /\ row' = [row EXCEPT ![i] = Edited(NewItem(u), p)]
    /\ UNCHANGED <<links, loan, transfers, handovers, preview, req>>

(* PUT /items/<id>: a borrower may edit only the reading progress.         *)
LoadForUpdate(r, u, i) ==
    /\ req[r].pc = "idle" /\ Exists(i) /\ u \in {row[i].owner} \cup Admin
    /\ Start(r, [Idle EXCEPT !.pc = "update", !.user = u, !.item = i, !.seen = row[i]])
    /\ UNCHANGED <<row, links, loan, transfers, handovers, preview>>

UpdateCommit(r, p) ==
    LET i == req[r].item
        want == Edited(req[r].seen, p) IN
    /\ req[r].pc = "update" /\ Exists(i) /\ CanWrite(r, i)
    /\ BorrowerGiven(want)
    /\ row' = [row EXCEPT ![i] = Merged(row[i], req[r].seen, want)]
    /\ Finish(r)
    /\ UNCHANGED <<links, loan, transfers, handovers, preview>>

(* DELETE /items/<id>: the ORM deletes the loan requests, the collection   *)
(* links and the custody events with the item.                             *)
LoadForDelete(r, u, i) ==
    /\ req[r].pc = "idle" /\ Exists(i) /\ u \in {row[i].owner} \cup Admin
    /\ Start(r, [Idle EXCEPT !.pc = "delete", !.user = u, !.item = i])
    /\ UNCHANGED <<row, links, loan, transfers, handovers, preview>>

DeleteCommit(r) ==
    LET i == req[r].item IN
    /\ req[r].pc = "delete" /\ Exists(i) /\ CanWrite(r, i)
    /\ row' = [row EXCEPT ![i].status = "deleted"]
    /\ links' = {k \in links : k[1] # i}
    /\ loan' = [l \in Loan |-> IF loan[l] # None /\ loan[l].item = i
                               THEN [loan[l] EXCEPT !.status = "deleted"]
                               ELSE loan[l]]
    /\ transfers' = [transfers EXCEPT ![i] = <<>>]
    /\ handovers' = [handovers EXCEPT ![i] = <<>>]
    /\ Finish(r)
    /\ UNCHANGED <<preview>>

(* POST /items/<id>/collections: the collection must be the item owner's.  *)
LoadForLink(r, u, i) ==
    /\ req[r].pc = "idle" /\ Exists(i) /\ u \in {row[i].owner} \cup Admin
    /\ <<i, row[i].owner>> \notin links
    /\ Start(r, [Idle EXCEPT !.pc = "link", !.user = u, !.item = i, !.seen = row[i]])
    /\ UNCHANGED <<row, links, loan, transfers, handovers, preview>>

(* The foreign key takes FOR KEY SHARE, which only FOR UPDATE blocks.      *)
LinkCommit(r) ==
    LET i == req[r].item IN
    /\ req[r].pc = "link" /\ Exists(i)
    /\ \A q \in Request : req[q].pc = "locked" => i \notin req[q].scope
    /\ links' = links \cup {<<i, req[r].seen.owner>>}
    /\ Finish(r)
    /\ UNCHANGED <<row, loan, transfers, handovers, preview>>

Unlink(i) ==
    /\ Exists(i) /\ <<i, row[i].owner>> \in links
    /\ links' = links \ {<<i, row[i].owner>>}
    /\ UNCHANGED <<row, loan, transfers, handovers, preview, req>>

-----------------------------------------------------------------------------
(* Lending.                                                                *)

Pending(u, i) ==
    {l \in Loan : loan[l] # None /\ loan[l].item = i /\ loan[l].requester = u
                                 /\ loan[l].status = "pending"}

(* POST /items/<id>/loan-request, or an Offer in the inbox.                *)
CheckLoan(r, u, i) ==
    /\ req[r].pc = "idle" /\ Exists(i)
    /\ row[i].owner # u /\ row[i].status = "available" /\ Pending(u, i) = {}
    /\ Start(r, [Idle EXCEPT !.pc = "ask", !.user = u, !.item = i])
    /\ UNCHANGED <<row, links, loan, transfers, handovers, preview>>

(* Mutant: no trigger.                                                     *)
NoTrigger(i, u) == TRUE

(* prevent_self_borrow_loan_request, before INSERT and UPDATE.             *)
TriggerAdmits(i, u) == row[i].owner # u

AskCommit(r, l) ==
    LET i == req[r].item IN
    /\ req[r].pc = "ask" /\ Exists(i) /\ CanShare(r, i)
    /\ loan[l] = None
    /\ TriggerAdmits(i, req[r].user)
    /\ loan' = [loan EXCEPT ![l] =
                   [item |-> i, requester |-> req[r].user, status |-> "pending"]]
    /\ Finish(r)
    /\ UNCHANGED <<row, links, transfers, handovers, preview>>

IsPending(l) == loan[l] # None /\ loan[l].status = "pending"

(* PATCH /requests/<id>: the request is loaded, then its item.             *)
LoadLoan(r, u, l) ==
    /\ req[r].pc = "idle" /\ IsPending(l)
    /\ Start(r, [Idle EXCEPT !.pc = "resolve", !.user = u, !.loan = l,
                             !.item = loan[l].item])
    /\ UNCHANGED <<row, links, loan, transfers, handovers, preview>>

LoadLoanItem(r) ==
    LET i == req[r].item IN
    /\ req[r].pc = "resolve" /\ Exists(i)
    /\ req[r].user \in {row[i].owner} \cup Admin
    /\ Start(r, [req[r] EXCEPT !.pc = "decide", !.seen = row[i]])
    /\ UNCHANGED <<row, links, loan, transfers, handovers, preview>>

(* Reading loan_request.requester flushes the changes: from here the rows  *)
(* are locked until the commit.                                            *)
ResolveFlush(r, a) ==
    LET i == req[r].item
        l == req[r].loan
        changed == a = "approve"
                     /\ (req[r].seen.status # "lent"
                         \/ req[r].seen.borrower # loan[l].requester) IN
    /\ req[r].pc = "decide" /\ Exists(i) /\ loan[l].status # "deleted"
    /\ LoanFree(r, l)
    /\ IF changed THEN CanWrite(r, i) ELSE CanShare(r, i)
    /\ TriggerAdmits(i, loan[l].requester)
    /\ a = "approve" => Len(handovers[i]) < MaxEvents
    /\ Start(r, [req[r] EXCEPT !.pc = "flushed", !.answer = a])
    /\ UNCHANGED <<row, links, loan, transfers, handovers, preview>>

(* The answer to a remote borrower is posted, delivered or not, while the  *)
(* locks are held and before the commit.                                   *)
PostAnswer(r) ==
    /\ req[r].pc = "flushed" /\ loan[req[r].loan].requester \in Federated
    /\ Start(r, [req[r] EXCEPT !.pc = "answered"])
    /\ UNCHANGED <<row, links, loan, transfers, handovers, preview>>

ResolveCommit(r) ==
    LET i == req[r].item
        l == req[r].loan
        approved == req[r].answer = "approve" IN
    /\ \/ req[r].pc = "flushed" /\ loan[l].requester \notin Federated
       \/ req[r].pc = "answered"
    /\ row' = [row EXCEPT ![i] = Merged(row[i], req[r].seen, Resolved(r))]
    /\ loan' = [loan EXCEPT ![l].status = IF approved THEN "approved" ELSE "rejected"]
    /\ handovers' = IF approved
                    THEN [handovers EXCEPT ![i] = Append(@,
                            [from |-> req[r].seen.owner, to |-> loan[l].requester])]
                    ELSE handovers
    /\ Finish(r)
    /\ UNCHANGED <<links, transfers, preview>>

(* POST /items/<id>/return.                                                *)
LoadForReturn(r, u, i) ==
    /\ req[r].pc = "idle" /\ Exists(i)
    /\ u \in {row[i].owner, row[i].borrower} \cup Admin
    /\ row[i].status = "lent"
    /\ Start(r, [Idle EXCEPT !.pc = "return", !.user = u, !.item = i, !.seen = row[i]])
    /\ UNCHANGED <<row, links, loan, transfers, handovers, preview>>

ReturnCommit(r) ==
    LET i == req[r].item
        seen == req[r].seen IN
    /\ req[r].pc = "return" /\ Exists(i) /\ CanWrite(r, i)
    /\ Len(handovers[i]) < MaxEvents
    /\ row' = [row EXCEPT ![i] =
                  Merged(row[i], seen,
                         [seen EXCEPT !.status = "available", !.borrower = None])]
    /\ handovers' = [handovers EXCEPT ![i] = Append(@,
                        [from |-> seen.borrower, to |-> seen.owner])]
    /\ Finish(r)
    /\ UNCHANGED <<links, loan, transfers, preview>>

-----------------------------------------------------------------------------
(* Ownership reassignment.                                                 *)

Target(plan) == IF plan.all THEN OwnedBy(plan.source)
                ELSE OwnedBy(plan.source) \cap plan.items

(* POST /ownership/preview: every item of the source, or a selection of    *)
(* items that all are.                                                     *)
Preview(s, t, all, S) ==
    /\ s # t /\ t \notin Federated
    /\ IF all THEN S = OwnedBy(s) ELSE S # {} /\ S \subseteq OwnedBy(s)
    /\ preview' = [source |-> s, target |-> t, all |-> all, items |-> S]
    /\ UNCHANGED <<row, links, loan, transfers, handovers, req>>

(* POST /ownership/reassign: the SELECT ... FOR UPDATE takes its snapshot. *)
Confirm(r) ==
    /\ req[r].pc = "idle" /\ preview # None
    /\ Start(r, [Idle EXCEPT !.pc = "select", !.plan = preview,
                             !.scope = Target(preview)])
    /\ UNCHANGED <<row, links, loan, transfers, handovers, preview>>

(* Mutant: only the expected count is compared.                            *)
SameCount(r, S) == Cardinality(S) = Cardinality(req[r].plan.items)

(* Count and fingerprint are those of the preview.                         *)
AsPreviewed(r, S) == S = req[r].plan.items

(* The rows are locked, and the condition is tried again on each row as it *)
(* is once locked.                                                         *)
LockRows(r) ==
    LET S == {i \in req[r].scope : i \in OwnedBy(req[r].plan.source)} IN
    /\ req[r].pc = "select"
    /\ \A i \in req[r].scope : CanWrite(r, i)
    /\ AsPreviewed(r, S)
    /\ \A i \in S : Len(transfers[i]) < MaxEvents
    /\ Start(r, [req[r] EXCEPT !.pc = "locked", !.scope = S])
    /\ UNCHANGED <<row, links, loan, transfers, handovers, preview>>

SourceLinks(S, s) == S \X {s}

ReassignCommit(r) ==
    LET s == req[r].plan.source
        t == req[r].plan.target
        S == req[r].scope IN
    /\ req[r].pc = "locked"
    /\ row' = [i \in Item |-> IF i \in S THEN [row[i] EXCEPT !.owner = t] ELSE row[i]]
    /\ links' = links \ SourceLinks(S, s)
    /\ transfers' = [i \in Item |-> IF i \in S
                                    THEN Append(transfers[i], [from |-> s, to |-> t])
                                    ELSE transfers[i]]
    /\ Finish(r)
    /\ UNCHANGED <<loan, handovers, preview>>

(* A refused, failed or interrupted request: a conflict, a row that is     *)
(* gone, the trigger, a deadlock victim, a crash.  PostgreSQL rolls back.  *)
Abort(r) ==
    /\ req[r].pc # "idle"
    /\ Finish(r)
    /\ UNCHANGED <<row, links, loan, transfers, handovers, preview>>

-----------------------------------------------------------------------------
Begin(r) ==
    \E u \in User :
        \/ \E i \in Item : \/ LoadForUpdate(r, u, i) \/ LoadForDelete(r, u, i)
                           \/ LoadForLink(r, u, i) \/ LoadForReturn(r, u, i)
                           \/ CheckLoan(r, u, i)
        \/ \E l \in Loan : LoadLoan(r, u, l)

Proceed(r) ==
    \/ \E p \in Payload : UpdateCommit(r, p)
    \/ DeleteCommit(r) \/ LinkCommit(r) \/ ReturnCommit(r)
    \/ \E l \in Loan : AskCommit(r, l)
    \/ LoadLoanItem(r) \/ PostAnswer(r) \/ ResolveCommit(r)
    \/ \E a \in Answer : ResolveFlush(r, a)
    \/ LockRows(r) \/ ReassignCommit(r)

Next ==
    \/ \E u \in User, i \in Item, p \in Payload : CreateItem(u, i, p)
    \/ \E i \in Item : Unlink(i)
    \/ \E s, t \in User, all \in BOOLEAN, S \in SUBSET Item : Preview(s, t, all, S)
    \/ \E r \in Request : Begin(r) \/ Confirm(r) \/ Proceed(r) \/ Abort(r)

Spec == Init /\ [][Next]_vars

-----------------------------------------------------------------------------
(* Properties.                                                             *)

(* What a request checked under its locks is still so when it commits:     *)
(* the source owns every locked item; the requester of a loan that is      *)
(* being resolved does not own the item.                                   *)
LocksHold ==
    \A r \in Request :
        /\ req[r].pc = "locked" => req[r].scope \subseteq OwnedBy(req[r].plan.source)
        /\ Resolving(r) =>
              /\ Exists(req[r].item)
              /\ loan[req[r].loan].status # "deleted"
              /\ row[req[r].item].owner # loan[req[r].loan].requester

(* Ownership is a ledger: whatever overlaps, items change hands only as    *)
(* CustodyLedger allows, a whole batch of one holder at a time, each       *)
(* change appended with the holder it really had.                          *)
Holder == [i \in Item |-> IF Exists(i) THEN row[i].owner ELSE None]

Ledger == INSTANCE CustodyLedger WITH holder <- Holder, ledger <- transfers

OwnershipLedger == Ledger!Spec

(* What the administrator confirmed is what moves, however much time and   *)
(* however many other requests lie between the preview and the commit.     *)
MovesAsConfirmed ==
    [][LET moved == {i \in Item : Exists(i) /\ row'[i].owner # row[i].owner} IN
       moved # {} => \E r \in Request : /\ req[r].plan # None
                                        /\ moved = req[r].plan.items]_vars

(* Nobody is lent an item that is theirs when the approval commits.        *)
NoSelfLoan ==
    [][\A l \in Loan :
          loan[l] # None /\ loan[l].status # "approved" /\ loan'[l].status = "approved"
              => row'[loan[l].item].owner # loan[l].requester]_vars

(* The four below are what the lending code promises and keeps as long as  *)
(* requests do not overlap.  When two do, TLC finds each of them broken,   *)
(* so no run claims them.                                                  *)

(* An item is shelved only in its owner's collections.                     *)
ShelvedByOwner == \A k \in links : row[k[1]].owner = k[2]

(* A borrower has one pending request for an item.                         *)
OnePending ==
    \A l, m \in Loan : IsPending(l) /\ IsPending(m)
        /\ loan[l].item = loan[m].item /\ loan[l].requester = loan[m].requester
        => l = m

(* A resolved request keeps its resolution, and its item is left alone.    *)
ResolvedOnce ==
    [][\A l \in Loan : loan[l] # None /\ loan[l].status \in {"approved", "rejected"}
          => loan'[l].status \in {loan[l].status, "deleted"}]_vars

(* An approval leaves the item lent to the one who asked for it.           *)
ApprovalLends ==
    [][\A l \in Loan :
          loan[l] # None /\ loan[l].status # "approved" /\ loan'[l].status = "approved"
              => /\ row'[loan[l].item].status = "lent"
                 /\ row'[loan[l].item].borrower = loan[l].requester]_vars

=============================================================================
