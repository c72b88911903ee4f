----------------------- MODULE AccountLifecycleProofs -----------------------
(***************************************************************************)
(* Proofs about AccountLifecycle, for any sets of accounts, addresses,     *)
(* tokens and overlapping requests.                                        *)
(***************************************************************************)
EXTENDS AccountLifecycle, TLAPS

Minting(r) == req[r].pc \in {"change", "issue", "insert"}
Claiming(r) == req[r].pc \in {"claimed", "flushed"}

(* What a request's local state says about the tables, by program counter. *)
RequestsInv ==
    \A r \in Request :
        /\ req[r].pc # "idle" => req[r].user \in User /\ req[r].token \in Token
        /\ req[r].pc \notin {"idle", "change"} => req[r].purpose \in Purpose
        /\ req[r].pc = "change" => req[r].addr \in Address
        /\ req[r].pc \in {"change", "issue"} => bound[req[r].token] = None
        /\ req[r].pc = "insert" =>
              /\ req[r].token \notin issued
              /\ bound[req[r].token] \in Binding
              /\ bound[req[r].token].user = req[r].user
              /\ bound[req[r].token].purpose = req[r].purpose
              /\ \A x \in req[r].snap :
                    /\ x \in issued /\ bound[x].user = req[r].user
                    /\ bound[x].purpose = req[r].purpose
        /\ req[r].pc \in {"send", "confirm", "claimed", "flushed"} =>
              req[r].token \in issued
        /\ req[r].pc \in {"confirm", "claimed", "flushed"} =>
              inbox[req[r].token] # None

(* Two requests never mint the same token.                                 *)
MintsDiffer ==
    \A r, q \in Request : r # q /\ Minting(r) /\ Minting(q) =>
        req[r].token # req[q].token

(* Tables and history.                                                     *)
TablesInv ==
    /\ rows \subseteq issued
    /\ honoured \subseteq issued
    /\ superseded \subseteq issued
    /\ rows \cap honoured = {}
    /\ rows \cap superseded = {}
    /\ \A t \in issued : bound[t] \in Binding
    /\ \A t \in Token : inbox[t] # None => t \in issued
    /\ \A t \in rows : bound[t].user \in users

(* A claim pins its row; a flushed deletion pins all of its account's.     *)
ClaimsInv ==
    \A r \in Request :
        /\ Claiming(r) => bound[req[r].token].purpose = req[r].purpose
        /\ req[r].pc = "flushed" =>
              /\ req[r].purpose = "delete"
              /\ req[r].user = bound[req[r].token].user
              /\ \A q \in Request \ {r} :
                    Claiming(q) => bound[req[q].token].user # req[r].user

IInv ==
    /\ TypeOK /\ RequestsInv /\ MintsDiffer /\ TablesInv
    /\ OneOutstanding /\ ClaimExclusive /\ ClaimsInv /\ DeletionAtomic

-----------------------------------------------------------------------------
(* Type correctness.                                                       *)

(* A request's record keeps its type when it becomes idle.                 *)
LEMMA IdleType == Idle \in RequestState
  BY DEF Idle, RequestState, Pc

LEMMA FinishType ==
  ASSUME TypeOK, NEW r \in Request, Finish(r)
  PROVE  req' \in [Request -> RequestState]
  BY IdleType DEF TypeOK, Finish

LEMMA StartType ==
  ASSUME TypeOK, NEW r \in Request, Start(r)
  PROVE  TypeOK'
  <1>1. PICK u \in User, t \in Token :
           \/ RequestVerification(r, u, t)
           \/ RequestDeletion(r, u, t)
           \/ \E a \in Address : RequestEmailChange(r, u, a, t)
           \/ \E p \in Purpose : SubmitToken(r, u, p, t)
    BY DEF Start
  <1>2. email[u] \in Address
    BY DEF TypeOK
  <1>3. CASE RequestVerification(r, u, t)
    BY <1>3 DEF RequestVerification, TypeOK, Idle, RequestState, Pc, Purpose,
                accountVars, tokenVars, historyVars
  <1>4. CASE RequestDeletion(r, u, t)
    BY <1>4 DEF RequestDeletion, TypeOK, Idle, RequestState, Pc, Purpose,
                accountVars, tokenVars, historyVars
  <1>5. CASE \E a \in Address : RequestEmailChange(r, u, a, t)
    <2>1. PICK a \in Address : RequestEmailChange(r, u, a, t)
      BY <1>5
    <2>. DEFINE new == [Idle EXCEPT !.pc = "change", !.user = u, !.token = t,
                               !.addr = a, !.wasVerified = (u \in verified)]
    <2>2. new \in RequestState
      <3>1. (u \in verified) \in BOOLEAN
        OBVIOUS
      <3>2. QED
        BY <3>1, Zenon DEF Idle, RequestState, Pc
    <2>3. req' = [req EXCEPT ![r] = new]
      BY <2>1 DEF RequestEmailChange
    <2>. HIDE DEF new
    <2>4. QED
      BY <2>1, <2>2, <2>3 DEF RequestEmailChange, TypeOK,
                accountVars, tokenVars, historyVars
  <1>6. CASE \E p \in Purpose : SubmitToken(r, u, p, t)
    <2>1. PICK p \in Purpose : SubmitToken(r, u, p, t)
      BY <1>6
    <2>. DEFINE loaded == IF p = "verify" THEN email[u] ELSE None
                new == [Idle EXCEPT !.pc = "confirm", !.user = u,
                           !.purpose = p, !.token = t, !.addr = loaded]
    <2>2. loaded \in Address \cup {None}
      BY <1>2
    <2>3. req' = [req EXCEPT ![r] = new]
      BY <2>1 DEF SubmitToken
    <2>. HIDE DEF loaded
    <2>4. new \in RequestState
      BY <2>2 DEF Idle, RequestState, Pc
    <2>. HIDE DEF new
    <2>5. QED
      BY <2>1, <2>3, <2>4 DEF SubmitToken, TypeOK,
                accountVars, tokenVars, historyVars
  <1>7. QED
    BY <1>1, <1>3, <1>4, <1>5, <1>6

-----------------------------------------------------------------------------
(* The inductive invariant: its first states, and one lemma per step.      *)

LEMMA InitIInv == Init => IInv
  <1>. SUFFICES ASSUME Init PROVE IInv
    OBVIOUS
  <1>1. TypeOK
    BY IdleType DEF Init, TypeOK
  <1>2. \A r \in Request : req[r].pc = "idle"
    BY DEF Init, Idle
  <1>3. QED
    BY <1>1, <1>2 DEF Init, IInv, RequestsInv, MintsDiffer, TablesInv,
          OneOutstanding, ClaimExclusive, ClaimsInv, DeletionAtomic,
          Minting, Claiming

(* A request that ends without writing: refusals, rollbacks, crashes.      *)
LEMMA FinishOnlyKeeps ==
  ASSUME IInv, NEW r \in Request, Finish(r),
         UNCHANGED <<accountVars, tokenVars, historyVars>>
  PROVE  IInv'
  <1>1. TypeOK'
    BY FinishType DEF IInv, TypeOK, accountVars, tokenVars, historyVars
  <1>2. /\ req'[r].pc = "idle"
        /\ \A q \in Request \ {r} : req'[q] = req[q]
    BY DEF IInv, TypeOK, Finish, Idle
  <1>3. QED
    BY <1>1, <1>2 DEF IInv, RequestsInv, MintsDiffer, TablesInv,
          OneOutstanding, ClaimExclusive, ClaimsInv, DeletionAtomic,
          Minting, Claiming, accountVars, tokenVars, historyVars

LEMMA StartKeeps ==
  ASSUME IInv, NEW r \in Request, Start(r)
  PROVE  IInv'
  <1>1. TypeOK'
    BY StartType DEF IInv
  <1>2. PICK u \in User, t \in Token :
           \/ RequestVerification(r, u, t)
           \/ RequestDeletion(r, u, t)
           \/ \E a \in Address : RequestEmailChange(r, u, a, t)
           \/ \E p \in Purpose : SubmitToken(r, u, p, t)
    BY DEF Start
  <1>. DEFINE Started ==
         /\ \A q \in Request \ {r} : req'[q] = req[q]
         /\ UNCHANGED <<accountVars, tokenVars, historyVars>>
         /\ req'[r].user = u /\ req'[r].token = t
         /\ \/ /\ req'[r].pc \in {"issue", "change"}
               /\ req'[r].pc = "issue" => req'[r].purpose \in Purpose
               /\ req'[r].pc = "change" => req'[r].addr \in Address
               /\ Fresh(t)
            \/ /\ req'[r].pc = "confirm" /\ req'[r].purpose \in Purpose
               /\ t \in issued /\ inbox[t] # None
  <1>3. req \in [Request -> RequestState]
    BY DEF IInv, TypeOK
  <1>4. Started
    <2>1. CASE RequestVerification(r, u, t)
      BY <1>3, <2>1 DEF RequestVerification, Idle, Purpose
    <2>2. CASE RequestDeletion(r, u, t)
      BY <1>3, <2>2 DEF RequestDeletion, Idle, Purpose
    <2>3. CASE \E a \in Address : RequestEmailChange(r, u, a, t)
      <3>1. PICK a \in Address : RequestEmailChange(r, u, a, t)
        BY <2>3
      <3>. DEFINE seen == (u \in verified)
      <3>2. req' = [req EXCEPT ![r] = [Idle EXCEPT !.pc = "change", !.user = u,
                       !.token = t, !.addr = a, !.wasVerified = seen]]
        BY <3>1, Zenon DEF RequestEmailChange
      <3>. HIDE DEF seen
      <3>3. QED
        BY <1>3, <3>1, <3>2 DEF RequestEmailChange, Idle
    <2>4. CASE \E p \in Purpose : SubmitToken(r, u, p, t)
      BY <1>3, <2>4 DEF SubmitToken, Idle, IInv, TablesInv
    <2>5. QED
      BY <1>2, <2>1, <2>2, <2>3, <2>4
  <1>5. RequestsInv' /\ MintsDiffer'
    BY <1>4 DEF IInv, RequestsInv, MintsDiffer, Minting, Fresh,
                accountVars, tokenVars, historyVars
  <1>6. QED
    BY <1>1, <1>4, <1>5 DEF IInv, TablesInv, OneOutstanding,
          ClaimExclusive, ClaimsInv, DeletionAtomic, Claiming,
          accountVars, tokenVars, historyVars

LEMMA ChangeEmailKeeps ==
  ASSUME IInv, NEW r \in Request, ChangeEmail(r)
  PROVE  IInv'
  <1>. DEFINE u == req[r].user
              next == [Idle EXCEPT !.pc = "issue", !.user = u,
                         !.purpose = "verify", !.token = req[r].token]
  <1>1. CASE Finish(r) /\ UNCHANGED <<email, verified, rows>>
    BY <1>1, FinishOnlyKeeps DEF ChangeEmail, accountVars, tokenVars
  <1>2. CASE /\ email' = [email EXCEPT ![u] = req[r].addr]
             /\ verified' = IF req[r].wasVerified THEN verified \ {u} ELSE verified
             /\ rows' = rows \ RowsOf(u)
             /\ req' = [req EXCEPT ![r] = next]
    <2>1. /\ req[r].pc = "change" /\ u \in User /\ req[r].token \in Token
          /\ req[r].addr \in Address
          /\ bound[req[r].token] = None
      BY DEF IInv, RequestsInv, ChangeEmail
    <2>2. next \in RequestState
      BY <2>1 DEF Idle, RequestState, Pc, Purpose
    <2>3. /\ \A q \in Request \ {r} : req'[q] = req[q]
          /\ req'[r].pc = "issue" /\ req'[r].user = u
          /\ req'[r].purpose = "verify" /\ req'[r].token = req[r].token
      BY <1>2, <2>1 DEF Idle, IInv, TypeOK
    <2>. HIDE DEF next, u
    <2>4. TypeOK'
      BY <1>2, <2>1, <2>2 DEF IInv, TypeOK, ChangeEmail, historyVars
    <2>5. RequestsInv' /\ MintsDiffer' /\ TablesInv'
      BY <1>2, <2>1, <2>3 DEF IInv, RequestsInv, MintsDiffer, Minting,
            TablesInv, ChangeEmail, historyVars, Purpose
    <2>6. \A q \in Request : Claiming(q) => req[q].token \notin RowsOf(u)
      BY DEF ChangeEmail, Unlocked, Revoked, LocksRow, Claiming, u
    <2>7. OneOutstanding' /\ ClaimExclusive' /\ ClaimsInv' /\ DeletionAtomic'
      BY <1>2, <2>1, <2>3, <2>6 DEF IInv, OneOutstanding, ClaimExclusive,
            ClaimsInv, DeletionAtomic, Claiming, ChangeEmail, historyVars
    <2>8. QED
      BY <2>4, <2>5, <2>7 DEF IInv
  <1>3. QED
    BY <1>1, <1>2 DEF ChangeEmail, Revoked

LEMMA IssueDeleteKeeps ==
  ASSUME IInv, NEW r \in Request, IssueDelete(r)
  PROVE  IInv'
  <1>. DEFINE u == req[r].user
              t == req[r].token
              dead == rows \cap expired
              b == [user |-> u, purpose |-> req[r].purpose, email |-> email[u]]
              found == RowsFor(u, req[r].purpose) \ dead
  <1>1. /\ req[r].pc = "issue" /\ u \in User /\ t \in Token
        /\ req[r].purpose \in Purpose /\ bound[t] = None /\ u \in users
        /\ \A x \in issued : x # t
    BY AccountAssumption DEF IInv, RequestsInv, TablesInv, IssueDelete
  <1>2. b \in Binding /\ found \in SUBSET Token
    BY <1>1 DEF Binding, RowsFor, IInv, TypeOK
  <1>3. /\ bound' = [bound EXCEPT ![t] = b]
        /\ rows' = rows \ dead
        /\ \A q \in Request \ {r} : req'[q] = req[q]
        /\ UNCHANGED <<accountVars, expired, inbox, historyVars>>
    BY DEF IssueDelete, IInv, TypeOK
  <1>4. /\ req'[r].pc = "insert" /\ req'[r].user = u /\ req'[r].token = t
        /\ req'[r].purpose = req[r].purpose /\ req'[r].snap = found
        /\ req' \in [Request -> RequestState]
    <2>1. req[r] \in RequestState /\ "insert" \in Pc
      BY DEF IInv, TypeOK, Pc
    <2>2. [req[r] EXCEPT !.pc = "insert", !.snap = found] \in RequestState
      <3>. HIDE DEF found
      <3>. QED
        BY <1>2, <2>1 DEF RequestState
    <2>3. req' = [req EXCEPT ![r] = [req[r] EXCEPT !.pc = "insert", !.snap = found]]
      BY DEF IssueDelete, IInv, TypeOK
    <2>. HIDE DEF found
    <2>4. QED
      BY <1>3, <2>1, <2>2, <2>3 DEF IInv, TypeOK, RequestState
  <1>5. /\ \A x \in issued : bound'[x] = bound[x]
        /\ bound'[t] = b
        /\ \A q \in Request \ {r} : Minting(q) => bound'[req[q].token] = bound[req[q].token]
    BY <1>1, <1>3 DEF IInv, TypeOK, MintsDiffer, Minting
  <1>6. \A q \in Request : Claiming(q) => req[q].token \notin dead
    BY DEF IssueDelete, Unlocked, LocksRow, Claiming
  <1>7. /\ b.user = u /\ b.purpose = req[r].purpose
        /\ \A x \in found : /\ x \in issued /\ bound[x].user = u
                            /\ bound[x].purpose = req[r].purpose
    BY DEF RowsFor, IInv, TablesInv
  <1>. HIDE DEF u, t, dead, b, found
  <1>8. TypeOK'
    BY <1>2, <1>3, <1>4 DEF IInv, TypeOK, accountVars, historyVars
  <1>9. RequestsInv' /\ MintsDiffer'
    <2>1. RequestsInv'
      BY <1>1, <1>2, <1>3, <1>4, <1>5, <1>7 DEF IInv, RequestsInv, Minting,
            historyVars
    <2>2. MintsDiffer'
      BY <1>1, <1>3, <1>4 DEF IInv, MintsDiffer, Minting, t
    <2>3. QED
      BY <2>1, <2>2
  <1>10. TablesInv' /\ OneOutstanding'
    BY <1>1, <1>3, <1>5 DEF IInv, TypeOK, TablesInv, OneOutstanding,
          accountVars, historyVars
  <1>11. ClaimExclusive' /\ ClaimsInv' /\ DeletionAtomic'
    <2>1. ~Claiming(r) /\ ~Claiming(r)'
      BY <1>1, <1>4 DEF Claiming
    <2>2. \A q \in Request : Claiming(q)' =>
             /\ q # r /\ req'[q] = req[q] /\ Claiming(q)
             /\ bound'[req[q].token] = bound[req[q].token]
             /\ req[q].token \in rows'
      BY <1>3, <1>5, <1>6, <2>1 DEF IInv, ClaimExclusive, RequestsInv, Claiming
    <2>3. ClaimExclusive' /\ ClaimsInv'
      BY <2>2 DEF IInv, ClaimExclusive, ClaimsInv, Claiming
    <2>4. DeletionAtomic'
      BY <1>3, <1>5 DEF IInv, TablesInv, DeletionAtomic, accountVars, historyVars
    <2>5. QED
      BY <2>3, <2>4
  <1>12. QED
    BY <1>8, <1>9, <1>10, <1>11 DEF IInv

(* A step that moves a request's program counter and nothing else of it.   *)
LEMMA MovePc ==
  ASSUME TypeOK, NEW r \in Request, NEW c \in Pc,
         req' = [req EXCEPT ![r].pc = c]
  PROVE  /\ req' \in [Request -> RequestState]
         /\ \A q \in Request \ {r} : req'[q] = req[q]
         /\ req'[r].pc = c /\ req'[r].user = req[r].user
         /\ req'[r].token = req[r].token /\ req'[r].purpose = req[r].purpose
  BY DEF TypeOK, RequestState

(* A request that becomes idle.                                            *)
LEMMA FinishIdle ==
  ASSUME TypeOK, NEW r \in Request, Finish(r)
  PROVE  /\ req' \in [Request -> RequestState]
         /\ \A q \in Request \ {r} : req'[q] = req[q]
         /\ req'[r].pc = "idle"
  BY FinishType DEF TypeOK, Finish, Idle

LEMMA IssueInsertKeeps ==
  ASSUME IInv, NEW r \in Request, IssueInsert(r)
  PROVE  IInv'
  <1>. DEFINE u == req[r].user
              p == req[r].purpose
              t == req[r].token
  <1>1. /\ req' \in [Request -> RequestState]
        /\ \A q \in Request \ {r} : req'[q] = req[q]
        /\ req'[r].pc = "send" /\ req'[r].user = u
        /\ req'[r].token = t /\ req'[r].purpose = p
    BY MovePc DEF IssueInsert, IInv, Pc
  <1>2. /\ u \in users /\ u \in User /\ p \in Purpose /\ t \in Token
        /\ t \notin issued /\ bound[t] \in Binding
        /\ bound[t].user = u /\ bound[t].purpose = p
        /\ req[r].pc = "insert"
    BY DEF IssueInsert, IInv, RequestsInv
  <1>3. /\ rows' = (rows \ req[r].snap) \cup {t}
        /\ issued' = issued \cup {t}
        /\ superseded' = superseded \cup {x \in issued : bound[x].user = u
                                                     /\ bound[x].purpose = p}
        /\ UNCHANGED <<accountVars, bound, expired, inbox, honoured>>
    BY DEF IssueInsert
  <1>4. \A x \in rows : bound[x].user = u /\ bound[x].purpose = p => x \in req[r].snap
    BY DEF IssueInsert, IndexAdmits, RowsFor
  <1>5. \A q \in Request : Claiming(q) =>
            /\ q # r /\ req[q].token \in rows /\ req[q].token \notin req[r].snap
    BY <1>2 DEF IssueInsert, Unlocked, LocksRow, Claiming, IInv, ClaimExclusive
  <1>6. \A q \in Request : req[q].pc = "flushed" => req[q].user # u
    BY <1>2 DEF IssueInsert, UserUnlocked
  <1>. HIDE DEF u, p, t
  <1>7. TypeOK'
    BY <1>1, <1>2, <1>3 DEF IInv, TypeOK, accountVars
  <1>8. RequestsInv' /\ MintsDiffer'
    <2>1. \A q \in Request \ {r} : Minting(q) => req[q].token # t
      BY <1>2 DEF IInv, MintsDiffer, Minting, t
    <2>2. RequestsInv'
      BY <1>1, <1>2, <1>3, <2>1 DEF IInv, RequestsInv, Minting
    <2>3. MintsDiffer'
      BY <1>1 DEF IInv, MintsDiffer, Minting
    <2>4. QED
      BY <2>2, <2>3
  <1>9. TablesInv' /\ OneOutstanding'
    BY <1>2, <1>3, <1>4 DEF IInv, TypeOK, TablesInv, OneOutstanding, accountVars
  <1>10. ClaimExclusive' /\ ClaimsInv' /\ DeletionAtomic'
    BY <1>1, <1>3, <1>5 DEF IInv, ClaimExclusive, ClaimsInv, DeletionAtomic,
          Claiming, accountVars
  <1>11. QED
    BY <1>7, <1>8, <1>9, <1>10 DEF IInv

(* The message left the relay: the request ends or goes on to retract.     *)
LEMMA MailKeeps ==
  ASSUME IInv, NEW r \in Request, SendMail(r) \/ SendFails(r)
  PROVE  IInv'
  <1>1. /\ req' \in [Request -> RequestState]
        /\ \A q \in Request \ {r} : req'[q] = req[q]
        /\ \/ req'[r].pc = "idle"
           \/ /\ req'[r].pc = "retract" /\ req'[r].user = req[r].user
              /\ req'[r].purpose = req[r].purpose /\ req'[r].token = req[r].token
    BY MovePc, FinishIdle DEF SendMail, SendFails, IInv, Pc
  <1>2. /\ \/ inbox' = [inbox EXCEPT ![req[r].token] = email[req[r].user]]
           \/ UNCHANGED inbox
        /\ UNCHANGED <<accountVars, bound, rows, expired, historyVars>>
        /\ req[r].pc = "send" /\ req[r].token \in issued /\ req[r].token \in Token
        /\ req[r].user \in User /\ req[r].purpose \in Purpose
    BY DEF SendMail, SendFails, IInv, RequestsInv
  <1>3. /\ TypeOK'
        /\ \A x \in Token : inbox[x] # None => inbox'[x] # None
    BY <1>1, <1>2, AccountAssumption DEF IInv, TypeOK, accountVars, historyVars
  <1>4. RequestsInv' /\ MintsDiffer' /\ TablesInv'
    BY <1>1, <1>2, <1>3 DEF IInv, TypeOK, RequestsInv, MintsDiffer, Minting, TablesInv,
          accountVars, historyVars
  <1>5. OneOutstanding' /\ ClaimExclusive' /\ ClaimsInv' /\ DeletionAtomic'
    BY <1>1, <1>2 DEF IInv, OneOutstanding, ClaimExclusive, ClaimsInv,
          DeletionAtomic, Claiming, accountVars, historyVars
  <1>6. QED
    BY <1>3, <1>4, <1>5 DEF IInv

(* Rows that no claim pins may go at any time.                             *)
LEMMA RowsGoKeeps ==
  ASSUME IInv, NEW S \in SUBSET Token,
         \A q \in Request : Claiming(q) => req[q].token \notin S,
         rows' = rows \ S,
         UNCHANGED <<accountVars, bound, expired, inbox, historyVars>>,
         \/ UNCHANGED req
         \/ \E r \in Request : Finish(r)
  PROVE  IInv'
  <1>1. /\ req' \in [Request -> RequestState]
        /\ \A q \in Request : req'[q] = req[q] \/ req'[q].pc = "idle"
    BY FinishIdle DEF IInv, TypeOK
  <1>2. TypeOK'
    BY <1>1 DEF IInv, TypeOK, accountVars, historyVars
  <1>3. RequestsInv' /\ MintsDiffer' /\ TablesInv' /\ OneOutstanding'
    BY <1>1 DEF IInv, RequestsInv, MintsDiffer, Minting, TablesInv,
          OneOutstanding, accountVars, historyVars
  <1>4. ClaimExclusive' /\ ClaimsInv' /\ DeletionAtomic'
    BY <1>1 DEF IInv, ClaimExclusive, ClaimsInv, DeletionAtomic, Claiming,
          accountVars, historyVars
  <1>5. QED
    BY <1>2, <1>3, <1>4 DEF IInv

LEMMA RetractKeeps ==
  ASSUME IInv, NEW r \in Request, Retract(r)
  PROVE  IInv'
  <1>. DEFINE S == Retracted(r)
  <1>1. S \in SUBSET Token
    BY DEF Retracted, RowsFor, IInv, TypeOK
  <1>2. \A q \in Request : Claiming(q) => req[q].token \notin S
    BY DEF Retract, Unlocked, LocksRow, Claiming
  <1>3. rows' = rows \ S /\ Finish(r)
        /\ UNCHANGED <<accountVars, bound, expired, inbox, historyVars>>
    BY DEF Retract
  <1>. HIDE DEF S
  <1>4. QED
    BY <1>1, <1>2, <1>3, RowsGoKeeps

LEMMA PurgeTaskKeeps ==
  ASSUME IInv, PurgeTask
  PROVE  IInv'
  <1>. DEFINE S == rows \cap expired
  <1>1. S \in SUBSET Token
    BY DEF IInv, TypeOK
  <1>2. \A q \in Request : Claiming(q) => req[q].token \notin S
    BY DEF PurgeTask, LocksRow, Claiming
  <1>3. rows' = rows \ S /\ UNCHANGED req
        /\ UNCHANGED <<accountVars, bound, expired, inbox, historyVars>>
    BY DEF PurgeTask
  <1>. HIDE DEF S
  <1>4. QED
    BY <1>1, <1>2, <1>3, RowsGoKeeps

LEMMA ClaimKeeps ==
  ASSUME IInv, NEW r \in Request, Claim(r)
  PROVE  IInv'
  <1>. DEFINE t == req[r].token
  <1>1. /\ req' \in [Request -> RequestState]
        /\ \A q \in Request \ {r} : req'[q] = req[q]
        /\ req'[r].pc = "claimed" /\ req'[r].user = req[r].user
        /\ req'[r].token = t /\ req'[r].purpose = req[r].purpose
    BY MovePc DEF Claim, IInv, Pc
  <1>2. /\ req[r].pc = "confirm" /\ t \in rows /\ t \in issued /\ inbox[t] # None
        /\ bound[t].purpose = req[r].purpose
        /\ req[r].user \in User /\ t \in Token /\ req[r].purpose \in Purpose
        /\ UNCHANGED <<accountVars, tokenVars, historyVars>>
    BY DEF Claim, Outstanding, IInv, RequestsInv
  <1>3. \A q \in Request \ {r} : Claiming(q) =>
            /\ req[q].token # t
            /\ req[q].pc = "flushed" => bound[t].user # req[q].user
    BY DEF Claim, Unlocked, LocksRow, Claiming
  <1>. HIDE DEF t
  <1>4. TypeOK' /\ TablesInv' /\ OneOutstanding' /\ DeletionAtomic'
    BY <1>1, <1>2 DEF IInv, TypeOK, TablesInv, OneOutstanding, DeletionAtomic,
          accountVars, tokenVars, historyVars
  <1>5. RequestsInv' /\ MintsDiffer'
    <2>1. UNCHANGED <<bound, inbox, issued>>
      BY <1>2 DEF tokenVars, historyVars
    <2>2. RequestsInv'
      BY <1>1, <1>2, <2>1 DEF IInv, RequestsInv
    <2>3. MintsDiffer'
      BY <1>1 DEF IInv, MintsDiffer, Minting
    <2>4. QED
      BY <2>2, <2>3
  <1>6. ClaimExclusive' /\ ClaimsInv'
    BY <1>1, <1>2, <1>3 DEF IInv, ClaimExclusive, ClaimsInv, Claiming, tokenVars
  <1>7. QED
    BY <1>4, <1>5, <1>6 DEF IInv

LEMMA VerifyCommitKeeps ==
  ASSUME IInv, NEW r \in Request, VerifyCommit(r)
  PROVE  IInv'
  <1>. DEFINE t == req[r].token
  <1>1. /\ req' \in [Request -> RequestState]
        /\ \A q \in Request \ {r} : req'[q] = req[q]
        /\ req'[r].pc = "idle"
    BY FinishIdle DEF VerifyCommit, IInv
  <1>2. /\ Claiming(r) /\ t \in rows /\ t \in Token
        /\ req[r].user = bound[t].user /\ bound[t].purpose = "verify"
        /\ req[r].user \in users
    BY DEF VerifyCommit, VerifyMatches, Claiming, IInv, RequestsInv, ClaimsInv,
           ClaimExclusive, TablesInv
  <1>3. /\ verified' = verified \cup {req[r].user}
        /\ rows' = rows \ {t} /\ honoured' = honoured \cup {t}
        /\ UNCHANGED <<users, active, email, keypair, bound, expired, inbox,
                       issued, superseded>>
    BY DEF VerifyCommit
  <1>4. \A q \in Request \ {r} : Claiming(q) => req[q].token # t
    BY <1>2 DEF IInv, ClaimExclusive, Claiming
  <1>. HIDE DEF t
  <1>5. TypeOK' /\ TablesInv' /\ OneOutstanding'
    BY <1>1, <1>2, <1>3 DEF IInv, TypeOK, TablesInv, OneOutstanding
  <1>6. RequestsInv' /\ MintsDiffer'
    BY <1>1, <1>3 DEF IInv, RequestsInv, MintsDiffer, Minting
  <1>7. ClaimExclusive' /\ ClaimsInv'
    BY <1>1, <1>3, <1>4 DEF IInv, ClaimExclusive, ClaimsInv, Claiming
  <1>8. DeletionAtomic'
    BY <1>2, <1>3 DEF IInv, DeletionAtomic
  <1>9. QED
    BY <1>5, <1>6, <1>7, <1>8 DEF IInv

LEMMA DeleteRowsKeeps ==
  ASSUME IInv, NEW r \in Request, DeleteRows(r)
  PROVE  IInv'
  <1>. DEFINE t == req[r].token
              u == req[r].user
  <1>1. /\ req' \in [Request -> RequestState]
        /\ \A q \in Request \ {r} : req'[q] = req[q]
        /\ req'[r].pc = "flushed" /\ req'[r].user = u
        /\ req'[r].token = t /\ req'[r].purpose = req[r].purpose
    BY MovePc DEF DeleteRows, IInv, Pc
  <1>2. /\ Claiming(r) /\ req[r].purpose = "delete"
        /\ u = bound[t].user /\ t \in rows
        /\ u \in User /\ t \in Token /\ t \in issued /\ bound[t].purpose = "delete"
        /\ inbox[t] # None
    BY DEF DeleteRows, DeleteMatches, Claiming, IInv, RequestsInv, ClaimsInv,
           ClaimExclusive
  <1>3. \A q \in Request \ {r} : Claiming(q) =>
            /\ bound[req[q].token].user # u
            /\ req[q].pc = "flushed" => bound[t].user # req[q].user
    BY <1>2 DEF DeleteRows, Unlocked, LocksRow, RowsOf, Claiming, IInv,
           ClaimExclusive
  <1>4. /\ keypair' = keypair \ {u}
        /\ UNCHANGED <<users, active, email, verified, tokenVars, historyVars>>
    BY DEF DeleteRows
  <1>. HIDE DEF t, u
  <1>5. TypeOK' /\ TablesInv' /\ OneOutstanding' /\ DeletionAtomic'
    BY <1>1, <1>4 DEF IInv, TypeOK, TablesInv, OneOutstanding, DeletionAtomic,
          tokenVars, historyVars
  <1>6. RequestsInv' /\ MintsDiffer'
    <2>1. UNCHANGED <<bound, inbox, issued>>
      BY <1>4 DEF tokenVars, historyVars
    <2>2. RequestsInv'
      BY <1>1, <1>2, <2>1 DEF IInv, RequestsInv, Purpose
    <2>3. MintsDiffer'
      BY <1>1 DEF IInv, MintsDiffer, Minting
    <2>4. QED
      BY <2>2, <2>3
  <1>7. ClaimExclusive' /\ ClaimsInv'
    BY <1>1, <1>2, <1>3, <1>4 DEF IInv, ClaimExclusive, ClaimsInv, Claiming,
          tokenVars
  <1>8. QED
    BY <1>5, <1>6, <1>7 DEF IInv

LEMMA DeleteCommitKeeps ==
  ASSUME IInv, NEW r \in Request, DeleteCommit(r)
  PROVE  IInv'
  <1>. DEFINE t == req[r].token
              u == req[r].user
  <1>1. /\ req' \in [Request -> RequestState]
        /\ \A q \in Request \ {r} : req'[q] = req[q]
        /\ req'[r].pc = "idle"
    BY FinishIdle DEF DeleteCommit, IInv
  <1>2. /\ Claiming(r) /\ t \in rows /\ t \in Token /\ u \in User
        /\ u = bound[t].user /\ bound[t].purpose = "delete"
    BY DEF DeleteCommit, Claiming, IInv, RequestsInv, ClaimsInv, ClaimExclusive
  <1>3. /\ users' = users \ {u} /\ active' = active \ {u}
        /\ verified' = verified \ {u}
        /\ rows' = {x \in rows : bound[x].user # u}
        /\ honoured' = honoured \cup {t}
        /\ UNCHANGED <<email, keypair, bound, expired, inbox, issued, superseded>>
    BY DEF DeleteCommit, RowsOf
  <1>4. \A q \in Request \ {r} : Claiming(q) =>
            bound[req[q].token].user # u /\ req[q].token \in rows
    BY DEF DeleteCommit, IInv, ClaimsInv, ClaimExclusive, Claiming
  <1>. HIDE DEF t, u
  <1>5. TypeOK' /\ TablesInv' /\ OneOutstanding'
    BY <1>1, <1>2, <1>3 DEF IInv, TypeOK, TablesInv, OneOutstanding
  <1>6. RequestsInv' /\ MintsDiffer'
    BY <1>1, <1>3 DEF IInv, RequestsInv, MintsDiffer, Minting
  <1>7. ClaimExclusive' /\ ClaimsInv'
    BY <1>1, <1>3, <1>4 DEF IInv, ClaimExclusive, ClaimsInv, Claiming
  <1>8. DeletionAtomic'
    BY <1>2, <1>3 DEF IInv, DeletionAtomic
  <1>9. QED
    BY <1>5, <1>6, <1>7, <1>8 DEF IInv

(* Time, administrators and providers.                                     *)
LEMMA OutsideKeeps ==
  ASSUME IInv,
         \/ \E t \in Token : Expire(t)
         \/ \E u \in User : SetActive(u) \/ OidcSignIn(u)
  PROVE  IInv'
  <1>1. /\ UNCHANGED <<users, email, keypair, bound, rows, inbox, req, historyVars>>
        /\ active' \subseteq users /\ verified' \subseteq users
        /\ expired' \subseteq Token
    BY DEF Expire, SetActive, OidcSignIn, SignedIn, IInv, TypeOK,
           accountVars, tokenVars
  <1>2. QED
    BY <1>1 DEF IInv, TypeOK, RequestsInv, MintsDiffer, Minting, TablesInv,
          OneOutstanding, ClaimExclusive, ClaimsInv, Claiming, DeletionAtomic,
          historyVars

LEMMA StutterKeeps == ASSUME IInv, UNCHANGED vars PROVE IInv'
  BY DEF IInv, TypeOK, RequestsInv, MintsDiffer, Minting, TablesInv,
         OneOutstanding, ClaimExclusive, ClaimsInv, Claiming, DeletionAtomic,
         vars, accountVars, tokenVars, historyVars

LEMMA ProceedKeeps ==
  ASSUME IInv, NEW r \in Request, Proceed(r)
  PROVE  IInv'
  <1>1. CASE ChangeEmail(r)
    BY <1>1, ChangeEmailKeeps
  <1>2. CASE IssueDelete(r)
    BY <1>2, IssueDeleteKeeps
  <1>3. CASE IssueInsert(r)
    BY <1>3, IssueInsertKeeps
  <1>4. CASE SendMail(r) \/ SendFails(r)
    BY <1>4, MailKeeps
  <1>5. CASE Retract(r)
    BY <1>5, RetractKeeps
  <1>6. CASE Claim(r)
    BY <1>6, ClaimKeeps
  <1>7. CASE VerifyCommit(r)
    BY <1>7, VerifyCommitKeeps
  <1>8. CASE DeleteRows(r)
    BY <1>8, DeleteRowsKeeps
  <1>9. CASE DeleteCommit(r)
    BY <1>9, DeleteCommitKeeps
  <1>10. CASE \/ IssueConflict(r) \/ AccountGone(r) \/ ClaimNothing(r)
              \/ RejectClaim(r) \/ DeleteFails(r)
    BY <1>10, FinishOnlyKeeps DEF IssueConflict, AccountGone, ClaimNothing,
          RejectClaim, DeleteFails
  <1>11. QED
    BY <1>1, <1>2, <1>3, <1>4, <1>5, <1>6, <1>7, <1>8, <1>9, <1>10 DEF Proceed

LEMMA NextIInv == IInv /\ [Next]_vars => IInv'
  <1>. SUFFICES ASSUME IInv, [Next]_vars PROVE IInv'
    OBVIOUS
  <1>1. CASE UNCHANGED vars
    BY <1>1, StutterKeeps
  <1>2. CASE \E r \in Request : Start(r) \/ Proceed(r)
    BY <1>2, StartKeeps, ProceedKeeps
  <1>3. CASE Environment
    <2>1. CASE PurgeTask
      BY <2>1, PurgeTaskKeeps
    <2>2. CASE \E r \in Request : Crash(r)
      BY <2>2, FinishOnlyKeeps DEF Crash
    <2>3. QED
      BY <1>3, <2>1, <2>2, OutsideKeeps DEF Environment
  <1>4. QED
    BY <1>1, <1>2, <1>3 DEF Next

LEMMA Inductive == Spec => []IInv
  BY InitIInv, NextIInv, PTL DEF Spec

-----------------------------------------------------------------------------
(* The theorems.                                                           *)

(* Every variable keeps its type, whatever requests overlap.               *)
THEOREM TypeCorrect == Spec => []TypeOK
  BY Inductive, PTL DEF IInv

(* However requests race, an account has at most one outstanding token per *)
(* purpose.                                                                *)
THEOREM AtMostOneOutstanding == Spec => []OneOutstanding
  BY Inductive, PTL DEF IInv

(* Two confirmations never hold the same claimed token, and a claimed      *)
(* token's row outlives every other request's deletes.                     *)
THEOREM ClaimsExclusive == Spec => []ClaimExclusive
  BY Inductive, PTL DEF IInv

(* An account is gone exactly when one of its deletion tokens was spent.   *)
THEOREM DeletionIsAtomic == Spec => []DeletionAtomic
  BY Inductive, PTL DEF IInv

(* A step honours at most the token its request has claimed.               *)
LEMMA HonouredWasClaimed ==
  ASSUME [Next]_vars, NEW t \in honoured' \ honoured
  PROVE  \E r \in Request : Claiming(r) /\ t = req[r].token
  <1>1. CASE UNCHANGED vars
    BY <1>1 DEF vars, historyVars
  <1>2. CASE Environment
    BY <1>2 DEF Environment, Expire, PurgeTask, SetActive, OidcSignIn, Crash,
          historyVars
  <1>3. CASE \E r \in Request : Start(r)
    BY <1>3, ZenonT(40) DEF Start, RequestVerification, RequestDeletion,
          RequestEmailChange, SubmitToken, historyVars
  <1>4. CASE \E r \in Request : Proceed(r)
    BY <1>4 DEF Proceed, ChangeEmail, IssueDelete, IssueInsert, IssueConflict,
          SendMail, SendFails, Retract, AccountGone, Claim, ClaimNothing,
          RejectClaim, VerifyCommit, DeleteRows, DeleteCommit, DeleteFails,
          Claiming, historyVars
  <1>5. QED
    BY <1>1, <1>2, <1>3, <1>4 DEF Next

(* A link that a newer one replaced is never honoured, not even by a       *)
(* confirmation that had arrived before the replacement.                   *)
THEOREM SupersededDead == Spec => SupersededStaysDead
  <1>1. IInv /\ [Next]_vars =>
          [\A t \in honoured' \ honoured : t \notin superseded]_vars
    BY HonouredWasClaimed DEF IInv, TablesInv, ClaimExclusive, Claiming
  <1>2. QED
    BY <1>1, Inductive, PTL DEF Spec, SupersededStaysDead

-----------------------------------------------------------------------------
(* The tables implement OneTimeToken.                                      *)

(* Steps that spend and issue nothing only withdraw the tokens whose rows  *)
(* they delete.                                                            *)
LEMMA WithdrawStep ==
  ASSUME IInv, rows' \subseteq rows, UNCHANGED <<issued, honoured>>,
         \A t \in issued : bound'[t] = bound[t]
  PROVE  OTT!Withdraw(rows \ rows')
  <1>. DEFINE S == rows \ rows'
  <1>1. \A t \in S : TokenStatus[t] = "live"
    BY DEF TokenStatus, IInv, TablesInv, TypeOK
  <1>2. TokenStatus' = [t \in Token |-> IF t \in S THEN "dead" ELSE TokenStatus[t]]
    <2>1. \A t \in Token : TokenStatus'[t] =
                              IF t \in S THEN "dead" ELSE TokenStatus[t]
      BY DEF TokenStatus, IInv, TablesInv
    <2>2. QED
      BY <2>1 DEF TokenStatus
  <1>3. UNCHANGED TokenSlot
    BY DEF TokenSlot
  <1>4. QED
    BY <1>1, <1>2, <1>3 DEF OTT!Withdraw

(* The INSERT issues the request's token in place of the one it replaces.  *)
LEMMA IssueStep ==
  ASSUME IInv, NEW r \in Request, IssueInsert(r)
  PROVE  OTT!Issue(req[r].token, <<req[r].user, req[r].purpose>>)
  <1>. DEFINE t == req[r].token
              s == <<req[r].user, req[r].purpose>>
  <1>1. /\ t \in Token /\ t \notin issued /\ t \notin rows /\ t \notin honoured
        /\ bound[t].user = req[r].user /\ bound[t].purpose = req[r].purpose
    BY DEF IssueInsert, IInv, RequestsInv, TablesInv
  <1>2. /\ rows' = (rows \ req[r].snap) \cup {t}
        /\ issued' = issued \cup {t}
        /\ UNCHANGED <<bound, honoured>>
    BY DEF IssueInsert
  <1>3. \A x \in rows : x \in req[r].snap <=>
                          bound[x].user = req[r].user /\ bound[x].purpose = req[r].purpose
    BY DEF IssueInsert, IndexAdmits, RowsFor, IInv, RequestsInv
  <1>4. OTT!Live(s) = {x \in rows : x \in req[r].snap}
    <2>1. \A x \in Token : TokenStatus[x] = "live" <=> x \in rows
      BY DEF TokenStatus, IInv, TablesInv
    <2>2. \A x \in rows : TokenSlot[x] = s <=> x \in req[r].snap
      BY <1>3 DEF TokenSlot, IInv, TablesInv, TypeOK
    <2>3. QED
      BY <2>1, <2>2 DEF OTT!Live, IInv, TypeOK
  <1>. HIDE DEF t
  <1>5. TokenStatus[t] = "unissued"
    BY <1>1 DEF TokenStatus
  <1>6. TokenStatus' = [x \in Token |-> IF x = t THEN "live"
                                        ELSE IF x \in OTT!Live(s) THEN "dead"
                                        ELSE TokenStatus[x]]
    <2>1. \A x \in Token : TokenStatus'[x] =
             IF x = t THEN "live" ELSE IF x \in OTT!Live(s) THEN "dead" ELSE TokenStatus[x]
      BY <1>1, <1>2, <1>4 DEF TokenStatus, IInv, TablesInv
    <2>2. QED
      BY <2>1 DEF TokenStatus
  <1>7. TokenSlot' = [TokenSlot EXCEPT ![t] = s]
    BY <1>1, <1>2 DEF TokenSlot
  <1>8. QED
    BY <1>5, <1>6, <1>7 DEF OTT!Issue, t

(* A committed confirmation spends its token; a deletion ends the others   *)
(* of the account with it.                                                 *)
LEMMA SpendStep ==
  ASSUME IInv, NEW r \in Request, NEW S \in SUBSET rows, Claiming(r),
         req[r].token \notin S,
         rows' = rows \ (S \cup {req[r].token}),
         honoured' = honoured \cup {req[r].token},
         UNCHANGED <<bound, issued>>
  PROVE  OTT!Spend(req[r].token, S)
  <1>. DEFINE t == req[r].token
  <1>1. t \in rows /\ t \in Token /\ t \notin honoured
    BY DEF IInv, ClaimExclusive, Claiming, TablesInv, TypeOK
  <1>. HIDE DEF t
  <1>2. \A x \in S \cup {t} : TokenStatus[x] = "live"
    BY <1>1 DEF TokenStatus, IInv, TablesInv, TypeOK
  <1>3. TokenStatus' = [x \in Token |-> IF x = t THEN "spent"
                                        ELSE IF x \in S THEN "dead"
                                        ELSE TokenStatus[x]]
    <2>1. \A x \in Token : TokenStatus'[x] =
             IF x = t THEN "spent" ELSE IF x \in S THEN "dead" ELSE TokenStatus[x]
      BY <1>1 DEF TokenStatus, IInv, TablesInv, t
    <2>2. QED
      BY <2>1 DEF TokenStatus
  <1>4. UNCHANGED TokenSlot
    BY DEF TokenSlot
  <1>5. QED
    BY <1>2, <1>3, <1>4 DEF OTT!Spend, t

LEMMA DeleteSpends ==
  ASSUME IInv, NEW r \in Request, DeleteCommit(r)
  PROVE  \E S \in SUBSET Token : OTT!Spend(req[r].token, S)
  <1>. DEFINE S == RowsOf(req[r].user) \ {req[r].token}
  <1>1. Claiming(r) /\ S \in SUBSET rows /\ S \in SUBSET Token
        /\ req[r].token \notin S
    BY DEF DeleteCommit, Claiming, RowsOf, IInv, TypeOK
  <1>2. req[r].token \in RowsOf(req[r].user)
    BY DEF DeleteCommit, RowsOf, IInv, ClaimExclusive, ClaimsInv, Claiming
  <1>3. /\ rows' = rows \ (S \cup {req[r].token})
        /\ honoured' = honoured \cup {req[r].token}
        /\ UNCHANGED <<bound, issued>>
    BY <1>2 DEF DeleteCommit
  <1>. HIDE DEF S
  <1>4. QED
    BY <1>1, <1>3, SpendStep

LEMMA VerifySpends ==
  ASSUME IInv, NEW r \in Request, VerifyCommit(r)
  PROVE  \E S \in SUBSET Token : OTT!Spend(req[r].token, S)
  <1>1. Claiming(r) /\ {} \in SUBSET rows /\ {} \in SUBSET Token
        /\ req[r].token \notin {}
    BY DEF VerifyCommit, Claiming
  <1>2. /\ rows' = rows \ ({} \cup {req[r].token})
        /\ honoured' = honoured \cup {req[r].token}
        /\ UNCHANGED <<bound, issued>>
    BY DEF VerifyCommit
  <1>3. QED
    BY <1>1, <1>2, SpendStep

LEMMA InitOTT == Init => OTT!Init
  BY DEF Init, OTT!Init, TokenStatus, TokenSlot

LEMMA StepOTT == IInv /\ [Next]_vars => [OTT!Next]_(OTT!tokenVars)
  <1>. SUFFICES ASSUME IInv, [Next]_vars PROVE [OTT!Next]_(OTT!tokenVars)
    OBVIOUS
  <1>. DEFINE Quiet == /\ rows' \subseteq rows /\ UNCHANGED <<issued, honoured>>
                       /\ \A t \in issued : bound'[t] = bound[t]
  <1>1. CASE Quiet
    <2>1. OTT!Withdraw(rows \ rows')
      BY <1>1, WithdrawStep
    <2>2. rows \ rows' \in SUBSET Token
      BY DEF IInv, TypeOK
    <2>3. QED
      BY <2>1, <2>2 DEF OTT!Next
  <1>2. CASE UNCHANGED vars
    BY <1>1, <1>2 DEF vars, tokenVars, historyVars
  <1>3. CASE Environment
    <2>1. UNCHANGED <<issued, honoured, bound>>
      BY <1>3 DEF Environment, Expire, PurgeTask, SetActive, OidcSignIn, Crash,
            tokenVars, historyVars
    <2>2. rows' \subseteq rows
      <3>1. CASE PurgeTask
        BY <3>1 DEF PurgeTask
      <3>2. CASE ~PurgeTask
        BY <1>3, <3>2 DEF Environment, Expire, SetActive, OidcSignIn, Crash,
              tokenVars
      <3>3. QED
        BY <3>1, <3>2
    <2>3. QED
      BY <1>1, <2>1, <2>2
  <1>4. CASE \E r \in Request : Start(r)
    <2>1. UNCHANGED <<tokenVars, historyVars>>
      BY <1>4, ZenonT(40) DEF Start, RequestVerification, RequestDeletion,
            RequestEmailChange, SubmitToken
    <2>2. QED
      BY <1>1, <2>1 DEF tokenVars, historyVars
  <1>5. ASSUME NEW r \in Request, Proceed(r)
        PROVE  [OTT!Next]_(OTT!tokenVars)
    <2>1. CASE IssueInsert(r)
      <3>1. OTT!Issue(req[r].token, <<req[r].user, req[r].purpose>>)
        BY <2>1, IssueStep
      <3>2. /\ req[r].token \in Token
            /\ <<req[r].user, req[r].purpose>> \in User \X Purpose
        BY <2>1 DEF IssueInsert, IInv, RequestsInv
      <3>3. QED
        BY <3>1, <3>2 DEF OTT!Next
    <2>2. CASE VerifyCommit(r) \/ DeleteCommit(r)
      <3>1. req[r].token \in Token
        BY <2>2 DEF VerifyCommit, DeleteCommit, IInv, RequestsInv
      <3>2. QED
        BY <2>2, <3>1, VerifySpends, DeleteSpends DEF OTT!Next
    <2>3. CASE IssueDelete(r)
      <3>1. bound[req[r].token] = None
        BY <2>3 DEF IssueDelete, IInv, RequestsInv
      <3>2. \A t \in issued : bound'[t] = bound[t]
        BY <2>3, <3>1, AccountAssumption DEF IssueDelete, IInv, TablesInv, TypeOK
      <3>3. QED
        BY <1>1, <2>3, <3>2 DEF IssueDelete, historyVars
    <2>4. CASE \/ ChangeEmail(r) \/ IssueConflict(r) \/ SendMail(r)
               \/ SendFails(r) \/ Retract(r) \/ AccountGone(r) \/ Claim(r)
               \/ ClaimNothing(r) \/ RejectClaim(r) \/ DeleteRows(r)
               \/ DeleteFails(r)
      <3>1. UNCHANGED <<issued, honoured, bound>>
        BY <2>4 DEF ChangeEmail, IssueConflict, SendMail, SendFails, Retract,
              AccountGone, Claim, ClaimNothing, RejectClaim, DeleteRows,
              DeleteFails, tokenVars, historyVars
      <3>2. rows' \subseteq rows
        BY <2>4 DEF ChangeEmail, IssueConflict, SendMail, SendFails, Retract,
              AccountGone, Claim, ClaimNothing, RejectClaim, DeleteRows,
              DeleteFails, tokenVars
      <3>3. QED
        BY <1>1, <3>1, <3>2
    <2>5. QED
      BY <1>5, <2>1, <2>2, <2>3, <2>4 DEF Proceed
  <1>6. QED
    BY <1>2, <1>3, <1>4, <1>5 DEF Next

(* Requests, rows, locks and races amount to single-use tokens, one live   *)
(* at a time per account and purpose.                                      *)
THEOREM ImplementsOneTimeTokens == Spec => OneTimeTokens
  BY InitOTT, StepOTT, Inductive, PTL DEF Spec, OneTimeTokens, OTT!Spec

-----------------------------------------------------------------------------
(* Action properties.                                                      *)

(* Steps that delete no row at all.                                        *)
LEMMA RowsStay ==
  ASSUME [Next]_vars,
         ~PurgeTask,
         \A r \in Request :
            ~(\/ ChangeEmail(r) \/ IssueDelete(r) \/ IssueInsert(r) \/ Retract(r)
              \/ VerifyCommit(r) \/ DeleteCommit(r))
  PROVE  rows' = rows
  <1>1. CASE UNCHANGED vars
    BY <1>1 DEF vars, tokenVars
  <1>2. CASE Environment
    BY <1>2 DEF Environment, Expire, SetActive, OidcSignIn, Crash, tokenVars
  <1>3. CASE \E r \in Request : Start(r)
    <2>1. UNCHANGED tokenVars
      BY <1>3, ZenonT(40) DEF Start, RequestVerification, RequestDeletion,
            RequestEmailChange, SubmitToken
    <2>2. QED
      BY <2>1 DEF tokenVars
  <1>4. CASE \E r \in Request : Proceed(r)
    BY <1>4 DEF Proceed, IssueConflict, SendMail, SendFails, AccountGone, Claim,
          ClaimNothing, RejectClaim, DeleteRows, DeleteFails, tokenVars
  <1>5. QED
    BY <1>1, <1>2, <1>3, <1>4 DEF Next

(* A usable link disappears only for a reason that concerns its account    *)
(* and purpose.                                                            *)
THEOREM LinkLossIsJustified == Spec => LinkLossJustified
  <1>. DEFINE Reason(t) ==
         LET u == bound[t].user IN
         \/ t \in expired \/ t \in honoured' \/ u \notin users'
         \/ \E r \in Request :
               /\ req[r].user = u
               /\ \/ req[r].pc = "change"
                  \/ req[r].pc \in {"insert", "retract"}
                     /\ req[r].purpose = bound[t].purpose
  <1>1. ASSUME IInv, [Next]_vars, NEW t \in rows \ rows'
        PROVE  Reason(t)
    <2>1. CASE PurgeTask
      BY <1>1, <2>1 DEF PurgeTask
    <2>2. ASSUME NEW r \in Request, ChangeEmail(r) PROVE Reason(t)
      BY <1>1, <2>2 DEF ChangeEmail, Revoked, RowsOf
    <2>3. ASSUME NEW r \in Request, IssueDelete(r) PROVE Reason(t)
      BY <1>1, <2>3 DEF IssueDelete
    <2>4. ASSUME NEW r \in Request, IssueInsert(r) PROVE Reason(t)
      BY <1>1, <2>4 DEF IssueInsert, IInv, RequestsInv
    <2>5. ASSUME NEW r \in Request, Retract(r) PROVE Reason(t)
      BY <1>1, <2>5 DEF Retract, Retracted, RowsFor
    <2>6. ASSUME NEW r \in Request, VerifyCommit(r) PROVE Reason(t)
      BY <1>1, <2>6 DEF VerifyCommit
    <2>7. ASSUME NEW r \in Request, DeleteCommit(r) PROVE Reason(t)
      BY <1>1, <2>7 DEF DeleteCommit, RowsOf
    <2>8. QED
      BY <1>1, <2>1, <2>2, <2>3, <2>4, <2>5, <2>6, <2>7, RowsStay
  <1>2. IInv /\ [Next]_vars => [\A t \in rows \ rows' : Reason(t)]_vars
    BY <1>1
  <1>3. QED
    BY <1>2, Inductive, PTL DEF Spec, LinkLossJustified

(* A usable link is in the mailbox of its account's present address.       *)
DeliveryInv ==
    /\ \A r \in Request : req[r].pc = "send" => bound[req[r].token].user = req[r].user
    /\ \A t \in rows : inbox[t] # None => inbox[t] = email[bound[t].user]

(* No new row, no new mail, no new address.                                *)
LEMMA QuietDelivery ==
  ASSUME IInv, DeliveryInv, rows' \subseteq rows, UNCHANGED <<inbox, email>>,
         \A t \in issued : bound'[t] = bound[t],
         \A q \in Request : req'[q] = req[q] \/ req'[q].pc # "send"
  PROVE  DeliveryInv'
  BY DEF DeliveryInv, IInv, TablesInv, RequestsInv

LEMMA StartDelivery ==
  ASSUME IInv, DeliveryInv, NEW r \in Request, Start(r)
  PROVE  DeliveryInv'
  <1>1. UNCHANGED <<accountVars, tokenVars>>
    BY Zenon DEF Start, RequestVerification, RequestDeletion,
          RequestEmailChange, SubmitToken
  <1>2. \A q \in Request : req'[q] = req[q] \/ req'[q].pc # "send"
    <2>1. PICK u \in User, t \in Token :
             \/ RequestVerification(r, u, t)
             \/ RequestDeletion(r, u, t)
             \/ \E a \in Address : RequestEmailChange(r, u, a, t)
             \/ \E p \in Purpose : SubmitToken(r, u, p, t)
      BY DEF Start
    <2>2. req \in [Request -> RequestState]
      BY DEF IInv, TypeOK
    <2>3. CASE RequestVerification(r, u, t)
      BY <2>2, <2>3 DEF RequestVerification, Idle
    <2>4. CASE RequestDeletion(r, u, t)
      BY <2>2, <2>4 DEF RequestDeletion, Idle
    <2>5. CASE \E a \in Address : RequestEmailChange(r, u, a, t)
      <3>1. PICK a \in Address : RequestEmailChange(r, u, a, t)
        BY <2>5
      <3>. DEFINE seen == (u \in verified)
      <3>2. req' = [req EXCEPT ![r] = [Idle EXCEPT !.pc = "change", !.user = u,
                       !.token = t, !.addr = a, !.wasVerified = seen]]
        BY <3>1, Zenon DEF RequestEmailChange
      <3>. HIDE DEF seen
      <3>3. QED
        BY <2>2, <3>2 DEF Idle
    <2>6. CASE \E p \in Purpose : SubmitToken(r, u, p, t)
      BY <2>2, <2>6 DEF SubmitToken, Idle
    <2>7. QED
      BY <2>1, <2>3, <2>4, <2>5, <2>6
  <1>3. QED
    BY <1>1, <1>2, QuietDelivery DEF accountVars, tokenVars

(* An address change revokes the links its old mailbox holds.              *)
LEMMA ChangeDelivery ==
  ASSUME IInv, DeliveryInv, NEW r \in Request, ChangeEmail(r)
  PROVE  DeliveryInv'
  <1>. DEFINE u == req[r].user
              next == [Idle EXCEPT !.pc = "issue", !.user = u,
                         !.purpose = "verify", !.token = req[r].token]
  <1>1. CASE Finish(r) /\ UNCHANGED <<email, verified, rows>>
    BY <1>1, FinishIdle, QuietDelivery DEF ChangeEmail, IInv
  <1>2. CASE /\ email' = [email EXCEPT ![u] = req[r].addr]
             /\ rows' = rows \ RowsOf(u)
             /\ req' = [req EXCEPT ![r] = next]
    <2>1. \A q \in Request : req'[q] = req[q] \/ req'[q].pc # "send"
      BY <1>2 DEF Idle, IInv, TypeOK
    <2>2. \A t \in rows' : t \in rows /\ email'[bound[t].user] = email[bound[t].user]
      BY <1>2 DEF RowsOf, IInv, TypeOK
    <2>3. UNCHANGED <<bound, inbox>>
      BY DEF ChangeEmail
    <2>. HIDE DEF next, u
    <2>4. QED
      BY <2>1, <2>2, <2>3 DEF DeliveryInv
  <1>3. QED
    BY <1>1, <1>2 DEF ChangeEmail, Revoked

LEMMA IssueDelivery ==
  ASSUME IInv, DeliveryInv, NEW r \in Request, IssueDelete(r) \/ IssueInsert(r)
  PROVE  DeliveryInv'
  <1>1. CASE IssueDelete(r)
    <2>1. bound[req[r].token] = None
      BY <1>1 DEF IssueDelete, IInv, RequestsInv
    <2>2. \A t \in issued : bound'[t] = bound[t]
      BY <1>1, <2>1, AccountAssumption DEF IssueDelete, IInv, TablesInv, TypeOK
    <2>3. \A q \in Request : req'[q] = req[q] \/ req'[q].pc # "send"
      BY <1>1 DEF IssueDelete, IInv, TypeOK, RequestState
    <2>4. rows' \subseteq rows /\ UNCHANGED <<inbox, email>>
      BY <1>1 DEF IssueDelete, accountVars
    <2>5. QED
      BY <2>2, <2>3, <2>4, QuietDelivery
  <1>2. CASE IssueInsert(r)
    <2>1. /\ \A q \in Request \ {r} : req'[q] = req[q]
          /\ req'[r].token = req[r].token /\ req'[r].user = req[r].user
      BY <1>2, MovePc DEF IssueInsert, IInv, Pc
    <2>2. /\ bound[req[r].token].user = req[r].user
          /\ req[r].token \in Token /\ inbox[req[r].token] = None
      BY <1>2 DEF IssueInsert, IInv, RequestsInv, TablesInv
    <2>3. /\ rows' = (rows \ req[r].snap) \cup {req[r].token}
          /\ UNCHANGED <<bound, inbox, email>>
      BY <1>2 DEF IssueInsert, accountVars
    <2>4. QED
      BY <2>1, <2>2, <2>3 DEF DeliveryInv
  <1>3. QED
    BY <1>1, <1>2

LEMMA MailDelivery ==
  ASSUME IInv, DeliveryInv, NEW r \in Request, SendMail(r) \/ SendFails(r)
  PROVE  DeliveryInv'
  <1>1. /\ \A q \in Request \ {r} : req'[q] = req[q]
        /\ req'[r].pc # "send"
    BY MovePc, FinishIdle DEF SendMail, SendFails, IInv, Pc
  <1>2. /\ \/ inbox' = [inbox EXCEPT ![req[r].token] = email[req[r].user]]
           \/ UNCHANGED inbox
        /\ UNCHANGED <<bound, rows, email>>
        /\ bound[req[r].token].user = req[r].user /\ req[r].token \in Token
    BY DEF SendMail, SendFails, IInv, RequestsInv, DeliveryInv, accountVars
  <1>3. QED
    BY <1>1, <1>2 DEF DeliveryInv, IInv, TypeOK

LEMMA ProceedDelivery ==
  ASSUME IInv, DeliveryInv, NEW r \in Request, Proceed(r)
  PROVE  DeliveryInv'
  <1>1. CASE ChangeEmail(r) \/ IssueDelete(r) \/ IssueInsert(r)
             \/ SendMail(r) \/ SendFails(r)
    BY <1>1, ChangeDelivery, IssueDelivery, MailDelivery
  <1>2. CASE \/ IssueConflict(r) \/ Retract(r) \/ AccountGone(r)
             \/ ClaimNothing(r) \/ RejectClaim(r) \/ VerifyCommit(r)
             \/ DeleteCommit(r) \/ DeleteFails(r)
    <2>1. Finish(r)
      BY <1>2 DEF IssueConflict, Retract, AccountGone, ClaimNothing, RejectClaim,
            VerifyCommit, DeleteCommit, DeleteFails
    <2>2. rows' \subseteq rows /\ UNCHANGED <<inbox, email, bound>>
      BY <1>2 DEF IssueConflict, Retract, AccountGone, ClaimNothing, RejectClaim,
            VerifyCommit, DeleteCommit, DeleteFails, accountVars, tokenVars
    <2>3. QED
      BY <2>1, <2>2, FinishIdle, QuietDelivery DEF IInv
  <1>3. CASE Claim(r) \/ DeleteRows(r)
    <2>1. UNCHANGED <<inbox, email, bound, rows>>
      BY <1>3 DEF Claim, DeleteRows, accountVars, tokenVars
    <2>2. \A q \in Request : req'[q] = req[q] \/ req'[q].pc # "send"
      BY <1>3, MovePc DEF Claim, DeleteRows, IInv, Pc
    <2>3. QED
      BY <2>1, <2>2, QuietDelivery
  <1>4. QED
    BY <1>1, <1>2, <1>3 DEF Proceed

LEMMA NextDelivery == IInv /\ DeliveryInv /\ [Next]_vars => DeliveryInv'
  <1>. SUFFICES ASSUME IInv, DeliveryInv, [Next]_vars PROVE DeliveryInv'
    OBVIOUS
  <1>1. CASE UNCHANGED vars
    BY <1>1 DEF DeliveryInv, vars, accountVars, tokenVars
  <1>2. CASE \E r \in Request : Start(r) \/ Proceed(r)
    BY <1>2, StartDelivery, ProceedDelivery
  <1>3. CASE \E r \in Request : Crash(r)
    BY <1>3, FinishIdle, QuietDelivery DEF Crash, IInv, accountVars, tokenVars
  <1>4. CASE PurgeTask
    BY <1>4, QuietDelivery DEF PurgeTask, accountVars
  <1>5. CASE \/ \E t \in Token : Expire(t)
             \/ \E u \in User : SetActive(u) \/ OidcSignIn(u)
    <2>1. UNCHANGED <<rows, inbox, email, bound, req>>
      BY <1>5 DEF Expire, SetActive, OidcSignIn, accountVars, tokenVars
    <2>2. QED
      BY <2>1, QuietDelivery
  <1>6. QED
    BY <1>1, <1>2, <1>3, <1>4, <1>5 DEF Next, Environment

LEMMA Delivered == Spec => []DeliveryInv
  <1>1. Init => DeliveryInv
    BY DEF Init, DeliveryInv, Idle
  <1>2. QED
    BY <1>1, NextDelivery, Inductive, PTL DEF Spec

(* Who may add to the verified accounts.                                   *)
LEMMA VerifiedBy ==
  ASSUME [Next]_vars, NEW u \in verified' \ verified
  PROVE  \/ \E r \in Request : VerifyCommit(r) /\ u = req[r].user
         \/ \E w \in User : OidcSignIn(w) /\ u = w
  <1>1. CASE UNCHANGED vars
    BY <1>1 DEF vars, accountVars
  <1>2. CASE Environment
    BY <1>2 DEF Environment, Expire, PurgeTask, SetActive, OidcSignIn, Crash,
          accountVars
  <1>3. CASE \E r \in Request : Start(r)
    <2>1. UNCHANGED accountVars
      BY <1>3, ZenonT(40) DEF Start, RequestVerification, RequestDeletion,
            RequestEmailChange, SubmitToken
    <2>2. QED
      BY <2>1 DEF accountVars
  <1>4. CASE \E r \in Request : Proceed(r)
    BY <1>4 DEF Proceed, ChangeEmail, IssueDelete, IssueInsert, IssueConflict,
          SendMail, SendFails, Retract, AccountGone, Claim, ClaimNothing,
          RejectClaim, VerifyCommit, DeleteRows, DeleteCommit, DeleteFails,
          accountVars
  <1>5. QED
    BY <1>1, <1>2, <1>3, <1>4 DEF Next

(* With no provider sign-in, verification is always the mailbox's proof:   *)
(* the link honoured was delivered to the very address that is verified.   *)
THEOREM VerifiedByMailbox ==
  ASSUME Federated = {}
  PROVE  Spec => VerificationProven
  <1>. DEFINE Proven(u) ==
         \/ \E t \in honoured' \ honoured :
               bound[t].user = u /\ inbox[t] = email'[u]
         \/ u \in Federated /\ ProviderAddress[u] = email'[u]
  <1>1. ASSUME IInv, DeliveryInv, [Next]_vars, NEW u \in verified' \ verified
        PROVE  Proven(u)
    <2>1. PICK r \in Request : VerifyCommit(r) /\ u = req[r].user
      BY <1>1, VerifiedBy DEF OidcSignIn
    <2>2. req[r].token \in rows \ honoured
      BY <1>1, <2>1 DEF VerifyCommit, IInv, ClaimExclusive, TablesInv
    <2>3. bound[req[r].token].user = u /\ email' = email
      BY <2>1 DEF VerifyCommit, VerifyMatches
    <2>4. inbox[req[r].token] # None
      BY <1>1, <2>1 DEF VerifyCommit, IInv, RequestsInv
    <2>5. QED
      BY <1>1, <2>1, <2>2, <2>3, <2>4 DEF DeliveryInv, VerifyCommit
  <1>2. IInv /\ DeliveryInv /\ [Next]_vars =>
          [\A u \in verified' \ verified : Proven(u)]_vars
    BY <1>1
  <1>3. QED
    BY <1>2, Inductive, Delivered, PTL DEF Spec, VerificationProven

=============================================================================
