---------------------------- MODULE SignInProofs ----------------------------
(***************************************************************************)
(* Proofs about SignIn, for any sets of overlapping requests, processes,   *)
(* tokens and recovery codes, any mix of operations and any number of      *)
(* enrolments and faults.                                                  *)
(***************************************************************************)
EXTENDS SignIn, TLAPS

(* Which operation is at which program counter.                            *)
PlaceOf(q) ==
  /\ q.pc \in {"cache", "db", "add", "again", "deny", "served"} => q.op = "call"
  /\ q.pc \in {"insert", "publish"} => q.op = "logout"
  /\ q.pc \in {"delete", "redeem"} => q.op = "exchange"
  /\ q.pc \in {"get", "set", "local", "commit"} => q.op \in {"login", "enroll", "verify", "disable"}
  /\ q.pc = "load" => q.op \in {"call", "login", "enroll", "verify", "disable"}
  /\ q # Idle /\ q.op \notin {"login", "verify", "disable"} => q.code = None
Places == \A r \in Request : PlaceOf(request[r])

(* A request that holds the row got there with a code good for it.         *)
HeldRow(q) ==
  q.pc \in {"get", "set", "local", "commit"} =>
    /\ q.row \in Row
    /\ q.code # None => Valid(q.code, q.row)
    /\ q.op = "verify" \/ q.pc # "commit" => Totp(q.code)
    /\ q.op = "enroll" => ~q.row.on
Held == \A r \in Request : HeldRow(request[r])

(* What a request knows about its token, and the cache of any.             *)
Tokens ==
  /\ \A r \in Request :
       LET q == request[r] IN
       /\ q # Idle /\ q.op \in {"call", "logout"} => q.k \in issued
       /\ q # Idle /\ q.op \notin {"call", "logout"} => q.k = None
       /\ q.pc \in {"deny", "publish"} => q.k \in blocklist
  /\ RevokedIsStored

(* One exchange at a time has deleted the handoff code, and it is there.   *)
Handoff ==
  /\ \A r, s \in Request : request[r].pc = "redeem" /\ request[s].pc = "redeem" => r = s
  /\ \A r \in Request : request[r].pc = "redeem" => oauth = "live"
  /\ exchanged = 0 \/ (exchanged = 1 /\ oauth = "gone")

(* Without faults the cache says revoked of every token logged out, and    *)
(* nobody who came later gets past it.                                     *)
LogoutInv ==
  faults = 0 =>
    /\ cacheUp
    /\ \A k \in loggedOut : cache[k] = "revoked"
    /\ \A r \in Request : LET q == request[r] IN
         /\ q.pc = "cache" /\ "token" \in q.void => q.k \in loggedOut
         /\ q.pc \in {"db", "add", "again", "load", "served"} => "token" \notin q.void

(* An account that is suspended for a request is suspended in its row, and *)
(* no such request loads it with success.                                  *)
SuspendInv ==
  \A r \in Request : LET q == request[r] IN
    /\ q # Idle /\ "account" \in q.void => ~row.active
    /\ q.pc \in {"served", "get", "set", "local", "commit"} => "account" \notin q.void

(* Without faults a password is in the cache before it is accepted.        *)
PasswordInv ==
  faults = 0 =>
    /\ cacheUp
    /\ \A c \in accepted : Totp(c) => c \in used
    /\ \A r \in Request : LET q == request[r] IN
         q # Idle /\ Totp(q.code) =>
           /\ "code" \in q.void => q.code \in accepted
           /\ q.pc \in {"set", "local", "commit"} => "code" \notin q.void
           /\ q.pc \in {"local", "commit"} => q.code \in used

(* Codes that were typed or accepted come from an enrolment that was made. *)
Enrolled ==
  /\ \A r \in Request : request[r] # Idle /\ request[r].code # None => request[r].code[1] <= enrolments
  /\ \A c \in accepted : c[1] <= enrolments

(* Until two requests hold the row, the one that does holds what it says.  *)
FactorInv ==
  ~raced =>
    /\ \A r, s \in Request : Holds(r) /\ Holds(s) => r = s
    /\ \A r \in Request : Holds(r) =>
         LET q == request[r] IN
         q.row.on = row.on /\ q.row.secret = row.secret /\ q.row.codes = row.codes
    /\ row.on => row.secret \in proven
    /\ row.secret = NoSecret => row.codes = {}
    /\ accepted \cap row.codes = {}

IInv ==
  /\ TypeOK /\ Places /\ Held /\ Tokens /\ Handoff
  /\ LogoutInv /\ SuspendInv /\ PasswordInv /\ Enrolled /\ FactorInv

-----------------------------------------------------------------------------
(* How the record of a request changes.                                    *)
LEMMA IdleNotBusy == Idle \notin Busy /\ Idle.pc = "idle" /\ \A q \in Busy : q.pc # "idle"
  BY DEF Idle, Busy

LEMMA Underway ==
  ASSUME TypeOK, NEW r \in Request, request[r].pc # "idle"
  PROVE  request[r] \in Busy
  BY IdleNotBusy DEF TypeOK

LEMMA GotoRecord ==
  ASSUME TypeOK, NEW r \in Request, NEW pc, Goto(r, pc), request[r].pc # "idle",
         pc \in {"cache", "db", "add", "again", "deny", "load", "served", "get", "set", "local",
                 "commit", "delete", "redeem", "insert", "publish"}
  PROVE  /\ request' \in [Request -> Busy \cup {Idle}]
         /\ request'[r] \in Busy
         /\ request'[r].pc = pc /\ request'[r].op = request[r].op
         /\ request'[r].k = request[r].k /\ request'[r].code = request[r].code
         /\ request'[r].row = request[r].row /\ request'[r].void = request[r].void
         /\ request'[r].p = request[r].p
         /\ \A s \in Request : s # r => request'[s] = request[s]
<1>1. request[r] \in Busy /\ request \in [Request -> Busy \cup {Idle}]
    BY Underway DEF TypeOK
<1>2. request'[r] = [request[r] EXCEPT !.pc = pc]
      /\ \A s \in Request : s # r => request'[s] = request[s]
    BY <1>1 DEF Goto
<1>3. [request[r] EXCEPT !.pc = pc] \in Busy
    BY <1>1 DEF Busy
<1>4. request' \in [Request -> Busy \cup {Idle}]
    BY <1>1, <1>3 DEF Goto
<1> QED
    BY <1>1, <1>2, <1>3, <1>4 DEF Busy

LEMMA EndRecord ==
  ASSUME TypeOK, NEW r \in Request, End(r)
  PROVE  /\ request' \in [Request -> Busy \cup {Idle}]
         /\ request'[r] = Idle
         /\ \A s \in Request : s # r => request'[s] = request[s]
  BY DEF TypeOK, End

LEMMA BeginChecks ==
  ASSUME NEW r, NEW op, NEW p, NEW k, NEW code, Begin(r, op, p, k, code)
  PROVE  /\ op \notin {"suspend", "fault"}
         /\ IF op \in {"call", "logout"} THEN k \in issued ELSE k = None
         /\ code # None => op \in {"login", "verify", "disable"}
  BY DEF Begin

LEMMA BeginRecord ==
  ASSUME TypeOK, NEW r \in Request, NEW op \in Op, NEW p \in Proc, NEW k \in Token \cup {None},
         NEW code \in Code \cup {None}, Begin(r, op, p, k, code)
  PROVE  /\ request' \in [Request -> Busy \cup {Idle}]
         /\ request'[r] \in Busy
         /\ request'[r].pc = First(op) /\ request'[r].op = op
         /\ request'[r].k = k /\ request'[r].code = code
         /\ ("token" \in request'[r].void <=> k \in loggedOut)
         /\ ("code" \in request'[r].void <=> code \in accepted)
         /\ ("account" \in request'[r].void <=> ~row.active)
         /\ \A s \in Request : s # r => request'[s] = request[s]
<1> DEFINE void == (IF k \in loggedOut THEN {"token"} ELSE {})
                     \cup (IF code \in accepted THEN {"code"} ELSE {})
                     \cup (IF row.active THEN {} ELSE {"account"})
           q == [pc |-> First(op), op |-> op, p |-> p, k |-> k, code |-> code, row |-> None,
                 void |-> void]
<1>1. First(op) \in {"cache", "load", "delete", "insert"}
    BY DEF First
<1>2. /\ void \in SUBSET {"token", "code", "account"}
      /\ "token" \in void <=> k \in loggedOut
      /\ "code" \in void <=> code \in accepted
      /\ "account" \in void <=> ~row.active
    OBVIOUS
<1>3. request' = [request EXCEPT ![r] = q]
    BY DEF Begin
<1> HIDE DEF void
<1>4. q \in Busy
    BY <1>1, <1>2 DEF Busy
<1>5. /\ request'[r] = q
      /\ \A s \in Request : s # r => request'[s] = request[s]
      /\ request' \in [Request -> Busy \cup {Idle}]
    BY <1>3, <1>4 DEF TypeOK
<1> QED
    BY <1>2, <1>4, <1>5

LEMMA LoadRecord ==
  ASSUME TypeOK, Places, NEW r \in Request, Load(r)
  PROVE  LET q == request[r]
             pc == AfterLoad(q, row)
         IN  /\ request' \in [Request -> Busy \cup {Idle}]
             /\ \A s \in Request : s # r => request'[s] = request[s]
             /\ \/ pc = "idle" /\ request'[r] = Idle
                \/ /\ pc \in {"served", "get", "commit"}
                   /\ request'[r] \in Busy /\ request'[r].pc = pc
                   /\ request'[r].op = q.op /\ request'[r].k = q.k
                   /\ request'[r].void = q.void
                   /\ request'[r].code = IF Asked(q, row) THEN q.code ELSE None
                   /\ pc # "served" => request'[r].row = row
<1> DEFINE q == request[r]
           pc == AfterLoad(q, row)
           d == [q EXCEPT !.pc = pc, !.row = IF pc = "served" THEN None ELSE row,
                          !.code = IF Asked(q, row) THEN q.code ELSE None]
<1>1. q \in Busy /\ row \in Row /\ request \in [Request -> Busy \cup {Idle}]
    BY Underway DEF TypeOK, Load, Running
<1>2. pc \in {"idle", "served", "get", "commit"}
    BY DEF AfterLoad, Places, PlaceOf, Load, Running
<1>3. request' = [request EXCEPT ![r] = IF pc = "idle" THEN Idle ELSE d]
    BY DEF Load
<1>4. request'[r] = (IF pc = "idle" THEN Idle ELSE d)
      /\ \A s \in Request : s # r => request'[s] = request[s]
    BY <1>1, <1>3
<1> HIDE DEF pc
<1>5. ASSUME pc # "idle"
      PROVE  /\ d \in Busy /\ d.pc = pc /\ d.op = q.op /\ d.k = q.k /\ d.void = q.void
             /\ d.code = IF Asked(q, row) THEN q.code ELSE None
             /\ pc # "served" => d.row = row
  <2> HIDE DEF q
  <2> DEFINE c == IF Asked(q, row) THEN q.code ELSE None
  <2>1. d = [q EXCEPT !.pc = pc, !.row = IF pc = "served" THEN None ELSE row, !.code = c]
      BY <1>1 DEF Busy
  <2>2. c \in Code \cup {None}
      BY <1>1 DEF Busy
  <2> HIDE DEF c
  <2> QED
      BY <1>1, <1>2, <1>5, <2>1, <2>2 DEF Busy, c
<1>6. request' \in [Request -> Busy \cup {Idle}]
    BY <1>1, <1>3, <1>5
<1> QED
    BY <1>2, <1>4, <1>5, <1>6 DEF pc

(* Reactivation takes the suspension from what a request arrived with.     *)
LEMMA ReactivateRecord ==
  ASSUME TypeOK, Reactivate
  PROVE  /\ request' \in [Request -> Busy \cup {Idle}]
         /\ \A s \in Request :
              \/ request[s] = Idle /\ request'[s] = Idle
              \/ /\ request[s] \in Busy /\ request'[s] \in Busy
                 /\ request'[s] = [request[s] EXCEPT !.void = @ \ {"account"}]
                 /\ request'[s].void = request[s].void \ {"account"}
<1> DEFINE Freed(q) == [q EXCEPT !.void = @ \ {"account"}]
<1>1. \A q \in Busy : Freed(q) \in Busy /\ Freed(q).void = q.void \ {"account"}
    BY DEF Busy
<1>2. request \in [Request -> Busy \cup {Idle}]
    BY DEF TypeOK
<1>3. request' = [r \in Request |-> IF request[r] = Idle THEN Idle ELSE Freed(request[r])]
    BY DEF Reactivate
<1> HIDE DEF Freed
<1>4. request' \in [Request -> Busy \cup {Idle}]
    BY <1>1, <1>2, <1>3
<1>5. ASSUME NEW s \in Request
      PROVE  \/ request[s] = Idle /\ request'[s] = Idle
             \/ /\ request[s] \in Busy /\ request'[s] \in Busy
                /\ request'[s] = Freed(request[s])
                /\ request'[s].void = request[s].void \ {"account"}
    BY <1>1, <1>2, <1>3
<1> QED
    BY <1>4, <1>5 DEF Freed

-----------------------------------------------------------------------------
(* The steps that take a request, by way of Goto, from one program counter *)
(* to the next, with what they have seen.                                  *)
Moves(r) ==
  \/ CacheGet(r) \/ ReadBlocklist(r) \/ AddActive(r) \/ GetAgain(r)
  \/ TotpGet(r) \/ TotpSet(r) \/ TotpLocal(r) \/ DeleteCode(r) \/ Logout(r)

Seen(q, pc) ==
  \/ q.pc = "cache" /\ pc = "load" /\ cacheUp /\ cache[q.k] = "active"
  \/ q.pc = "cache" /\ pc = "db" /\ (cacheUp => cache[q.k] # "revoked")
  \/ q.pc = "db" /\ pc = "deny" /\ q.k \in blocklist
  \/ q.pc = "db" /\ pc = "add"
  \/ q.pc = "add" /\ pc = "again"
  \/ q.pc = "add" /\ pc = "load" /\ (cacheUp => cache[q.k] = "none")
  \/ q.pc = "again" /\ pc = "load" /\ (cacheUp => cache[q.k] # "revoked")
  \/ q.pc = "get" /\ pc = "set" /\ q.code \notin used
  \/ q.pc = "get" /\ pc = "local" /\ ~cacheUp
  \/ q.pc = "set" /\ pc = "local" /\ used' = IF cacheUp THEN used \cup {q.code} ELSE used
  \/ q.pc = "local" /\ pc = "commit"
  \/ q.pc = "delete" /\ pc = "redeem" /\ oauth = "live"
       /\ \A s \in Request : request[s].pc # "redeem"
  \/ q.pc = "insert" /\ pc = "publish" /\ blocklist' = blocklist \cup {q.k}

LEMMA MovesRecord ==
  ASSUME TypeOK, NEW r \in Request, Moves(r)
  PROVE  /\ request' \in [Request -> Busy \cup {Idle}]
         /\ \A s \in Request : s # r => request'[s] = request[s]
         /\ \/ request'[r] = Idle
            \/ /\ request'[r] \in Busy /\ Seen(request[r], request'[r].pc)
               /\ request'[r].op = request[r].op /\ request'[r].k = request[r].k
               /\ request'[r].code = request[r].code /\ request'[r].row = request[r].row
               /\ request'[r].void = request[r].void
<1> DEFINE Goes(pc) == Goto(r, pc) /\ request[r].pc # "idle" /\ Seen(request[r], pc)
<1>1. ASSUME NEW pc \in {"load", "db", "deny", "add", "again", "set", "local", "commit",
                         "redeem", "publish"}, Goes(pc)
      PROVE  /\ request' \in [Request -> Busy \cup {Idle}]
             /\ \A s \in Request : s # r => request'[s] = request[s]
             /\ request'[r] \in Busy /\ Seen(request[r], request'[r].pc)
             /\ request'[r].op = request[r].op /\ request'[r].k = request[r].k
             /\ request'[r].code = request[r].code /\ request'[r].row = request[r].row
             /\ request'[r].void = request[r].void
  <2>1. request'[r].pc = pc
      BY <1>1, GotoRecord
  <2> QED
      BY <1>1, <2>1, GotoRecord
<1>2. CASE CacheGet(r)
  <2>1. End(r) \/ Goes("load") \/ Goes("db")
      BY <1>2 DEF CacheGet, Running, Seen
  <2> QED
      BY <1>1, <2>1, EndRecord
<1>3. CASE ReadBlocklist(r)
  <2>1. Goes("deny") \/ Goes("add")
      BY <1>3 DEF ReadBlocklist, Running, Seen
  <2> QED
      BY <1>1, <2>1
<1>4. CASE AddActive(r)
  <2>1. Goes("again") \/ Goes("load")
      BY <1>4 DEF AddActive, Running, Seen
  <2> QED
      BY <1>1, <2>1
<1>5. CASE GetAgain(r)
  <2>1. End(r) \/ Goes("load")
      BY <1>5 DEF GetAgain, Running, Seen
  <2> QED
      BY <1>1, <2>1, EndRecord
<1>6. CASE TotpGet(r)
  <2>1. End(r) \/ Goes("set") \/ Goes("local")
      BY <1>6 DEF TotpGet, Running, Seen
  <2> QED
      BY <1>1, <2>1, EndRecord
<1>7. CASE TotpSet(r)
  <2>1. Goes("local")
      BY <1>7 DEF TotpSet, Running, Seen
  <2> QED
      BY <1>1, <2>1
<1>8. CASE TotpLocal(r)
  <2>1. End(r) \/ Goes("commit")
      BY <1>8 DEF TotpLocal, Running, Seen
  <2> QED
      BY <1>1, <2>1, EndRecord
<1>9. CASE DeleteCode(r)
  <2>1. End(r) \/ Goes("redeem")
      BY <1>9 DEF DeleteCode, Running, Seen
  <2> QED
      BY <1>1, <2>1, EndRecord
<1>10. CASE Logout(r)
  <2>1. Goes("publish")
      BY <1>10 DEF Logout, Running, Seen
  <2> QED
      BY <1>1, <2>1
<1> QED
    BY <1>2, <1>3, <1>4, <1>5, <1>6, <1>7, <1>8, <1>9, <1>10 DEF Moves

(* The steps that end a request.                                           *)
Ends(r) ==
  \/ Deny(r) \/ Served(r) \/ Login(r) \/ Settings(r) \/ Redeem(r) \/ RedeemFails(r)
  \/ Publish(r)

LEMMA EndsEnd == ASSUME NEW r \in Request, Ends(r) PROVE End(r)
  BY DEF Ends, Deny, Served, Login, Settings, Enroll, Verify, Disable, Redeem, RedeemFails,
     Publish, Committing

(* The steps, by what they do to the requests.                             *)
LEMMA Steps ==
  ASSUME [Next]_vars
  PROVE  \/ request' = request
         \/ \E r \in Request :
              \/ \E op \in Op, p \in Proc, k \in Token \cup {None}, c \in Code \cup {None} :
                   Begin(r, op, p, k, c)
              \/ Moves(r) \/ Load(r) \/ Ends(r)
         \/ \E p \in Proc : Crash(p)
         \/ Reactivate
  BY DEF Next, Step, vars, Check, Factor, Exchange, Moves, Ends, IssueCode, ExpireCode, Suspend,
     CacheDown, CacheBack, Flush

(* A request that goes on where it was: at most the suspension of its      *)
(* account has ended.                                                      *)
Stays(s) ==
  LET q == request[s]
      d == request'[s]
  IN  /\ d = Idle <=> q = Idle
      /\ d.pc = q.pc /\ d.op = q.op /\ d.k = q.k /\ d.code = q.code /\ d.row = q.row
      /\ "token" \in d.void <=> "token" \in q.void
      /\ "code" \in d.void <=> "code" \in q.void
      /\ "account" \in d.void => "account" \in q.void

LEMMA ReactivateStays ==
  ASSUME TypeOK, Reactivate, NEW s \in Request
  PROVE  request'[s] = Idle \/ Stays(s)
<1> SUFFICES ASSUME request'[s] # Idle PROVE Stays(s)
    OBVIOUS
<1> DEFINE q == request[s]
           d == request'[s]
<1>1. /\ q \in Busy /\ d \in Busy
      /\ d = [q EXCEPT !.void = @ \ {"account"}]
      /\ d.void = q.void \ {"account"}
    BY ReactivateRecord
<1>2. d.pc = q.pc /\ d.op = q.op /\ d.k = q.k /\ d.code = q.code /\ d.row = q.row
    BY <1>1 DEF Busy
<1>3. /\ "token" \in d.void <=> "token" \in q.void
      /\ "code" \in d.void <=> "code" \in q.void
      /\ "account" \notin d.void
    BY <1>1
<1>4. q # Idle
    BY <1>1, IdleNotBusy
<1> QED
    BY <1>2, <1>3, <1>4 DEF Stays

(* What becomes of one request: nothing, the end, or a step of its own.    *)
LEMMA Actors ==
  ASSUME TypeOK, Places, [Next]_vars, NEW s \in Request
  PROVE  \/ Stays(s)
         \/ request'[s] = Idle
         \/ \E op \in Op, p \in Proc, k \in Token \cup {None}, c \in Code \cup {None} :
              Begin(s, op, p, k, c)
         \/ Moves(s)
         \/ Load(s)
<1>1. request'[s] = request[s] => Stays(s)
    BY DEF Stays
<1>2. ASSUME NEW r \in Request, NEW op \in Op, NEW p \in Proc, NEW k \in Token \cup {None},
             NEW c \in Code \cup {None}, Begin(r, op, p, k, c), r # s
      PROVE  request'[s] = request[s]
    BY <1>2, BeginRecord
<1>3. ASSUME NEW r \in Request, Moves(r) \/ Load(r), r # s PROVE request'[s] = request[s]
    BY <1>3, MovesRecord, LoadRecord
<1>4. ASSUME NEW r \in Request, Ends(r) PROVE request'[s] \in {request[s], Idle}
    BY <1>4, EndsEnd, EndRecord
<1>5. ASSUME NEW p \in Proc, Crash(p) PROVE request'[s] \in {request[s], Idle}
    BY <1>5 DEF Crash
<1>6. Reactivate => request'[s] = Idle \/ Stays(s)
    BY ReactivateStays
<1> QED
    BY <1>1, <1>2, <1>3, <1>4, <1>5, <1>6, Steps

LEMMA StepRequest ==
  ASSUME TypeOK, Places, [Next]_vars
  PROVE  request' \in [Request -> Busy \cup {Idle}] /\ Places'
<1>1. request' \in [Request -> Busy \cup {Idle}]
  <2>1. ASSUME NEW p \in Proc, Crash(p) PROVE request' \in [Request -> Busy \cup {Idle}]
      BY <2>1 DEF Crash, TypeOK
  <2> QED
      BY <2>1, Steps, BeginRecord, MovesRecord, LoadRecord, EndsEnd, EndRecord, ReactivateRecord
         DEF TypeOK
<1>2. ASSUME NEW s \in Request PROVE PlaceOf(request'[s])
  <2>1. CASE Stays(s)
    <3>1. PlaceOf(request[s])
        BY DEF Places
    <3> QED
        BY <2>1, <3>1 DEF Stays, PlaceOf
  <2>2. CASE request'[s] = Idle
      BY <2>2 DEF PlaceOf, Idle
  <2>3. ASSUME NEW op \in Op, NEW p \in Proc, NEW k \in Token \cup {None},
               NEW c \in Code \cup {None}, Begin(s, op, p, k, c)
        PROVE  PlaceOf(request'[s])
    <3>1. op \notin {"suspend", "fault"} /\ request'[s].pc = First(op) /\ request'[s].op = op
          /\ request'[s].code = c /\ (c # None => op \in {"login", "verify", "disable"})
        BY <2>3, BeginRecord, BeginChecks
    <3> QED
        BY <3>1 DEF PlaceOf, First, Op
  <2>4. CASE Moves(s)
    <3>1. \/ request'[s] = Idle
          \/ /\ Seen(request[s], request'[s].pc) /\ request'[s].op = request[s].op
             /\ request'[s].code = request[s].code
        BY <2>4, MovesRecord
    <3>2. PlaceOf(request[s])
        BY DEF Places
    <3> QED
        BY <2>2, <3>1, <3>2, IdleNotBusy DEF PlaceOf, Seen
  <2>5. CASE Load(s)
    <3>1. \/ request'[s] = Idle
          \/ /\ request'[s].pc = AfterLoad(request[s], row)
             /\ request'[s].pc \in {"served", "get", "commit"}
             /\ request'[s].op = request[s].op
             /\ request'[s].code \in {request[s].code, None}
        BY <2>5, LoadRecord
    <3>2. /\ request[s].op \in {"call", "login", "enroll", "verify", "disable"}
          /\ request[s].op \notin {"login", "verify", "disable"} => request[s].code = None
        BY <2>5, IdleNotBusy DEF Load, Running, Places, PlaceOf
    <3> QED
        BY <2>2, <3>1, <3>2 DEF PlaceOf, AfterLoad
  <2> QED
      BY <2>1, <2>2, <2>3, <2>4, <2>5, Actors
<1> QED
    BY <1>1, <1>2 DEF Places

-----------------------------------------------------------------------------
(* Who writes which variable.                                              *)
LEMMA Writers ==
  ASSUME [Next]_vars
  PROVE  /\ mix' = mix
         /\ row' = row \/ Suspend \/ Reactivate \/ \E r \in Request : Login(r) \/ Settings(r)
         /\ enrolments' = enrolments \/ \E r \in Request : Enroll(r)
         /\ issued' = issued \/ \E r \in Request : Login(r) \/ Redeem(r)
         /\ blocklist' = blocklist \/ \E r \in Request : Logout(r)
         /\ cache' = cache \/ Flush \/ \E r \in Request : Deny(r) \/ AddActive(r) \/ Publish(r)
         /\ used' = used \/ Flush \/ \E r \in Request : TotpSet(r)
         /\ local' = local \/ (\E r \in Request : TotpLocal(r)) \/ \E p \in Proc : Crash(p)
         /\ loggedOut' = loggedOut \/ \E r \in Request : Publish(r)
         /\ accepted' = accepted \/ \E r \in Request : Login(r) \/ Verify(r) \/ Disable(r)
         /\ proven' = proven \/ \E r \in Request : Verify(r)
         /\ raced' = raced \/ \E r \in Request : Load(r)
         /\ exchanged' = exchanged \/ \E r \in Request : Redeem(r)
         /\ faults' = faults \/ Fault
         /\ cacheUp' = cacheUp \/ CacheDown \/ CacheBack
         /\ oauth' = oauth \/ IssueCode \/ ExpireCode \/ \E r \in Request : Redeem(r)
<1>1. CASE UNCHANGED vars
    BY <1>1 DEF vars, store, history
<1>2. mix' = mix
    BY DEF Next, vars
<1> USE DEF Next, Step, vars, store, history, Begin, Check, Factor, Settings, Exchange
<1>3. CASE Next /\ \E r \in Request : \E op \in Op, p \in Proc, k \in Token \cup {None},
                                        c \in Code \cup {None} : Begin(r, op, p, k, c)
    BY <1>3, <1>2
<1>4. CASE Next /\ \E r \in Request : Check(r) \/ Load(r) \/ Served(r) \/ Factor(r)
    BY <1>4, <1>2, ZenonT(40) DEF CacheGet, ReadBlocklist, Deny, AddActive, GetAgain, Load, Served, TotpGet,
       TotpSet, TotpLocal
<1>5. CASE Next /\ \E r \in Request : Login(r) \/ Settings(r) \/ Exchange(r) \/ Logout(r) \/ Publish(r)
    BY <1>5, <1>2, ZenonT(40) DEF Login, Enroll, Verify, Disable, DeleteCode, Redeem, RedeemFails, Logout, Publish
<1>6. CASE \/ IssueCode \/ ExpireCode \/ Suspend \/ Reactivate
           \/ CacheDown \/ CacheBack \/ Flush \/ \E p \in Proc : Crash(p)
    BY <1>6, <1>2 DEF IssueCode, ExpireCode, Suspend, Reactivate, CacheDown, CacheBack, Flush, Crash
<1> QED
    BY <1>1, <1>3, <1>4, <1>5, <1>6


-----------------------------------------------------------------------------
(* Who holds the row keeps what it loaded.                                 *)
LEMMA StepHeld ==
  ASSUME TypeOK, Places, Held, [Next]_vars
  PROVE  Held'
<1>1. ASSUME NEW s \in Request PROVE HeldRow(request'[s])
  <2>1. CASE Stays(s)
    <3>1. HeldRow(request[s])
        BY DEF Held
    <3> QED
        BY <2>1, <3>1 DEF Stays, HeldRow
  <2>2. CASE request'[s] = Idle
      BY <2>2 DEF HeldRow, Idle
  <2>3. ASSUME NEW op \in Op, NEW p \in Proc, NEW k \in Token \cup {None},
               NEW c \in Code \cup {None}, Begin(s, op, p, k, c)
        PROVE  HeldRow(request'[s])
    <3>1. request'[s].pc = First(op)
        BY <2>3, BeginRecord
    <3> QED
        BY <3>1 DEF HeldRow, First
  <2>4. CASE Moves(s)
    <3>1. \/ request'[s] = Idle
          \/ /\ Seen(request[s], request'[s].pc) /\ request'[s].op = request[s].op
             /\ request'[s].row = request[s].row /\ request'[s].code = request[s].code
        BY <2>4, MovesRecord
    <3>2. HeldRow(request[s])
        BY DEF Held
    <3> QED
        BY <2>2, <3>1, <3>2 DEF HeldRow, Seen
  <2>5. CASE Load(s)
    <3> DEFINE q == request[s]
               pc == AfterLoad(q, row)
    <3>1. CASE request'[s] = Idle
        BY <3>1, <2>2
    <3>2. CASE request'[s] # Idle
      <4>1. /\ request'[s].pc = pc /\ pc \in {"served", "get", "commit"}
            /\ request'[s].op = q.op
            /\ request'[s].code = IF Asked(q, row) THEN q.code ELSE None
            /\ pc # "served" => request'[s].row = row
          BY <2>5, <3>2, LoadRecord
      <4>2. q.op \in {"call", "login", "enroll", "verify", "disable"}
            /\ (q.op = "enroll" => q.code = None) /\ row \in Row
          BY <2>5, Underway, IdleNotBusy DEF Load, Running, Places, PlaceOf, TypeOK
      <4>3. pc # "served" =>
              /\ (IF Asked(q, row) THEN q.code ELSE None) # None => Valid(q.code, row)
              /\ q.op = "verify" \/ pc # "commit" => Totp(q.code) /\ Asked(q, row)
              /\ q.op = "enroll" => ~row.on
        <5>1. CASE q.op = "enroll"
            BY <4>1, <4>2, <5>1 DEF AfterLoad, MayEnroll
        <5>2. CASE q.op = "verify"
            BY <4>1, <5>2 DEF AfterLoad, Asked
        <5>3. CASE q.op = "disable"
            BY <4>1, <5>3 DEF AfterLoad, Asked
        <5>4. CASE q.op = "login"
            BY <4>1, <5>4 DEF AfterLoad, Asked
        <5>5. CASE q.op = "call"
            BY <4>1, <5>5 DEF AfterLoad
        <5> QED
            BY <4>2, <5>1, <5>2, <5>3, <5>4, <5>5
      <4> QED
          BY <4>1, <4>2, <4>3 DEF HeldRow
    <3> QED
        BY <3>1, <3>2
  <2> QED
      BY <2>1, <2>2, <2>3, <2>4, <2>5, Actors
<1> QED
    BY <1>1 DEF Held


-----------------------------------------------------------------------------
(* Types.                                                                  *)
LEMMA HolderType ==
  ASSUME TypeOK, Held, NEW r \in Request, Holds(r)
  PROVE  /\ request[r] \in Busy /\ request[r].row \in Row
         /\ request[r].row.codes \in SUBSET (Secret \X Recovery)
         /\ request[r].row.secret \in Secret \cup {NoSecret}
         /\ request[r].code \in Code \cup {None}
<1>1. request[r] \in Busy /\ request[r].row \in Row
    BY Underway DEF Holds, Held, HeldRow
<1> QED
    BY <1>1 DEF Busy, Row

LEMMA StepRow ==
  ASSUME TypeOK, Held, [Next]_vars
  PROVE  row' \in Row
<1>1. row \in Row
    BY DEF TypeOK
<1>2. ASSUME NEW r \in Request, Login(r) PROVE row' \in Row
  <2>1. Holds(r)
      BY <1>2 DEF Login, Committing, Running, Holds
  <2>2. request[r].row.codes \ {request[r].code} \in SUBSET (Secret \X Recovery)
      BY <2>1, HolderType
  <2>3. row' = row \/ row' = [row EXCEPT !.codes = request[r].row.codes \ {request[r].code}]
      BY <1>2 DEF Login
  <2> QED
      BY <1>1, <2>2, <2>3 DEF Row
<1>3. ASSUME NEW r \in Request, Enroll(r) PROVE row' \in Row
  <2>1. enrolments' \in Secret
      BY <1>3, SecretAssumption DEF Enroll, TypeOK, Secret
  <2>2. CodesOf(enrolments') \in SUBSET (Secret \X Recovery)
      BY <2>1 DEF CodesOf
  <2>3. row' = [row EXCEPT !.secret = enrolments', !.codes = CodesOf(enrolments')]
      BY <1>3 DEF Enroll
  <2> QED
      BY <1>1, <2>1, <2>2, <2>3 DEF Row
<1>4. ASSUME NEW r \in Request, Verify(r) PROVE row' \in Row
    BY <1>1, <1>4 DEF Verify, Row
<1>5. ASSUME NEW r \in Request, Disable(r) PROVE row' \in Row
  <2> DEFINE old == request[r].row
             on == row.on /\ ~old.on
             secret == IF old.secret = NoSecret THEN row.secret ELSE NoSecret
             codes == IF old.secret = NoSecret THEN row.codes ELSE {}
  <2>1. /\ row.active \in BOOLEAN /\ secret \in Secret \cup {NoSecret}
        /\ codes \in SUBSET (Secret \X Recovery)
      BY <1>1 DEF Row
  <2>2. on \in BOOLEAN
      OBVIOUS
  <2>3. row' = [row EXCEPT !.on = on, !.secret = secret, !.codes = codes]
      BY <1>5, <1>1 DEF Disable, Row
  <2> HIDE DEF on, secret, codes
  <2> QED
      BY <1>1, <2>1, <2>2, <2>3 DEF Row
<1>6. CASE Suspend \/ Reactivate
    BY <1>1, <1>6 DEF Suspend, Reactivate, Row
<1> QED
    BY <1>1, <1>2, <1>3, <1>4, <1>5, <1>6, Writers DEF Settings

LEMMA StepTokens ==
  ASSUME TypeOK, Places, Held, Tokens, [Next]_vars
  PROVE  /\ issued \subseteq issued' /\ issued' \subseteq Token
         /\ blocklist \subseteq blocklist' /\ blocklist' \subseteq issued
         /\ loggedOut' \subseteq blocklist
         /\ Tokens'
<1>1. issued \subseteq issued' /\ issued' \subseteq Token
  <2>1. ASSUME NEW r \in Request, Login(r) \/ Redeem(r) PROVE issued' = issued \/ Issue
      BY <2>1 DEF Login, Redeem
  <2>2. Issue => issued \subseteq issued' /\ issued' \subseteq Token
      BY DEF Issue, TypeOK
  <2> QED
      BY <2>1, <2>2, Writers DEF TypeOK
<1>2. blocklist \subseteq blocklist' /\ blocklist' \subseteq issued
  <2>1. ASSUME NEW r \in Request, Logout(r)
        PROVE  blocklist' = blocklist \cup {request[r].k} /\ request[r].k \in issued
    <3>1. request[r].pc = "insert" /\ request[r] # Idle
        BY <2>1, IdleNotBusy DEF Logout, Running
    <3>2. request[r].op = "logout"
        BY <3>1 DEF Places, PlaceOf
    <3> QED
        BY <2>1, <3>1, <3>2 DEF Tokens, Logout
  <2> QED
      BY <2>1, Writers DEF TypeOK
<1>3. loggedOut' \subseteq blocklist
    BY Writers DEF Publish, Running, Tokens, TypeOK
<1>4. RevokedIsStored'
  <2>1. \A k \in Token : cache[k] = "revoked" => k \in blocklist
      BY DEF Tokens, RevokedIsStored
  <2>2. ASSUME NEW k \in Token, NEW v \in {"active", "revoked"}, SetCache(k, v),
               v = "revoked" => k \in blocklist
        PROVE  \A l \in Token : cache'[l] = "revoked" => l \in blocklist
      BY <2>1, <2>2 DEF SetCache, TypeOK
  <2>3. ASSUME NEW r \in Request, Deny(r) \/ AddActive(r) \/ Publish(r)
        PROVE  \A l \in Token : cache'[l] = "revoked" => l \in blocklist
    <3>1. request[r] # Idle /\ request[r].op \in {"call", "logout"}
        BY <2>3, IdleNotBusy DEF Deny, AddActive, Publish, Running, Places, PlaceOf
    <3>2. request[r].k \in Token
        BY <3>1 DEF Tokens, TypeOK
    <3>3. CASE Deny(r) \/ Publish(r)
        BY <3>2, <3>3, <2>2 DEF Deny, Publish, Running, Tokens
    <3>4. CASE AddActive(r)
        BY <3>2, <3>4, <2>1, <2>2 DEF AddActive
    <3> QED
        BY <2>3, <3>3, <3>4
  <2>4. \A l \in Token : cache'[l] = "revoked" => l \in blocklist
      BY <2>1, <2>3, Writers DEF Flush
  <2> QED
      BY <1>2, <2>4 DEF RevokedIsStored
<1>5. ASSUME NEW s \in Request
      PROVE  /\ request'[s] # Idle /\ request'[s].op \in {"call", "logout"} => request'[s].k \in issued'
             /\ request'[s] # Idle /\ request'[s].op \notin {"call", "logout"} => request'[s].k = None
             /\ request'[s].pc \in {"deny", "publish"} => request'[s].k \in blocklist'
  <2>1. CASE Stays(s)
      BY <1>1, <1>2, <2>1 DEF Stays, Tokens
  <2>2. CASE request'[s] = Idle
      BY <2>2, IdleNotBusy
  <2>3. ASSUME NEW op \in Op, NEW p \in Proc, NEW k \in Token \cup {None},
               NEW c \in Code \cup {None}, Begin(s, op, p, k, c)
        PROVE  /\ request'[s].op \in {"call", "logout"} => request'[s].k \in issued'
               /\ request'[s].op \notin {"call", "logout"} => request'[s].k = None
               /\ request'[s].pc \notin {"deny", "publish"}
    <3>1. request'[s].pc = First(op) /\ request'[s].op = op /\ request'[s].k = k
          /\ IF op \in {"call", "logout"} THEN k \in issued ELSE k = None
        BY <2>3, BeginRecord, BeginChecks
    <3> QED
        BY <1>1, <3>1 DEF First
  <2>4. CASE Moves(s)
    <3>1. \/ request'[s] = Idle
          \/ /\ Seen(request[s], request'[s].pc) /\ request'[s].op = request[s].op
             /\ request'[s].k = request[s].k
        BY <2>4, MovesRecord
    <3>2. CASE request'[s] # Idle
      <4>1. request[s] # Idle
          BY <3>1, <3>2, IdleNotBusy DEF Seen
      <4>2. request'[s].pc = "deny" => request[s].k \in blocklist
          BY <3>1, <3>2 DEF Seen
      <4>3. request'[s].pc = "publish" => request[s].k \in blocklist'
          BY <3>1, <3>2 DEF Seen
      <4> QED
          BY <1>1, <1>2, <3>1, <3>2, <4>1, <4>2, <4>3 DEF Tokens
    <3> QED
        BY <2>2, <3>2
  <2>5. CASE Load(s)
    <3>1. \/ request'[s] = Idle
          \/ /\ request'[s].pc \in {"served", "get", "commit"}
             /\ request'[s].op = request[s].op /\ request'[s].k = request[s].k
        BY <2>5, LoadRecord
    <3>2. request[s] # Idle
        BY <2>5, IdleNotBusy DEF Load, Running
    <3> QED
        BY <1>1, <2>2, <3>1, <3>2 DEF Tokens
  <2> QED
      BY <2>1, <2>2, <2>3, <2>4, <2>5, Actors
<1> QED
    BY <1>1, <1>2, <1>3, <1>4, <1>5 DEF Tokens

LEMMA StepType ==
  ASSUME TypeOK, Places, Held, Tokens, [Next]_vars
  PROVE  TypeOK'
<1>1. mix' \in Mixes
    BY Writers DEF TypeOK
<1>2. enrolments' \in 0..MaxSecret
    BY Writers, SecretAssumption DEF TypeOK, Enroll
<1>3. cache' \in [Token -> {"none", "active", "revoked"}]
    BY Writers DEF TypeOK, Flush, Deny, AddActive, Publish, SetCache
<1>4. ASSUME NEW r \in Request, TotpSet(r) \/ TotpLocal(r) PROVE request[r].code \in Code
  <2>1. Holds(r) /\ Totp(request[r].code)
      BY <1>4 DEF TotpSet, TotpLocal, Running, Holds, Held, HeldRow
  <2> QED
      BY <2>1, HolderType DEF Totp
<1>5. used' \subseteq Code
    BY <1>4, Writers DEF TypeOK, TotpSet, Flush
<1>6. local' \in [Proc -> SUBSET Code]
  <2>1. ASSUME NEW r \in Request, TotpLocal(r) PROVE local' \in [Proc -> SUBSET Code]
    <3>1. request[r].code \in Code
        BY <1>4, <2>1
    <3> QED
        BY <2>1, <3>1 DEF TotpLocal, TypeOK
  <2> QED
      BY <2>1, Writers DEF TypeOK, Crash
<1>7. cacheUp' \in BOOLEAN /\ oauth' \in {"none", "live", "gone"}
    BY Writers DEF TypeOK, CacheDown, CacheBack, IssueCode, ExpireCode, Redeem
<1>8. ASSUME NEW r \in Request, Login(r) \/ Verify(r) \/ Disable(r)
      PROVE  Holds(r) /\ accepted' = accepted \cup ({request[r].code} \ {None})
    BY <1>8 DEF Login, Verify, Disable, Committing, Running, Holds, Accept
<1>9. accepted' \subseteq Code
  <2>1. ASSUME NEW r \in Request, Login(r) \/ Verify(r) \/ Disable(r) PROVE accepted' \subseteq Code
      BY <2>1, <1>8, HolderType DEF TypeOK
  <2> QED
      BY <2>1, Writers DEF TypeOK
<1>10. proven' \subseteq Secret
  <2>1. ASSUME NEW r \in Request, Verify(r) PROVE proven' \subseteq Secret
    <3>1. Holds(r) /\ request[r].op = "verify"
        BY <2>1 DEF Verify, Committing, Running, Holds
    <3>2. Totp(request[r].code) /\ Valid(request[r].code, request[r].row)
        BY <3>1 DEF Held, HeldRow, Holds, Totp
    <3>3. request[r].code \in Code /\ request[r].row.codes \in SUBSET (Secret \X Recovery)
          /\ request[r].row.secret \in Secret \cup {NoSecret}
        BY <3>1, <3>2, HolderType DEF Totp
    <3>4. request[r].row.secret \in Secret
      <4>1. CASE request[r].code[1] = request[r].row.secret
          BY <3>3, <4>1 DEF Code
      <4>2. CASE request[r].code \in request[r].row.codes
          BY <3>2, <3>3, <4>2, NoneAssumption DEF Totp
      <4> QED
          BY <3>2, <4>1, <4>2 DEF Valid
    <3> QED
        BY <2>1, <3>4 DEF Verify, TypeOK
  <2> QED
      BY <2>1, Writers DEF TypeOK
<1>11. raced' \in BOOLEAN
    BY Writers DEF TypeOK, Load
<1>12. exchanged' \in Nat
    BY Writers DEF TypeOK, Redeem
<1>13. faults' \in 0..MaxFaults
    BY Writers, FaultAssumption DEF Fault, TypeOK
<1> QED
    BY <1>1, <1>2, <1>3, <1>5, <1>6, <1>7, <1>9, <1>10, <1>11, <1>12, <1>13, StepRequest, StepRow,
       StepTokens DEF TypeOK

LEMMA StepHandoff ==
  ASSUME TypeOK, Places, Handoff, [Next]_vars
  PROVE  Handoff'
<1> DEFINE At(s) == request[s].pc = "redeem"
<1>1. ASSUME NEW s \in Request, At(s)'
      PROVE  \/ At(s)
             \/ Moves(s) /\ oauth = "live" /\ \A r \in Request : ~At(r)
  <2>1. CASE Moves(s)
      BY <1>1, <2>1, MovesRecord, IdleNotBusy DEF Seen
  <2>2. ASSUME NEW op \in Op, NEW p \in Proc, NEW k \in Token \cup {None},
               NEW c \in Code \cup {None}, Begin(s, op, p, k, c)
        PROVE  FALSE
      BY <1>1, <2>2, BeginRecord DEF First
  <2>3. ~Load(s)
      BY <1>1, LoadRecord, IdleNotBusy
  <2>4. Stays(s) => At(s)
      BY <1>1 DEF Stays
  <2> QED
      BY <1>1, <2>1, <2>2, <2>3, <2>4, Actors, IdleNotBusy
<1>2. \A r, s \in Request : At(r)' /\ At(s)' => r = s
  <2>1. ASSUME NEW r \in Request, NEW s \in Request, At(r)', At(s)', Moves(s), r # s PROVE At(r)
      BY <2>1, MovesRecord
  <2> QED
      BY <1>1, <2>1 DEF Handoff
<1>3. ASSUME NEW r \in Request, Redeem(r)
      PROVE  /\ At(r) /\ oauth' = "gone" /\ exchanged' \in {exchanged, exchanged + 1}
             /\ \A s \in Request : ~At(s)'
  <2>1. At(r) /\ request'[r] = Idle /\ \A s \in Request : s # r => request'[s] = request[s]
      BY <1>3, EndRecord DEF Redeem, Running
  <2>2. \A s \in Request : ~At(s)'
      BY <2>1, IdleNotBusy DEF Handoff
  <2> QED
      BY <1>3, <2>1, <2>2 DEF Redeem
<1>4. \A r \in Request : At(r)' => oauth' = "live"
  <2>1. CASE oauth' = oauth
      BY <1>1, <2>1 DEF Handoff
  <2>2. CASE IssueCode \/ ExpireCode
      BY <2>2 DEF IssueCode, ExpireCode, Handoff, Running
  <2> QED
      BY <1>3, <2>1, <2>2, Writers
<1>5. exchanged' = 0 \/ (exchanged' = 1 /\ oauth' = "gone")
  <2>1. ASSUME NEW r \in Request, Redeem(r) PROVE exchanged' \in {0, 1} /\ oauth' = "gone"
    <3>1. exchanged = 0
        BY <1>3, <2>1 DEF Handoff
    <3> QED
        BY <1>3, <2>1, <3>1
  <2>2. CASE exchanged' = exchanged /\ oauth' = oauth
      BY <2>2 DEF Handoff
  <2>3. CASE exchanged' = exchanged /\ (IssueCode \/ ExpireCode)
      BY <2>3 DEF Handoff, IssueCode, ExpireCode
  <2> QED
      BY <2>1, <2>2, <2>3, Writers
<1> QED
    BY <1>2, <1>4, <1>5 DEF Handoff


-----------------------------------------------------------------------------
(* A behaviour without faults has had none before.                         *)
LEMMA NoFaults ==
  ASSUME TypeOK, [Next]_vars, faults' = 0
  PROVE  /\ faults = 0 /\ ~Flush /\ ~CacheDown
         /\ \A p \in Proc : ~Crash(p)
<1>1. faults \in Nat
    BY FaultAssumption DEF TypeOK
<1>2. ~Fault
    BY <1>1 DEF Fault
<1> QED
    BY <1>2, Writers DEF Flush, CacheDown, Crash

LEMMA StepLogout ==
  ASSUME TypeOK, Places, Held, Tokens, LogoutInv, [Next]_vars
  PROVE  LogoutInv'
<1> SUFFICES ASSUME faults' = 0
             PROVE  /\ cacheUp'
                    /\ \A k \in loggedOut' : cache'[k] = "revoked"
                    /\ \A s \in Request : LET q == request'[s] IN
                         /\ q.pc = "cache" /\ "token" \in q.void => q.k \in loggedOut'
                         /\ q.pc \in {"db", "add", "again", "load", "served"} => "token" \notin q.void
    BY DEF LogoutInv
<1>1. cacheUp /\ cacheUp'
    BY NoFaults, Writers DEF LogoutInv, CacheBack
<1>2. \A k \in loggedOut : cache[k] = "revoked"
    BY NoFaults DEF LogoutInv
<1>3. loggedOut \subseteq loggedOut' /\ loggedOut' \subseteq Token
    BY Writers, StepTokens DEF Publish, TypeOK
<1>4. \A k \in loggedOut' : cache'[k] = "revoked"
  <2>1. ASSUME NEW r \in Request, Deny(r) \/ Publish(r)
        PROVE  /\ cache' = [cache EXCEPT ![request[r].k] = "revoked"]
               /\ loggedOut' \subseteq loggedOut \cup {request[r].k}
      BY <2>1, <1>1 DEF Deny, Publish, SetCache, history
  <2>2. ASSUME NEW r \in Request, AddActive(r)
        PROVE  /\ \A k \in Token : cache[k] = "revoked" => cache'[k] = "revoked"
               /\ loggedOut' = loggedOut
      BY <2>2, <1>1 DEF AddActive, SetCache, history, TypeOK
  <2>3. CASE loggedOut' = loggedOut
      BY <1>2, <1>3, <2>1, <2>2, <2>3, NoFaults, Writers DEF TypeOK
  <2>4. ASSUME NEW r \in Request, Publish(r) PROVE \A k \in loggedOut' : cache'[k] = "revoked"
      BY <1>2, <1>3, <2>1, <2>4 DEF TypeOK
  <2> QED
      BY <2>3, <2>4, Writers
<1>5. ASSUME NEW s \in Request
      PROVE  /\ request'[s].pc = "cache" /\ "token" \in request'[s].void => request'[s].k \in loggedOut'
             /\ request'[s].pc \in {"db", "add", "again", "load", "served"}
                  => "token" \notin request'[s].void
  <2>1. CASE Stays(s)
      BY <1>3, <2>1, NoFaults DEF Stays, LogoutInv
  <2>2. CASE request'[s] = Idle
      BY <2>2, IdleNotBusy
  <2>3. ASSUME NEW op \in Op, NEW p \in Proc, NEW k \in Token \cup {None},
               NEW c \in Code \cup {None}, Begin(s, op, p, k, c)
        PROVE  /\ "token" \in request'[s].void => request'[s].k \in loggedOut'
               /\ request'[s].pc \in {"db", "add", "again", "load", "served"}
                    => "token" \notin request'[s].void
    <3>1. request'[s].pc = First(op) /\ request'[s].k = k
          /\ ("token" \in request'[s].void <=> k \in loggedOut)
        BY <2>3, BeginRecord
    <3>2. First(op) = "load" => k = None
        BY <2>3 DEF Begin, First
    <3>3. First(op) \notin {"db", "add", "again", "served"}
        BY DEF First
    <3> QED
        BY <1>3, <3>1, <3>2, <3>3, NoneAssumption
  <2>4. CASE Moves(s)
    <3>1. \/ request'[s] = Idle
          \/ /\ Seen(request[s], request'[s].pc)
             /\ request'[s].k = request[s].k /\ request'[s].void = request[s].void
        BY <2>4, MovesRecord
    <3>2. request[s].pc = "cache" /\ "token" \in request[s].void => cache[request[s].k] = "revoked"
        BY <1>2, NoFaults DEF LogoutInv
    <3> QED
        BY <1>1, <2>2, <3>1, <3>2, NoFaults DEF Seen, LogoutInv
  <2>5. CASE Load(s)
    <3>1. \/ request'[s] = Idle
          \/ request'[s].pc \in {"served", "get", "commit"} /\ request'[s].void = request[s].void
        BY <2>5, LoadRecord
    <3> QED
        BY <2>2, <2>5, <3>1, NoFaults DEF Load, Running, LogoutInv
  <2> QED
      BY <2>1, <2>2, <2>3, <2>4, <2>5, Actors
<1> QED
    BY <1>1, <1>4, <1>5

LEMMA StepSuspend ==
  ASSUME TypeOK, Places, Held, SuspendInv, [Next]_vars
  PROVE  SuspendInv'
<1>1. ~Reactivate => (row'.active => row.active)
  <2>1. row \in Row
      BY DEF TypeOK
  <2> QED
      BY <2>1, Writers, ZenonT(40) DEF Suspend, Login, Settings, Enroll, Verify, Disable, Row
<1>2. ASSUME NEW s \in Request, Reactivate PROVE "account" \notin request'[s].void \/ request'[s] = Idle
    BY <1>2, ReactivateRecord
<1>3. ASSUME NEW s \in Request, ~Reactivate
      PROVE  /\ request'[s] # Idle /\ "account" \in request'[s].void => ~row'.active
             /\ request'[s].pc \in {"served", "get", "set", "local", "commit"}
                  => "account" \notin request'[s].void
  <2>1. CASE Stays(s)
      BY <1>1, <1>3, <2>1 DEF Stays, SuspendInv
  <2>2. CASE request'[s] = Idle
      BY <2>2, IdleNotBusy
  <2>3. ASSUME NEW op \in Op, NEW p \in Proc, NEW k \in Token \cup {None},
               NEW c \in Code \cup {None}, Begin(s, op, p, k, c)
        PROVE  /\ "account" \in request'[s].void => ~row'.active
               /\ request'[s].pc \notin {"served", "get", "set", "local", "commit"}
    <3>1. request'[s].pc = First(op) /\ ("account" \in request'[s].void <=> ~row.active)
        BY <2>3, BeginRecord
    <3> QED
        BY <1>1, <1>3, <3>1 DEF First
  <2>4. CASE Moves(s)
    <3>1. \/ request'[s] = Idle
          \/ Seen(request[s], request'[s].pc) /\ request'[s].void = request[s].void
        BY <2>4, MovesRecord
    <3>2. request'[s] # Idle => request[s] # Idle
        BY <3>1, IdleNotBusy DEF Seen
    <3> QED
        BY <1>1, <1>3, <2>2, <3>1, <3>2 DEF Seen, SuspendInv
  <2>5. CASE Load(s)
    <3>1. \/ request'[s] = Idle
          \/ request'[s].void = request[s].void /\ AfterLoad(request[s], row) # "idle"
        BY <2>5, LoadRecord
    <3>2. AfterLoad(request[s], row) # "idle" => row.active
        BY DEF AfterLoad, Usable
    <3>3. request[s] # Idle
        BY <2>5, IdleNotBusy DEF Load, Running
    <3> QED
        BY <1>1, <1>3, <2>2, <3>1, <3>2, <3>3 DEF SuspendInv
  <2> QED
      BY <2>1, <2>2, <2>3, <2>4, <2>5, Actors
<1> QED
    BY <1>2, <1>3, IdleNotBusy DEF SuspendInv


-----------------------------------------------------------------------------
(* A request that reaches its commit straight from the load has no password. *)
LEMMA Unchecked ==
  ASSUME TypeOK, Places, NEW r \in Request, Load(r), AfterLoad(request[r], row) = "commit"
  PROVE  ~Totp(IF Asked(request[r], row) THEN request[r].code ELSE None)
<1> DEFINE q == request[r]
<1>1. q.op \in {"call", "login", "enroll", "verify", "disable"} /\ (q.op = "enroll" => q.code = None)
    BY IdleNotBusy DEF Load, Running, Places, PlaceOf
<1>2. CASE q.op = "login"
    BY <1>2 DEF AfterLoad, Asked, Totp
<1>3. CASE q.op = "disable"
    BY <1>3 DEF AfterLoad, Asked, Totp
<1>4. CASE q.op \in {"call", "enroll", "verify"}
    BY <1>1, <1>4 DEF AfterLoad, Asked, Totp
<1> QED
    BY <1>1, <1>2, <1>3, <1>4

LEMMA StepPassword ==
  ASSUME TypeOK, Places, Held, PasswordInv, [Next]_vars
  PROVE  PasswordInv'
<1> DEFINE Good(q, ok, in) ==
             q # Idle /\ Totp(q.code) =>
               /\ "code" \in q.void => q.code \in ok
               /\ q.pc \in {"set", "local", "commit"} => "code" \notin q.void
               /\ q.pc \in {"local", "commit"} => q.code \in in
<1> SUFFICES ASSUME faults' = 0
             PROVE  /\ cacheUp'
                    /\ \A c \in accepted' : Totp(c) => c \in used'
                    /\ \A s \in Request : Good(request'[s], accepted', used')
    BY DEF PasswordInv
<1>1. cacheUp /\ cacheUp' /\ used \subseteq used' /\ accepted \subseteq accepted'
  <2>1. cacheUp
      BY NoFaults DEF PasswordInv
  <2> QED
      BY <2>1, NoFaults, Writers DEF CacheBack, TotpSet, Login, Verify, Disable, Accept
<1>2. /\ \A c \in accepted : Totp(c) => c \in used
      /\ \A r \in Request : Good(request[r], accepted, used)
    BY NoFaults DEF PasswordInv
<1>3. \A c \in accepted' : Totp(c) => c \in used'
  <2>1. ASSUME NEW r \in Request, Login(r) \/ Verify(r) \/ Disable(r)
        PROVE  request[r].pc = "commit" /\ request[r] # Idle
               /\ accepted' = accepted \cup ({request[r].code} \ {None})
      BY <2>1, IdleNotBusy DEF Login, Verify, Disable, Committing, Running, Accept
  <2> QED
      BY <1>1, <1>2, <2>1, Writers
<1>4. ASSUME NEW s \in Request PROVE Good(request'[s], accepted', used')
  <2>1. CASE Stays(s)
      BY <1>1, <1>2, <2>1 DEF Stays
  <2>2. CASE request'[s] = Idle
      BY <2>2
  <2>3. ASSUME NEW op \in Op, NEW p \in Proc, NEW k \in Token \cup {None},
               NEW c \in Code \cup {None}, Begin(s, op, p, k, c)
        PROVE  Good(request'[s], accepted', used')
    <3>1. request'[s].pc = First(op) /\ request'[s].code = c
          /\ ("code" \in request'[s].void <=> c \in accepted)
        BY <2>3, BeginRecord
    <3> QED
        BY <1>1, <3>1 DEF First
  <2>4. CASE Moves(s)
    <3> DEFINE q == request[s]
               to == request'[s].pc
    <3>1. \/ request'[s] = Idle
          \/ /\ Seen(q, to)
             /\ request'[s].code = q.code /\ request'[s].void = q.void
        BY <2>4, MovesRecord
    <3>2. CASE Seen(q, to) /\ request'[s].code = q.code /\ request'[s].void = q.void /\ Totp(q.code)
      <4>1. q # Idle
          BY <3>2, IdleNotBusy DEF Seen
      <4>2. "code" \in q.void => q.code \in accepted
          BY <1>2, <3>2, <4>1
      <4>3. to = "set" => q.code \notin used
          BY <3>2 DEF Seen
      <4>4. to \in {"local", "commit"} => q.pc \in {"set", "local"}
          BY <1>1, <3>2 DEF Seen
      <4>5. to = "local" => q.code \in used'
          BY <1>1, <3>2 DEF Seen
      <4>6. to = "commit" => q.pc = "local"
          BY <3>2 DEF Seen
      <4> QED
          BY <1>1, <1>2, <3>2, <4>1, <4>2, <4>3, <4>4, <4>5, <4>6
    <3> QED
        BY <2>2, <3>1, <3>2
  <2>5. CASE Load(s)
    <3> DEFINE q == request[s]
    <3>1. \/ request'[s] = Idle
          \/ /\ request'[s].pc = AfterLoad(q, row) /\ request'[s].pc \in {"served", "get", "commit"}
             /\ request'[s].void = q.void
             /\ request'[s].code = IF Asked(q, row) THEN q.code ELSE None
        BY <2>5, LoadRecord
    <3>2. q # Idle
        BY <2>5, IdleNotBusy DEF Load, Running
    <3>3. request'[s] # Idle /\ Totp(request'[s].code) => request'[s].pc # "commit" /\ request'[s].code = q.code
        BY <2>5, <3>1, Unchecked DEF Totp
    <3> QED
        BY <1>1, <1>2, <2>2, <3>1, <3>2, <3>3
  <2> QED
      BY <2>1, <2>2, <2>3, <2>4, <2>5, Actors
<1> QED
    BY <1>1, <1>3, <1>4

LEMMA StepEnrolled ==
  ASSUME TypeOK, Places, Held, Enrolled, [Next]_vars
  PROVE  Enrolled'
<1>1. enrolments \in Nat /\ enrolments' \in Nat /\ enrolments <= enrolments'
    BY Writers, SecretAssumption DEF TypeOK, Enroll
<1>2. \A c \in Code : c[1] \in Nat
    BY SecretAssumption DEF Code, Secret
<1>3. ASSUME NEW r \in Request, request[r] # Idle, request[r].code # None
      PROVE  request[r].code \in Code /\ request[r].code[1] <= enrolments'
  <2>1. request[r] \in Busy
      BY <1>3 DEF TypeOK
  <2>2. request[r].code \in Code
      BY <1>3, <2>1 DEF Busy
  <2>3. request[r].code[1] <= enrolments
      BY <1>3 DEF Enrolled
  <2> QED
      BY <1>1, <1>2, <2>2, <2>3
<1>4. ASSUME NEW c \in accepted PROVE c[1] <= enrolments'
  <2>1. c \in Code /\ c[1] <= enrolments
      BY DEF TypeOK, Enrolled
  <2> QED
      BY <1>1, <1>2, <2>1
<1>5. \A c \in accepted' : c[1] <= enrolments'
  <2>1. ASSUME NEW r \in Request, Login(r) \/ Verify(r) \/ Disable(r)
        PROVE  request[r] # Idle /\ accepted' = accepted \cup ({request[r].code} \ {None})
      BY <2>1, IdleNotBusy DEF Login, Verify, Disable, Committing, Running, Accept
  <2> QED
      BY <1>3, <1>4, <2>1, Writers
<1>6. ASSUME NEW s \in Request, request'[s] # Idle, request'[s].code # None
      PROVE  request'[s].code[1] <= enrolments'
  <2>1. CASE Stays(s)
      BY <1>3, <1>6, <2>1 DEF Stays
  <2>2. ASSUME NEW op \in Op, NEW p \in Proc, NEW k \in Token \cup {None},
               NEW c \in Code \cup {None}, Begin(s, op, p, k, c)
        PROVE  request'[s].code[1] <= enrolments'
    <3>1. request'[s].code = c
        BY <2>2, BeginRecord
    <3>2. c \in Code /\ c[1] <= enrolments
        BY <1>6, <2>2, <3>1 DEF Begin
    <3> QED
        BY <1>1, <1>2, <3>1, <3>2
  <2>3. CASE Moves(s)
    <3>1. Seen(request[s], request'[s].pc) /\ request'[s].code = request[s].code
        BY <1>6, <2>3, MovesRecord
    <3>2. request[s] # Idle
        BY <3>1, IdleNotBusy DEF Seen
    <3> QED
        BY <1>3, <1>6, <3>1, <3>2
  <2>4. CASE Load(s)
    <3>1. request'[s].code = IF Asked(request[s], row) THEN request[s].code ELSE None
        BY <1>6, <2>4, LoadRecord
    <3>2. request[s] # Idle
        BY <2>4, IdleNotBusy DEF Load, Running
    <3> QED
        BY <1>3, <1>6, <3>1, <3>2
  <2> QED
      BY <1>6, <2>1, <2>2, <2>3, <2>4, Actors
<1> QED
    BY <1>5, <1>6 DEF Enrolled


-----------------------------------------------------------------------------
(* Who holds the row, or held it before, is alone until two have met.      *)
LEMMA Alone ==
  ASSUME TypeOK, Places, Held, FactorInv, [Next]_vars, ~raced'
  PROVE  /\ ~raced
         /\ \A s \in Request : Holds(s)' =>
              \/ Load(s) /\ request'[s].row = row /\ \A r \in Request : ~Holds(r)
              \/ Holds(s) /\ request'[s].row = request[s].row
         /\ \A r, s \in Request : Holds(r)' /\ Holds(s)' => r = s
<1>1. ~raced
    BY Writers DEF Load, TypeOK
<1>2. ASSUME NEW s \in Request, Holds(s)'
      PROVE  \/ Load(s) /\ request'[s].row = row /\ \A r \in Request : ~Holds(r)
             \/ Holds(s) /\ request'[s].row = request[s].row
  <2>1. CASE Stays(s)
      BY <1>2, <2>1 DEF Stays, Holds
  <2>2. request'[s] # Idle
      BY <1>2, IdleNotBusy DEF Holds
  <2>3. ASSUME NEW op \in Op, NEW p \in Proc, NEW k \in Token \cup {None},
               NEW c \in Code \cup {None}, Begin(s, op, p, k, c)
        PROVE  FALSE
      BY <1>2, <2>3, BeginRecord DEF Holds, First
  <2>4. CASE Moves(s)
    <3>1. Seen(request[s], request'[s].pc) /\ request'[s].row = request[s].row
        BY <2>2, <2>4, MovesRecord
    <3> QED
        BY <1>2, <3>1 DEF Seen, Holds
  <2>5. CASE Load(s)
    <3>1. request'[s].pc = AfterLoad(request[s], row) /\ request'[s].pc \in {"get", "commit"}
          /\ request'[s].row = row
        BY <1>2, <2>2, <2>5, LoadRecord DEF Holds
    <3>2. raced' = (raced \/ (AfterLoad(request[s], row) \in {"get", "commit"}
                                /\ \E r2 \in Request : Holds(r2)))
        BY <2>5 DEF Load
    <3> QED
        BY <2>5, <3>1, <3>2
  <2> QED
      BY <2>1, <2>2, <2>3, <2>4, <2>5, Actors
<1>3. ASSUME NEW r \in Request, NEW s \in Request, Holds(r)', Holds(s)', r # s PROVE FALSE
  <2>1. CASE Holds(r) /\ Holds(s)
      BY <1>1, <1>3, <2>1 DEF FactorInv
  <2>2. CASE Load(r)
      BY <1>2, <1>3, <2>2, LoadRecord DEF Holds, Load, Running
  <2>3. CASE Load(s)
      BY <1>2, <1>3, <2>3, LoadRecord DEF Holds, Load, Running
  <2> QED
      BY <1>2, <1>3, <2>1, <2>2, <2>3
<1> QED
    BY <1>1, <1>2, <1>3

(* The row without its first component, with what it must agree with.      *)
Sound(rw, acc, prv) ==
  /\ rw.on => rw.secret \in prv
  /\ rw.secret = NoSecret => rw.codes = {}
  /\ acc \cap rw.codes = {}

LEMMA StepSound ==
  ASSUME TypeOK, Places, Held, Enrolled, FactorInv, ~raced, NEW r \in Request,
         Login(r) \/ Settings(r)
  PROVE  Sound(row', accepted', proven') /\ Holds(r) /\ request'[r] = Idle
<1> DEFINE q == request[r]
<1>1. Holds(r) /\ request'[r] = Idle
    BY EndRecord DEF Login, Settings, Enroll, Verify, Disable, Committing, Running, Holds
<1>2. /\ q.row.on = row.on /\ q.row.secret = row.secret /\ q.row.codes = row.codes
      /\ Sound(row, accepted, proven)
    BY <1>1 DEF FactorInv, Sound
<1>3. /\ q.pc = "commit" /\ q.op \in {"login", "enroll", "verify", "disable"}
      /\ q.code # None => Valid(q.code, q.row)
      /\ q.op = "verify" => Totp(q.code)
      /\ q.op = "enroll" => ~q.row.on
    BY DEF Login, Settings, Enroll, Verify, Disable, Committing, Running, Held, HeldRow
<1>4. row \in Row /\ row.codes \in SUBSET (Secret \X Recovery)
    BY DEF TypeOK, Row
<1>5. \A c \in row.codes : ~Totp(c)
    BY <1>4, NoneAssumption DEF Totp
<1>6. CASE Login(r)
  <2>1. accepted' = accepted \cup ({q.code} \ {None}) /\ proven' = proven
      BY <1>6 DEF Login, Accept
  <2>2. CASE q.code # None /\ ~Totp(q.code)
    <3>1. row' = [row EXCEPT !.codes = row.codes \ {q.code}]
        BY <1>2, <1>6, <2>2 DEF Login
    <3>2. row'.on = row.on /\ row'.secret = row.secret /\ row'.codes = row.codes \ {q.code}
        BY <1>4, <3>1 DEF Row
    <3> QED
        BY <1>1, <1>2, <2>1, <3>2 DEF Sound
  <2>3. CASE ~(q.code # None /\ ~Totp(q.code))
    <3>1. row' = row
        BY <1>6, <2>3 DEF Login
    <3> QED
        BY <1>1, <1>2, <1>5, <2>1, <2>3, <3>1 DEF Sound
  <2> QED
      BY <2>2, <2>3
<1>7. CASE Enroll(r)
  <2>1. enrolments \in Nat /\ enrolments' = enrolments + 1
      BY <1>7, SecretAssumption DEF Enroll, TypeOK
  <2>2. row' = [row EXCEPT !.secret = enrolments', !.codes = CodesOf(enrolments')]
        /\ accepted' = accepted /\ proven' = proven
      BY <1>7 DEF Enroll, history
  <2>3. row'.on = row.on /\ row'.secret = enrolments' /\ row'.codes = CodesOf(enrolments')
      BY <1>4, <2>2 DEF Row
  <2>4. ~row.on
      BY <1>2, <1>3, <1>7 DEF Enroll, Committing
  <2>5. enrolments' # NoSecret
      BY <2>1 DEF NoSecret
  <2>6. ASSUME NEW c \in accepted PROVE c \notin CodesOf(enrolments')
    <3>1. c[1] <= enrolments /\ c \in Code
        BY DEF Enrolled, TypeOK
    <3>2. c[1] \in Nat
        BY <3>1, SecretAssumption DEF Code, Secret
    <3>3. c[1] # enrolments'
        BY <2>1, <3>1, <3>2
    <3> QED
        BY <3>3 DEF CodesOf
  <2> QED
      BY <1>1, <2>2, <2>3, <2>4, <2>5, <2>6 DEF Sound
<1>8. CASE Verify(r)
  <2>1. Totp(q.code)
      BY <1>3, <1>8 DEF Verify, Committing
  <2>2. accepted' = accepted \cup ({q.code} \ {None}) /\ proven' = proven \cup {row.secret}
      BY <1>2, <1>8 DEF Verify, Accept
  <2>3. row'.secret = row.secret /\ row'.codes = row.codes
      BY <1>4, <1>8 DEF Verify, Row
  <2> QED
      BY <1>1, <1>2, <1>5, <2>1, <2>2, <2>3 DEF Sound
<1>9. CASE Disable(r)
  <2> DEFINE on == row.on /\ ~row.on
             secret == IF row.secret = NoSecret THEN row.secret ELSE NoSecret
             codes == IF row.secret = NoSecret THEN row.codes ELSE {}
  <2>1. row' = [row EXCEPT !.on = on, !.secret = secret, !.codes = codes]
      BY <1>2, <1>4, <1>9 DEF Disable, Row
  <2>2. ~on /\ codes = {}
      BY <1>2 DEF Sound
  <2> HIDE DEF on, secret, codes
  <2>3. ~row'.on /\ row'.codes = {}
      BY <1>4, <2>1, <2>2 DEF Row
  <2> QED
      BY <1>1, <2>3 DEF Sound
<1> QED
    BY <1>6, <1>7, <1>8, <1>9 DEF Settings

LEMMA StepFactor ==
  ASSUME TypeOK, Places, Held, Enrolled, FactorInv, [Next]_vars
  PROVE  FactorInv'
<1> SUFFICES ASSUME ~raced'
             PROVE  /\ \A r, s \in Request : Holds(r)' /\ Holds(s)' => r = s
                    /\ \A s \in Request : Holds(s)' =>
                         LET q == request'[s] IN
                         q.row.on = row'.on /\ q.row.secret = row'.secret /\ q.row.codes = row'.codes
                    /\ Sound(row', accepted', proven')
    BY DEF FactorInv, Sound
<1>1. ~raced /\ Sound(row, accepted, proven)
    BY Alone DEF FactorInv, Sound
<1>2. ASSUME NEW r \in Request, Login(r) \/ Settings(r)
      PROVE  Sound(row', accepted', proven') /\ \A s \in Request : ~Holds(s)'
  <2>1. Sound(row', accepted', proven') /\ Holds(r) /\ request'[r] = Idle
      BY <1>1, <1>2, StepSound
  <2>2. ~Holds(r)'
      BY <2>1, IdleNotBusy DEF Holds
  <2>3. \A s \in Request : s # r => ~Holds(s)
      BY <1>1, <2>1 DEF FactorInv
  <2> QED
      BY <2>1, <2>2, <2>3, Alone
<1>3. CASE ~\E r \in Request : Login(r) \/ Settings(r)
  <2>1. row'.on = row.on /\ row'.secret = row.secret /\ row'.codes = row.codes
    <3>1. row \in Row
        BY DEF TypeOK
    <3> QED
        BY <1>3, <3>1, Writers DEF Suspend, Reactivate, Row
  <2>2. accepted' = accepted /\ proven' = proven
      BY <1>3, Writers DEF Settings
  <2>3. Sound(row', accepted', proven')
      BY <1>1, <2>1, <2>2 DEF Sound
  <2>4. ASSUME NEW s \in Request, Holds(s)'
        PROVE  LET q == request'[s] IN
               q.row.on = row.on /\ q.row.secret = row.secret /\ q.row.codes = row.codes
      BY <1>1, <2>4, Alone DEF FactorInv
  <2> QED
      BY <2>1, <2>3, <2>4, Alone
<1> QED
    BY <1>2, <1>3, Alone

-----------------------------------------------------------------------------
LEMMA Start == ASSUME Init PROVE IInv
<1>1. /\ row = [active |-> TRUE, on |-> FALSE, secret |-> NoSecret, codes |-> {}]
      /\ request = [r \in Request |-> Idle] /\ Idle.pc = "idle"
    BY DEF Init, Idle
<1>2. \A r \in Request : request[r] = Idle /\ request[r].pc = "idle"
    BY <1>1
<1>3. TypeOK
  <2>1. row \in Row
      BY <1>1 DEF Row
  <2>2. enrolments \in 0..MaxSecret /\ faults \in 0..MaxFaults /\ exchanged \in Nat
      BY SecretAssumption, FaultAssumption DEF Init
  <2>3. request \in [Request -> Busy \cup {Idle}]
      BY <1>1
  <2>4. /\ mix \in Mixes /\ issued \subseteq Token /\ blocklist \subseteq issued
        /\ loggedOut \subseteq blocklist
        /\ cache \in [Token -> {"none", "active", "revoked"}]
        /\ used \subseteq Code /\ local \in [Proc -> SUBSET Code]
        /\ accepted \subseteq Code /\ proven \subseteq Secret
      BY DEF Init
  <2>5. cacheUp \in BOOLEAN /\ oauth \in {"none", "live", "gone"} /\ raced \in BOOLEAN
      BY DEF Init
  <2> QED
      BY <2>1, <2>2, <2>3, <2>4, <2>5 DEF TypeOK
<1>4. Places /\ Held /\ Enrolled
    BY <1>2 DEF Places, PlaceOf, Held, HeldRow, Enrolled, Init
<1>5. Tokens /\ Handoff
    BY <1>2 DEF Tokens, RevokedIsStored, Handoff, Init
<1>6. LogoutInv /\ SuspendInv /\ PasswordInv
    BY <1>2 DEF LogoutInv, SuspendInv, PasswordInv, Init
<1>7. FactorInv
  <2>1. ~row.on /\ row.codes = {} /\ \A r \in Request : ~Holds(r)
      BY <1>1, <1>2 DEF Holds
  <2> QED
      BY <2>1 DEF FactorInv
<1> QED
    BY <1>3, <1>4, <1>5, <1>6, <1>7 DEF IInv

THEOREM Invariance == Spec => []IInv
<1>1. Init => IInv
    BY Start
<1>2. IInv /\ [Next]_vars => IInv'
    BY StepType, StepRequest, StepHeld, StepTokens, StepHandoff, StepLogout, StepSuspend,
       StepPassword, StepEnrolled, StepFactor DEF IInv
<1> QED
    BY <1>1, <1>2, PTL DEF Spec

(* Every variable keeps its type; a token is blocked only if it was issued, *)
(* and answered as logged out only if it is blocked.                       *)
THEOREM TypeCorrect == Spec => []TypeOK
<1>1. IInv => TypeOK
    BY DEF IInv
<1> QED
    BY <1>1, Invariance, PTL

(* A request that comes after a logout is refused while the cache keeps    *)
(* what it is told: the race of cache.add and the revocation is closed.    *)
THEOREM LogoutIsFinal == Spec => []LogoutSticks
<1>1. IInv => LogoutSticks
    BY DEF IInv, LogoutInv, LogoutSticks, Running
<1> QED
    BY <1>1, Invariance, PTL

(* The cache calls no token revoked that the database does not.            *)
THEOREM CacheNeverInvents == Spec => []RevokedIsStored
<1>1. IInv => RevokedIsStored
    BY DEF IInv, Tokens
<1> QED
    BY <1>1, Invariance, PTL

(* A request that arrived while the account is suspended stands where a    *)
(* token or a handoff code is handled, or where the row is still to be     *)
(* loaded; none of these steps gives it anything.                          *)
LEMMA SuspendedStep ==
  ASSUME IInv, [Next]_vars, NEW r \in Request,
         request[r] # Idle, "account" \in request[r].void, ~row'.active, request'[r] # request[r]
  PROVE  /\ request'[r].pc # "served"
         /\ UNCHANGED <<row, enrolments, used, issued, exchanged, accepted, proven>>
<1>1. /\ TypeOK /\ Places /\ Held /\ SuspendInv
      /\ ~row.active /\ request[r].pc \notin {"served", "get", "set", "local", "commit"}
    BY DEF IInv, SuspendInv
<1> DEFINE Nothing == UNCHANGED <<row, enrolments, used, issued, exchanged, accepted, proven>>
<1>2. request'[r].pc # "served"
  <2>1. CASE Load(r)
    <3>1. AfterLoad(request[r], row) = "idle"
        BY <1>1 DEF AfterLoad, Usable
    <3> QED
        BY <1>1, <2>1, <3>1, LoadRecord, IdleNotBusy
  <2>2. CASE Moves(r)
    <3>1. request'[r] = Idle \/ Seen(request[r], request'[r].pc)
        BY <1>1, <2>2, MovesRecord
    <3> QED
        BY <3>1, IdleNotBusy DEF Seen
  <2>3. CASE Stays(r)
      BY <1>1, <2>3 DEF Stays
  <2>4. ~\E op \in Op, p \in Proc, k \in Token \cup {None}, c \in Code \cup {None} : Begin(r, op, p, k, c)
      BY DEF Begin
  <2> QED
      BY <1>1, <2>1, <2>2, <2>3, <2>4, Actors, IdleNotBusy
<1>3. Nothing
  <2>1. ASSUME NEW s \in Request, Moves(s) \/ Load(s) \/ Ends(s) PROVE s = r
      BY <1>1, <2>1, MovesRecord, LoadRecord, EndsEnd, EndRecord
  <2>2. ASSUME NEW s \in Request, NEW op \in Op, NEW p \in Proc, NEW k \in Token \cup {None},
               NEW c \in Code \cup {None}, Begin(s, op, p, k, c)
        PROVE  FALSE
      BY <1>1, <2>2, BeginRecord DEF Begin
  <2>3. Moves(r) => Nothing
      BY <1>1 DEF Moves, CacheGet, ReadBlocklist, AddActive, GetAgain, TotpGet, TotpSet, TotpLocal,
         DeleteCode, Logout, Running, store, history
  <2>4. Load(r) => Nothing
      BY DEF Load, store
  <2>5. Ends(r) => Nothing
    <3>1. ~Login(r) /\ ~Settings(r)
        BY <1>1 DEF Login, Settings, Enroll, Verify, Disable, Committing, Running
    <3>2. Redeem(r) => Nothing
        BY <1>1 DEF Redeem
    <3> QED
        BY <3>1, <3>2 DEF Ends, Deny, Served, RedeemFails, Publish, store, history
  <2>6. ASSUME NEW p \in Proc, Crash(p) PROVE Nothing
      BY <2>6 DEF Crash, history
  <2>7. ~Reactivate
    <3>1. row \in Row
        BY <1>1 DEF TypeOK
    <3> QED
        BY <3>1 DEF Reactivate, Row
  <2> QED
      BY <2>1, <2>2, <2>3, <2>4, <2>5, <2>6, <2>7, Steps
<1> QED
    BY <1>2, <1>3

(* A suspended account is out until it is reactivated: whoever comes in the *)
(* meantime is not served and gains nothing, by session, password, second   *)
(* factor or handoff code.                                                  *)
THEOREM SuspensionHolds == Spec => SuspendedOut
<1>1. IInv /\ [Next]_vars =>
        [\A r \in Request :
           request[r] # Idle /\ "account" \in request[r].void /\ ~row'.active
             /\ request'[r] # request[r] =>
           /\ request'[r].pc # "served"
           /\ UNCHANGED <<row, enrolments, used, issued, exchanged, accepted, proven>>]_vars
    BY SuspendedStep
<1> QED
    BY <1>1, Invariance, PTL DEF Spec, SuspendedOut

(* A password that was accepted is not accepted of a later request.        *)
THEOREM PasswordsAreUsedOnce == Spec => []TotpOnce
<1>1. IInv => TotpOnce
  <2>1. ASSUME IInv, faults = 0, NEW r \in Request, Running(r, "commit"), Totp(request[r].code)
        PROVE  "code" \notin request[r].void
      BY <2>1, IdleNotBusy DEF IInv, PasswordInv, Running
  <2> QED
      BY <2>1 DEF TotpOnce
<1> QED
    BY <1>1, Invariance, PTL

(* Without overlapping holders of the row, a required factor is a proven   *)
(* one and a used recovery code is gone.                                   *)
THEOREM RequiredIsProven == Spec => []FactorProven
<1>1. IInv => FactorProven
    BY DEF IInv, FactorInv, FactorProven
<1> QED
    BY <1>1, Invariance, PTL

(* The handoff code is exchanged at most once.                             *)
THEOREM HandoffGivesOneToken == Spec => []ExchangedOnce
<1>1. IInv => ExchangedOnce
    BY DEF IInv, Handoff, ExchangedOnce
<1> QED
    BY <1>1, Invariance, PTL
=============================================================================
