-------------------------------- MODULE SignIn --------------------------------
(***************************************************************************)
(* How one account signs in and stays signed in: password login with a     *)
(* second factor, the exchange of an OAuth handoff code, the check of the  *)
(* session token that precedes every authenticated request, logout, and    *)
(* the settings of the second factor.  Requests run in threads of several  *)
(* processes of the web application and share the database and, while it   *)
(* answers, the Redis cache; each process also remembers in its own memory *)
(* the one-time passwords it accepted.                                     *)
(*                                                                         *)
(* A one-time password is valid for 90 s and remembered for 120 s: all the *)
(* passwords here belong to one such window.  Signatures, the lifetime of  *)
(* tokens and personal access tokens are not modelled.                     *)
(***************************************************************************)
EXTENDS Naturals, FiniteSets

CONSTANTS
  Request,    \* requests that run at the same time
  Proc,       \* processes of the web application
  Token,      \* session tokens followed; others are as good as these
  Recovery,   \* recovery codes of an enrolment
  Mixes,      \* bound: the sets of operations one behaviour may mix
  MaxSecret,  \* bound: enrolments
  MaxFaults,  \* bound: crashes, cache failures, evictions, failed exchanges
  None

ASSUME SecretAssumption == MaxSecret \in Nat \ {0}
ASSUME FaultAssumption == MaxFaults \in Nat
ASSUME NoneAssumption == None \notin Token /\ None \notin Recovery

Secret == 1..MaxSecret
\* A code is what the user types: the current one-time password of a secret
\* (<<s, None>>) or a recovery code handed out with it.
Code == Secret \X (Recovery \cup {None})
Totp(c) == c # None /\ c[2] = None
CodesOf(s) == {s} \X Recovery

VARIABLES
  mix,        \* the operations requested in this behaviour
  row,        \* the account's row: [active, on, secret, codes]
  enrolments, \* secrets handed out so far
  issued,     \* tokens handed out
  blocklist,  \* rows of token_blocklist
  cache,      \* cache[k]: what the cache says of token k
  used,       \* keys totp_used:* in the cache
  local,      \* local[p]: _local_used_totp of process p
  cacheUp,    \* TRUE iff the cache answers
  oauth,      \* the handoff code: "none", "live" or "gone"
  request,    \* request[r]: see Begin
  faults,     \* faults so far
  \* History, read only by the properties and to describe new requests.
  loggedOut,  \* tokens whose logout has been answered
  accepted,   \* codes that a committed request was let in with
  proven,     \* secrets a password of which verify_2fa has accepted
  raced,      \* TRUE once two requests have held the row at the same time
  exchanged   \* how often the handoff code gave a token

store == <<row, enrolments, issued, blocklist, cache, used, local, cacheUp, oauth>>
history == <<loggedOut, accepted, proven, raced, exchanged>>
vars == <<mix, store, request, faults, history>>

NoSecret == 0
Row == [active : BOOLEAN, on : BOOLEAN, secret : Secret \cup {NoSecret}, codes : SUBSET (Secret \X Recovery)]
Op == {"call", "logout", "login", "enroll", "verify", "disable", "exchange", "suspend", "fault"}
Idle == [pc |-> "idle"]

ASSUME MixAssumption == Mixes \subseteq SUBSET Op

\* A request under way.  row is the account's row as it loaded it, void what
\* was no longer good when it arrived: its token, its code, or the account,
\* which it names until an administrator reactivates the account.
Busy ==
  [pc : {"cache", "db", "add", "again", "deny", "load", "served", "get", "set", "local",
         "commit", "delete", "redeem", "insert", "publish"},
   op : Op, p : Proc, k : Token \cup {None}, code : Code \cup {None}, row : Row \cup {None},
   void : SUBSET {"token", "code", "account"}]

TypeOK ==
  /\ mix \in Mixes
  /\ row \in Row
  /\ enrolments \in 0..MaxSecret
  /\ issued \subseteq Token /\ blocklist \subseteq issued /\ loggedOut \subseteq blocklist
  /\ cache \in [Token -> {"none", "active", "revoked"}]
  /\ used \subseteq Code /\ local \in [Proc -> SUBSET Code]
  /\ cacheUp \in BOOLEAN
  /\ oauth \in {"none", "live", "gone"}
  /\ request \in [Request -> Busy \cup {Idle}]
  /\ faults \in 0..MaxFaults
  /\ accepted \subseteq Code /\ proven \subseteq Secret
  /\ raced \in BOOLEAN /\ exchanged \in Nat

Init ==
  /\ mix \in Mixes
  /\ row = [active |-> TRUE, on |-> FALSE, secret |-> NoSecret, codes |-> {}]
  /\ enrolments = 0 /\ proven = {}
  /\ issued = {} /\ blocklist = {} /\ loggedOut = {}
  /\ cache = [k \in Token |-> "none"]
  /\ used = {} /\ local = [p \in Proc |-> {}]
  /\ cacheUp = TRUE
  /\ oauth = "none"
  /\ request = [r \in Request |-> Idle]
  /\ faults = 0
  /\ accepted = {} /\ raced = FALSE /\ exchanged = 0

Goto(r, pc) == request' = [request EXCEPT ![r].pc = pc]
End(r) == request' = [request EXCEPT ![r] = Idle]
Running(r, pc) == request[r].pc = pc
Fault == "fault" \in mix /\ faults < MaxFaults /\ faults' = faults + 1

-----------------------------------------------------------------------------
\* Mutant: logout tells the cache only.
FirstPublishes(op) == CASE op = "exchange" -> "delete" [] op = "logout" -> "publish"
                        [] op = "call" -> "cache" [] OTHER -> "load"

First(op) == CASE op = "exchange" -> "delete" [] op = "logout" -> "insert"
               [] op = "call" -> "cache" [] OTHER -> "load"

\* A request arrives.  k is the token it carries: a request for the settings is
\* made under some session that stays valid, and carries None.
Begin(r, op, p, k, code) ==
  /\ request[r] = Idle /\ op \in mix \ {"suspend", "fault"}
  /\ IF op \in {"call", "logout"} THEN k \in issued ELSE k = None
  /\ code # None => op \in {"login", "verify", "disable"} /\ code[1] <= enrolments
  /\ op = "verify" => code # None
  /\ request' = [request EXCEPT ![r] =
       [pc |-> First(op), op |-> op, p |-> p, k |-> k, code |-> code, row |-> None,
        void |-> (IF k \in loggedOut THEN {"token"} ELSE {})
                   \cup (IF code \in accepted THEN {"code"} ELSE {})
                   \cup (IF row.active THEN {} ELSE {"account"})]]
  /\ UNCHANGED <<store, faults, history>>

-----------------------------------------------------------------------------
(* require_auth: _is_token_revoked, then _account_is_usable. *)

CacheGet(r) ==
  /\ Running(r, "cache")
  /\ LET hit == IF cacheUp THEN cache[request[r].k] ELSE "none"
     IN  CASE hit = "revoked" -> End(r)
           [] hit = "active"  -> Goto(r, "load")
           [] OTHER           -> Goto(r, "db")
  /\ UNCHANGED <<store, faults, history>>

ReadBlocklist(r) ==
  /\ Running(r, "db")
  /\ Goto(r, IF request[r].k \in blocklist THEN "deny" ELSE "add")
  /\ UNCHANGED <<store, faults, history>>

SetCache(k, v) == cache' = IF cacheUp THEN [cache EXCEPT ![k] = v] ELSE cache

\* The token is revoked: the cache is told and the request refused.
Deny(r) ==
  /\ Running(r, "deny")
  /\ SetCache(request[r].k, "revoked")
  /\ End(r)
  /\ UNCHANGED <<row, enrolments, issued, blocklist, used, local, cacheUp, oauth, faults, history>>

\* Mutant: set in place of add overwrites a revocation.
AddSets(r) ==
  /\ Running(r, "add")
  /\ SetCache(request[r].k, "active")
  /\ Goto(r, "load")
  /\ UNCHANGED <<row, enrolments, issued, blocklist, used, local, cacheUp, oauth, faults, history>>

\* cache.add: only an absent key is set; otherwise the key is read again.
AddActive(r) ==
  /\ Running(r, "add")
  /\ IF cacheUp /\ cache[request[r].k] # "none"
       THEN Goto(r, "again") /\ UNCHANGED cache
       ELSE Goto(r, "load") /\ SetCache(request[r].k, "active")
  /\ UNCHANGED <<row, enrolments, issued, blocklist, used, local, cacheUp, oauth, faults, history>>

GetAgain(r) ==
  /\ Running(r, "again")
  /\ IF cacheUp /\ cache[request[r].k] = "revoked" THEN End(r) ELSE Goto(r, "load")
  /\ UNCHANGED <<store, faults, history>>

-----------------------------------------------------------------------------
(* Who holds a row it loaded and is going to write it. *)
Holds(r) == request[r].pc \in {"get", "set", "local", "commit"}

\* The code is good for the row as loaded: verify_totp up to the replay check,
\* verify_and_consume_recovery_code.
Valid(c, loaded) ==
  \/ Totp(c) /\ c[1] = loaded.secret
  \/ c \in loaded.codes

\* Without a second factor the code of a login is not read.
Asked(q, loaded) == q.op = "login" => loaded.on

\* _account_is_usable, and the same test of local_login.
Usable(loaded) == loaded.active

\* Mutant: enrolment is not refused while the second factor is on.
MayEnrollAgain(loaded) == enrolments < MaxSecret

MayEnroll(loaded) == ~loaded.on /\ enrolments < MaxSecret

\* Where a request that loaded the row goes.  A settings request arrives with
\* the row require_auth loaded.  disable_2fa takes the password for None.
AfterLoad(q, loaded) ==
  LET checked == IF Totp(q.code) THEN "get" ELSE "commit"
  IN  IF ~Usable(loaded) THEN "idle" ELSE
      CASE q.op = "call" -> "served"
        [] q.op = "enroll" -> IF MayEnroll(loaded) THEN "commit" ELSE "idle"
        [] q.op = "verify" -> IF Totp(q.code) /\ Valid(q.code, loaded) THEN "get" ELSE "idle"
        [] q.op = "disable" -> IF q.code = None THEN "commit"
                               ELSE IF Valid(q.code, loaded) THEN checked ELSE "idle"
        [] q.op = "login" -> IF ~Asked(q, loaded) THEN "commit"
                             ELSE IF Valid(q.code, loaded) THEN checked ELSE "idle"

Load(r) ==
  /\ Running(r, "load")
  /\ LET q == request[r]
         pc == AfterLoad(q, row)
         loaded == [q EXCEPT !.pc = pc, !.row = IF pc = "served" THEN None ELSE row,
                             !.code = IF Asked(q, row) THEN q.code ELSE None]
     IN  /\ request' = [request EXCEPT ![r] = IF pc = "idle" THEN Idle ELSE loaded]
         /\ raced' = (raced \/ (pc \in {"get", "commit"} /\ \E r2 \in Request : Holds(r2)))
  /\ UNCHANGED <<store, faults, loggedOut, accepted, proven, exchanged>>

Served(r) ==
  /\ Running(r, "served")
  /\ End(r)
  /\ UNCHANGED <<store, faults, history>>

-----------------------------------------------------------------------------
(* _is_totp_replayed: the cache, then the memory of the process. *)

\* Mutant: only the memory of the process is consulted.
TotpSkip(r) ==
  /\ Running(r, "get")
  /\ Goto(r, "set")
  /\ UNCHANGED <<store, faults, history>>

TotpGet(r) ==
  /\ Running(r, "get")
  /\ IF cacheUp
       THEN IF request[r].code \in used THEN End(r) ELSE Goto(r, "set")
       ELSE Goto(r, "local")
  /\ UNCHANGED <<store, faults, history>>

TotpSet(r) ==
  /\ Running(r, "set")
  /\ used' = IF cacheUp THEN used \cup {request[r].code} ELSE used
  /\ Goto(r, "local")
  /\ UNCHANGED <<row, enrolments, issued, blocklist, cache, local, cacheUp, oauth, faults, history>>

\* Under _local_used_totp_lock.
TotpLocal(r) ==
  /\ Running(r, "local")
  /\ LET q == request[r]
     IN  IF q.code \in local[q.p]
           THEN End(r) /\ UNCHANGED local
           ELSE Goto(r, "commit") /\ local' = [local EXCEPT ![q.p] = @ \cup {q.code}]
  /\ UNCHANGED <<row, enrolments, issued, blocklist, cache, used, cacheUp, oauth, faults, history>>

-----------------------------------------------------------------------------
(* Commits.  The ORM writes the attributes the request changed, over whatever *)
(* the row says by then. *)

Issue == IF issued = Token THEN UNCHANGED issued
         ELSE \E k \in Token \ issued : issued' = issued \cup {k}

Committing(r, op) == Running(r, "commit") /\ request[r].op = op /\ End(r)
Accept(r) == accepted' = accepted \cup ({request[r].code} \ {None})

\* A recovery code is taken out of the list that was loaded.
Login(r) ==
  /\ Committing(r, "login")
  /\ LET q == request[r]
     IN  row' = IF q.code # None /\ ~Totp(q.code)
                  THEN [row EXCEPT !.codes = q.row.codes \ {q.code}] ELSE row
  /\ Accept(r)
  /\ Issue
  /\ UNCHANGED <<enrolments, blocklist, cache, used, local, cacheUp, oauth, faults,
                 loggedOut, proven, raced, exchanged>>

Enroll(r) ==
  /\ Committing(r, "enroll")
  /\ enrolments < MaxSecret
  /\ enrolments' = enrolments + 1
  /\ row' = [row EXCEPT !.secret = enrolments', !.codes = CodesOf(enrolments')]
  /\ UNCHANGED <<issued, blocklist, cache, used, local, cacheUp, oauth, faults, history>>

Verify(r) ==
  /\ Committing(r, "verify")
  /\ row' = IF request[r].row.on THEN row ELSE [row EXCEPT !.on = TRUE]
  /\ proven' = proven \cup {request[r].row.secret}
  /\ Accept(r)
  /\ UNCHANGED <<enrolments, issued, blocklist, cache, used, local, cacheUp, oauth, faults,
                 loggedOut, raced, exchanged>>

Disable(r) ==
  /\ Committing(r, "disable")
  /\ LET old == request[r].row
     IN  row' = [row EXCEPT !.on = @ /\ ~old.on,
                            !.secret = IF old.secret = NoSecret THEN @ ELSE NoSecret,
                            !.codes = IF old.secret = NoSecret THEN @ ELSE {}]
  /\ Accept(r)
  /\ UNCHANGED <<enrolments, issued, blocklist, cache, used, local, cacheUp, oauth, faults,
                 loggedOut, proven, raced, exchanged>>

-----------------------------------------------------------------------------
(* The OAuth handoff code. *)

\* A provider's callback has let the user in and issues the code.
IssueCode ==
  /\ oauth = "none" /\ row.active /\ "exchange" \in mix
  /\ oauth' = "live"
  /\ UNCHANGED <<row, enrolments, issued, blocklist, cache, used, local, cacheUp, request, faults, history>>

ExpireCode ==
  /\ oauth = "live" /\ ~\E r \in Request : Running(r, "redeem")
  /\ oauth' = "gone"
  /\ UNCHANGED <<row, enrolments, issued, blocklist, cache, used, local, cacheUp, request, faults, history>>

\* Mutant: the row is selected, and deleted with the commit.
SelectCode(r) ==
  /\ Running(r, "delete")
  /\ IF oauth = "live" THEN Goto(r, "redeem") ELSE End(r)
  /\ UNCHANGED <<store, faults, history>>

\* DELETE ... RETURNING waits for a transaction that has deleted the row.
DeleteCode(r) ==
  /\ Running(r, "delete")
  /\ ~\E r2 \in Request : Running(r2, "redeem")
  /\ IF oauth = "live" THEN Goto(r, "redeem") ELSE End(r)
  /\ UNCHANGED <<store, faults, history>>

Redeem(r) ==
  /\ Running(r, "redeem")
  /\ oauth' = "gone"
  /\ IF row.active THEN Issue /\ exchanged' = exchanged + 1 ELSE UNCHANGED <<issued, exchanged>>
  /\ End(r)
  /\ UNCHANGED <<row, enrolments, blocklist, cache, used, local, cacheUp, faults,
                 loggedOut, accepted, proven, raced>>

\* The exchange fails and is rolled back: the code is still there.
RedeemFails(r) ==
  /\ Running(r, "redeem")
  /\ Fault
  /\ End(r)
  /\ UNCHANGED <<store, history>>

-----------------------------------------------------------------------------
(* Logout: a row, committed, and then the cache. *)

Logout(r) ==
  /\ Running(r, "insert")
  /\ blocklist' = blocklist \cup {request[r].k}
  /\ Goto(r, "publish")
  /\ UNCHANGED <<row, enrolments, issued, cache, used, local, cacheUp, oauth, faults, history>>

\* cache_token_revoked: a cache that does not answer is only logged.
Publish(r) ==
  /\ Running(r, "publish")
  /\ SetCache(request[r].k, "revoked")
  /\ loggedOut' = loggedOut \cup {request[r].k}
  /\ End(r)
  /\ UNCHANGED <<row, enrolments, issued, blocklist, used, local, cacheUp, oauth, faults,
                 accepted, proven, raced, exchanged>>

-----------------------------------------------------------------------------
(* The administrator and the environment. *)

Suspend ==
  /\ row.active /\ "suspend" \in mix
  /\ row' = [row EXCEPT !.active = FALSE]
  /\ UNCHANGED <<enrolments, issued, blocklist, cache, used, local, cacheUp, oauth, request, faults, history>>

\* The account is good again, also for the requests that wait.
Reactivate ==
  /\ ~row.active /\ "suspend" \in mix
  /\ row' = [row EXCEPT !.active = TRUE]
  /\ request' = [r \in Request |-> IF request[r] = Idle THEN Idle
                                   ELSE [request[r] EXCEPT !.void = @ \ {"account"}]]
  /\ UNCHANGED <<enrolments, issued, blocklist, cache, used, local, cacheUp, oauth, faults, history>>

\* A process restarts: its requests and its memory are lost.
Crash(p) ==
  /\ Fault
  /\ request' = [r \in Request |-> IF request[r] # Idle /\ request[r].p = p THEN Idle ELSE request[r]]
  /\ local' = [local EXCEPT ![p] = {}]
  /\ UNCHANGED <<row, enrolments, issued, blocklist, cache, used, cacheUp, oauth, history>>

CacheDown ==
  /\ cacheUp /\ Fault
  /\ cacheUp' = FALSE
  /\ UNCHANGED <<row, enrolments, issued, blocklist, cache, used, local, oauth, request, history>>

CacheBack ==
  /\ ~cacheUp
  /\ cacheUp' = TRUE
  /\ UNCHANGED <<row, enrolments, issued, blocklist, cache, used, local, oauth, request, faults, history>>

\* The cache restarts empty.
Flush ==
  /\ Fault
  /\ cache' = [k \in Token |-> "none"]
  /\ used' = {}
  /\ UNCHANGED <<row, enrolments, issued, blocklist, local, cacheUp, oauth, request, history>>

-----------------------------------------------------------------------------
Check(r) == CacheGet(r) \/ ReadBlocklist(r) \/ Deny(r) \/ AddActive(r) \/ GetAgain(r)
Factor(r) == TotpGet(r) \/ TotpSet(r) \/ TotpLocal(r)
Settings(r) == Enroll(r) \/ Verify(r) \/ Disable(r)
Exchange(r) == DeleteCode(r) \/ Redeem(r) \/ RedeemFails(r)

Step ==
  \/ \E r \in Request :
       \/ \E op \in Op, p \in Proc, k \in Token \cup {None}, c \in Code \cup {None} :
            Begin(r, op, p, k, c)
       \/ Check(r) \/ Load(r) \/ Served(r) \/ Factor(r)
       \/ Login(r) \/ Settings(r) \/ Exchange(r) \/ Logout(r) \/ Publish(r)
  \/ IssueCode \/ ExpireCode \/ Suspend \/ Reactivate
  \/ \E p \in Proc : Crash(p)
  \/ CacheDown \/ CacheBack \/ Flush

Next == Step /\ UNCHANGED mix

Spec == Init /\ [][Next]_vars

-----------------------------------------------------------------------------
\* While the cache keeps what it is told, a request that arrives after the
\* logout of its token was answered is refused, whatever checks of the same
\* token read the blocklist before the logout and write the cache after it.
LogoutSticks ==
  faults = 0 => \A r \in Request : Running(r, "served") => "token" \notin request[r].void

\* The cache never refuses a token the database does not: what it says revoked
\* is committed in the blocklist, also across crashes and outages.
RevokedIsStored == \A k \in Token : cache[k] = "revoked" => k \in blocklist

\* A suspended account is out at once: a request that arrives while it is
\* suspended gains nothing before it is reactivated, by password, second factor,
\* session or handoff code.  It is not served, writes nothing of the account,
\* spends no one-time password, has no code accepted and gets no token.  What is
\* left to it is to log a token out and to use up a handoff code in vain.
SuspendedOut ==
  [][\A r \in Request :
       request[r] # Idle /\ "account" \in request[r].void /\ ~row'.active
         /\ request'[r] # request[r] =>
       /\ request'[r].pc # "served"
       /\ UNCHANGED <<row, enrolments, used, issued, exchanged, accepted, proven>>]_vars

\* While the cache keeps what it is told, a one-time password that let a request
\* in lets in no request that arrives later, in whatever process and for
\* whatever purpose.
TotpOnce ==
  faults = 0 => \A r \in Request :
    Running(r, "commit") /\ Totp(request[r].code) => "code" \notin request[r].void

\* Unless two requests held the row at the same time, a second factor that is
\* required is one the user has proven to have, and a recovery code that was
\* used is not in the list.
FactorProven == ~raced => (row.on => row.secret \in proven) /\ accepted \cap row.codes = {}

\* A handoff code gives at most one token, whatever exchanges overlap or fail.
ExchangedOnce == exchanged <= 1
=============================================================================
