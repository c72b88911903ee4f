-------------------------- MODULE AccountLifecycle --------------------------
(***************************************************************************)
(* Email verification and confirmed account deletion: the single-use       *)
(* tokens of core/account_tokens.py, the orchestration of                  *)
(* core/account_lifecycle.py and the endpoints of api/account.py.          *)
(*                                                                         *)
(* Each element of Request is one HTTP request being served by a worker.   *)
(* A request is cut where the code commits, loads a row it uses later,     *)
(* takes a row lock it keeps, or calls the mail relay; everything between  *)
(* two cuts is one action.  The database is PostgreSQL at READ COMMITTED:  *)
(* a DELETE waits for a row another transaction has deleted but not        *)
(* committed, sees no row inserted after its snapshot, and a unique index  *)
(* turns the second of two racing INSERTs into an IntegrityError.          *)
(***************************************************************************)
EXTENDS FiniteSets

CONSTANTS
    User,             \* accounts that exist initially
    Address,          \* email addresses, already trimmed and lower-cased
    Token,            \* raw tokens generate_token() may return (bounds issuance)
    Request,          \* request slots: how many requests overlap
    Federated,        \* accounts linked to an OpenID provider
    ProviderAddress,  \* the address the provider asserts for each of them
    None              \* SQL NULL / no value

VARIABLES
    users,       \* rows of auth.users that exist
    active,      \* users.is_active
    email,       \* users.email
    verified,    \* users.email_verified_at IS NOT NULL
    keypair,     \* accounts whose federation key file is on disk
    bound,       \* what a minted token is bound to: the immutable columns
    rows,        \* tokens whose row is in account_action_tokens
    expired,     \* tokens whose expires_at has passed
    inbox,       \* the mailbox a token's link was delivered to
    req,         \* the requests in progress
    issued,      \* history: tokens whose row was ever committed
    superseded,  \* history: tokens a later issuance replaced
    honoured     \* history: tokens whose effect was committed

accountVars == <<users, active, email, verified, keypair>>
tokenVars   == <<bound, rows, expired, inbox>>
historyVars == <<issued, superseded, honoured>>
vars == <<accountVars, tokenVars, req, historyVars>>

Purpose == {"verify", "delete"}
Pc == {"idle", "change", "issue", "insert", "send", "retract",
       "confirm", "claimed", "flushed"}

Binding == [user : User, purpose : Purpose, email : Address]

ASSUME AccountAssumption ==
    /\ Federated \subseteq User
    /\ ProviderAddress \in [Federated -> Address]
    /\ None \notin User \cup Address \cup Token \cup Binding

RequestState ==
    [pc : Pc,
     user : User \cup {None},         \* g.user_id
     purpose : Purpose \cup {None},
     token : Token \cup {None},       \* minted by, or presented to, the request
     snap : SUBSET Token,             \* rows the issuing DELETE found
     addr : Address \cup {None},      \* new address, or user.email as loaded
     wasVerified : BOOLEAN]           \* email_verified_at as loaded

Idle == [pc |-> "idle", user |-> None, purpose |-> None, token |-> None,
         snap |-> {}, addr |-> None, wasVerified |-> FALSE]

TypeOK ==
    /\ users \subseteq User
    /\ active \subseteq users
    /\ verified \subseteq users
    /\ email \in [User -> Address]
    /\ keypair \subseteq User
    /\ bound \in [Token -> Binding \cup {None}]
    /\ rows \subseteq Token
    /\ expired \subseteq Token
    /\ inbox \in [Token -> Address \cup {None}]
    /\ req \in [Request -> RequestState]
    /\ issued \subseteq Token
    /\ superseded \subseteq Token
    /\ honoured \subseteq Token

Init ==
    /\ users = User
    /\ active = User
    /\ email \in {e \in [User -> Address] :
                    /\ \A u, w \in User : e[u] = e[w] => u = w
                    /\ \A u \in Federated : e[u] = ProviderAddress[u]}
    /\ verified \in SUBSET User
    /\ keypair = User
    /\ bound = [t \in Token |-> None]
    /\ rows = {}
    /\ expired = {}
    /\ inbox = [t \in Token |-> None]
    /\ req = [r \in Request |-> Idle]
    /\ issued = {}
    /\ superseded = {}
    /\ honoured = {}

-----------------------------------------------------------------------------
(* Rows, locks and tokens.                                                 *)

RowsOf(u) == {t \in rows : bound[t].user = u}
RowsFor(u, p) == {t \in rows : bound[t].user = u /\ bound[t].purpose = p}

(* secrets.token_urlsafe never repeats: no other request holds it either.  *)
Fresh(t) == bound[t] = None /\ \A q \in Request : req[q].token # t

(* The transaction of q has deleted the row of t and not yet ended.        *)
LocksRow(q, t) ==
    \/ req[q].pc \in {"claimed", "flushed"} /\ req[q].token = t
    \/ req[q].pc = "flushed" /\ bound[t].user = req[q].user

(* Mutant: row locks are not honoured.                                     *)
UnlockedNever(r, S) == TRUE

(* A DELETE by r over the rows S does not have to wait.                    *)
Unlocked(r, S) == \A q \in Request \ {r} : \A t \in S : ~LocksRow(q, t)

(* No transaction but r's has deleted the row of user u and not yet ended. *)
UserUnlocked(r, u) ==
    \A q \in Request \ {r} : ~(req[q].pc = "flushed" /\ req[q].user = u)

SignedIn(u) == u \in users /\ u \in active

Finish(r) == req' = [req EXCEPT ![r] = Idle]

-----------------------------------------------------------------------------
(* Starting a request.                                                     *)

(* POST /email/verification-request: an already verified account gets the  *)
(* same answer and no token.                                               *)
RequestVerification(r, u, t) ==
    /\ req[r].pc = "idle" /\ SignedIn(u) /\ Fresh(t)
    /\ u \notin verified
    /\ req' = [req EXCEPT ![r] = [Idle EXCEPT !.pc = "issue", !.user = u,
                                              !.purpose = "verify", !.token = t]]
    /\ UNCHANGED <<accountVars, tokenVars, historyVars>>

(* POST /deletion/request: request_deletion reads has_verified_email       *)
(* here, before _purge_expired commits and expires the loaded account.     *)
RequestDeletion(r, u, t) ==
    /\ req[r].pc = "idle" /\ SignedIn(u) /\ Fresh(t)
    /\ u \in verified
    /\ req' = [req EXCEPT ![r] = [Idle EXCEPT !.pc = "issue", !.user = u,
                                              !.purpose = "delete", !.token = t]]
    /\ UNCHANGED <<accountVars, tokenVars, historyVars>>

(* PUT /email: the account is loaded, with its verification state, and the *)
(* new address is looked up.                                               *)
RequestEmailChange(r, u, a, t) ==
    /\ req[r].pc = "idle" /\ SignedIn(u) /\ Fresh(t)
    /\ \A w \in users : email[w] # a
    /\ req' = [req EXCEPT ![r] = [Idle EXCEPT !.pc = "change", !.user = u,
                                    !.token = t, !.addr = a,
                                    !.wasVerified = (u \in verified)]]
    /\ UNCHANGED <<accountVars, tokenVars, historyVars>>

(* POST /email/verify and POST /deletion/confirm: whoever holds a          *)
(* delivered link may submit it from any session and to either endpoint.   *)
(* Verification has loaded the account before the token is claimed.        *)
SubmitToken(r, u, p, t) ==
    /\ req[r].pc = "idle" /\ SignedIn(u) /\ inbox[t] # None
    /\ req' = [req EXCEPT ![r] = [Idle EXCEPT !.pc = "confirm", !.user = u,
                 !.purpose = p, !.token = t,
                 !.addr = IF p = "verify" THEN email[u] ELSE None]]
    /\ UNCHANGED <<accountVars, tokenVars, historyVars>>

-----------------------------------------------------------------------------
(* PUT /email: set_email and the commit.                                   *)

(* Mutant: set_email leaves the outstanding tokens alone.                  *)
RevokesNothing(u) == {}

(* invalidate_tokens(user.id, None): rows of both purposes.                *)
Revoked(u) == RowsOf(u)

(* The ORM writes only columns whose value differs from the loaded one, so *)
(* clear_email_verification reaches the database only when the account was *)
(* loaded verified.  A lost race for the address is an IntegrityError.     *)
ChangeEmail(r) ==
    LET u == req[r].user IN
    /\ req[r].pc = "change"
    /\ UserUnlocked(r, u) /\ Unlocked(r, Revoked(u))
    /\ \/ /\ u \in users
          /\ \A w \in users \ {u} : email[w] # req[r].addr
          /\ email' = [email EXCEPT ![u] = req[r].addr]
          /\ verified' = IF req[r].wasVerified THEN verified \ {u} ELSE verified
          /\ rows' = rows \ Revoked(u)
          /\ req' = [req EXCEPT ![r] = [Idle EXCEPT !.pc = "issue", !.user = u,
                                          !.purpose = "verify", !.token = req[r].token]]
       \/ /\ u \notin users \/ \E w \in users \ {u} : email[w] = req[r].addr
          /\ Finish(r)
          /\ UNCHANGED <<email, verified, rows>>
    /\ UNCHANGED <<users, active, keypair, bound, expired, inbox, historyVars>>

-----------------------------------------------------------------------------
(* issue_token, the mail, and the retraction when the mail fails.          *)

(* _purge_expired has committed; the account is loaded afresh and the      *)
(* superseding DELETE takes its snapshot.                                  *)
IssueDelete(r) ==
    LET u == req[r].user
        dead == rows \cap expired IN
    /\ req[r].pc = "issue" /\ u \in users
    /\ Unlocked(r, dead)
    /\ rows' = rows \ dead
    /\ bound' = [bound EXCEPT ![req[r].token] =
                    [user |-> u, purpose |-> req[r].purpose, email |-> email[u]]]
    /\ req' = [req EXCEPT ![r].pc = "insert",
                          ![r].snap = RowsFor(u, req[r].purpose) \ dead]
    /\ UNCHANGED <<accountVars, expired, inbox, historyVars>>

(* The index one_outstanding refuses the row when a racing request's row,  *)
(* unseen by the DELETE, is already there.                                 *)
IndexAdmits(r) == RowsFor(req[r].user, req[r].purpose) \subseteq req[r].snap

(* INSERT and commit.                                                      *)
IssueInsert(r) ==
    LET u == req[r].user
        p == req[r].purpose
        t == req[r].token IN
    /\ req[r].pc = "insert"
    /\ Unlocked(r, req[r].snap \cap rows) /\ UserUnlocked(r, u)
    /\ u \in users
    /\ IndexAdmits(r)
    /\ rows' = (rows \ req[r].snap) \cup {t}
    /\ req' = [req EXCEPT ![r].pc = "send"]
    /\ issued' = issued \cup {t}
    /\ superseded' = superseded \cup {x \in issued : bound[x].user = u
                                                  /\ bound[x].purpose = p}
    /\ UNCHANGED <<accountVars, bound, expired, inbox, honoured>>

(* The INSERT fails on the index or on the foreign key: rollback, 500.     *)
IssueConflict(r) ==
    LET u == req[r].user IN
    /\ req[r].pc = "insert"
    /\ Unlocked(r, req[r].snap \cap rows) /\ UserUnlocked(r, u)
    /\ u \notin users \/ ~IndexAdmits(r)
    /\ Finish(r)
    /\ UNCHANGED <<accountVars, tokenVars, historyVars>>

(* The relay takes the message.  The commit expired the account, so the    *)
(* recipient is the address it has now.                                    *)
SendMail(r) ==
    /\ req[r].pc = "send" /\ req[r].user \in users
    /\ inbox' = [inbox EXCEPT ![req[r].token] = email[req[r].user]]
    /\ Finish(r)
    /\ UNCHANGED <<accountVars, bound, rows, expired, historyVars>>

(* The relay is unreachable, refuses, or drops the connection, in the last *)
(* case perhaps after it took the message.                                 *)
SendFails(r) ==
    /\ req[r].pc = "send" /\ req[r].user \in users
    /\ \/ inbox' = [inbox EXCEPT ![req[r].token] = email[req[r].user]]
       \/ UNCHANGED inbox
    /\ req' = [req EXCEPT ![r].pc = "retract"]
    /\ UNCHANGED <<accountVars, bound, rows, expired, historyVars>>

(* Mutant: the purpose is not passed on.                                   *)
RetractedAll(r) == RowsOf(req[r].user)

(* invalidate_tokens(user.id, purpose): every row of the purpose, the      *)
(* request's own or not.                                                   *)
Retracted(r) == RowsFor(req[r].user, req[r].purpose)

Retract(r) ==
    /\ req[r].pc = "retract" /\ req[r].user \in users
    /\ Unlocked(r, Retracted(r))
    /\ rows' = rows \ Retracted(r)
    /\ Finish(r)
    /\ UNCHANGED <<accountVars, bound, expired, inbox, historyVars>>

(* Reloading the account raises ObjectDeletedError: it was deleted.        *)
AccountGone(r) ==
    /\ req[r].pc \in {"issue", "send", "retract"}
    /\ req[r].user \notin users
    /\ Finish(r)
    /\ UNCHANGED <<accountVars, tokenVars, historyVars>>

-----------------------------------------------------------------------------
(* consume_token: a conditional DELETE ... RETURNING, kept uncommitted     *)
(* while the caller checks what it returned.                               *)

(* Mutant: a row once issued is good until it expires.                     *)
OutstandingForEver(t, p) ==
    t \in issued /\ t \notin expired /\ bound[t].purpose = p

Outstanding(t, p) == t \in rows /\ t \notin expired /\ bound[t].purpose = p

Claim(r) ==
    LET t == req[r].token IN
    /\ req[r].pc = "confirm"
    /\ Unlocked(r, {t})
    /\ Outstanding(t, req[r].purpose)
    /\ req' = [req EXCEPT ![r].pc = "claimed"]
    /\ UNCHANGED <<accountVars, tokenVars, historyVars>>

ClaimNothing(r) ==
    LET t == req[r].token IN
    /\ req[r].pc = "confirm"
    /\ Unlocked(r, {t})
    /\ ~Outstanding(t, req[r].purpose)
    /\ Finish(r)
    /\ UNCHANGED <<accountVars, tokenVars, historyVars>>

(* confirm_email_verification: the row must be the caller's and for the    *)
(* address the caller's account had when it was loaded.                    *)
VerifyMatches(r) ==
    /\ req[r].user = bound[req[r].token].user
    /\ req[r].addr = bound[req[r].token].email

VerifyCommit(r) ==
    LET t == req[r].token IN
    /\ req[r].pc = "claimed" /\ req[r].purpose = "verify"
    /\ VerifyMatches(r)
    /\ UserUnlocked(r, req[r].user)
    /\ verified' = verified \cup {req[r].user}
    /\ rows' = rows \ {t}
    /\ honoured' = honoured \cup {t}
    /\ Finish(r)
    /\ UNCHANGED <<users, active, email, keypair, bound, expired, inbox,
                   issued, superseded>>

(* confirm_deletion: the row must be the caller's, the account live.       *)
DeleteMatches(r) ==
    /\ req[r].user = bound[req[r].token].user
    /\ SignedIn(req[r].user)

(* Mutant: the rejection forgets to roll back.                             *)
RejectClaimHolds(r) ==
    /\ req[r].pc = "claimed"
    /\ \/ req[r].purpose = "verify" /\ ~VerifyMatches(r)
       \/ req[r].purpose = "delete" /\ ~DeleteMatches(r)
    /\ UNCHANGED vars

(* A claim that fails its checks is rolled back.                           *)
RejectClaim(r) ==
    /\ req[r].pc = "claimed"
    /\ \/ req[r].purpose = "verify" /\ ~VerifyMatches(r)
       \/ req[r].purpose = "delete" /\ ~DeleteMatches(r)
    /\ Finish(r)
    /\ UNCHANGED <<accountVars, tokenVars, historyVars>>

(* _delete_account_rows: the child rows and the account are deleted and    *)
(* flushed, and the federation key file is unlinked, before the commit.    *)
DeleteRows(r) ==
    LET u == req[r].user IN
    /\ req[r].pc = "claimed" /\ req[r].purpose = "delete"
    /\ DeleteMatches(r)
    /\ Unlocked(r, RowsOf(u)) /\ UserUnlocked(r, u)
    /\ keypair' = keypair \ {u}
    /\ req' = [req EXCEPT ![r].pc = "flushed"]
    /\ UNCHANGED <<users, active, email, verified, tokenVars, historyVars>>

DeleteCommit(r) ==
    LET u == req[r].user IN
    /\ req[r].pc = "flushed"
    /\ users' = users \ {u}
    /\ active' = active \ {u}
    /\ verified' = verified \ {u}
    /\ rows' = rows \ RowsOf(u)
    /\ honoured' = honoured \cup {req[r].token}
    /\ Finish(r)
    /\ UNCHANGED <<email, keypair, bound, expired, inbox, issued, superseded>>

(* Mutant: the consumption is committed although the delete failed.        *)
DeleteFailsBurns(r) ==
    /\ req[r].pc = "flushed"
    /\ honoured' = honoured \cup {req[r].token}
    /\ rows' = rows \ {req[r].token}
    /\ Finish(r)
    /\ UNCHANGED <<accountVars, bound, expired, inbox, issued, superseded>>

(* DeletionFailed: the database refused a statement or the commit.         *)
DeleteFails(r) ==
    /\ \/ req[r].pc = "claimed" /\ req[r].purpose = "delete" /\ DeleteMatches(r)
       \/ req[r].pc = "flushed"
    /\ Finish(r)
    /\ UNCHANGED <<accountVars, tokenVars, historyVars>>

-----------------------------------------------------------------------------
(* What happens around the requests.                                       *)

Expire(t) ==
    /\ t \in rows \ expired
    /\ expired' = expired \cup {t}
    /\ UNCHANGED <<accountVars, bound, rows, inbox, req, historyVars>>

(* The hourly purge_expired_account_tokens task.                           *)
PurgeTask ==
    LET dead == rows \cap expired IN
    /\ dead # {}
    /\ \A q \in Request, t \in dead : ~LocksRow(q, t)
    /\ rows' = rows \ dead
    /\ UNCHANGED <<accountVars, bound, expired, inbox, req, historyVars>>

(* PUT /api/admin/users/<id> suspends or reinstates the account.           *)
SetActive(u) ==
    /\ u \in users
    /\ \A q \in Request : ~(req[q].pc = "flushed" /\ req[q].user = u)
    /\ active' = IF u \in active THEN active \ {u} ELSE active \cup {u}
    /\ UNCHANGED <<users, email, verified, keypair, tokenVars, req, historyVars>>

(* A Google or Apple sign-in, matched on the provider's subject id, with   *)
(* email_verified asserted: mark_verified_from_oidc.                       *)
OidcSignIn(u) ==
    /\ u \in Federated /\ SignedIn(u) /\ u \notin verified
    /\ \A q \in Request : ~(req[q].pc = "flushed" /\ req[q].user = u)
    /\ verified' = verified \cup {u}
    /\ UNCHANGED <<users, active, email, keypair, tokenVars, req, historyVars>>

(* The worker dies; PostgreSQL rolls back what it had not committed.       *)
Crash(r) ==
    /\ req[r].pc # "idle"
    /\ Finish(r)
    /\ UNCHANGED <<accountVars, tokenVars, historyVars>>

-----------------------------------------------------------------------------
Start(r) ==
    \E u \in User, t \in Token :
        \/ RequestVerification(r, u, t)
        \/ RequestDeletion(r, u, t)
        \/ \E a \in Address : RequestEmailChange(r, u, a, t)
        \/ \E p \in Purpose : SubmitToken(r, u, p, t)

Proceed(r) ==
    \/ ChangeEmail(r)
    \/ IssueDelete(r) \/ IssueInsert(r) \/ IssueConflict(r)
    \/ SendMail(r) \/ SendFails(r) \/ Retract(r) \/ AccountGone(r)
    \/ Claim(r) \/ ClaimNothing(r) \/ RejectClaim(r)
    \/ VerifyCommit(r)
    \/ DeleteRows(r) \/ DeleteCommit(r) \/ DeleteFails(r)

Environment ==
    \/ \E t \in Token : Expire(t)
    \/ PurgeTask
    \/ \E u \in User : SetActive(u) \/ OidcSignIn(u)
    \/ \E r \in Request : Crash(r)

Next == Environment \/ \E r \in Request : Start(r) \/ Proceed(r)

Spec == Init /\ [][Next]_vars

(* A worker keeps serving the request it has; PostgreSQL grants row locks  *)
(* in the order they were asked for, so a step that waits for one is not   *)
(* passed over for ever.  Nothing obliges users, time or crashes.          *)
Fairness == \A r \in Request : SF_vars(Proceed(r))

FairSpec == Spec /\ Fairness

-----------------------------------------------------------------------------
(* Properties.                                                             *)

(* The partial unique index promises one outstanding token per account and *)
(* purpose "even when two requests race".                                  *)
OneOutstanding ==
    \A s, t \in rows : bound[s].user = bound[t].user
                    /\ bound[s].purpose = bound[t].purpose => s = t

(* Two confirmations carrying the same token produce one winner: nobody    *)
(* else holds a claimed token, and its row cannot go while it is claimed.  *)
ClaimExclusive ==
    \A r \in Request : req[r].pc \in {"claimed", "flushed"} =>
        /\ req[r].token \in rows
        /\ \A q \in Request \ {r} :
              req[q].pc \in {"claimed", "flushed"} => req[q].token # req[r].token

(* Consuming the token and deleting the account commit or roll back        *)
(* together: an account is gone exactly when one of its deletion tokens    *)
(* was honoured.                                                           *)
DeletionAtomic ==
    \A u \in User : u \notin users <=>
        \E t \in honoured : bound[t].user = u /\ bound[t].purpose = "delete"

(* A replaced link is never honoured afterwards, whatever was in flight    *)
(* when it was replaced.                                                   *)
SupersededStaysDead ==
    [][\A t \in honoured' \ honoured : t \notin superseded]_vars

(* An account becomes verified only for an address that just proved        *)
(* itself: its mailbox received the link honoured in this step, or the     *)
(* account's provider asserts that very address.                           *)
VerificationProven ==
    [][\A u \in verified' \ verified :
          \/ \E t \in honoured' \ honoured :
                bound[t].user = u /\ inbox[t] = email'[u]
          \/ u \in Federated /\ ProviderAddress[u] = email'[u]]_vars

(* A usable link is taken away only by what concerns its account and       *)
(* purpose: spending it, replacing or retracting that very kind of link,   *)
(* an address change, or the end of the account.                           *)
LinkLossJustified ==
    [][\A t \in rows \ rows' :
          LET u == bound[t].user IN
          \/ t \in expired \/ t \in honoured' \/ u \notin users'
          \/ \E r \in Request :
                /\ req[r].user = u
                /\ \/ req[r].pc = "change"
                   \/ req[r].pc \in {"insert", "retract"}
                      /\ req[r].purpose = bound[t].purpose]_vars

(* The token tables implement single-use credentials: a token is live while *)
(* its row is there, spent when its effect was committed, dead otherwise,  *)
(* and belongs to the slot of its account and purpose.                     *)
TokenStatus ==
    [t \in Token |-> IF t \in honoured THEN "spent"
                     ELSE IF t \in rows THEN "live"
                     ELSE IF t \in issued THEN "dead"
                     ELSE "unissued"]

TokenSlot ==
    [t \in Token |-> IF t \in issued THEN <<bound[t].user, bound[t].purpose>>
                     ELSE None]

OTT == INSTANCE OneTimeToken WITH
          Slot <- User \X Purpose, NoSlot <- None,
          status <- TokenStatus, slot <- TokenSlot

OneTimeTokens == OTT!Spec

(* Every request is answered: no request waits for ever for a row another  *)
(* one has claimed.                                                        *)
RequestsEnd == \A r \in Request : (req[r].pc # "idle") ~> (req[r].pc = "idle")

(* What the documents promise and the code does not keep: TLC refutes both, *)
(* so no run claims them.                                                  *)

(* The deletion link goes only to an address verified when it is sent.     *)
(* The check is made before _purge_expired commits, the recipient read     *)
(* after issue_token committed.                                            *)
DeletionLinkToVerified ==
    [][\A t \in Token :
          inbox'[t] # inbox[t] /\ bound[t].purpose = "delete"
              => bound[t].user \in verified]_vars

(* A changed address is unverified until it proves itself.                 *)
NewAddressUnverified ==
    [][\A u \in users' : email'[u] # email[u] => u \notin verified']_vars

=============================================================================
