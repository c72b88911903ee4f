--------------------------- MODULE FederatedFollow ---------------------------
(***************************************************************************)
(* Federated friendship between one user of each of two instances          *)
(* (core/friend_service.py, core/federation_handlers.py,                   *)
(* core/federation_dispatch.py, core/federation_tasks.py,                  *)
(* api/federation.py).  Each instance keeps ONE FederationFollower row for *)
(* the pair, whoever asked, and tells the other with Follow, Accept,       *)
(* Reject and Undo activities.  An activity is written after the row has   *)
(* been committed, is delivered by a background task, is logged by the     *)
(* remote inbox and is handled by another background task: it may be lost  *)
(* at each of these stages and may overtake another.  A delivery that gets *)
(* no answer is attempted again, and the inbox does not recognise what it  *)
(* has had before: an activity may be handled several times.               *)
(*                                                                         *)
(* A handler reads and commits one row.  Two that overlap end as one of    *)
(* the orders would, or one of them fails (a unique or a stale row), and a *)
(* failed one has the effect of Lose.                                      *)
(***************************************************************************)
EXTENDS Naturals

CONSTANTS
  Side,        \* the two accounts, each on an instance of its own
  MaxAttempts, \* attempts of one delivery (three in the code)
  MaxMail,     \* bound: activities written or repeated in a behaviour
  MaxUncalm,   \* bound: the same, once something has interfered
  MaxChanges   \* bound: changes of consent or trust, and deletions of an instance

ASSUME SideAssumption == \E x \in Side : \E y \in Side \ {x} : Side = {x, y}
ASSUME BoundAssumption ==
  MaxAttempts \in Nat \ {0} /\ MaxMail \in Nat /\ MaxUncalm \in 0..MaxMail /\ MaxChanges \in Nat

Peer(x) == CHOOSE y \in Side : y # x

VARIABLES
  row,        \* row[x]: x's FederationFollower row for the peer
  latest,     \* latest[x]: direction of the latest Follow in x's activity log
  consent,    \* consent[x]: x's FederationConsent.federated_profile
  auto,       \* auto[x]: x's FederationConsent.auto_accept_follows
  trust,      \* trust[x]: trust level of the peer's instance at x's
  web,        \* web[x]: a request of x between a message and its row
  mail,       \* the activities under way
  sent,       \* number of activities written or repeated so far
  changes,    \* number of changes of consent or trust so far
  agreed,     \* history: x asked for or accepted the friendship it has now
  answerers,  \* history: the sides that ever accepted a Follow
  calm        \* history: nothing has interfered with the exchange so far

vars == <<row, latest, consent, auto, trust, web, mail, sent, changes,
          agreed, answerers, calm>>
settings == <<consent, auto, trust, changes>>

Kind == {"Follow", "Accept", "Reject", "Undo"}
\* To be written; being delivered by a task, or within a request; logged by the inbox.
Stage == {"due", "wire", "post", "inbox"}
Mail == [id : 1..MaxMail, from : Side, kind : Kind, stage : Stage, try : 1..MaxAttempts]

TypeOK ==
  /\ row \in [Side -> {"none", "pending", "accepted", "rejected"}]
  /\ latest \in [Side -> {"none", "out", "in"}]
  /\ consent \in [Side -> BOOLEAN] /\ auto \in [Side -> BOOLEAN]
  /\ trust \in [Side -> {"blocked", "untrusted", "trusted"}]
  /\ web \in [Side -> {"idle", "rejecting", "rowless", "following"}]
  /\ mail \subseteq Mail
  /\ sent \in 0..MaxMail /\ changes \in 0..MaxChanges
  /\ agreed \in [Side -> BOOLEAN] /\ answerers \subseteq Side
  /\ calm \in BOOLEAN

Init ==
  /\ row = [x \in Side |-> "none"]
  /\ latest = [x \in Side |-> "none"]
  /\ consent \in [Side -> BOOLEAN] /\ auto \in [Side -> BOOLEAN]
  /\ trust = [x \in Side |-> "trusted"]
  /\ web = [x \in Side |-> "idle"]
  /\ mail = {} /\ sent = 0 /\ changes = 0
  /\ agreed = [x \in Side |-> FALSE] /\ answerers = {}
  /\ calm = TRUE

-----------------------------------------------------------------------------
(* Steps shared by the operations. *)

Copies == IF calm THEN MaxMail ELSE MaxUncalm

\* A new activity of x, at a stage; box is what remains of the mail.
Write(x, kind, stage, box) ==
  /\ sent < Copies
  /\ sent' = sent + 1
  /\ mail' = box \cup {[id |-> sent + 1, from |-> x, kind |-> kind, stage |-> stage, try |-> 1]}

\* An earlier operation of x has not got as far as its message, or its row.
Busy(x) == web[x] # "idle" \/ \E m \in mail : m.from = x /\ m.stage = "due"

\* The answer or the withdrawal of an earlier exchange is still under way.
Unsettled(x) ==
  \/ \E y \in Side : web[y] # "idle"
  \/ \E m \in mail : m.from = x \/ m.kind # "Follow"

\* x's row goes, also under a request of x that has read it.
DropRow(x) ==
  /\ row' = [row EXCEPT ![x] = "none"]
  /\ web' = [web EXCEPT ![x] = IF @ = "rejecting" THEN "rowless" ELSE @]
  /\ agreed' = [agreed EXCEPT ![x] = FALSE]

Disturbed(d) == calm' = (calm /\ ~d)

\* The requests and the handlers that leave all of these alone say so.
nothing == <<settings, web, latest>>

-----------------------------------------------------------------------------
(* Requests of the users. *)

\* send_friend_request: a new row, or a rejected one asked about again; the
\* Follow is written after the commit.  A new row opts x in to federation.
SendFriendRequest(x) ==
  /\ trust[x] # "blocked"
  /\ row[x] \in {"none", "rejected"}
  /\ row' = [row EXCEPT ![x] = "pending"]
  /\ consent' = [consent EXCEPT ![x] = @ \/ row[x] = "none"]
  /\ Write(x, "Follow", "due", mail)
  /\ agreed' = [agreed EXCEPT ![x] = TRUE]
  /\ Disturbed(Unsettled(x))
  /\ UNCHANGED <<latest, auto, trust, changes, web, answerers>>

\* Mutant: The direction of the last Follow is not looked at.
AnswerableAny(x) == row[x] # "none"

\* Only a request whose last logged Follow is not x's own can be answered.
\* The row's status is not looked at.
Answerable(x) == row[x] # "none" /\ latest[x] # "out"

\* respond_friend_request, accept: the row is committed, then Accept is written.
RespondAccept(x) ==
  /\ Answerable(x)
  /\ row' = [row EXCEPT ![x] = "accepted"]
  /\ Write(x, "Accept", "wire", mail)
  /\ agreed' = [agreed EXCEPT ![x] = TRUE]
  /\ answerers' = answerers \cup {x}
  /\ Disturbed(Busy(x) \/ row[x] # "pending")
  /\ UNCHANGED nothing

\* respond_friend_request, reject: Reject is written and handed over before
\* the row is deleted.
RespondReject(x) ==
  /\ Answerable(x) /\ web[x] = "idle"
  /\ Write(x, "Reject", "wire", mail)
  /\ web' = [web EXCEPT ![x] = "rejecting"]
  /\ Disturbed(Busy(x) \/ mail # {})
  /\ UNCHANGED <<settings, row, latest, agreed, answerers>>

DeleteRejected(x) ==
  /\ web[x] \in {"rejecting", "rowless"}
  /\ web' = [web EXCEPT ![x] = "idle"]
  /\ IF web[x] = "rejecting"
       THEN /\ row' = [row EXCEPT ![x] = "none"]
            /\ agreed' = [agreed EXCEPT ![x] = FALSE]
       ELSE UNCHANGED <<row, agreed>>
  /\ UNCHANGED <<settings, latest, mail, sent, answerers, calm>>

\* Mutant: Nobody is told that the friend was removed.
RemoveFriendSilently(x) ==
  /\ row[x] # "none"
  /\ DropRow(x)
  /\ Disturbed(Busy(x) \/ mail # {})
  /\ UNCHANGED <<settings, latest, mail, sent, answerers>>

\* remove_friend: unfriend or cancel; Undo is written after the commit.
RemoveFriend(x) ==
  /\ row[x] # "none"
  /\ DropRow(x)
  /\ Write(x, "Undo", "wire", mail)
  /\ Disturbed(Busy(x) \/ mail # {})
  /\ UNCHANGED <<settings, latest, answerers>>

\* POST /follow: the Follow is posted to the remote inbox within the request,
\* whatever the row, the trust and the log say, and is not logged; a row is
\* inserted afterwards if there is none.
FollowRemote(x) ==
  /\ web[x] = "idle"
  /\ Write(x, "Follow", "post", mail)
  /\ web' = [web EXCEPT ![x] = "following"]
  /\ agreed' = [agreed EXCEPT ![x] = TRUE]
  /\ Disturbed(TRUE)
  /\ UNCHANGED <<settings, row, latest, answerers>>

Posts(x) == {m \in mail : m.from = x /\ m.stage = "post"}

FollowRow(x) ==
  /\ web[x] = "following" /\ Posts(x) = {}
  /\ web' = [web EXCEPT ![x] = "idle"]
  /\ row' = [row EXCEPT ![x] = IF @ = "none" THEN "pending" ELSE @]
  /\ UNCHANGED <<settings, latest, mail, sent, agreed, answerers, calm>>

\* A crash of the web process ends x's request where it is; a /follow whose
\* last attempt arrived and got no answer ends like that, too.
CrashWeb(x) ==
  /\ web[x] # "idle"
  /\ web' = [web EXCEPT ![x] = "idle"]
  /\ mail' = mail \ Posts(x)
  /\ Disturbed(TRUE)
  /\ UNCHANGED <<settings, row, latest, sent, agreed, answerers>>

-----------------------------------------------------------------------------
(* The way of an activity. *)

Move(m, stage) == mail' = (mail \ {m}) \cup {[m EXCEPT !.stage = stage]}

\* dispatch_follow and the others: the activity is logged and its delivery
\* queued; a Follow so logged is what Answerable reads.
Dispatch(m) ==
  /\ m.stage = "due"
  /\ Move(m, "wire")
  /\ latest' = [latest EXCEPT ![m.from] = "out"]
  /\ UNCHANGED <<settings, row, web, sent, agreed, answerers, calm>>

\* post_to_inbox: an attempt that gets no answer, or a 5xx, is repeated although
\* it may have arrived; what has arrived and comes again is a copy of its own.
Repeats(m) ==
  /\ m.try < MaxAttempts
  /\ sent < Copies /\ sent' = sent + 1
  /\ mail' = (mail \ {m}) \cup {[m EXCEPT !.stage = "inbox"], [m EXCEPT !.try = @ + 1]}

\* m is logged by the inbox; if the sender does not learn of it, m comes again.
Deliver(m) ==
  /\ m.stage \in {"wire", "post"}
  /\ consent[Peer(m.from)] /\ trust[Peer(m.from)] # "blocked"
  /\ \/ Move(m, "inbox") /\ UNCHANGED sent
     \/ Repeats(m)

\* Mutant: The inbox logs the activity after it has been handled only.
ArriveUnlogged(m) ==
  /\ Deliver(m)
  /\ UNCHANGED <<settings, row, latest, web, agreed, answerers, calm>>

\* receive_inbox: refused unless the addressee has consented and the instance is
\* not blocked (see Lose), logged otherwise, before anything is decided.  What
\* has been logged before is not recognised.
Arrive(m) ==
  /\ Deliver(m)
  /\ latest' = IF m.kind = "Follow" THEN [latest EXCEPT ![Peer(m.from)] = "in"] ELSE latest
  /\ UNCHANGED <<settings, row, web, agreed, answerers, calm>>

\* An earlier attempt has arrived: the peer has m already.
Repeat(m) == m.stage = "wire" /\ m.try > 1

\* A dispatch that fails; a delivery that is refused, or whose attempts are used
\* up; a task that is lost.  A request that posts its Follow itself ends there.
Lose(m) ==
  /\ mail' = mail \ {m}
  /\ web' = IF m.stage = "post" THEN [web EXCEPT ![m.from] = "idle"] ELSE web
  /\ Disturbed(~Repeat(m))
  /\ UNCHANGED <<settings, row, latest, sent, agreed, answerers>>

\* What every handler does with m: takes it off the inbox.
Taken(m, kind) == m.kind = kind /\ m.stage = "inbox"

\* Mutant: A Follow that crosses the own one is taken for an answer.
HandleFollowCross(m) ==
  LET x == Peer(m.from) IN
  /\ Taken(m, "Follow")
  /\ row' = [row EXCEPT ![x] = CASE @ = "pending" -> "accepted"
                                  [] @ = "none" -> "pending"
                                  [] OTHER -> @]
  /\ mail' = mail \ {m}
  /\ UNCHANGED <<nothing, sent, agreed, answerers, calm>>

\* handle_follow.  A rejected actor is ignored, an accepted one is answered
\* again, a pending one is accepted if x's settings now say so.
HandleFollow(m) ==
  LET x == Peer(m.from)
      welcome == consent[x] /\ trust[x] # "blocked"
      accepts == welcome /\ \/ row[x] = "accepted"
                            \/ row[x] # "rejected" /\ auto[x] /\ trust[x] = "trusted" IN
  /\ Taken(m, "Follow")
  /\ row' = [row EXCEPT ![x] = IF accepts THEN "accepted"
                               ELSE IF welcome /\ @ = "none" THEN "pending" ELSE @]
  /\ IF accepts
       THEN /\ Write(x, "Accept", "wire", mail \ {m})
            /\ agreed' = [agreed EXCEPT ![x] = TRUE]
            /\ answerers' = answerers \cup {x}
       ELSE /\ mail' = mail \ {m}
            /\ UNCHANGED <<sent, agreed, answerers>>
  /\ UNCHANGED <<nothing, calm>>

\* handle_accept: any row of the pair becomes accepted.
HandleAccept(m) ==
  LET x == Peer(m.from) IN
  /\ Taken(m, "Accept")
  /\ row' = [row EXCEPT ![x] = IF @ = "none" THEN @ ELSE "accepted"]
  /\ mail' = mail \ {m}
  /\ UNCHANGED <<nothing, sent, agreed, answerers, calm>>

\* handle_reject: any row of the pair becomes rejected, and stays.
HandleReject(m) ==
  LET x == Peer(m.from) IN
  /\ Taken(m, "Reject")
  /\ row' = [row EXCEPT ![x] = IF @ = "none" THEN @ ELSE "rejected"]
  /\ agreed' = [agreed EXCEPT ![x] = FALSE]
  /\ mail' = mail \ {m}
  /\ UNCHANGED <<nothing, sent, answerers, calm>>

\* Mutant: Unfriending marks the row.
HandleUndoMarks(m) ==
  LET x == Peer(m.from) IN
  /\ Taken(m, "Undo")
  /\ row' = [row EXCEPT ![x] = IF @ = "none" THEN @ ELSE "undone"]
  /\ mail' = mail \ {m}
  /\ UNCHANGED <<nothing, sent, agreed, answerers, calm>>

\* handle_undo: any row of the pair is deleted.
HandleUndo(m) ==
  LET x == Peer(m.from) IN
  /\ Taken(m, "Undo")
  /\ DropRow(x)
  /\ mail' = mail \ {m}
  /\ UNCHANGED <<settings, latest, sent, answerers, calm>>

-----------------------------------------------------------------------------
(* Settings: the user's consent, the administrator's trust. *)

Change == changes < MaxChanges /\ changes' = changes + 1 /\ Disturbed(TRUE)

SetConsent(x, profile, accepting) ==
  /\ Change
  /\ consent' = [consent EXCEPT ![x] = profile]
  /\ auto' = [auto EXCEPT ![x] = accepting]
  /\ UNCHANGED <<row, latest, trust, web, mail, sent, agreed, answerers>>

\* update_instance_trust: rows and activities are left alone.
SetTrust(x, level) ==
  /\ Change
  /\ trust' = [trust EXCEPT ![x] = level]
  /\ UNCHANGED <<row, latest, consent, auto, web, mail, sent, agreed, answerers>>

\* delete_federation_instance: the rows go without a word to the peer; the
\* instance is known again, untrusted, at the next activity.
DeleteInstance(x) ==
  /\ Change
  /\ DropRow(x)
  /\ trust' = [trust EXCEPT ![x] = "untrusted"]
  /\ UNCHANGED <<latest, consent, auto, mail, sent, answerers>>

-----------------------------------------------------------------------------
Request(x) ==
  \/ SendFriendRequest(x) \/ RespondAccept(x)
  \/ RespondReject(x) \/ DeleteRejected(x)
  \/ RemoveFriend(x)
  \/ FollowRemote(x) \/ FollowRow(x)
  \/ CrashWeb(x)
Travel(m) ==
  \/ Dispatch(m) \/ Arrive(m) \/ Lose(m)
  \/ HandleFollow(m) \/ HandleAccept(m) \/ HandleReject(m) \/ HandleUndo(m)
Setting(x) ==
  \/ \E p, a \in BOOLEAN : SetConsent(x, p, a)
  \/ \E l \in {"blocked", "untrusted", "trusted"} : SetTrust(x, l)
  \/ DeleteInstance(x)

Next ==
  \/ \E x \in Side : Request(x) \/ Setting(x)
  \/ \E m \in mail : Travel(m)

Spec == Init /\ [][Next]_vars

-----------------------------------------------------------------------------
AtRest == mail = {} /\ \A x \in Side : web[x] = "idle"

\* The exchange is calm as long as no activity is lost, no request comes through
\* POST /follow, no setting changes, each user waits for one operation to end
\* before the next and answers pending rows only, and nobody asks again or
\* withdraws while an activity of an earlier exchange, or a repeat of one, is
\* under way.  Requests that cross, answers that cross a request, activities
\* that overtake one another, and repeats, handled or not, are calm.

\* At rest the two rows of a calm exchange agree on the friendship: remote
\* Accept, Reject and Undo reach every state the other side can be in, and do
\* no harm when they are handled again.
Agreement ==
  AtRest /\ calm => \A x \in Side : row[x] = "accepted" => row[Peer(x)] = "accepted"

\* A request at rest after a calm exchange is known to the peer (or was turned
\* down by it before) and can be answered by one of the two, although each
\* decides from its own log, where crossing Follows have different orders.
RequestsAnswerable ==
  AtRest /\ calm => \A x \in Side : row[x] = "pending" =>
    /\ row[Peer(x)] \in {"pending", "rejected"}
    /\ Answerable(x) \/ Answerable(Peer(x))

\* At every moment of a calm exchange, whoever has a friend has asked for the
\* friendship or accepted it, and has not withdrawn since.
Grounded == calm => \A x \in Side : row[x] = "accepted" => agreed[x]

\* However disturbed the exchange, nobody has a friend before one of the two
\* has accepted a Follow: requests alone, crossing or repeated, make no friends.
Answered == \A x \in Side : row[x] = "accepted" => answerers # {}

=============================================================================
