----------------------- MODULE FederatedFollowProofs -----------------------
(***************************************************************************)
(* Proofs about FederatedFollow: two accounts, any number of activities,   *)
(* losses, overtakings and changes of settings.                            *)
(***************************************************************************)
EXTENDS FederatedFollow, TLAPS

(* An Accept under way means that its sender has accepted.                 *)
AcceptsMeant == \A m \in mail : m.kind = "Accept" => answerers # {}

IInv == TypeOK /\ AcceptsMeant /\ Answered

LEMMA PeerType == \A x \in Side : Peer(x) \in Side /\ Peer(x) # x
  BY SideAssumption DEF Peer

LEMMA InitIInv == Init => IInv
  BY BoundAssumption DEF Init, IInv, TypeOK, AcceptsMeant, Answered

(* What is within the bounds can be counted.                               *)
LEMMA Room ==
  ASSUME TypeOK, sent < Copies, sent' = sent + 1
  PROVE  sent \in 0..MaxMail /\ sent < MaxMail /\ sent' \in 0..MaxMail
<1>1. sent < MaxMail \/ sent < MaxUncalm
    BY DEF Copies
<1>2. sent \in 0..MaxMail
    BY DEF TypeOK
<1> QED
    BY <1>1, <1>2, BoundAssumption

(* A written activity is well formed and counted.                          *)
LEMMA WriteType ==
  ASSUME TypeOK, NEW x \in Side, NEW kind \in Kind, NEW stage \in Stage,
         NEW box \in SUBSET mail, Write(x, kind, stage, box)
  PROVE  /\ mail' \subseteq Mail
         /\ sent' \in 0..MaxMail
         /\ \A m \in mail' : m \in box \/ m.kind = kind
<1>1. sent \in 0..MaxMail /\ sent < MaxMail /\ sent' = sent + 1
    BY Room DEF Write
<1>2. [id |-> sent + 1, from |-> x, kind |-> kind, stage |-> stage, try |-> 1] \in Mail
    BY <1>1, BoundAssumption DEF Mail
<1>3. box \subseteq Mail
    BY DEF TypeOK
<1> QED
    BY <1>1, <1>2, <1>3, BoundAssumption DEF Write

LEMMA MoveType ==
  ASSUME TypeOK, NEW m \in mail, NEW stage \in Stage, Move(m, stage)
  PROVE  /\ mail' \subseteq Mail
         /\ \A o \in mail' : \E n \in mail : o.kind = n.kind
<1>1. m \in Mail /\ mail \subseteq Mail
    BY DEF TypeOK
<1>2. [m EXCEPT !.stage = stage] \in Mail /\ [m EXCEPT !.stage = stage].kind = m.kind
    BY <1>1 DEF Mail
<1> QED
    BY <1>1, <1>2 DEF Move

LEMMA DeliverType ==
  ASSUME TypeOK, NEW m \in mail, Deliver(m)
  PROVE  /\ mail' \subseteq Mail
         /\ sent' \in 0..MaxMail
         /\ \A o \in mail' : \E n \in mail : o.kind = n.kind
<1>1. CASE Move(m, "inbox") /\ UNCHANGED sent
    BY <1>1, MoveType DEF Stage, TypeOK
<1>2. CASE Repeats(m)
  <2> DEFINE here == [m EXCEPT !.stage = "inbox"]
             again == [m EXCEPT !.try = @ + 1]
  <2>1. m \in Mail /\ mail \subseteq Mail
      BY DEF TypeOK
  <2>2. m.try + 1 \in 1..MaxAttempts
      BY <1>2, <2>1, BoundAssumption DEF Repeats, Mail
  <2>3. here \in Mail /\ here.kind = m.kind /\ again \in Mail /\ again.kind = m.kind
      BY <2>1, <2>2 DEF Mail, Stage
  <2>4. mail' = (mail \ {m}) \cup {here, again}
      BY <1>2 DEF Repeats
  <2>5. sent' \in 0..MaxMail
      BY <1>2, Room DEF Repeats
  <2> HIDE DEF here, again
  <2> QED
      BY <2>1, <2>3, <2>4, <2>5
<1> QED
    BY <1>1, <1>2 DEF Deliver

LEMMA DropType ==
  ASSUME TypeOK, NEW x \in Side, DropRow(x)
  PROVE  /\ row' \in [Side -> {"none", "pending", "accepted", "rejected"}]
         /\ web' \in [Side -> {"idle", "rejecting", "rowless", "following"}]
         /\ agreed' \in [Side -> BOOLEAN]
         /\ \A y \in Side : row'[y] = "accepted" => row[y] = "accepted"
  BY DEF TypeOK, DropRow

LEMMA CalmType == ASSUME NEW d, Disturbed(d) PROVE calm' \in BOOLEAN
  BY DEF Disturbed

-----------------------------------------------------------------------------
(* Types, the requests.                                                    *)
LEMMA RequestType == ASSUME TypeOK, NEW x \in Side, Request(x) PROVE TypeOK'
<1>1. CASE SendFriendRequest(x)
  <2>1. mail' \subseteq Mail /\ sent' \in 0..MaxMail
      BY <1>1, WriteType DEF SendFriendRequest, Kind, Stage
  <2>2. calm' \in BOOLEAN
      BY <1>1, CalmType DEF SendFriendRequest
  <2>3. consent' \in [Side -> BOOLEAN]
      BY <1>1 DEF SendFriendRequest, TypeOK
  <2> QED
      BY <1>1, <2>1, <2>2, <2>3 DEF SendFriendRequest, TypeOK
<1>2. CASE RespondAccept(x)
  <2>1. mail' \subseteq Mail /\ sent' \in 0..MaxMail
      BY <1>2, WriteType DEF RespondAccept, Kind, Stage
  <2>2. calm' \in BOOLEAN
      BY <1>2, CalmType DEF RespondAccept
  <2> QED
      BY <1>2, <2>1, <2>2 DEF RespondAccept, TypeOK, nothing, settings
<1>3. CASE RespondReject(x)
  <2>1. mail' \subseteq Mail /\ sent' \in 0..MaxMail
      BY <1>3, WriteType DEF RespondReject, Kind, Stage
  <2>2. calm' \in BOOLEAN
      BY <1>3, CalmType DEF RespondReject
  <2> QED
      BY <1>3, <2>1, <2>2 DEF RespondReject, TypeOK, settings
<1>4. CASE DeleteRejected(x)
    BY <1>4 DEF DeleteRejected, TypeOK, settings
<1>5. CASE RemoveFriend(x)
  <2>1. mail' \subseteq Mail /\ sent' \in 0..MaxMail
      BY <1>5, WriteType DEF RemoveFriend, Kind, Stage
  <2>2. calm' \in BOOLEAN
      BY <1>5, CalmType DEF RemoveFriend
  <2>3. /\ row' \in [Side -> {"none", "pending", "accepted", "rejected"}]
        /\ web' \in [Side -> {"idle", "rejecting", "rowless", "following"}]
        /\ agreed' \in [Side -> BOOLEAN]
      BY <1>5, DropType DEF RemoveFriend
  <2> QED
      BY <1>5, <2>1, <2>2, <2>3 DEF RemoveFriend, TypeOK, settings
<1>6. CASE FollowRemote(x)
  <2>1. mail' \subseteq Mail /\ sent' \in 0..MaxMail
      BY <1>6, WriteType DEF FollowRemote, Kind, Stage
  <2>2. calm' \in BOOLEAN
      BY <1>6, CalmType DEF FollowRemote
  <2> QED
      BY <1>6, <2>1, <2>2 DEF FollowRemote, TypeOK, settings
<1>7. CASE FollowRow(x)
    BY <1>7 DEF FollowRow, TypeOK, settings
<1>8. CASE CrashWeb(x)
  <2>1. calm' \in BOOLEAN /\ mail' \subseteq mail
      BY <1>8, CalmType DEF CrashWeb
  <2> QED
      BY <1>8, <2>1 DEF CrashWeb, TypeOK, settings
<1> QED
    BY <1>1, <1>2, <1>3, <1>4, <1>5, <1>6, <1>7, <1>8 DEF Request

(* Types, the activities.                                                  *)
LEMMA TravelType == ASSUME TypeOK, NEW m \in mail, Travel(m) PROVE TypeOK'
<1>0. /\ m.from \in Side /\ Peer(m.from) \in Side
      /\ mail \ {m} \subseteq mail /\ mail \ {m} \subseteq Mail
    BY PeerType DEF TypeOK, Mail
<1>1. CASE Dispatch(m)
  <2>1. mail' \subseteq Mail
      BY <1>1, MoveType DEF Dispatch, Stage
  <2> QED
      BY <1>0, <1>1, <2>1 DEF Dispatch, TypeOK, settings
<1>2. CASE Arrive(m)
  <2>1. mail' \subseteq Mail /\ sent' \in 0..MaxMail
      BY <1>2, DeliverType DEF Arrive
  <2> QED
      BY <1>0, <1>2, <2>1 DEF Arrive, TypeOK, settings
<1>3. CASE Lose(m)
  <2>1. calm' \in BOOLEAN
      BY <1>3, CalmType DEF Lose
  <2> QED
      BY <1>0, <1>3, <2>1 DEF Lose, TypeOK, settings
<1>4. CASE HandleFollow(m)
  <2>1. mail' \subseteq Mail /\ sent' \in 0..MaxMail
      BY <1>0, <1>4, WriteType DEF HandleFollow, Kind, Stage, TypeOK
  <2>3. row' \in [Side -> {"none", "pending", "accepted", "rejected"}]
      BY <1>0, <1>4 DEF HandleFollow, TypeOK
  <2>4. agreed' \in [Side -> BOOLEAN] /\ answerers' \subseteq Side
    <3>1. /\ agreed \in [Side -> BOOLEAN] /\ answerers \subseteq Side
          /\ \A x : [agreed EXCEPT ![x] = TRUE] \in [Side -> BOOLEAN]
        BY <1>0 DEF TypeOK
    <3>2. \/ agreed' = agreed /\ answerers' = answerers
          \/ /\ agreed' = [agreed EXCEPT ![Peer(m.from)] = TRUE]
             /\ answerers' = answerers \cup {Peer(m.from)}
        BY <1>4 DEF HandleFollow
    <3> QED
        BY <1>0, <3>1, <3>2
  <2> QED
      BY <1>4, <2>1, <2>3, <2>4 DEF HandleFollow, TypeOK, settings, nothing
<1>5. CASE HandleAccept(m)
    BY <1>0, <1>5 DEF HandleAccept, TypeOK, settings, nothing
<1>6. CASE HandleReject(m)
    BY <1>0, <1>6 DEF HandleReject, TypeOK, settings, nothing
<1>7. CASE HandleUndo(m)
  <2>2. /\ row' \in [Side -> {"none", "pending", "accepted", "rejected"}]
        /\ web' \in [Side -> {"idle", "rejecting", "rowless", "following"}]
        /\ agreed' \in [Side -> BOOLEAN]
      BY <1>0, <1>7, DropType DEF HandleUndo
  <2> QED
      BY <1>0, <1>7, <2>2 DEF HandleUndo, TypeOK, settings
<1> QED
    BY <1>1, <1>2, <1>3, <1>4, <1>5, <1>6, <1>7 DEF Travel

(* Types, the settings.                                                    *)
LEMMA SettingType == ASSUME TypeOK, NEW x \in Side, Setting(x) PROVE TypeOK'
<1>1. ASSUME Change PROVE changes' \in 0..MaxChanges
  <2>1. changes \in 0..MaxChanges /\ changes < MaxChanges /\ changes' = changes + 1
      BY <1>1 DEF Change, TypeOK
  <2> QED
      BY <2>1, BoundAssumption
<1>2. ASSUME Change PROVE calm' \in BOOLEAN
    BY <1>2, CalmType DEF Change
<1>3. ASSUME NEW p \in BOOLEAN, NEW a \in BOOLEAN, SetConsent(x, p, a) PROVE TypeOK'
  <2>1. changes' \in 0..MaxChanges /\ calm' \in BOOLEAN
      BY <1>1, <1>2, <1>3 DEF SetConsent
  <2> QED
      BY <1>3, <2>1 DEF SetConsent, TypeOK
<1>4. ASSUME NEW l \in {"blocked", "untrusted", "trusted"}, SetTrust(x, l) PROVE TypeOK'
  <2>1. changes' \in 0..MaxChanges /\ calm' \in BOOLEAN
      BY <1>1, <1>2, <1>4 DEF SetTrust
  <2> QED
      BY <1>4, <2>1 DEF SetTrust, TypeOK
<1>5. CASE DeleteInstance(x)
  <2>1. changes' \in 0..MaxChanges /\ calm' \in BOOLEAN
      BY <1>1, <1>2, <1>5 DEF DeleteInstance
  <2>2. /\ row' \in [Side -> {"none", "pending", "accepted", "rejected"}]
        /\ web' \in [Side -> {"idle", "rejecting", "rowless", "following"}]
        /\ agreed' \in [Side -> BOOLEAN]
      BY <1>5, DropType DEF DeleteInstance
  <2> QED
      BY <1>5, <2>1, <2>2 DEF DeleteInstance, TypeOK
<1> QED
    BY <1>3, <1>4, <1>5 DEF Setting

LEMMA StepType == TypeOK /\ [Next]_vars => TypeOK'
<1>1. TypeOK /\ UNCHANGED vars => TypeOK'
    BY DEF TypeOK, vars
<1> QED
    BY <1>1, RequestType, TravelType, SettingType DEF Next

-----------------------------------------------------------------------------
(* Friends and Accepts come from an answer.                                *)
LEMMA StepAnswered == IInv /\ [Next]_vars => AcceptsMeant' /\ Answered'
<1> SUFFICES ASSUME IInv, [Next]_vars PROVE AcceptsMeant' /\ Answered'
    OBVIOUS
<1>0. TypeOK /\ AcceptsMeant /\ Answered
    BY DEF IInv
<1>a. ASSUME answerers' = answerers,
             \A o \in mail' : o.kind = "Accept" => \E n \in mail : n.kind = "Accept",
             \A y \in Side : row'[y] = "accepted" =>
               row[y] = "accepted" \/ \E n \in mail : n.kind = "Accept"
      PROVE  AcceptsMeant' /\ Answered'
    BY <1>0, <1>a DEF AcceptsMeant, Answered
<1>b. ASSUME answerers' # {} PROVE AcceptsMeant' /\ Answered'
    BY <1>b DEF AcceptsMeant, Answered
<1>1. ASSUME NEW x \in Side, Request(x) PROVE AcceptsMeant' /\ Answered'
  <2>1. CASE SendFriendRequest(x)
    <3>1. \A o \in mail' : o \in mail \/ o.kind = "Follow"
        BY <1>0, <2>1, WriteType DEF SendFriendRequest, Kind, Stage
    <3> QED
        BY <1>0, <1>a, <2>1, <3>1 DEF SendFriendRequest, TypeOK
  <2>2. CASE RespondAccept(x)
      BY <1>b, <2>2 DEF RespondAccept
  <2>3. CASE RespondReject(x)
    <3>1. \A o \in mail' : o \in mail \/ o.kind = "Reject"
        BY <1>0, <2>3, WriteType DEF RespondReject, Kind, Stage
    <3> QED
        BY <1>a, <2>3, <3>1 DEF RespondReject
  <2>4. CASE DeleteRejected(x)
      BY <1>0, <1>a, <2>4 DEF DeleteRejected, TypeOK
  <2>5. CASE RemoveFriend(x)
    <3>1. \A o \in mail' : o \in mail \/ o.kind = "Undo"
        BY <1>0, <2>5, WriteType DEF RemoveFriend, Kind, Stage
    <3> QED
        BY <1>0, <1>a, <2>5, <3>1, DropType DEF RemoveFriend
  <2>6. CASE FollowRemote(x)
    <3>1. \A o \in mail' : o \in mail \/ o.kind = "Follow"
        BY <1>0, <2>6, WriteType DEF FollowRemote, Kind, Stage
    <3> QED
        BY <1>a, <2>6, <3>1 DEF FollowRemote
  <2>7. CASE FollowRow(x)
      BY <1>0, <1>a, <2>7 DEF FollowRow, TypeOK
  <2>8. CASE CrashWeb(x)
    <3>1. mail' \subseteq mail
        BY <2>8 DEF CrashWeb
    <3> QED
        BY <1>a, <2>8, <3>1 DEF CrashWeb
  <2> QED
      BY <1>1, <2>1, <2>2, <2>3, <2>4, <2>5, <2>6, <2>7, <2>8 DEF Request
<1>2. ASSUME NEW m \in mail, Travel(m) PROVE AcceptsMeant' /\ Answered'
  <2>0. Peer(m.from) \in Side
      BY <1>0, PeerType DEF TypeOK, Mail
  <2>1. CASE Dispatch(m)
      BY <1>0, <1>a, <2>1, MoveType DEF Dispatch, Stage
  <2>2. CASE Arrive(m)
      BY <1>0, <1>a, <2>2, DeliverType DEF Arrive
  <2>3. CASE Lose(m)
      BY <1>a, <2>3 DEF Lose
  <2>4. CASE HandleFollow(m)
    <3>1. CASE answerers' = answerers \cup {Peer(m.from)}
        BY <1>b, <3>1
    <3>2. CASE answerers' = answerers /\ mail' = mail \ {m} /\ row'[Peer(m.from)] # "accepted"
        BY <1>0, <1>a, <2>0, <2>4, <3>2 DEF HandleFollow, TypeOK
    <3>3. CASE answerers' = answerers /\ mail' = mail \ {m} /\ row' = row
        BY <1>a, <3>3
    <3> QED
        BY <1>0, <2>0, <2>4, <3>1, <3>2, <3>3 DEF HandleFollow, TypeOK
  <2>5. CASE HandleAccept(m)
      BY <1>0, <1>a, <2>0, <2>5 DEF HandleAccept, Taken, TypeOK
  <2>6. CASE HandleReject(m)
      BY <1>0, <1>a, <2>0, <2>6 DEF HandleReject, TypeOK
  <2>7. CASE HandleUndo(m)
      BY <1>0, <1>a, <2>0, <2>7, DropType DEF HandleUndo
  <2> QED
      BY <1>2, <2>1, <2>2, <2>3, <2>4, <2>5, <2>6, <2>7 DEF Travel
<1>3. ASSUME NEW x \in Side, Setting(x) PROVE AcceptsMeant' /\ Answered'
  <2>1. answerers' = answerers /\ mail' = mail
      BY <1>3 DEF Setting, SetConsent, SetTrust, DeleteInstance
  <2>2. row' = row \/ DropRow(x)
      BY <1>3 DEF Setting, SetConsent, SetTrust, DeleteInstance
  <2> QED
      BY <1>0, <1>a, <2>1, <2>2, DropType
<1>4. CASE UNCHANGED vars
    BY <1>a, <1>4 DEF vars
<1> QED
    BY <1>1, <1>2, <1>3, <1>4 DEF Next

LEMMA Invariance == Spec => []IInv
<1>1. IInv /\ [Next]_vars => IInv'
    BY StepType, StepAnswered DEF IInv
<1> QED
    BY <1>1, InitIInv, PTL DEF Spec

-----------------------------------------------------------------------------
(* The calm exchange: x and y are the two sides, and what is under way is  *)
(* told apart by sender and kind.                                          *)
Box == {<<m.from, m.kind>> : m \in mail}

(* What is still to come, and not only once more: a repeat may be lost.    *)
Fresh == {<<m.from, m.kind>> : m \in {o \in mail : ~Repeat(o)}}

(* Who waits for the answer to a request stands by it; nothing that ends   *)
(* an exchange is under way together with a request.                       *)
Requested(x, y) ==
  <<x, "Follow">> \in Box =>
    /\ row[x] \in {"pending", "accepted"} /\ agreed[x]
    /\ web[x] = "idle" /\ web[y] = "idle"
    /\ <<x, "Undo">> \notin Box /\ <<x, "Reject">> \notin Box
    /\ <<y, "Undo">> \notin Box /\ <<y, "Reject">> \notin Box

(* Whoever ends an exchange has no answer under way, and no row, or soon.  *)
Ended(x, y) ==
  /\ <<x, "Undo">> \in Box \/ <<x, "Reject">> \in Box => <<x, "Accept">> \notin Box
  /\ <<x, "Undo">> \in Box => row[x] = "none"
  /\ <<x, "Reject">> \in Box => row[x] = "none" \/ web[x] = "rejecting"
  /\ web[x] \in {"idle", "rejecting", "rowless"}
  /\ web[x] = "rowless" => row[x] = "none"
  /\ web[x] # "idle" =>
       /\ <<x, "Accept">> \notin Box
       /\ <<x, "Reject">> \in Fresh \/ row[y] \in {"none", "rejected"}

(* Where the rows disagree, what will make them agree is under way.        *)
Mended(x, y) ==
  /\ row[x] = "accepted" /\ row[y] # "accepted" =>
       \/ <<y, "Undo">> \in Fresh \/ <<y, "Reject">> \in Fresh
       \/ web[x] = "rejecting"
       \/ row[y] # "none" /\ <<x, "Accept">> \in Fresh
  /\ row[x] = "pending" /\ row[y] = "none" =>
       <<y, "Undo">> \in Fresh \/ <<y, "Reject">> \in Fresh \/ <<x, "Follow">> \in Fresh

(* An answer that no longer holds finds no row, or one that is to go.      *)
Void(x, y) ==
  <<x, "Accept">> \in Box /\ row[x] # "accepted" =>
    row[x] # "pending" /\ (row[y] = "none" \/ web[y] = "rejecting")

(* An answer, given or possible, is to someone who agreed.                 *)
Meant(x, y) ==
  /\ row[x] = "accepted" => agreed[x]
  /\ <<x, "Accept">> \in Box /\ row[y] # "none" => agreed[y]
  /\ row[x] = "pending" /\ latest[x] # "out" /\ ~Busy(x) /\ row[y] # "none" => agreed[y]

(* What has been logged: a request that was sent and has created no row    *)
(* yet is x's latest; when the latest of both is their own, one is on its  *)
(* way.                                                                    *)
Logged(x, y) ==
  /\ \A m \in mail : m.from = x /\ m.kind = "Follow" /\ m.stage # "due" /\ row[y] = "none"
       => latest[x] = "out"
  /\ latest[x] = "out" /\ latest[y] = "out" =>
       \E m \in mail : m.kind = "Follow" /\ m.stage = "wire" /\ m.try = 1

(* What came through has been let in; the administrators leave the         *)
(* instances trusted.                                                      *)
Admitted(x, y) ==
  /\ \A m \in mail : m.from = x /\ m.stage = "inbox" => consent[y]
  /\ trust[x] = "trusted"

Linked(x, y) ==
  /\ Requested(x, y) /\ Ended(x, y) /\ Mended(x, y) /\ Void(x, y)
  /\ Meant(x, y) /\ Logged(x, y) /\ Admitted(x, y)

OnlyFollowsDue == \A m \in mail : m.stage = "due" => m.kind = "Follow" /\ m.try = 1

CalmInv ==
  calm => OnlyFollowsDue /\ \A x, y \in Side : x # y => Linked(x, y)

-----------------------------------------------------------------------------
LEMMA TwoSides ==
  ASSUME NEW x \in Side, NEW y \in Side, x # y
  PROVE  Side = {x, y} /\ Peer(x) = y /\ Peer(y) = x
<1>1. PICK a \in Side : \E b \in Side \ {a} : Side = {a, b}
    BY SideAssumption
<1>2. Side = {x, y}
    BY <1>1
<1> QED
    BY <1>2, PeerType

LEMMA FreshBox == Fresh \subseteq Box
  BY DEF Fresh, Box

(* How the steps of an activity change the box. *)
LEMMA BoxWrite ==
  ASSUME NEW x, NEW kind, NEW stage, Write(x, kind, stage, mail)
  PROVE  Box' = Box \cup {<<x, kind>>} /\ Fresh' = Fresh \cup {<<x, kind>>}
<1> DEFINE n == [id |-> sent + 1, from |-> x, kind |-> kind, stage |-> stage, try |-> 1]
<1>1. mail' = mail \cup {n}
    BY DEF Write
<1>2. n.from = x /\ n.kind = kind /\ ~Repeat(n)
    BY DEF Repeat
<1> HIDE DEF n
<1>3. Box' = Box \cup {<<x, kind>>}
    BY <1>1, <1>2, Zenon DEF Box
<1>4. {o \in mail' : ~Repeat(o)} = {o \in mail : ~Repeat(o)} \cup {n}
    BY <1>1, <1>2
<1>5. Fresh' = {<<m.from, m.kind>> : m \in {o \in mail' : ~Repeat(o)}}
    BY DEF Fresh, Repeat
<1>6. Fresh' = Fresh \cup {<<x, kind>>}
    BY <1>2, <1>4, <1>5, Zenon DEF Fresh
<1> QED
    BY <1>3, <1>6

(* An activity goes on as it is, and may come again.                       *)
LEMMA BoxPass ==
  ASSUME NEW m \in mail, NEW n, NEW again,
         n.from = m.from, n.kind = m.kind, ~Repeat(n),
         \A o \in again : o.from = m.from /\ o.kind = m.kind,
         mail' = (mail \ {m}) \cup {n} \cup again
  PROVE  Box' = Box /\ Fresh \subseteq Fresh'
<1>1. Box' = Box
    BY Zenon DEF Box
<1>2. ASSUME NEW b \in Fresh PROVE b \in Fresh'
  <2>1. PICK o \in mail : ~Repeat(o) /\ b = <<o.from, o.kind>>
      BY DEF Fresh
  <2>2. CASE o = m
      BY <2>1, <2>2 DEF Fresh, Repeat
  <2>3. CASE o # m
      BY <2>1, <2>3 DEF Fresh, Repeat
  <2> QED
      BY <2>2, <2>3
<1> QED
    BY <1>1, <1>2

LEMMA BoxDispatch ==
  ASSUME TypeOK, NEW m \in mail, m.try = 1, Move(m, "wire")
  PROVE  Box' = Box /\ Fresh \subseteq Fresh'
<1> DEFINE n == [m EXCEPT !.stage = "wire"]
           again == {}
<1>1. n.from = m.from /\ n.kind = m.kind /\ ~Repeat(n)
    BY DEF TypeOK, Mail, Repeat
<1>2. mail' = (mail \ {m}) \cup {n} \cup again
    BY DEF Move
<1>3. \A o \in again : o.from = m.from /\ o.kind = m.kind
    OBVIOUS
<1> HIDE DEF n, again
<1> QED
    BY <1>1, <1>2, <1>3, BoxPass

(* An arrival: the activity is in the inbox, and perhaps on the wire again. *)
LEMMA Delivered ==
  ASSUME TypeOK, NEW m \in mail, Deliver(m)
  PROVE  \E n, again :
           /\ n.from = m.from /\ n.kind = m.kind /\ n.stage = "inbox"
           /\ \A o \in again : /\ o.from = m.from /\ o.kind = m.kind
                              /\ o.stage = m.stage
           /\ mail' = (mail \ {m}) \cup {n} \cup again
<1> DEFINE n == [m EXCEPT !.stage = "inbox"]
           again == [m EXCEPT !.try = @ + 1]
<1>1. n.from = m.from /\ n.kind = m.kind /\ n.stage = "inbox"
    BY DEF TypeOK, Mail
<1>2. again.from = m.from /\ again.kind = m.kind /\ again.stage = m.stage
    BY DEF TypeOK, Mail
<1>3. mail' = (mail \ {m}) \cup {n} \cup {} \/ mail' = (mail \ {m}) \cup {n} \cup {again}
    BY DEF Deliver, Move, Repeats
<1> HIDE DEF n, again
<1> QED
    BY <1>1, <1>2, <1>3

LEMMA BoxTake ==
  ASSUME NEW m \in mail, mail' = mail \ {m}
  PROVE  /\ Box' \subseteq Box
         /\ Fresh \ {<<m.from, m.kind>>} \subseteq Fresh'
         /\ <<m.from, m.kind>> \in Box
<1>1. Box' \subseteq Box /\ <<m.from, m.kind>> \in Box
    BY DEF Box
<1>2. ASSUME NEW b \in Fresh, b # <<m.from, m.kind>> PROVE b \in Fresh'
  <2>1. PICK o \in mail : ~Repeat(o) /\ b = <<o.from, o.kind>>
      BY DEF Fresh
  <2> QED
      BY <1>2, <2>1 DEF Fresh, Repeat
<1> QED
    BY <1>1, <1>2

LEMMA BoxAnswer ==
  ASSUME NEW m \in mail, NEW x, NEW kind, NEW stage, Write(x, kind, stage, mail \ {m})
  PROVE  /\ Box' \subseteq Box \cup {<<x, kind>>}
         /\ (Fresh \ {<<m.from, m.kind>>}) \cup {<<x, kind>>} \subseteq Fresh'
         /\ <<m.from, m.kind>> \in Box
<1> DEFINE n == [id |-> sent + 1, from |-> x, kind |-> kind, stage |-> stage, try |-> 1]
<1>1. mail' = (mail \ {m}) \cup {n}
    BY DEF Write
<1>2. n.from = x /\ n.kind = kind /\ ~Repeat(n)
    BY DEF Repeat
<1> HIDE DEF n
<1>3. Box' \subseteq Box \cup {<<x, kind>>} /\ <<m.from, m.kind>> \in Box
    BY <1>1, <1>2, Zenon DEF Box
<1>4. <<x, kind>> \in Fresh'
    BY <1>1, <1>2 DEF Fresh, Repeat
<1>5. Fresh \ {<<m.from, m.kind>>} \subseteq Fresh'
    BY <1>1 DEF Fresh, Repeat
<1> QED
    BY <1>3, <1>4, <1>5

(* What a calm pair of sides has in common with its successor. *)
LEMMA CalmSend ==
  ASSUME TypeOK, CalmInv, NEW x \in Side, NEW y \in Side, x # y,
         SendFriendRequest(x), calm'
  PROVE  OnlyFollowsDue' /\ Linked(x, y)' /\ Linked(y, x)'
<1> DEFINE n == [id |-> sent + 1, from |-> x, kind |-> "Follow", stage |-> "due", try |-> 1]
<1>1. Side = {x, y}
    BY TwoSides
<1>2. calm /\ ~Unsettled(x)
    BY DEF SendFriendRequest, Disturbed
<1>3. Linked(x, y) /\ Linked(y, x) /\ OnlyFollowsDue
    BY <1>2 DEF CalmInv
<1>4. /\ web[x] = "idle" /\ web[y] = "idle"
      /\ \A m \in mail : m.from = y /\ m.kind = "Follow"
    BY <1>1, <1>2 DEF Unsettled, TypeOK, Mail
<1>5. Box \subseteq {<<y, "Follow">>} /\ Fresh \subseteq Box
    BY <1>4, FreshBox DEF Box
<1>6. Box' = Box \cup {<<x, "Follow">>} /\ Fresh' = Fresh \cup {<<x, "Follow">>}
    BY BoxWrite DEF SendFriendRequest
<1>7. mail' = mail \cup {n} /\ n.stage = "due" /\ n.from = x /\ n.kind = "Follow" /\ n.try = 1
    BY DEF SendFriendRequest, Write
<1>8. /\ row[x] \in {"none", "rejected"} /\ row' = [row EXCEPT ![x] = "pending"]
      /\ agreed' = [agreed EXCEPT ![x] = TRUE]
      /\ web' = web /\ latest' = latest /\ trust' = trust
      /\ \A z \in Side : consent[z] => consent'[z]
    BY DEF SendFriendRequest, TypeOK
<1>9. Busy(x)' /\ (~Busy(y)' => ~Busy(y))
    BY <1>7, <1>8 DEF Busy
<1> HIDE DEF n
<1>10. Requested(x, y)' /\ Requested(y, x)'
    BY <1>3, <1>4, <1>5, <1>6, <1>8 DEF TypeOK, Linked, Requested
<1>11. Ended(x, y)' /\ Ended(y, x)'
    BY <1>3, <1>4, <1>5, <1>6, <1>8 DEF TypeOK, Linked, Ended
<1>12. Mended(x, y)' /\ Mended(y, x)'
    BY <1>3, <1>4, <1>5, <1>6, <1>8 DEF TypeOK, Linked, Mended
<1>13. Void(x, y)' /\ Void(y, x)'
    BY <1>3, <1>4, <1>5, <1>6, <1>8 DEF TypeOK, Linked, Void
<1>14. Meant(x, y)' /\ Meant(y, x)'
    BY <1>3, <1>4, <1>5, <1>6, <1>8, <1>9 DEF TypeOK, Linked, Meant
<1>15. Logged(x, y)' /\ Logged(y, x)'
    BY <1>3, <1>4, <1>7, <1>8 DEF TypeOK, Linked, Logged
<1>16. Admitted(x, y)' /\ Admitted(y, x)'
    BY <1>3, <1>4, <1>7, <1>8 DEF TypeOK, Linked, Admitted
<1>17. OnlyFollowsDue'
    BY <1>3, <1>7 DEF OnlyFollowsDue
<1> QED
    BY <1>10, <1>11, <1>12, <1>13, <1>14, <1>15, <1>16, <1>17 DEF Linked

LEMMA CalmAccept ==
  ASSUME TypeOK, CalmInv, NEW x \in Side, NEW y \in Side, x # y,
         RespondAccept(x), calm'
  PROVE  OnlyFollowsDue' /\ Linked(x, y)' /\ Linked(y, x)'
<1> DEFINE n == [id |-> sent + 1, from |-> x, kind |-> "Accept", stage |-> "wire", try |-> 1]
<1>1. calm /\ ~Busy(x) /\ row[x] = "pending" /\ latest[x] # "out"
    BY DEF RespondAccept, Disturbed, Answerable
<1>2. Linked(x, y) /\ Linked(y, x) /\ OnlyFollowsDue
    BY <1>1 DEF CalmInv
<1>3. /\ row' = [row EXCEPT ![x] = "accepted"]
      /\ agreed' = [agreed EXCEPT ![x] = TRUE]
      /\ web' = web /\ latest' = latest /\ trust' = trust /\ consent' = consent
    BY DEF RespondAccept, nothing, settings
<1>4. /\ Box' = Box \cup {<<x, "Accept">>} /\ Fresh' = Fresh \cup {<<x, "Accept">>}
      /\ Fresh \subseteq Box
    BY BoxWrite, FreshBox DEF RespondAccept
<1>5. mail' = mail \cup {n} /\ n.stage = "wire" /\ n.from = x /\ n.kind = "Accept"
    BY DEF RespondAccept, Write
<1>6. Busy(y)' <=> Busy(y)
    BY <1>3, <1>5 DEF Busy
<1>7. web[x] = "idle" /\ \A m \in mail : m.from = x => m.stage # "due"
    BY <1>1 DEF Busy
<1>8. row[y] = "none" => <<x, "Follow">> \notin Box
    BY <1>1, <1>2, <1>7 DEF Linked, Logged, Box
<1> HIDE DEF n
<1>10. Requested(x, y)' /\ Requested(y, x)'
    BY <1>1, <1>2, <1>3, <1>4 DEF TypeOK, Linked, Requested
<1>11. Ended(x, y)' /\ Ended(y, x)'
    BY <1>1, <1>2, <1>3, <1>4, <1>7 DEF TypeOK, Linked, Ended
<1>12. Mended(x, y)' /\ Mended(y, x)'
    BY <1>1, <1>2, <1>3, <1>4, <1>8 DEF TypeOK, Linked, Mended
<1>13. Void(x, y)' /\ Void(y, x)'
    BY <1>1, <1>2, <1>3, <1>4, <1>7 DEF TypeOK, Linked, Void
<1>14. Meant(x, y)' /\ Meant(y, x)'
    BY <1>1, <1>2, <1>3, <1>4, <1>6 DEF TypeOK, Linked, Meant
<1>15. Logged(x, y)' /\ Logged(y, x)'
    BY <1>1, <1>2, <1>3, <1>5 DEF TypeOK, Linked, Logged
<1>16. Admitted(x, y)' /\ Admitted(y, x)'
    BY <1>2, <1>3, <1>5 DEF TypeOK, Linked, Admitted
<1>17. OnlyFollowsDue'
    BY <1>2, <1>5 DEF OnlyFollowsDue
<1> QED
    BY <1>10, <1>11, <1>12, <1>13, <1>14, <1>15, <1>16, <1>17 DEF Linked

LEMMA CalmReject ==
  ASSUME TypeOK, CalmInv, NEW x \in Side, NEW y \in Side, x # y,
         RespondReject(x), calm'
  PROVE  OnlyFollowsDue' /\ Linked(x, y)' /\ Linked(y, x)'
<1> DEFINE n == [id |-> sent + 1, from |-> x, kind |-> "Reject", stage |-> "wire", try |-> 1]
<1>1. calm /\ mail = {} /\ row[x] # "none"
    BY DEF RespondReject, Disturbed, Answerable
<1>2. Linked(x, y) /\ Linked(y, x) /\ OnlyFollowsDue
    BY <1>1 DEF CalmInv
<1>3. /\ web' = [web EXCEPT ![x] = "rejecting"] /\ web[x] = "idle"
      /\ row' = row /\ agreed' = agreed
      /\ latest' = latest /\ trust' = trust /\ consent' = consent
    BY DEF RespondReject, settings
<1>4. Box = {} /\ Fresh = {} /\ Box' = {<<x, "Reject">>} /\ Fresh' = {<<x, "Reject">>}
  <2>1. Box = {} /\ Fresh = {}
      BY <1>1, FreshBox DEF Box
  <2> QED
      BY <2>1, BoxWrite DEF RespondReject
<1>5. mail' = {n} /\ n.stage = "wire" /\ n.from = x /\ n.kind = "Reject"
    BY <1>1 DEF RespondReject, Write
<1>6. Busy(x)' /\ (Busy(y)' <=> Busy(y))
    BY <1>1, <1>3, <1>5 DEF Busy, TypeOK
<1> HIDE DEF n
<1>10. Requested(x, y)' /\ Requested(y, x)'
    BY <1>2, <1>3, <1>4 DEF TypeOK, Linked, Requested
<1>11. Ended(x, y)' /\ Ended(y, x)'
    BY <1>2, <1>3, <1>4 DEF TypeOK, Linked, Ended
<1>12. Mended(x, y)' /\ Mended(y, x)'
    BY <1>2, <1>3, <1>4 DEF TypeOK, Linked, Mended
<1>13. Void(x, y)' /\ Void(y, x)'
    BY <1>2, <1>3, <1>4 DEF TypeOK, Linked, Void
<1>14. Meant(x, y)' /\ Meant(y, x)'
    BY <1>2, <1>3, <1>4, <1>6 DEF TypeOK, Linked, Meant
<1>15. Logged(x, y)' /\ Logged(y, x)'
    BY <1>1, <1>2, <1>3, <1>5 DEF TypeOK, Linked, Logged
<1>16. Admitted(x, y)' /\ Admitted(y, x)'
    BY <1>2, <1>3, <1>5 DEF TypeOK, Linked, Admitted
<1>17. OnlyFollowsDue'
    BY <1>5 DEF OnlyFollowsDue
<1> QED
    BY <1>10, <1>11, <1>12, <1>13, <1>14, <1>15, <1>16, <1>17 DEF Linked

LEMMA CalmDelete ==
  ASSUME TypeOK, CalmInv, NEW x \in Side, NEW y \in Side, x # y,
         DeleteRejected(x), calm'
  PROVE  OnlyFollowsDue' /\ Linked(x, y)' /\ Linked(y, x)'
<1>1. calm /\ web[x] \in {"rejecting", "rowless"}
    BY DEF DeleteRejected
<1>2. Linked(x, y) /\ Linked(y, x) /\ OnlyFollowsDue
    BY <1>1 DEF CalmInv
<1>3. /\ web' = [web EXCEPT ![x] = "idle"]
      /\ row' = [row EXCEPT ![x] = "none"]
      /\ agreed'[y] = agreed[y] /\ agreed' \in [Side -> BOOLEAN]
      /\ latest' = latest /\ trust' = trust /\ consent' = consent /\ mail' = mail
    BY <1>1, <1>2 DEF DeleteRejected, settings, TypeOK, Linked, Ended
<1>4. Box' = Box /\ Fresh' = Fresh
    BY <1>3 DEF Box, Fresh, Repeat
<1>6. Busy(y)' <=> Busy(y)
    BY <1>3 DEF Busy, TypeOK
<1>10. Requested(x, y)' /\ Requested(y, x)'
    BY <1>1, <1>2, <1>3, <1>4 DEF TypeOK, Linked, Requested
<1>11. Ended(x, y)' /\ Ended(y, x)'
    BY <1>1, <1>2, <1>3, <1>4 DEF TypeOK, Linked, Ended
<1>12. Mended(x, y)' /\ Mended(y, x)'
    BY <1>1, <1>2, <1>3, <1>4 DEF TypeOK, Linked, Mended, Ended
<1>13. Void(x, y)' /\ Void(y, x)'
    BY <1>1, <1>2, <1>3, <1>4 DEF TypeOK, Linked, Void, Ended
<1>14. Meant(x, y)' /\ Meant(y, x)'
    BY <1>1, <1>2, <1>3, <1>4, <1>6 DEF TypeOK, Linked, Meant
<1>15. Logged(x, y)' /\ Logged(y, x)'
  <2>1. \A m \in mail : ~(m.from = y /\ m.kind = "Follow")
      BY <1>1, <1>2 DEF Linked, Requested, Box
  <2> QED
      BY <1>2, <1>3, <2>1 DEF TypeOK, Linked, Logged
<1>16. Admitted(x, y)' /\ Admitted(y, x)'
    BY <1>2, <1>3 DEF TypeOK, Linked, Admitted
<1>17. OnlyFollowsDue'
    BY <1>2, <1>3 DEF OnlyFollowsDue
<1> QED
    BY <1>10, <1>11, <1>12, <1>13, <1>14, <1>15, <1>16, <1>17 DEF Linked

LEMMA CalmRemove ==
  ASSUME TypeOK, CalmInv, NEW x \in Side, NEW y \in Side, x # y,
         RemoveFriend(x), calm'
  PROVE  OnlyFollowsDue' /\ Linked(x, y)' /\ Linked(y, x)'
<1> DEFINE n == [id |-> sent + 1, from |-> x, kind |-> "Undo", stage |-> "wire", try |-> 1]
<1>1. calm /\ mail = {} /\ web[x] = "idle"
    BY DEF RemoveFriend, Disturbed, Busy
<1>2. Linked(x, y) /\ Linked(y, x) /\ OnlyFollowsDue
    BY <1>1 DEF CalmInv
<1>3. /\ web' = web
      /\ row' = [row EXCEPT ![x] = "none"]
      /\ agreed' = [agreed EXCEPT ![x] = FALSE]
      /\ latest' = latest /\ trust' = trust /\ consent' = consent
    BY <1>1 DEF RemoveFriend, DropRow, settings, TypeOK
<1>4. Box = {} /\ Fresh = {} /\ Box' = {<<x, "Undo">>} /\ Fresh' = {<<x, "Undo">>}
  <2>1. Box = {} /\ Fresh = {}
      BY <1>1, FreshBox DEF Box
  <2> QED
      BY <2>1, BoxWrite DEF RemoveFriend
<1>5. mail' = {n} /\ n.stage = "wire" /\ n.from = x /\ n.kind = "Undo"
    BY <1>1 DEF RemoveFriend, Write
<1>6. Busy(y)' <=> Busy(y)
    BY <1>1, <1>3, <1>5 DEF Busy, TypeOK
<1> HIDE DEF n
<1>10. Requested(x, y)' /\ Requested(y, x)'
    BY <1>2, <1>3, <1>4 DEF TypeOK, Linked, Requested
<1>11. Ended(x, y)' /\ Ended(y, x)'
    BY <1>1, <1>2, <1>3, <1>4 DEF TypeOK, Linked, Ended
<1>12. Mended(x, y)' /\ Mended(y, x)'
    BY <1>2, <1>3, <1>4 DEF TypeOK, Linked, Mended
<1>13. Void(x, y)' /\ Void(y, x)'
    BY <1>2, <1>3, <1>4 DEF TypeOK, Linked, Void
<1>14. Meant(x, y)' /\ Meant(y, x)'
    BY <1>2, <1>3, <1>4, <1>6 DEF TypeOK, Linked, Meant
<1>15. Logged(x, y)' /\ Logged(y, x)'
    BY <1>1, <1>2, <1>3, <1>5 DEF TypeOK, Linked, Logged
<1>16. Admitted(x, y)' /\ Admitted(y, x)'
    BY <1>2, <1>3, <1>5 DEF TypeOK, Linked, Admitted
<1>17. OnlyFollowsDue'
    BY <1>5 DEF OnlyFollowsDue
<1> QED
    BY <1>10, <1>11, <1>12, <1>13, <1>14, <1>15, <1>16, <1>17 DEF Linked

(* A dispatch or an arrival: the box and the rows stay, the log changes. *)
LEMMA CalmDispatch ==
  ASSUME TypeOK, CalmInv, NEW x \in Side, NEW y \in Side, x # y,
         NEW m \in mail, m.from = x, Dispatch(m), calm'
  PROVE  OnlyFollowsDue' /\ Linked(x, y)' /\ Linked(y, x)'
<1> DEFINE n == [m EXCEPT !.stage = "wire"]
<1>1. calm
    BY DEF Dispatch
<1>2. Linked(x, y) /\ Linked(y, x) /\ OnlyFollowsDue
    BY <1>1 DEF CalmInv
<1>3. /\ latest' = [latest EXCEPT ![x] = "out"]
      /\ row' = row /\ web' = web /\ agreed' = agreed /\ trust' = trust /\ consent' = consent
    BY DEF Dispatch, settings
<1>4. Box' = Box /\ Fresh \subseteq Fresh'
    BY <1>2, BoxDispatch DEF Dispatch, OnlyFollowsDue
<1>5. /\ mail' = (mail \ {m}) \cup {n} /\ m.stage = "due"
      /\ n.stage = "wire" /\ n.from = x /\ n.kind = "Follow" /\ n.try = 1
    BY <1>2 DEF Dispatch, Move, TypeOK, Mail, OnlyFollowsDue
<1> HIDE DEF n
<1>6. ~Busy(y)' => ~Busy(y)
    BY <1>3, <1>5 DEF Busy
<1>10. Requested(x, y)' /\ Requested(y, x)'
    BY <1>2, <1>3, <1>4 DEF Linked, Requested
<1>11. Ended(x, y)' /\ Ended(y, x)'
    BY <1>2, <1>3, <1>4 DEF Linked, Ended
<1>12. Mended(x, y)' /\ Mended(y, x)' /\ Void(x, y)' /\ Void(y, x)'
    BY <1>2, <1>3, <1>4 DEF Linked, Mended, Void
<1>14. Meant(x, y)' /\ Meant(y, x)'
    BY <1>2, <1>3, <1>4, <1>6 DEF TypeOK, Linked, Meant
<1>15. Logged(x, y)' /\ Logged(y, x)'
    BY <1>2, <1>3, <1>5 DEF TypeOK, Linked, Logged
<1>16. Admitted(x, y)' /\ Admitted(y, x)'
    BY <1>2, <1>3, <1>5 DEF TypeOK, Linked, Admitted
<1>17. OnlyFollowsDue'
    BY <1>2, <1>5 DEF OnlyFollowsDue
<1> QED
    BY <1>10, <1>11, <1>12, <1>14, <1>15, <1>16, <1>17 DEF Linked

LEMMA CalmArrive ==
  ASSUME TypeOK, CalmInv, NEW x \in Side, NEW y \in Side, x # y,
         NEW m \in mail, m.from = x, Arrive(m), calm'
  PROVE  OnlyFollowsDue' /\ Linked(x, y)' /\ Linked(y, x)'
<1>1. calm /\ Peer(x) = y
    BY TwoSides DEF Arrive
<1>2. Linked(x, y) /\ Linked(y, x) /\ OnlyFollowsDue
    BY <1>1 DEF CalmInv
<1>3. /\ latest' = IF m.kind = "Follow" THEN [latest EXCEPT ![y] = "in"] ELSE latest
      /\ m.stage \in {"wire", "post"} /\ consent[y]
      /\ row' = row /\ web' = web /\ agreed' = agreed /\ trust' = trust /\ consent' = consent
    BY <1>1 DEF Arrive, Deliver, settings
<1>4. PICK n, again : /\ n.from = x /\ n.kind = m.kind /\ n.stage = "inbox"
                      /\ \A o \in again : /\ o.from = x /\ o.kind = m.kind
                                         /\ o.stage = m.stage
                      /\ mail' = (mail \ {m}) \cup {n} \cup again
    BY Delivered DEF Arrive
<1>5. Box' = Box /\ Fresh \subseteq Fresh'
    BY <1>4, BoxPass DEF Repeat
<1>6. (~Busy(x)' => ~Busy(x)) /\ (~Busy(y)' => ~Busy(y))
    BY <1>3, <1>4 DEF Busy
<1>7. m.kind = "Follow" => row[x] \in {"pending", "accepted"} /\ agreed[x]
    BY <1>2 DEF Linked, Requested, Box
<1>10. Requested(x, y)' /\ Requested(y, x)'
    BY <1>2, <1>3, <1>5 DEF Linked, Requested
<1>11. Ended(x, y)' /\ Ended(y, x)'
    BY <1>2, <1>3, <1>5 DEF Linked, Ended
<1>12. Mended(x, y)' /\ Mended(y, x)' /\ Void(x, y)' /\ Void(y, x)'
    BY <1>2, <1>3, <1>5 DEF Linked, Mended, Void
<1>14. Meant(x, y)' /\ Meant(y, x)'
    BY <1>2, <1>3, <1>5, <1>6, <1>7 DEF TypeOK, Linked, Meant
<1>15. Logged(x, y)' /\ Logged(y, x)'
    BY <1>2, <1>3, <1>4, <1>7 DEF TypeOK, Linked, Logged
<1>16. Admitted(x, y)' /\ Admitted(y, x)'
    BY <1>2, <1>3, <1>4 DEF TypeOK, Linked, Admitted
<1>17. OnlyFollowsDue'
    BY <1>2, <1>3, <1>4 DEF OnlyFollowsDue
<1> QED
    BY <1>10, <1>11, <1>12, <1>14, <1>15, <1>16, <1>17 DEF Linked

(* A repeat is lost: what it would bring has come. *)
LEMMA CalmLose ==
  ASSUME TypeOK, CalmInv, NEW x \in Side, NEW y \in Side, x # y,
         NEW m \in mail, m.from = x, Lose(m), calm'
  PROVE  OnlyFollowsDue' /\ Linked(x, y)' /\ Linked(y, x)'
<1>1. calm /\ m.stage = "wire" /\ m.try > 1
    BY DEF Lose, Disturbed, Repeat
<1>2. Linked(x, y) /\ Linked(y, x) /\ OnlyFollowsDue
    BY <1>1 DEF CalmInv
<1>3. /\ mail' = mail \ {m}
      /\ row' = row /\ web' = web /\ agreed' = agreed /\ latest' = latest
      /\ trust' = trust /\ consent' = consent
    BY <1>1 DEF Lose, settings
<1>4. Box' \subseteq Box /\ Fresh \subseteq Fresh'
    BY <1>1, <1>3 DEF Box, Fresh, Repeat
<1>5. (~Busy(x)' => ~Busy(x)) /\ (~Busy(y)' => ~Busy(y))
    BY <1>1, <1>3 DEF Busy
<1>6. ~(m.try = 1)
    BY <1>1
<1>10. Requested(x, y)' /\ Requested(y, x)'
    BY <1>2, <1>3, <1>4 DEF Linked, Requested
<1>11. Ended(x, y)' /\ Ended(y, x)'
    BY <1>2, <1>3, <1>4 DEF Linked, Ended
<1>12. Mended(x, y)' /\ Mended(y, x)' /\ Void(x, y)' /\ Void(y, x)'
    BY <1>2, <1>3, <1>4 DEF Linked, Mended, Void
<1>14. Meant(x, y)' /\ Meant(y, x)'
    BY <1>2, <1>3, <1>4, <1>5 DEF Linked, Meant
<1>15. Logged(x, y)' /\ Logged(y, x)'
    BY <1>2, <1>3, <1>6 DEF Linked, Logged
<1>16. Admitted(x, y)' /\ Admitted(y, x)'
    BY <1>2, <1>3 DEF Linked, Admitted
<1>17. OnlyFollowsDue'
    BY <1>2, <1>3 DEF OnlyFollowsDue
<1> QED
    BY <1>10, <1>11, <1>12, <1>14, <1>15, <1>16, <1>17 DEF Linked

(* A request is handled: with an answer, or without. *)
LEMMA CalmHandleFollow ==
  ASSUME TypeOK, CalmInv, NEW x \in Side, NEW y \in Side, x # y,
         NEW m \in mail, m.from = x, HandleFollow(m), calm'
  PROVE  OnlyFollowsDue' /\ Linked(x, y)' /\ Linked(y, x)'
<1> DEFINE n == [id |-> sent + 1, from |-> y, kind |-> "Accept", stage |-> "wire", try |-> 1]
           answers == row[y] = "accepted" \/ (row[y] # "rejected" /\ auto[y])
<1>1. calm /\ Peer(x) = y /\ m.kind = "Follow" /\ m.stage = "inbox" /\ <<x, "Follow">> \in Box
    BY TwoSides DEF HandleFollow, Taken, Box
<1>2. Linked(x, y) /\ Linked(y, x) /\ OnlyFollowsDue
    BY <1>1 DEF CalmInv
<1>3. consent[y] /\ trust[y] = "trusted"
    BY <1>1, <1>2 DEF Linked, Admitted
<1>4. /\ row' = [row EXCEPT ![y] = IF answers THEN "accepted"
                                    ELSE IF row[y] = "none" THEN "pending" ELSE row[y]]
      /\ web' = web /\ latest' = latest /\ trust' = trust /\ consent' = consent
  <2>1. answers \in BOOLEAN
      BY DEF TypeOK
  <2>2. answers <=> /\ consent[y] /\ trust[y] # "blocked"
                    /\ \/ row[y] = "accepted"
                       \/ row[y] # "rejected" /\ auto[y] /\ trust[y] = "trusted"
      BY <1>3 DEF TypeOK
  <2>3. web' = web /\ latest' = latest /\ trust' = trust /\ consent' = consent
      BY DEF HandleFollow, nothing, settings
  <2> QED
      BY <1>1, <1>3, <2>2, <2>3 DEF HandleFollow
<1>5. CASE answers
  <2>1. Write(y, "Accept", "wire", mail \ {m}) /\ agreed' = [agreed EXCEPT ![y] = TRUE]
      BY <1>1, <1>3, <1>5 DEF HandleFollow
  <2>2. /\ Box' \subseteq Box \cup {<<y, "Accept">>}
        /\ (Fresh \ {<<x, "Follow">>}) \cup {<<y, "Accept">>} \subseteq Fresh'
        /\ Fresh \subseteq Box
      BY <1>1, <2>1, BoxAnswer, FreshBox
  <2>3. mail' = (mail \ {m}) \cup {n} /\ n.stage = "wire" /\ n.from = y /\ n.kind = "Accept"
      BY <2>1 DEF Write
  <2> HIDE DEF n
  <2>4. row' = [row EXCEPT ![y] = "accepted"]
      BY <1>4, <1>5
  <2>6. (~Busy(x)' => ~Busy(x)) /\ (~Busy(y)' => ~Busy(y))
      BY <1>1, <1>4, <2>3 DEF Busy
  <2>10. Requested(x, y)' /\ Requested(y, x)'
      BY <1>1, <1>2, <1>4, <2>1, <2>2, <2>4 DEF TypeOK, Linked, Requested
  <2>11. Ended(x, y)' /\ Ended(y, x)'
      BY <1>1, <1>2, <1>4, <2>2, <2>4 DEF TypeOK, Linked, Ended, Requested
  <2>12. Mended(x, y)' /\ Mended(y, x)'
      BY <1>1, <1>2, <1>4, <2>2, <2>4 DEF TypeOK, Linked, Mended, Requested
  <2>13. Void(x, y)' /\ Void(y, x)'
      BY <1>1, <1>2, <1>4, <2>2, <2>4 DEF TypeOK, Linked, Void, Requested
  <2>14. Meant(x, y)' /\ Meant(y, x)'
      BY <1>1, <1>2, <1>4, <2>1, <2>2, <2>4, <2>6 DEF TypeOK, Linked, Meant, Requested
  <2>15. Logged(x, y)' /\ Logged(y, x)'
      BY <1>1, <1>2, <1>4, <2>3, <2>4 DEF TypeOK, Linked, Logged
  <2>16. Admitted(x, y)' /\ Admitted(y, x)'
      BY <1>2, <1>4, <2>3 DEF TypeOK, Linked, Admitted
  <2>17. OnlyFollowsDue'
      BY <1>2, <2>3 DEF OnlyFollowsDue
  <2> QED
      BY <2>10, <2>11, <2>12, <2>13, <2>14, <2>15, <2>16, <2>17 DEF Linked
<1>6. CASE ~answers
  <2>1. mail' = mail \ {m} /\ agreed' = agreed
      BY <1>1, <1>3, <1>6 DEF HandleFollow, TypeOK
  <2>2. /\ Box' \subseteq Box /\ Fresh \subseteq Box
        /\ Fresh \ {<<x, "Follow">>} \subseteq Fresh'
      BY <1>1, <2>1, BoxTake, FreshBox
  <2>4. /\ row' = [row EXCEPT ![y] = IF row[y] = "none" THEN "pending" ELSE row[y]]
        /\ row[y] # "accepted"
      BY <1>4, <1>6 DEF TypeOK
  <2>6. (~Busy(x)' => ~Busy(x)) /\ (~Busy(y)' => ~Busy(y))
      BY <1>1, <1>4, <2>1 DEF Busy
  <2>7. \A o \in mail : o.from = x /\ o.kind = "Follow" => row[x] # "none"
      BY <1>2 DEF Linked, Requested, Box
  <2>8. row[y] = "none" => latest[x] = "out"
      BY <1>1, <1>2 DEF Linked, Logged
  <2>10. Requested(x, y)' /\ Requested(y, x)'
      BY <1>1, <1>2, <1>4, <2>1, <2>2, <2>4 DEF TypeOK, Linked, Requested
  <2>11. Ended(x, y)' /\ Ended(y, x)'
      BY <1>1, <1>2, <1>4, <2>2, <2>4 DEF TypeOK, Linked, Ended, Requested
  <2>12. Mended(x, y)' /\ Mended(y, x)'
      BY <1>1, <1>2, <1>4, <2>2, <2>4 DEF TypeOK, Linked, Mended, Requested
  <2>13. Void(x, y)' /\ Void(y, x)'
      BY <1>1, <1>2, <1>4, <2>2, <2>4 DEF TypeOK, Linked, Void, Requested
  <2>14. Meant(x, y)' /\ Meant(y, x)'
      BY <1>1, <1>2, <1>4, <2>1, <2>2, <2>4, <2>6, <2>8 DEF TypeOK, Linked, Meant, Mended, Void, Requested
  <2>15. Logged(x, y)' /\ Logged(y, x)'
      BY <1>1, <1>2, <1>4, <2>1, <2>4 DEF TypeOK, Linked, Logged
  <2>16. Admitted(x, y)' /\ Admitted(y, x)'
      BY <1>2, <1>4, <2>1 DEF TypeOK, Linked, Admitted
  <2>17. OnlyFollowsDue'
      BY <1>2, <2>1 DEF OnlyFollowsDue
  <2> QED
      BY <2>10, <2>11, <2>12, <2>13, <2>14, <2>15, <2>16, <2>17 DEF Linked
<1> QED
    BY <1>5, <1>6

(* An answer is handled. *)
LEMMA CalmHandleAccept ==
  ASSUME TypeOK, CalmInv, NEW x \in Side, NEW y \in Side, x # y,
         NEW m \in mail, m.from = x, HandleAccept(m), calm'
  PROVE  OnlyFollowsDue' /\ Linked(x, y)' /\ Linked(y, x)'
<1>1. calm /\ Peer(x) = y /\ m.kind = "Accept" /\ m.stage = "inbox" /\ <<x, "Accept">> \in Box
    BY TwoSides DEF HandleAccept, Taken, Box
<1>2. Linked(x, y) /\ Linked(y, x) /\ OnlyFollowsDue
    BY <1>1 DEF CalmInv
<1>3. /\ row' = [row EXCEPT ![y] = IF row[y] = "none" THEN "none" ELSE "accepted"]
      /\ mail' = mail \ {m}
      /\ web' = web /\ latest' = latest /\ trust' = trust /\ consent' = consent
      /\ agreed' = agreed
    BY <1>1 DEF HandleAccept, nothing, settings
<1>4. /\ Box' \subseteq Box /\ Fresh \subseteq Box
      /\ Fresh \ {<<x, "Accept">>} \subseteq Fresh'
    BY <1>1, <1>3, BoxTake, FreshBox
<1>5. (~Busy(x)' => ~Busy(x)) /\ (~Busy(y)' => ~Busy(y))
    BY <1>1, <1>3 DEF Busy
<1>10. Requested(x, y)' /\ Requested(y, x)'
    BY <1>2, <1>3, <1>4 DEF TypeOK, Linked, Requested
<1>11. Ended(x, y)' /\ Ended(y, x)'
    BY <1>1, <1>2, <1>3, <1>4 DEF TypeOK, Linked, Ended
<1>12. Mended(x, y)' /\ Mended(y, x)'
    BY <1>1, <1>2, <1>3, <1>4 DEF TypeOK, Linked, Mended, Void
<1>13. Void(x, y)' /\ Void(y, x)'
    BY <1>1, <1>2, <1>3, <1>4 DEF TypeOK, Linked, Void, Ended
<1>14. Meant(x, y)' /\ Meant(y, x)'
    BY <1>1, <1>2, <1>3, <1>4, <1>5 DEF TypeOK, Linked, Meant
<1>15. Logged(x, y)' /\ Logged(y, x)'
    BY <1>1, <1>2, <1>3 DEF TypeOK, Linked, Logged
<1>16. Admitted(x, y)' /\ Admitted(y, x)'
    BY <1>2, <1>3 DEF Linked, Admitted
<1>17. OnlyFollowsDue'
    BY <1>2, <1>3 DEF OnlyFollowsDue
<1> QED
    BY <1>10, <1>11, <1>12, <1>13, <1>14, <1>15, <1>16, <1>17 DEF Linked

(* A rejection is handled. *)
LEMMA CalmHandleReject ==
  ASSUME TypeOK, CalmInv, NEW x \in Side, NEW y \in Side, x # y,
         NEW m \in mail, m.from = x, HandleReject(m), calm'
  PROVE  OnlyFollowsDue' /\ Linked(x, y)' /\ Linked(y, x)'
<1>1. calm /\ Peer(x) = y /\ m.kind = "Reject" /\ m.stage = "inbox" /\ <<x, "Reject">> \in Box
    BY TwoSides DEF HandleReject, Taken, Box
<1>2. Linked(x, y) /\ Linked(y, x) /\ OnlyFollowsDue
    BY <1>1 DEF CalmInv
<1>3. /\ row' = [row EXCEPT ![y] = IF row[y] = "none" THEN "none" ELSE "rejected"]
      /\ agreed' = [agreed EXCEPT ![y] = FALSE]
      /\ mail' = mail \ {m}
      /\ web' = web /\ latest' = latest /\ trust' = trust /\ consent' = consent
    BY <1>1 DEF HandleReject, nothing, settings
<1>4. /\ Box' \subseteq Box /\ Fresh \subseteq Box
      /\ Fresh \ {<<x, "Reject">>} \subseteq Fresh'
    BY <1>1, <1>3, BoxTake, FreshBox
<1>5. (~Busy(x)' => ~Busy(x)) /\ (~Busy(y)' => ~Busy(y))
    BY <1>1, <1>3 DEF Busy
<1>6. row[x] = "none" \/ web[x] = "rejecting"
    BY <1>1, <1>2 DEF Linked, Ended
<1>7. <<x, "Follow">> \notin Box /\ <<y, "Follow">> \notin Box /\ <<x, "Accept">> \notin Box
    BY <1>1, <1>2 DEF Linked, Requested, Ended
<1>8. web[x] = "rejecting" => Busy(x)'
    BY <1>3 DEF Busy
<1>10. Requested(x, y)' /\ Requested(y, x)'
    BY <1>4, <1>7 DEF Requested
<1>11. Ended(x, y)' /\ Ended(y, x)'
    BY <1>1, <1>2, <1>3, <1>4 DEF TypeOK, Linked, Ended
<1>12. Mended(x, y)' /\ Mended(y, x)'
    BY <1>2, <1>3, <1>4, <1>6, <1>7 DEF TypeOK, Linked, Mended
<1>13. Void(x, y)' /\ Void(y, x)'
    BY <1>2, <1>3, <1>4, <1>6, <1>7 DEF TypeOK, Linked, Void
<1>14. Meant(x, y)' /\ Meant(y, x)'
    BY <1>2, <1>3, <1>4, <1>5, <1>6, <1>7, <1>8 DEF TypeOK, Linked, Meant
<1>15. Logged(x, y)' /\ Logged(y, x)'
    BY <1>1, <1>2, <1>3 DEF TypeOK, Linked, Logged
<1>16. Admitted(x, y)' /\ Admitted(y, x)'
    BY <1>2, <1>3 DEF Linked, Admitted
<1>17. OnlyFollowsDue'
    BY <1>2, <1>3 DEF OnlyFollowsDue
<1> QED
    BY <1>10, <1>11, <1>12, <1>13, <1>14, <1>15, <1>16, <1>17 DEF Linked

(* A withdrawal is handled. *)
LEMMA CalmHandleUndo ==
  ASSUME TypeOK, CalmInv, NEW x \in Side, NEW y \in Side, x # y,
         NEW m \in mail, m.from = x, HandleUndo(m), calm'
  PROVE  OnlyFollowsDue' /\ Linked(x, y)' /\ Linked(y, x)'
<1>1. calm /\ Peer(x) = y /\ m.kind = "Undo" /\ m.stage = "inbox" /\ <<x, "Undo">> \in Box
    BY TwoSides DEF HandleUndo, Taken, Box
<1>2. Linked(x, y) /\ Linked(y, x) /\ OnlyFollowsDue
    BY <1>1 DEF CalmInv
<1>3. /\ row' = [row EXCEPT ![y] = "none"]
      /\ agreed' = [agreed EXCEPT ![y] = FALSE]
      /\ web' = [web EXCEPT ![y] = IF web[y] = "rejecting" THEN "rowless" ELSE web[y]]
      /\ mail' = mail \ {m}
      /\ latest' = latest /\ trust' = trust /\ consent' = consent
    BY <1>1 DEF HandleUndo, DropRow, settings
<1>4. /\ Box' \subseteq Box /\ Fresh \subseteq Box
      /\ Fresh \ {<<x, "Undo">>} \subseteq Fresh'
    BY <1>1, <1>3, BoxTake, FreshBox
<1>5. (~Busy(x)' => ~Busy(x)) /\ (~Busy(y)' => ~Busy(y))
    BY <1>1, <1>3 DEF Busy, TypeOK
<1>6. row[x] = "none"
    BY <1>1, <1>2 DEF Linked, Ended
<1>7. <<x, "Follow">> \notin Box /\ <<y, "Follow">> \notin Box /\ <<x, "Accept">> \notin Box
    BY <1>1, <1>2 DEF Linked, Requested, Ended
<1>10. Requested(x, y)' /\ Requested(y, x)'
    BY <1>4, <1>7 DEF Requested
<1>11. Ended(x, y)' /\ Ended(y, x)'
    BY <1>2, <1>3, <1>4, <1>6 DEF TypeOK, Linked, Ended
<1>12. Mended(x, y)' /\ Mended(y, x)'
    BY <1>3, <1>6 DEF TypeOK, Mended
<1>13. Void(x, y)' /\ Void(y, x)'
    BY <1>3, <1>4, <1>6, <1>7 DEF TypeOK, Void
<1>14. Meant(x, y)' /\ Meant(y, x)'
    BY <1>3, <1>6 DEF TypeOK, Meant
<1>15. Logged(x, y)' /\ Logged(y, x)'
  <2>1. \A o \in mail : o.kind = "Follow" => o.from # x /\ o.from # y
      BY <1>7 DEF Box
  <2> QED
      BY <1>1, <1>2, <1>3, <2>1 DEF Linked, Logged
<1>16. Admitted(x, y)' /\ Admitted(y, x)'
    BY <1>2, <1>3 DEF Linked, Admitted
<1>17. OnlyFollowsDue'
    BY <1>2, <1>3 DEF OnlyFollowsDue
<1> QED
    BY <1>10, <1>11, <1>12, <1>13, <1>14, <1>15, <1>16, <1>17 DEF Linked

LEMMA InitCalm == Init => CalmInv
<1> SUFFICES ASSUME Init PROVE CalmInv
    OBVIOUS
<1>1. Box = {} /\ Fresh = {}
    BY FreshBox DEF Init, Box
<1>2. ASSUME NEW x \in Side, NEW y \in Side, x # y PROVE Linked(x, y)
    BY <1>1, <1>2 DEF Init, Linked, Requested, Ended, Mended, Void, Meant, Logged, Admitted
<1> QED
    BY <1>2 DEF Init, CalmInv, OnlyFollowsDue

LEMMA StepCalm == TypeOK /\ CalmInv /\ [Next]_vars => CalmInv'
<1> SUFFICES ASSUME TypeOK, CalmInv, [Next]_vars, calm' PROVE CalmInv'
    BY DEF CalmInv
<1>0. ASSUME NEW x \in Side, NEW y \in Side, x # y,
             OnlyFollowsDue' /\ Linked(x, y)' /\ Linked(y, x)'
      PROVE  CalmInv'
  <2>1. Side = {x, y}
      BY <1>0, TwoSides
  <2>2. ASSUME NEW a \in Side, NEW b \in Side, a # b PROVE Linked(a, b)'
    <3>1. CASE a = x /\ b = y
        BY <1>0, <3>1
    <3>2. CASE a = y /\ b = x
        BY <1>0, <3>2
    <3> QED
        BY <2>1, <2>2, <3>1, <3>2
  <2> QED
      BY <1>0, <2>2 DEF CalmInv
<1>1. ASSUME NEW x \in Side, Request(x) PROVE CalmInv'
  <2> DEFINE y == Peer(x)
  <2>0. y \in Side /\ x # y
      BY PeerType
  <2> HIDE DEF y
  <2>1. CASE SendFriendRequest(x)
      BY <1>0, <2>0, <2>1, CalmSend
  <2>2. CASE RespondAccept(x)
      BY <1>0, <2>0, <2>2, CalmAccept
  <2>3. CASE RespondReject(x)
      BY <1>0, <2>0, <2>3, CalmReject
  <2>4. CASE DeleteRejected(x)
      BY <1>0, <2>0, <2>4, CalmDelete
  <2>5. CASE RemoveFriend(x)
      BY <1>0, <2>0, <2>5, CalmRemove
  <2>6. CASE FollowRow(x)
    <3>1. calm /\ web[x] = "following"
        BY <2>6 DEF FollowRow
    <3>2. Linked(x, y)
        BY <2>0, <3>1 DEF CalmInv
    <3> QED
        BY <3>1, <3>2 DEF Linked, Ended
  <2>7. CASE FollowRemote(x) \/ CrashWeb(x)
      BY <2>7 DEF FollowRemote, CrashWeb, Disturbed
  <2> QED
      BY <1>1, <2>1, <2>2, <2>3, <2>4, <2>5, <2>6, <2>7 DEF Request
<1>2. ASSUME NEW m \in mail, Travel(m) PROVE CalmInv'
  <2> DEFINE x == m.from
             y == Peer(x)
  <2>0. x \in Side /\ y \in Side /\ x # y
      BY PeerType DEF TypeOK, Mail
  <2> HIDE DEF y
  <2>1. CASE Dispatch(m)
      BY <1>0, <2>0, <2>1, CalmDispatch
  <2>2. CASE Arrive(m)
      BY <1>0, <2>0, <2>2, CalmArrive
  <2>3. CASE Lose(m)
      BY <1>0, <2>0, <2>3, CalmLose
  <2>4. CASE HandleFollow(m)
      BY <1>0, <2>0, <2>4, CalmHandleFollow
  <2>5. CASE HandleAccept(m)
      BY <1>0, <2>0, <2>5, CalmHandleAccept
  <2>6. CASE HandleReject(m)
      BY <1>0, <2>0, <2>6, CalmHandleReject
  <2>7. CASE HandleUndo(m)
      BY <1>0, <2>0, <2>7, CalmHandleUndo
  <2> QED
      BY <1>2, <2>1, <2>2, <2>3, <2>4, <2>5, <2>6, <2>7 DEF Travel
<1>3. ASSUME NEW x \in Side, Setting(x) PROVE CalmInv'
    BY <1>3 DEF Setting, SetConsent, SetTrust, DeleteInstance, Change, Disturbed
<1>4. CASE UNCHANGED vars
  <2>1. Box' = Box /\ Fresh' = Fresh
      BY <1>4 DEF vars, Box, Fresh, Repeat
  <2>2. OnlyFollowsDue' <=> OnlyFollowsDue
      BY <1>4 DEF vars, OnlyFollowsDue
  <2>3. ASSUME NEW x \in Side, NEW y \in Side, Linked(x, y) PROVE Linked(x, y)'
      BY <1>4, <2>1, <2>3
      DEF vars, Linked, Requested, Ended, Mended, Void, Meant, Logged, Admitted, Busy
  <2> QED
      BY <1>4, <2>2, <2>3 DEF CalmInv, vars
<1> QED
    BY <1>1, <1>2, <1>3, <1>4 DEF Next

LEMMA CalmInvariance == Spec => [](TypeOK /\ CalmInv)
<1>1. Init => TypeOK
    BY InitIInv DEF IInv
<1> QED
    BY <1>1, InitCalm, StepType, StepCalm, PTL DEF Spec

-----------------------------------------------------------------------------
(* The types of the state, whatever is lost, overtaken or changed.         *)
THEOREM TypeCorrect == Spec => []TypeOK
<1>1. IInv => TypeOK
    BY DEF IInv
<1> QED
    BY <1>1, Invariance, PTL

(* Requests alone make no friends: in every behaviour, also of an exchange *)
(* that is disturbed, somebody has accepted a Follow before a row says so. *)
THEOREM FriendsWereAnswered == Spec => []Answered
<1>1. IInv => Answered
    BY DEF IInv
<1> QED
    BY <1>1, Invariance, PTL

(* A calm exchange that has come to rest leaves the two sides agreed: what *)
(* would have mended a disagreement was under way, and has been handled.   *)
THEOREM CalmSidesAgree == Spec => []Agreement
<1>1. TypeOK /\ CalmInv => Agreement
  <2> SUFFICES ASSUME TypeOK, CalmInv, AtRest, calm, NEW x \in Side, row[x] = "accepted"
               PROVE  row[Peer(x)] = "accepted"
      BY DEF Agreement
  <2>1. Peer(x) \in Side /\ x # Peer(x)
      BY PeerType
  <2>2. Box = {} /\ Fresh = {} /\ web[x] = "idle"
      BY FreshBox DEF AtRest, Box
  <2> QED
      BY <2>1, <2>2 DEF CalmInv, Linked, Mended
<1> QED
    BY <1>1, CalmInvariance, PTL

(* A request at rest is known to the peer and one of the two can answer    *)
(* it: the latest Follow of both cannot be their own, for one of the two   *)
(* would still be on its way.                                              *)
THEOREM CalmRequestsAnswerable == Spec => []RequestsAnswerable
<1>1. TypeOK /\ CalmInv => RequestsAnswerable
  <2> SUFFICES ASSUME TypeOK, CalmInv, AtRest, calm, NEW x \in Side, row[x] = "pending"
               PROVE  /\ row[Peer(x)] \in {"pending", "rejected"}
                      /\ Answerable(x) \/ Answerable(Peer(x))
      BY DEF RequestsAnswerable
  <2> DEFINE y == Peer(x)
  <2>1. y \in Side /\ x # y
      BY PeerType
  <2> HIDE DEF y
  <2>2. /\ Box = {} /\ Fresh = {} /\ mail = {}
        /\ web[x] = "idle" /\ web[y] = "idle"
      BY <2>1, FreshBox DEF AtRest, Box
  <2>3. Linked(x, y) /\ Linked(y, x)
      BY <2>1 DEF CalmInv
  <2>4. row[y] \in {"pending", "rejected"}
      BY <2>1, <2>2, <2>3 DEF Linked, Mended, TypeOK
  <2>5. latest[x] # "out" \/ latest[y] # "out"
      BY <2>2, <2>3 DEF Linked, Logged
  <2> QED
      BY <2>4, <2>5 DEF Answerable, y
<1> QED
    BY <1>1, CalmInvariance, PTL

(* At every moment of a calm exchange a friend has asked or accepted.      *)
THEOREM CalmFriendsAgreed == Spec => []Grounded
<1>1. TypeOK /\ CalmInv => Grounded
  <2> SUFFICES ASSUME CalmInv, calm, NEW x \in Side, row[x] = "accepted" PROVE agreed[x]
      BY DEF Grounded
  <2>1. Peer(x) \in Side /\ x # Peer(x)
      BY PeerType
  <2> QED
      BY <2>1 DEF CalmInv, Linked, Meant
<1> QED
    BY <1>1, CalmInvariance, PTL
=============================================================================
