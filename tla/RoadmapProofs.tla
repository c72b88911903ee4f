---------------------------- MODULE RoadmapProofs ----------------------------
(***************************************************************************)
(* Proofs about Roadmap, for any works, copies and overlapping requests,   *)
(* and any bound on the entries.                                           *)
(***************************************************************************)
EXTENDS Roadmap, FiniteSetTheorems, SequenceTheorems, TLAPS

USE EntryAssumption, TargetAssumption

(* Targets are single references. *)
LEMMA RefersType ==
  ASSUME NEW t \in Target
  PROVE  /\ Refers(t) \in Ref
         /\ Named(Refers(t)) = {t}
  BY DEF Refers, Ref, Named, Target

(* The rows of a roadmap are finitely many. *)
LEMMA RowsFinite ==
  ASSUME TypeOK
  PROVE  IsFiniteSet(Row) /\ Total \in Nat
<1>1. IsFiniteSet(1..made)
    BY FS_Interval DEF TypeOK
<1>2. IsFiniteSet(Row)
    BY <1>1, FS_Subset DEF TypeOK
<1> QED
    BY <1>2, FS_CardinalityType DEF Total

(* Types. *)
LEMMA InitType == Init => TypeOK
<1> SUFFICES ASSUME Init PROVE TypeOK
    OBVIOUS
<1>1. DOMAIN at = {} /\ DOMAIN ref = {}
    BY DEF Init
<1>2. at \in [Row -> Place] /\ ref \in [Row -> Ref]
    BY SMT DEF Init, Row
<1>3. Row = {} /\ made \in 0..MaxEntry
    BY <1>1 DEF Init, Row
<1>4. request \in [Request -> {Idle}]
    BY DEF Init
<1> QED
    BY <1>2, <1>3, <1>4 DEF Init, TypeOK, Row

LEMMA StepType == TypeOK /\ [Next]_vars => TypeOK'
<1> SUFFICES ASSUME TypeOK, [Next]_vars PROVE TypeOK'
    OBVIOUS
<1>t. Total \in Nat
    BY RowsFinite
<1> USE DEF TypeOK, Row
<1>1. ASSUME NEW r \in Request, NEW t \in Target, ReadAdd(r, t) PROVE TypeOK'
    BY <1>1, <1>t, RefersType DEF ReadAdd, Become
<1>2. ASSUME NEW r \in Request, NEW e \in Entry, NEW p \in Asked, ReadMove(r, e, p) PROVE TypeOK'
  <2>1. at[e] \in Place
      BY <1>2 DEF ReadMove
  <2>2. p \in Place
      BY DEF Asked, Place
  <2>3. Total # 0
    <3>1. Row # {} /\ IsFiniteSet(Row)
        BY <1>2, RowsFinite DEF ReadMove
    <3> QED
        BY <3>1, FS_EmptySet DEF Total
  <2>4. Clamp(p) \in Place
      BY <1>t, <2>2, <2>3 DEF Clamp, Place
  <2> HIDE DEF Place
  <2> QED
      BY <1>2, <1>t, <2>1, <2>4 DEF ReadMove, Become
<1>3. ASSUME NEW r \in Request, NEW e \in Entry, ReadDelete(r, e) PROVE TypeOK'
    BY <1>3 DEF ReadDelete, Become
<1>4. ASSUME NEW r \in Request, NEW e \in Entry, NEW t \in Target, ReadRetarget(r, e, t) PROVE TypeOK'
    BY <1>4, RefersType DEF ReadRetarget, Become
<1>5. ASSUME NEW r \in Request, WriteAdd(r) PROVE TypeOK'
  <2>1. request[r].count \in Nat /\ request[r].want \in Ref
      BY <1>5 DEF WriteAdd, Idle
  <2>2. /\ Row' = Row \cup {made + 1}
        /\ at' \in [Row' -> Place]
      BY <1>5, <2>1 DEF WriteAdd, Place
  <2>3. ref' \in [Row' -> Ref]
      BY <1>5, <2>1 DEF WriteAdd
  <2>4. torn' \in BOOLEAN
      BY <1>5 DEF WriteAdd, Tear
  <2> QED
      BY <1>5, <2>2, <2>3, <2>4 DEF WriteAdd, Become
<1>6. ASSUME NEW r \in Request, WriteMove(r) PROVE TypeOK'
  <2> DEFINE q == request[r]
  <2>1. q.e \in Entry /\ q.old \in Place /\ q.to \in Place
      BY <1>6 DEF WriteMove, Idle
  <2>2. ASSUME NEW x \in Row PROVE Shifted(q)[x] \in Place
    <3>1. at[x] \in Place
        OBVIOUS
    <3> QED
        BY <2>1, <3>1 DEF Shifted, Place
  <2>3. Row' = Row /\ at' \in [Row -> Place]
      BY <1>6, <2>2 DEF WriteMove, Shifted
  <2>4. torn' \in BOOLEAN
      BY <1>6 DEF WriteMove, Tear
  <2> QED
      BY <1>6, <2>3, <2>4 DEF WriteMove, Become
<1>7. ASSUME NEW r \in Request, WriteDelete(r) PROVE TypeOK'
  <2> DEFINE q == request[r]
  <2>1. q.e \in Entry /\ q.old \in Place
      BY <1>7 DEF WriteDelete, Idle
  <2>2. ASSUME NEW x \in Row
        PROVE  (IF at[x] > q.old THEN at[x] - 1 ELSE at[x]) \in Place
    <3>1. at[x] \in Place
        OBVIOUS
    <3> QED
        BY <2>1, <3>1 DEF Place
  <2>3. Row' = Row \ {q.e} /\ at' \in [Row' -> Place] /\ ref' \in [Row' -> Ref]
      BY <1>7, <2>2 DEF WriteDelete, Compacted
  <2>4. torn' \in BOOLEAN
      BY <1>7 DEF WriteDelete, Tear
  <2> QED
      BY <1>7, <2>3, <2>4 DEF WriteDelete, Become
<1>8. ASSUME NEW r \in Request, WriteRetarget(r) PROVE TypeOK'
  <2> DEFINE q == request[r]
  <2>1. q.e \in Row /\ q.base \in Ref /\ q.want \in Ref
      BY <1>8 DEF WriteRetarget, Idle
  <2>2. Merged(ref[q.e], q.base, q.want) \in Ref
      BY <2>1 DEF Merged, Ref
  <2> QED
      BY <1>8, <2>1, <2>2 DEF WriteRetarget, Become
<1>9. ASSUME NEW r \in Request, Fail(r) PROVE TypeOK'
    BY <1>9 DEF Fail, Become
<1>10. CASE DeleteRoadmap
  <2>1. at' \in [Row' -> Place] /\ ref' \in [Row' -> Ref] /\ Row' = {}
      BY <1>10, SMT DEF DeleteRoadmap
  <2> QED
      BY <1>10, <2>1 DEF DeleteRoadmap
<1>11. ASSUME NEW t \in Target, DeleteTarget(t) PROVE TypeOK'
    BY <1>11 DEF DeleteTarget
<1>12. ASSUME NEW s \in Work, NEW t \in Work, MergeWorks(s, t) PROVE TypeOK'
  <2>1. ASSUME NEW e \in Row
        PROVE  (IF ref[e].work = s THEN [ref[e] EXCEPT !.work = t] ELSE ref[e]) \in Ref
      BY DEF Ref
  <2>2. ref' \in [Row -> Ref]
      BY <1>12, <2>1 DEF MergeWorks
  <2> QED
      BY <1>12, <2>2 DEF MergeWorks
<1>13. CASE UNCHANGED vars
    BY <1>13 DEF vars
<1> QED
    BY <1>1, <1>2, <1>3, <1>4, <1>5, <1>6, <1>7, <1>8, <1>9, <1>10, <1>11, <1>12, <1>13
    DEF Next, Read, Write

\* Every variable keeps its type.
THEOREM TypeCorrect == Spec => []TypeOK
  BY InitType, StepType, PTL DEF Spec

-----------------------------------------------------------------------------
(* What a request carries is as it was checked when it was read. *)
RequestsInv ==
  \A r \in Request :
    /\ request[r].op = "add" => \E t \in Target : request[r].want = Refers(t)
    /\ request[r].op = "move" => request[r].to <= request[r].count

LEMMA RequestsStep == TypeOK /\ RequestsInv /\ [Next]_vars => RequestsInv'
<1> SUFFICES ASSUME TypeOK, RequestsInv, [Next]_vars PROVE RequestsInv'
    OBVIOUS
<1>t. Total \in Nat
    BY RowsFinite
<1> USE DEF RequestsInv
<1>0. ASSUME NEW r \in Request, request' = [request EXCEPT ![r] = Idle] PROVE RequestsInv'
    BY <1>0 DEF TypeOK, Idle
<1>1. ASSUME NEW r \in Request, NEW t \in Target, ReadAdd(r, t) PROVE RequestsInv'
    BY <1>1 DEF ReadAdd, Become, TypeOK
<1>2. ASSUME NEW r \in Request, NEW e \in Entry, NEW p \in Asked, ReadMove(r, e, p) PROVE RequestsInv'
  <2>1. Row # {} /\ IsFiniteSet(Row)
      BY <1>2, RowsFinite DEF ReadMove
  <2>2. Total # 0
      BY <2>1, FS_EmptySet DEF Total
  <2>3. p \in Nat /\ Clamp(p) <= Total
      BY <1>t, <2>2 DEF Clamp, Asked
  <2> QED
      BY <1>2, <2>3 DEF ReadMove, Become, TypeOK
<1>3. ASSUME NEW r \in Request, NEW e \in Entry, ReadDelete(r, e) PROVE RequestsInv'
    BY <1>3 DEF ReadDelete, Become, TypeOK
<1>4. ASSUME NEW r \in Request, NEW e \in Entry, NEW t \in Target, ReadRetarget(r, e, t) PROVE RequestsInv'
    BY <1>4 DEF ReadRetarget, Become, TypeOK
<1>5. ASSUME NEW r \in Request, Write(r) PROVE RequestsInv'
    BY <1>0, <1>5 DEF Write, WriteAdd, WriteMove, WriteDelete, WriteRetarget, Fail, Become
<1>6. ASSUME UNCHANGED request PROVE RequestsInv'
    BY <1>6
<1> QED
    BY <1>1, <1>2, <1>3, <1>4, <1>5, <1>6
    DEF Next, Read, DeleteRoadmap, DeleteTarget, MergeWorks, vars

-----------------------------------------------------------------------------
(* Positions. *)

LEMMA ContiguousStep == TypeOK /\ RequestsInv /\ Contiguous /\ [Next]_vars => Contiguous'
<1> SUFFICES ASSUME TypeOK, RequestsInv, Contiguous, [Next]_vars, ~torn'
             PROVE  /\ \A x \in Row' : at'[x] \in 1..Total'
                    /\ \A x \in Row' : \A y \in Row' : at'[x] = at'[y] => x = y
    BY DEF Contiguous
<1>t. Total \in Nat /\ IsFiniteSet(Row)
    BY RowsFinite
<1>k. ASSUME UNCHANGED at, UNCHANGED torn
      PROVE  /\ \A x \in Row' : at'[x] \in 1..Total'
             /\ \A x \in Row' : \A y \in Row' : at'[x] = at'[y] => x = y
    BY <1>k DEF Contiguous, Row, Total
<1>1. ASSUME NEW r \in Request, WriteAdd(r)
      PROVE  /\ \A x \in Row' : at'[x] \in 1..Total'
             /\ \A x \in Row' : \A y \in Row' : at'[x] = at'[y] => x = y
  <2> DEFINE n == made + 1
  <2>1. request[r].count = Total /\ ~torn
      BY <1>1 DEF WriteAdd, Tear, Current, TypeOK
  <2>2. n \notin Row /\ Row' = Row \cup {n}
      BY <1>1 DEF WriteAdd, TypeOK, Row
  <2>3. Total' = Total + 1
      BY <1>t, <2>2, FS_AddElement DEF Total
  <2>4. \A x \in Row' : at'[x] = IF x = n THEN Total + 1 ELSE at[x]
      BY <1>1, <2>1, <2>2 DEF WriteAdd, Row
  <2> QED
      BY <1>t, <2>1, <2>2, <2>3, <2>4 DEF Contiguous
<1>2. ASSUME NEW r \in Request, WriteMove(r)
      PROVE  /\ \A x \in Row' : at'[x] \in 1..Total'
             /\ \A x \in Row' : \A y \in Row' : at'[x] = at'[y] => x = y
  <2> DEFINE q == request[r]
  <2>1. q.e \in Row /\ q.old \in Place /\ q.to \in Place /\ q.count \in Nat
      BY <1>2 DEF WriteMove, TypeOK, Idle
  <2>2. at[q.e] = q.old /\ q.to \in 1..Total /\ ~torn
    <3>1. Current(q) /\ ~torn
        BY <1>2 DEF WriteMove, Tear, TypeOK
    <3>2. at[q.e] = q.old /\ q.count <= Total
        BY <1>2, <3>1 DEF WriteMove, Current
    <3>3. q.to <= q.count
        BY <1>2 DEF WriteMove, RequestsInv
    <3> QED
        BY <1>t, <2>1, <3>1, <3>2, <3>3 DEF Place
  <2>3. Row' = Row /\ Total' = Total /\ at' = Shifted(q)
      BY <1>2 DEF WriteMove, Shifted, Row, Total
  <2>4. /\ \A x \in Row : at[x] \in 1..Total
        /\ \A x \in Row : \A y \in Row : at[x] = at[y] => x = y
      BY <2>2 DEF Contiguous
  <2>5. ASSUME NEW x \in Row PROVE Shifted(q)[x] \in 1..Total
    <3>1. q.old \in 1..Total /\ at[x] \in 1..Total
        BY <2>1, <2>2, <2>4
    <3> QED
        BY <1>t, <2>2, <3>1 DEF Shifted
  <2>6. ASSUME NEW x \in Row, NEW y \in Row, Shifted(q)[x] = Shifted(q)[y] PROVE x = y
    <3>1. q.old \in 1..Total /\ at[x] \in 1..Total /\ at[y] \in 1..Total
        BY <2>1, <2>2, <2>4
    <3>2. /\ x # q.e => at[x] # q.old
          /\ y # q.e => at[y] # q.old
        BY <2>1, <2>2, <2>4
    <3>3. at[x] = at[y] => x = y
        BY <2>4
    <3> QED
        BY <1>t, <2>2, <2>6, <3>1, <3>2, <3>3 DEF Shifted
  <2> QED
      BY <2>3, <2>5, <2>6
<1>3. ASSUME NEW r \in Request, WriteDelete(r)
      PROVE  /\ \A x \in Row' : at'[x] \in 1..Total'
             /\ \A x \in Row' : \A y \in Row' : at'[x] = at'[y] => x = y
  <2> DEFINE q == request[r]
  <2>1. q.e \in Row /\ at[q.e] = q.old /\ ~torn
      BY <1>3 DEF WriteDelete, Tear, Current, TypeOK
  <2>2. Row' = Row \ {q.e}
      BY <1>3 DEF WriteDelete, Compacted, Row
  <2>3. Total' = Total - 1
      BY <1>t, <2>1, <2>2, FS_RemoveElement DEF Total
  <2>4. \A x \in Row' : at'[x] = IF at[x] > q.old THEN at[x] - 1 ELSE at[x]
      BY <1>3, <2>2 DEF WriteDelete, Compacted
  <2>5. /\ \A x \in Row : at[x] \in 1..Total
        /\ \A x \in Row : \A y \in Row : at[x] = at[y] => x = y
      BY <2>1 DEF Contiguous
  <2>6. \A x \in Row' : x \in Row /\ at[x] # q.old
      BY <2>1, <2>2, <2>5
  <2>7. ASSUME NEW x \in Row' PROVE at'[x] \in 1..Total'
      BY <1>t, <2>1, <2>3, <2>4, <2>5, <2>6
  <2>8. ASSUME NEW x \in Row', NEW y \in Row', at'[x] = at'[y] PROVE x = y
      BY <1>t, <2>1, <2>4, <2>5, <2>6, <2>8
  <2> QED
      BY <2>7, <2>8
<1>4. ASSUME at' = <<>>
      PROVE  /\ \A x \in Row' : at'[x] \in 1..Total'
             /\ \A x \in Row' : \A y \in Row' : at'[x] = at'[y] => x = y
  <2>1. Row' = {}
      BY <1>4, SMT DEF Row
  <2> QED
      BY <2>1
<1>5. CASE \E r \in Request : Read(r) \/ WriteRetarget(r) \/ Fail(r)
    BY <1>5, <1>k DEF Read, ReadAdd, ReadMove, ReadDelete, ReadRetarget, WriteRetarget, Fail
<1>6. CASE \/ \E t \in Target : DeleteTarget(t)
           \/ \E s \in Work : \E t \in Work : MergeWorks(s, t)
    BY <1>6, <1>k DEF DeleteTarget, MergeWorks
<1>7. CASE UNCHANGED vars
    BY <1>7, <1>k DEF vars
<1> QED
    BY <1>1, <1>2, <1>3, <1>4, <1>5, <1>6, <1>7 DEF Next, Write, DeleteRoadmap

-----------------------------------------------------------------------------
(* Targets. *)

LEMMA TargetsStep == TypeOK /\ RequestsInv /\ TargetsStand /\ [Next]_vars => TargetsStand'
<1> SUFFICES ASSUME TypeOK, RequestsInv, TargetsStand, [Next]_vars PROVE TargetsStand'
    OBVIOUS
<1> USE DEF TargetsStand
<1>k. ASSUME UNCHANGED <<at, ref, live>> PROVE TargetsStand'
    BY <1>k DEF Row
<1>1. ASSUME NEW r \in Request, WriteAdd(r) PROVE TargetsStand'
  <2>1. PICK t \in Target : request[r].want = Refers(t)
      BY <1>1 DEF WriteAdd, RequestsInv
  <2>2. t \in live
      BY <1>1, <2>1, RefersType DEF WriteAdd
  <2>3. Row' = Row \cup {made + 1}
      BY <1>1 DEF WriteAdd, Row
  <2> QED
      BY <1>1, <2>1, <2>2, <2>3 DEF WriteAdd
<1>2. ASSUME NEW r \in Request, WriteMove(r) PROVE TargetsStand'
  <2>1. Row' = Row
      BY <1>2 DEF WriteMove, Shifted, Row
  <2> QED
      BY <1>2, <2>1 DEF WriteMove
<1>3. ASSUME NEW r \in Request, WriteDelete(r) PROVE TargetsStand'
  <2>1. Row' = Row \ {request[r].e}
      BY <1>3 DEF WriteDelete, Compacted, Row
  <2> QED
      BY <1>3, <2>1 DEF WriteDelete, Compacted
<1>4. ASSUME NEW r \in Request, WriteRetarget(r) PROVE TargetsStand'
  <2> DEFINE q == request[r]
             new == Merged(ref[q.e], q.base, q.want)
  <2>1. q.e \in Row /\ q.base \in Ref /\ q.want \in Ref
      BY <1>4 DEF WriteRetarget, TypeOK, Idle
  <2>2. new \in Ref
      BY <2>1 DEF Merged, Ref, TypeOK
  <2>3. Single(new) /\ Named(new) \subseteq live
      BY <1>4 DEF WriteRetarget
  <2>4. IsFiniteSet(Named(new))
    <3> HIDE DEF new
    <3>0. IsFiniteSet({new.work})
        BY FS_Singleton
    <3>1. IsFiniteSet({new.work} \cup {new.copy})
        BY <3>0, FS_AddElement
    <3>2. Named(new) = ({new.work} \cup {new.copy}) \ {None}
        BY DEF Named
    <3> QED
        BY <3>1, <3>2, FS_RemoveElement
  <2>5. PICK t : Named(new) = {t}
      BY <2>3, <2>4, FS_Singleton DEF Single
  <2>6. t \in live /\ new = Refers(t)
    <3>1. t \in live /\ t \in Target
        BY <2>3, <2>5 DEF TypeOK
    <3>2. new.work \in {t, None} /\ new.copy \in {t, None} /\ t # None /\ (new.work = t \/ new.copy = t)
        BY <2>5 DEF Named
    <3> QED
        BY <2>2, <3>1, <3>2 DEF Refers, Ref, Target
  <2>7. Row' = Row /\ ref' = [ref EXCEPT ![q.e] = new] /\ live' = live
      BY <1>4 DEF WriteRetarget, Row
  <2>8. ASSUME NEW x \in Row PROVE \E u \in live : ref'[x] = Refers(u)
    <3>1. CASE x = q.e
        BY <2>6, <2>7, <3>1 DEF TypeOK
    <3>2. CASE x # q.e
        BY <2>7, <3>2 DEF TypeOK
    <3> QED
        BY <3>1, <3>2
  <2> QED
      BY <2>7, <2>8
<1>5. CASE DeleteRoadmap
  <2>1. Row' = {}
      BY <1>5, SMT DEF DeleteRoadmap, Row
  <2> QED
      BY <2>1
<1>6. ASSUME NEW t \in Target, DeleteTarget(t) PROVE TargetsStand'
  <2>1. ASSUME NEW x \in Row PROVE \E u \in live' : ref[x] = Refers(u)
    <3>1. PICK u \in live : ref[x] = Refers(u)
        OBVIOUS
    <3>2. Named(ref[x]) = {u}
        BY <3>1, RefersType DEF TypeOK
    <3> QED
        BY <1>6, <3>1, <3>2 DEF DeleteTarget, Deletable
  <2> QED
      BY <1>6, <2>1 DEF DeleteTarget, Row
<1>7. ASSUME NEW s \in Work, NEW t \in Work, MergeWorks(s, t) PROVE TargetsStand'
  <2>1. ASSUME NEW x \in Row PROVE \E u \in live' : ref'[x] = Refers(u)
    <3>1. PICK u \in live : ref[x] = Refers(u)
        OBVIOUS
    <3>2. ref'[x] = IF ref[x].work = s THEN [ref[x] EXCEPT !.work = t] ELSE ref[x]
        BY <1>7 DEF MergeWorks
    <3>3. CASE u = s
        BY <1>7, <3>1, <3>2, <3>3 DEF MergeWorks, Refers
    <3>4. CASE u # s
      <4>1. ref[x].work # s
          BY <3>1, <3>4 DEF Refers
      <4> QED
          BY <1>7, <3>1, <3>2, <3>4, <4>1 DEF MergeWorks
    <3> QED
        BY <3>3, <3>4
  <2> QED
      BY <1>7, <2>1 DEF MergeWorks, Row
<1>8. CASE \E r \in Request : Read(r) \/ Fail(r)
    BY <1>8, <1>k DEF Read, ReadAdd, ReadMove, ReadDelete, ReadRetarget, Fail
<1>9. CASE UNCHANGED vars
    BY <1>9, <1>k DEF vars
<1> QED
    BY <1>1, <1>2, <1>3, <1>4, <1>5, <1>6, <1>7, <1>8, <1>9 DEF Next, Write

-----------------------------------------------------------------------------
(* The inductive invariant. *)
IInv == TypeOK /\ RequestsInv /\ Contiguous /\ TargetsStand

LEMMA InitIInv == Init => IInv
<1> SUFFICES ASSUME Init PROVE IInv
    OBVIOUS
<1>1. Row = {}
    BY SMT DEF Init, Row
<1>2. RequestsInv
    BY DEF Init, RequestsInv, Idle
<1> QED
    BY <1>1, <1>2, InitType DEF IInv, Contiguous, TargetsStand

THEOREM Invariance == Spec => []IInv
<1>1. IInv /\ [Next]_vars => IInv'
    BY StepType, RequestsStep, ContiguousStep, TargetsStep DEF IInv
<1> QED
    BY <1>1, InitIInv, PTL DEF Spec

\* Positions are 1 to the number of entries, each once, until a request
\* writes on positions that are not those it read.
THEOREM PositionsContiguous == Spec => []Contiguous
<1>1. IInv => Contiguous
    BY DEF IInv
<1> QED
    BY <1>1, Invariance, PTL

\* An entry always has exactly one target, and the target exists.
THEOREM TargetsAlwaysStand == Spec => []TargetsStand
<1>1. IInv => TargetsStand
    BY DEF IInv
<1> QED
    BY <1>1, Invariance, PTL

-----------------------------------------------------------------------------
(* Positions as a list. *)

(* If the positions f are injective, what is where they say is the list. *)
LEMMA Listing ==
  ASSUME NEW R, NEW f, NEW n \in Nat, NEW s \in [1..n -> R],
         \A x \in R : \A y \in R : f[x] = f[y] => x = y,
         \A i \in 1..n : f[s[i]] = i
  PROVE  [i \in 1..n |-> CHOOSE x \in R : f[x] = i] = s
<1>1. ASSUME NEW i \in 1..n PROVE (CHOOSE x \in R : f[x] = i) = s[i]
  <2>1. s[i] \in R /\ f[s[i]] = i
      OBVIOUS
  <2>2. (CHOOSE x \in R : f[x] = i) \in R /\ f[CHOOSE x \in R : f[x] = i] = i
      BY <2>1
  <2> QED
      BY <2>1, <2>2
<1> QED
    BY <1>1

(* Every place is taken, and Order says by whom. *)
LEMMA Places ==
  ASSUME TypeOK, Contiguous, ~torn
  PROVE  /\ Total \in Nat
         /\ Order \in [1..Total -> Row]
         /\ \A i \in 1..Total : at[Order[i]] = i
         /\ \A x \in Row : at[x] \in 1..Total /\ Order[at[x]] = x
<1>1. Total \in Nat /\ IsFiniteSet(Row)
    BY RowsFinite
<1>2. at \in Injection(Row, 1..Total)
    BY DEF TypeOK, Contiguous, Injection, IsInjective
<1>3. IsFiniteSet(1..Total) /\ Cardinality(1..Total) = Total
    BY <1>1, FS_Interval
<1>4. at \in Surjection(Row, 1..Total)
    BY <1>2, <1>3, FS_Injection DEF Total
<1>5. \A i \in 1..Total : \E x \in Row : at[x] = i
    BY <1>4 DEF Surjection
<1>6. \A i \in 1..Total : Order[i] \in Row /\ at[Order[i]] = i
    BY <1>5 DEF Order
<1>7. DOMAIN Order = 1..Total /\ Order = [i \in 1..Total |-> Order[i]]
    BY DEF Order
<1>8. ASSUME NEW x \in Row PROVE at[x] \in 1..Total /\ Order[at[x]] = x
    BY <1>6 DEF Contiguous
<1> QED
    BY <1>1, <1>6, <1>7, <1>8

(* A list without its k-th member, and with e as its k-th member. *)
LEMMA RemoveAtIs ==
  ASSUME NEW S, NEW s \in Seq(S), NEW k \in 1..Len(s)
  PROVE  /\ List!RemoveAt(s, k) \in Seq(S)
         /\ Len(List!RemoveAt(s, k)) = Len(s) - 1
         /\ \A i \in 1..Len(s) - 1 :
              List!RemoveAt(s, k)[i] = IF i < k THEN s[i] ELSE s[i + 1]
<1> DEFINE a == SubSeq(s, 1, k - 1)
           b == SubSeq(s, k + 1, Len(s))
           c == a \o b
<1>0. Len(s) \in Nat /\ \A i \in 1..Len(s) : s[i] \in S
    BY LenProperties, ElementOfSeq
<1>1. /\ a \in Seq(S) /\ Len(a) = k - 1
      /\ \A i \in 1..k - 1 : a[i] = s[i]
  <2>1. \A i \in 1..k - 1 : s[i] \in S
      BY <1>0
  <2>2. /\ a \in Seq(S) /\ Len(a) = IF 1 <= k - 1 THEN (k - 1) - 1 + 1 ELSE 0
        /\ \A i \in 1..(k - 1) - 1 + 1 : a[i] = s[1 + i - 1]
      BY <1>0, <2>1, SubSeqProperties
  <2> HIDE DEF a
  <2> QED
      BY <1>0, <2>2
<1>2. /\ b \in Seq(S) /\ Len(b) = Len(s) - k
      /\ \A i \in 1..Len(s) - k : b[i] = s[k + i]
  <2>1. \A i \in k + 1..Len(s) : s[i] \in S
      BY <1>0
  <2>2. /\ b \in Seq(S)
        /\ Len(b) = IF k + 1 <= Len(s) THEN Len(s) - (k + 1) + 1 ELSE 0
        /\ \A i \in 1..Len(s) - (k + 1) + 1 : b[i] = s[(k + 1) + i - 1]
      BY <1>0, <2>1, SubSeqProperties
  <2>3. \A i \in 1..Len(s) - k : (k + 1) + i - 1 = k + i /\ i \in 1..Len(s) - (k + 1) + 1
      BY <1>0
  <2> HIDE DEF b
  <2> QED
      BY <1>0, <2>2, <2>3
<1> HIDE DEF a, b
<1>a. a \in Seq(S) /\ b \in Seq(S)
    BY <1>1, <1>2
<1>3. /\ c \in Seq(S) /\ Len(c) = Len(a) + Len(b)
      /\ \A i \in 1..Len(a) + Len(b) :
           c[i] = IF i <= Len(a) THEN a[i] ELSE b[i - Len(a)]
    BY <1>a, ConcatProperties, Zenon DEF c
<1>4. List!RemoveAt(s, k) = c
    BY DEF List!RemoveAt, a, b, c
<1> HIDE DEF c
<1>5. ASSUME NEW i \in 1..Len(s) - 1
      PROVE  c[i] = IF i < k THEN s[i] ELSE s[i + 1]
  <2>1. CASE i < k
    <3>1. i \in 1..k - 1 /\ i \in 1..Len(a) + Len(b) /\ i <= Len(a)
        BY <1>0, <1>1, <1>2, <2>1
    <3>2. c[i] = a[i] /\ a[i] = s[i]
        BY <1>1, <1>3, <3>1
    <3> QED
        BY <2>1, <3>2
  <2>2. CASE ~(i < k)
    <3>1. i - (k - 1) \in 1..Len(s) - k /\ k + (i - (k - 1)) = i + 1
        BY <1>0, <2>2
    <3>2. b[i - (k - 1)] = s[i + 1]
        BY <1>2, <3>1
    <3>3. Len(a) = k - 1 /\ i \in 1..Len(a) + Len(b) /\ ~(i <= Len(a))
        BY <1>0, <1>1, <1>2, <2>2
    <3>4. c[i] = b[i - (k - 1)]
        BY <1>3, <3>3
    <3> QED
        BY <2>2, <3>2, <3>4
  <2> QED
      BY <2>1, <2>2
<1> QED
    BY <1>0, <1>1, <1>2, <1>3, <1>4, <1>5

Inserted(s, k, e) ==
  [i \in 1..Len(s) + 1 |-> IF i < k THEN s[i] ELSE IF i = k THEN e ELSE s[i - 1]]

LEMMA InsertAtIs ==
  ASSUME NEW S, NEW s \in Seq(S), NEW k \in 1..Len(s) + 1, NEW e \in S
  PROVE  /\ List!InsertAt(s, k, e) \in Seq(S)
         /\ Len(List!InsertAt(s, k, e)) = Len(s) + 1
         /\ List!InsertAt(s, k, e) = Inserted(s, k, e)
<1> DEFINE a == SubSeq(s, 1, k - 1)
           b == SubSeq(s, k, Len(s))
           m == <<e>>
           p == a \o m
           c == p \o b
<1>0. Len(s) \in Nat /\ \A i \in 1..Len(s) : s[i] \in S
    BY LenProperties, ElementOfSeq
<1>1. /\ a \in Seq(S) /\ Len(a) = k - 1
      /\ \A i \in 1..k - 1 : a[i] = s[i]
  <2>1. \A i \in 1..k - 1 : s[i] \in S
      BY <1>0
  <2>2. /\ a \in Seq(S) /\ Len(a) = IF 1 <= k - 1 THEN (k - 1) - 1 + 1 ELSE 0
        /\ \A i \in 1..(k - 1) - 1 + 1 : a[i] = s[1 + i - 1]
      BY <1>0, <2>1, SubSeqProperties
  <2> HIDE DEF a
  <2> QED
      BY <1>0, <2>2
<1>2. /\ b \in Seq(S) /\ Len(b) = Len(s) - k + 1
      /\ \A i \in 1..Len(s) - k + 1 : b[i] = s[k + i - 1]
  <2>1. \A i \in k..Len(s) : s[i] \in S
      BY <1>0
  <2>2. /\ b \in Seq(S)
        /\ Len(b) = IF k <= Len(s) THEN Len(s) - k + 1 ELSE 0
        /\ \A i \in 1..Len(s) - k + 1 : b[i] = s[k + i - 1]
      BY <1>0, <2>1, SubSeqProperties
  <2> HIDE DEF b
  <2> QED
      BY <1>0, <2>2
<1>3. m \in Seq(S) /\ Len(m) = 1 /\ m[1] = e
    OBVIOUS
<1> HIDE DEF a, b, m
<1>a. a \in Seq(S) /\ m \in Seq(S)
    BY <1>1, <1>3
<1>4. /\ p \in Seq(S) /\ Len(p) = k
      /\ \A i \in 1..k : p[i] = IF i < k THEN s[i] ELSE e
  <2>1. /\ p \in Seq(S) /\ Len(p) = Len(a) + Len(m)
        /\ \A i \in 1..Len(a) + Len(m) :
             p[i] = IF i <= Len(a) THEN a[i] ELSE m[i - Len(a)]
      BY <1>a, ConcatProperties, Zenon DEF p
  <2> HIDE DEF p
  <2> QED
      BY <1>0, <1>1, <1>3, <2>1
<1> HIDE DEF p
<1>b. p \in Seq(S) /\ b \in Seq(S)
    BY <1>2, <1>4
<1>5. /\ c \in Seq(S) /\ Len(c) = Len(p) + Len(b)
      /\ \A i \in 1..Len(p) + Len(b) :
           c[i] = IF i <= Len(p) THEN p[i] ELSE b[i - Len(p)]
    BY <1>b, ConcatProperties, Zenon DEF c
<1>6. List!InsertAt(s, k, e) = c
    BY DEF List!InsertAt, a, b, m, p, c
<1> HIDE DEF c
<1>7. ASSUME NEW i \in 1..Len(s) + 1
      PROVE  c[i] = IF i < k THEN s[i] ELSE IF i = k THEN e ELSE s[i - 1]
  <2>1. CASE i <= k
    <3>1. i \in 1..k /\ i \in 1..Len(p) + Len(b) /\ i <= Len(p)
        BY <1>0, <1>2, <1>4, <2>1
    <3>2. c[i] = p[i]
        BY <1>5, <3>1
    <3>3. p[i] = IF i < k THEN s[i] ELSE e
        BY <1>4, <3>1
    <3> QED
        BY <2>1, <3>1, <3>2, <3>3
  <2>2. CASE i > k
    <3>1. i - k \in 1..Len(s) - k + 1 /\ k + (i - k) - 1 = i - 1
        BY <1>0, <2>2
    <3>2. b[i - k] = s[i - 1]
        BY <1>2, <3>1
    <3>3. Len(p) = k /\ i \in 1..Len(p) + Len(b) /\ ~(i <= Len(p))
        BY <1>0, <1>2, <1>4, <2>2
    <3>4. c[i] = b[i - k]
        BY <1>5, <3>3
    <3> QED
        BY <2>2, <3>2, <3>4
  <2> QED
      BY <1>0, <2>1, <2>2
<1>8. Len(c) = Len(s) + 1
    BY <1>0, <1>2, <1>4, <1>5
<1>9. c = Inserted(s, k, e)
  <2>1. c \in [1..Len(s) + 1 -> S]
      BY <1>5, <1>8, LenProperties
  <2> QED
      BY <1>7, <2>1 DEF Inserted
<1> QED
    BY <1>5, <1>6, <1>8, <1>9

(* A sequence in which everybody is where it says after a step is the list *)
(* after the step. *)
LEMMA Relisted ==
  ASSUME Contiguous', ~torn', NEW S, NEW s \in Seq(S), Len(s) = Total',
         \A i \in 1..Len(s) : s[i] \in Row' /\ at'[s[i]] = i
  PROVE  Order' = s
<1>1. Len(s) \in Nat /\ s \in [1..Len(s) -> Row']
    BY LenProperties
<1>2. \A x \in Row' : \A y \in Row' : at'[x] = at'[y] => x = y
    BY DEF Contiguous
<1>3. Order' = [i \in 1..Total' |-> CHOOSE e \in Row' : at'[e] = i]
    BY DEF Order
<1>4. [i \in 1..Len(s) |-> CHOOSE e \in Row' : at'[e] = i] = s
    BY <1>1, <1>2, Listing
<1> QED
    BY <1>3, <1>4

LEMMA OrderSeq ==
  ASSUME TypeOK, Contiguous, ~torn
  PROVE  Order \in Seq(Entry) /\ Len(Order) = Total /\ List!Range(Order) = Row
<1>1. Total \in Nat /\ Order \in [1..Total -> Row] /\ Row \subseteq Entry
    BY Places DEF TypeOK, Entry
<1>2. Order \in Seq(Row)
    BY <1>1
<1>3. Len(Order) = Total
    BY <1>1
<1>4. Order \in Seq(Entry)
    BY <1>1, <1>2, SeqMonotonic
<1>5. List!Range(Order) = Row
  <2>1. DOMAIN Order = 1..Total
      BY <1>1
  <2> QED
      BY <1>1, <2>1, Places DEF List!Range
<1> QED
    BY <1>3, <1>4, <1>5

(* A new entry is appended. *)
LEMMA AddActs ==
  ASSUME IInv, Contiguous', NEW r \in Request, WriteAdd(r), ~torn'
  PROVE  ~torn /\ \E e \in Entry \ List!Range(Order) : Order' = Append(Order, e)
<1> DEFINE e == made + 1
<1>1. TypeOK /\ Contiguous /\ Total \in Nat /\ IsFiniteSet(Row)
    BY RowsFinite DEF IInv
<1>2. request[r].count = Total /\ ~torn
    BY <1>1 DEF WriteAdd, Tear, Current, TypeOK
<1>3. e \in Entry /\ e \notin Row /\ Row' = Row \cup {e}
    BY <1>1 DEF WriteAdd, TypeOK, Row, Entry
<1>4. Total' = Total + 1
    BY <1>1, <1>3, FS_AddElement DEF Total
<1>5. \A x \in Row' : at'[x] = IF x = e THEN Total + 1 ELSE at[x]
    BY <1>1, <1>2, <1>3 DEF WriteAdd, Row
<1>6. Order \in Seq(Entry) /\ Len(Order) = Total /\ List!Range(Order) = Row
    BY <1>1, <1>2, OrderSeq
<1>7. \A i \in 1..Total : Order[i] \in Row /\ at[Order[i]] = i
    BY <1>1, <1>2, Places
<1> DEFINE s == Append(Order, e)
<1>8. /\ s \in Seq(Entry) /\ Len(s) = Total + 1
      /\ \A i \in 1..Total : s[i] = Order[i]
      /\ s[Total + 1] = e
    BY <1>3, <1>6, AppendProperties
<1> HIDE DEF s, e
<1>9. ASSUME NEW i \in 1..Len(s) PROVE s[i] \in Row' /\ at'[s[i]] = i
  <2>1. CASE i = Total + 1
      BY <1>3, <1>5, <1>8, <2>1
  <2>2. CASE i # Total + 1
    <3>1. i \in 1..Total
        BY <1>1, <1>8, <2>2
    <3> QED
        BY <1>3, <1>5, <1>7, <1>8, <3>1
  <2> QED
      BY <2>1, <2>2
<1>10. Order' = s
    BY <1>4, <1>8, <1>9, Relisted
<1> QED
    BY <1>2, <1>3, <1>6, <1>10 DEF s

(* The deleted entry is taken out. *)
LEMMA DeleteActs ==
  ASSUME IInv, Contiguous', NEW r \in Request, WriteDelete(r), ~torn'
  PROVE  ~torn /\ \E k \in 1..Len(Order) : Order' = List!RemoveAt(Order, k)
<1> DEFINE q == request[r]
           k == q.old
<1>1. TypeOK /\ Contiguous /\ Total \in Nat /\ IsFiniteSet(Row)
    BY RowsFinite DEF IInv
<1>2. q.e \in Row /\ at[q.e] = k /\ ~torn
    BY <1>1 DEF WriteDelete, Tear, Current, TypeOK
<1>3. Row' = Row \ {q.e}
    BY DEF WriteDelete, Compacted, Row
<1>4. Total' = Total - 1
    BY <1>1, <1>2, <1>3, FS_RemoveElement DEF Total
<1>5. \A x \in Row' : at'[x] = IF at[x] > k THEN at[x] - 1 ELSE at[x]
    BY <1>3 DEF WriteDelete, Compacted
<1>6. Order \in Seq(Entry) /\ Len(Order) = Total
    BY <1>1, <1>2, OrderSeq
<1>7. /\ \A i \in 1..Total : Order[i] \in Row /\ at[Order[i]] = i
      /\ k \in 1..Total
    BY <1>1, <1>2, Places
<1> DEFINE s == List!RemoveAt(Order, k)
<1>8. /\ s \in Seq(Entry) /\ Len(s) = Total - 1
      /\ \A i \in 1..Total - 1 : s[i] = IF i < k THEN Order[i] ELSE Order[i + 1]
    BY <1>6, <1>7, RemoveAtIs
<1> HIDE DEF s, q, k
<1>9. ASSUME NEW i \in 1..Len(s) PROVE s[i] \in Row' /\ at'[s[i]] = i
  <2>1. CASE i < k
    <3>1. s[i] = Order[i] /\ Order[i] \in Row /\ at[Order[i]] = i
        BY <1>1, <1>7, <1>8, <2>1
    <3>2. s[i] \in Row'
        BY <1>2, <1>3, <2>1, <3>1
    <3> QED
        BY <1>5, <1>7, <2>1, <3>1, <3>2
  <2>2. CASE ~(i < k)
    <3>1. /\ i \in Nat /\ i + 1 \in 1..Total
          /\ s[i] = Order[i + 1] /\ Order[i + 1] \in Row /\ at[Order[i + 1]] = i + 1
        BY <1>1, <1>7, <1>8, <2>2
    <3>2. k \in Nat /\ i + 1 > k
        BY <1>7, <2>2, <3>1
    <3>3. s[i] \in Row'
        BY <1>2, <1>3, <3>1, <3>2
    <3> QED
        BY <1>5, <3>1, <3>2, <3>3
  <2> QED
      BY <2>1, <2>2
<1>10. Order' = s
    BY <1>4, <1>8, <1>9, Relisted
<1> QED
    BY <1>2, <1>6, <1>7, <1>10 DEF s

(* The moved entry is taken out and put in again where it was asked to be. *)
LEMMA MoveActs ==
  ASSUME IInv, Contiguous', NEW r \in Request, WriteMove(r), ~torn'
  PROVE  ~torn /\ \E k \in 1..Len(Order), n \in 1..Len(Order) :
                    Order' = List!InsertAt(List!RemoveAt(Order, k), n, Order[k])
<1> DEFINE q == request[r]
           k == q.old
           n == q.to
<1>1. TypeOK /\ Contiguous /\ Total \in Nat
    BY RowsFinite DEF IInv
<1>2. q.e \in Row /\ k \in Place /\ n \in Place /\ q.count \in Nat
    BY <1>1 DEF WriteMove, TypeOK, Idle
<1>3. at[q.e] = k /\ n \in 1..Total /\ ~torn
  <2>1. Current(q) /\ ~torn
      BY <1>1 DEF WriteMove, Tear, TypeOK
  <2>2. at[q.e] = k /\ q.count <= Total
      BY <2>1 DEF WriteMove, Current
  <2>3. n <= q.count
      BY DEF WriteMove, IInv, RequestsInv
  <2> QED
      BY <1>1, <1>2, <2>1, <2>2, <2>3 DEF Place
<1>4. Row' = Row /\ Total' = Total /\ at' = Shifted(q)
    BY DEF WriteMove, Shifted, Row, Total
<1>5. Order \in Seq(Entry) /\ Len(Order) = Total
    BY <1>1, <1>3, OrderSeq
<1>6. /\ \A i \in 1..Total : Order[i] \in Row /\ at[Order[i]] = i
      /\ k \in 1..Total /\ Order[k] = q.e
    BY <1>1, <1>2, <1>3, Places
<1> HIDE DEF k, n, q
<1> DEFINE u == List!RemoveAt(Order, k)
           s == List!InsertAt(u, n, Order[k])
<1>7. /\ u \in Seq(Entry) /\ Len(u) = Total - 1
      /\ \A i \in 1..Total - 1 : u[i] = IF i < k THEN Order[i] ELSE Order[i + 1]
    BY <1>5, <1>6, RemoveAtIs
<1> HIDE DEF u
<1>8. /\ s \in Seq(Entry) /\ Len(s) = Total
      /\ \A i \in 1..Total : s[i] = IF i < n THEN u[i] ELSE IF i = n THEN q.e ELSE u[i - 1]
  <2>0. u \in Seq(Entry)
      BY <1>7
  <2>1. n \in 1..Len(u) + 1 /\ Order[k] \in Entry /\ Len(u) + 1 = Total
      BY <1>1, <1>3, <1>5, <1>6, <1>7, ElementOfSeq
  <2>2. /\ s \in Seq(Entry) /\ Len(s) = Len(u) + 1
        /\ \A i \in 1..Len(u) + 1 :
             s[i] = IF i < n THEN u[i] ELSE IF i = n THEN Order[k] ELSE u[i - 1]
    <3>1. s \in Seq(Entry) /\ Len(s) = Len(u) + 1 /\ s = Inserted(u, n, Order[k])
        BY <2>0, <2>1, InsertAtIs
    <3> HIDE DEF s
    <3> QED
        BY <2>0, <3>1 DEF Inserted
  <2> HIDE DEF s
  <2> QED
      BY <1>6, <2>1, <2>2
<1> HIDE DEF s
<1>9. \A x \in Row : at'[x] = CASE x = q.e -> n
                              [] x # q.e /\ at[x] \in n..(k - 1) -> at[x] + 1
                              [] x # q.e /\ at[x] \in (k + 1)..n -> at[x] - 1
                              [] OTHER -> at[x]
    BY <1>4 DEF Shifted, k, n, q
<1>10. ASSUME NEW i \in 1..Len(s) PROVE s[i] \in Row' /\ at'[s[i]] = i
  <2>0. i \in 1..Total /\ i \in Nat /\ k \in Nat /\ n \in Nat
      BY <1>1, <1>3, <1>6, <1>8
  <2>a. \A j \in 1..Total : j # k => Order[j] # q.e
      BY <1>3, <1>6
  <2>1. CASE i = n
      BY <1>2, <1>4, <1>8, <1>9, <2>0, <2>1
  <2>2. CASE i < n /\ i < k
    <3>1. s[i] = Order[i]
        BY <1>1, <1>3, <1>7, <1>8, <2>0, <2>2
    <3> QED
        BY <1>4, <1>6, <1>9, <2>0, <2>a, <2>2, <3>1
  <2>3. CASE i < n /\ ~(i < k)
    <3>1. s[i] = Order[i + 1] /\ i + 1 \in 1..Total
        BY <1>1, <1>3, <1>7, <1>8, <2>0, <2>3
    <3> QED
        BY <1>4, <1>6, <1>9, <2>0, <2>a, <2>3, <3>1
  <2>4. CASE i > n /\ i - 1 < k
    <3>1. s[i] = Order[i - 1] /\ i - 1 \in 1..Total
        BY <1>1, <1>3, <1>7, <1>8, <2>0, <2>4
    <3> QED
        BY <1>4, <1>6, <1>9, <2>0, <2>a, <2>4, <3>1
  <2>5. CASE i > n /\ ~(i - 1 < k)
    <3>1. i - 1 \in 1..Total - 1 /\ (i - 1) + 1 = i
        BY <1>1, <1>3, <2>0, <2>5
    <3>2. u[i - 1] = Order[i]
        BY <1>7, <2>5, <3>1
    <3>3. s[i] = Order[i]
        BY <1>8, <2>0, <2>5, <3>2
    <3>4. i > k /\ Order[i] \in Row /\ Order[i] # q.e /\ at[Order[i]] = i
        BY <1>6, <2>0, <2>a, <2>5
    <3>5. at'[Order[i]] = i
        BY <1>9, <2>0, <2>5, <3>4
    <3> QED
        BY <1>4, <3>3, <3>4, <3>5
  <2> QED
      BY <2>0, <2>1, <2>2, <2>3, <2>4, <2>5
<1>11. Order' = s
    BY <1>4, <1>8, <1>10, Relisted
<1> QED
    BY <1>3, <1>5, <1>6, <1>11 DEF s, u

(* A deleted roadmap is empty. *)
LEMMA ClearActs ==
  ASSUME at' = <<>>
  PROVE  Order' = <<>>
<1>1. Row' = {}
    BY SMT DEF Row
<1>2. Total' = 0
    BY <1>1, FS_EmptySet DEF Total
<1>3. Order' = [i \in 1..0 |-> CHOOSE e \in Row' : at'[e] = i]
    BY <1>2 DEF Order
<1> QED
    BY <1>3

\* Requests do to the positions what appending, moving, removing and clearing
\* do to a list, until one writes on positions that are not those it read.
THEOREM RequestsActAsOnList == Spec => ActsAsList
<1> DEFINE order == IF torn THEN <<>> ELSE Order
<1>1. Init => List!Init
  <2> SUFFICES ASSUME Init PROVE Order = <<>> /\ torn = FALSE
      BY DEF List!Init
  <2>1. Row = {}
      BY SMT DEF Init, Row
  <2>2. Total = 0
      BY <2>1, FS_EmptySet DEF Total
  <2>3. Order = [i \in 1..0 |-> CHOOSE e \in Row : at[e] = i]
      BY <2>2 DEF Order
  <2> QED
      BY <2>3 DEF Init
<1>2. ASSUME IInv, Contiguous', [Next]_vars PROVE [List!Next]_<<order, torn>>
  <2>1. CASE torn
    <3>1. torn'
        BY <2>1, <1>2 DEF Next, Read, Write, ReadAdd, ReadMove, ReadDelete, ReadRetarget,
           WriteAdd, WriteMove, WriteDelete, WriteRetarget, Fail, DeleteRoadmap, DeleteTarget,
           MergeWorks, Tear, vars
    <3> QED
        BY <3>1 DEF List!Next, List!Torn
  <2>2. CASE ~torn /\ torn'
      BY <2>2 DEF List!Next, List!Torn
  <2>3. CASE ~torn /\ ~torn'
    <3>0. order = Order /\ order' = Order' /\ torn' = torn
        BY <1>2, <2>3 DEF IInv, TypeOK, Next, Read, Write, ReadAdd, ReadMove, ReadDelete, ReadRetarget,
           WriteAdd, WriteMove, WriteDelete, WriteRetarget, Fail, DeleteRoadmap, DeleteTarget,
           MergeWorks, Tear, vars
    <3>1. ASSUME NEW r \in Request, WriteAdd(r) PROVE List!Next
        BY <1>2, <2>3, <3>1, AddActs DEF List!Next, List!Added
    <3>2. ASSUME NEW r \in Request, WriteMove(r) PROVE List!Next
        BY <1>2, <2>3, <3>2, MoveActs DEF List!Next, List!Moved
    <3>3. ASSUME NEW r \in Request, WriteDelete(r) PROVE List!Next
        BY <1>2, <2>3, <3>3, DeleteActs DEF List!Next, List!Removed
    <3>4. ASSUME at' = <<>> PROVE List!Next
        BY <2>3, <3>4, ClearActs DEF List!Next, List!Cleared
    <3>5. ASSUME at' = at PROVE UNCHANGED <<order, torn>>
      <4>1. Order' = Order
          BY <3>5 DEF Order, Total, Row
      <4> QED
          BY <3>0, <4>1
    <3> QED
        BY <1>2, <3>1, <3>2, <3>3, <3>4, <3>5
        DEF Next, Read, Write, ReadAdd, ReadMove, ReadDelete, ReadRetarget, WriteRetarget, Fail,
            DeleteRoadmap, DeleteTarget, MergeWorks, vars
  <2> QED
      BY <2>1, <2>2, <2>3
<1>3. IInv' => Contiguous'
    BY DEF IInv
<1> QED
    BY <1>1, <1>2, <1>3, Invariance, PTL DEF Spec, ActsAsList, List!Spec
=============================================================================
