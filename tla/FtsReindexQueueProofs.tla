----------------------- MODULE FtsReindexQueueProofs -----------------------
(***************************************************************************)
(* Proofs about FtsReindexQueue, for any sets of entities, overlapping     *)
(* requests and tasks, any delays and any bound on the faults.             *)
(***************************************************************************)
EXTENDS FtsReindexQueue, TLAPS

(* The strengthening that makes NothingForgotten inductive: only a fault   *)
(* takes Redis away, and an Add without Redis drops the entity.            *)
IInv == TypeOK /\ (faults = 0 => redis) /\ NothingForgotten

LEMMA InitIInv == Init => IInv
  BY TimesAssumption, BoundAssumption
  DEF Init, IInv, TypeOK, NothingForgotten, NoRequest, NoTask

(* Types. *)
LEMMA StepType == TypeOK /\ [Next]_vars => TypeOK'
<1> SUFFICES ASSUME TypeOK, [Next]_vars PROVE TypeOK'
    OBVIOUS
<1> USE TimesAssumption, BoundAssumption DEF TypeOK
<1>1. ASSUME NEW r \in Request, NEW e \in Entity, Commit(r, e) PROVE TypeOK'
    BY <1>1 DEF Commit
<1>2. ASSUME NEW r \in Request, Add(r) PROVE TypeOK'
    BY <1>2 DEF Add, NoRequest
<1>3. ASSUME NEW r \in Request, SetFlag(r) PROVE TypeOK'
    BY <1>3 DEF SetFlag, NoRequest
<1>4. ASSUME NEW r \in Request, Apply(r) PROVE TypeOK'
  <2>1. (CHOOSE t \in Free : TRUE) \in Task
      BY <1>4 DEF Apply, Free
  <2>2. task' \in [Task -> [pc : {"free", "waiting", "drain", "update"},
                            left : 0..Countdown, keys : SUBSET Entity]]
      BY <1>4, <2>1 DEF Apply
  <2> QED
      BY <1>4, <2>2 DEF Apply, NoRequest
<1>5. ASSUME NEW r \in Request, ApplyFails(r) PROVE TypeOK'
    BY <1>5 DEF ApplyFails, NoRequest
<1>6. ASSUME NEW t \in Task, Start(t) PROVE TypeOK'
    BY <1>6 DEF Start
<1>7. ASSUME NEW t \in Task, Pop(t) PROVE TypeOK'
    BY <1>7 DEF Pop
<1>8. ASSUME NEW t \in Task, Drained(t) PROVE TypeOK'
    BY <1>8 DEF Drained, NoTask
<1>9. ASSUME NEW t \in Task, Update(t) PROVE TypeOK'
    BY <1>9 DEF Update, NoTask
<1>10. ASSUME NEW t \in Task, UpdateFails(t) PROVE TypeOK'
    BY <1>10 DEF UpdateFails, Fault, NoTask
<1>11. CASE Tick
  <2>1. flag' \in 0..Ttl
      BY <1>11 DEF Tick
  <2>2. ASSUME NEW t \in Task
        PROVE  [task[t] EXCEPT !.left = IF @ > 0 THEN @ - 1 ELSE 0]
                 \in [pc : {"free", "waiting", "drain", "update"},
                      left : 0..Countdown, keys : SUBSET Entity]
      OBVIOUS
  <2> QED
      BY <1>11, <2>1, <2>2 DEF Tick
<1>12. CASE CrashWeb
    BY <1>12 DEF CrashWeb, Fault, NoRequest
<1>13. CASE RedisDown \/ RedisUp
  <2>1. faults' \in 0..MaxFaults
      BY <1>13 DEF RedisDown, RedisUp, Fault
  <2>2. redis' \in BOOLEAN
      BY <1>13, Zenon DEF RedisDown, RedisUp
  <2> QED
      BY <1>13, <2>1, <2>2, Zenon DEF RedisDown, RedisUp
<1>14. CASE UNCHANGED vars
    BY <1>14 DEF vars
<1> QED
    BY <1>1, <1>2, <1>3, <1>4, <1>5, <1>6, <1>7, <1>8, <1>9, <1>10, <1>11, <1>12,
       <1>13, <1>14 DEF Next, Enqueue, Batch

(* A step without a fault leaves every stale entity somewhere it will be   *)
(* found.                                                                  *)
LEMMA StepForgets == IInv /\ [Next]_vars => NothingForgotten'
<1> SUFFICES ASSUME IInv, [Next]_vars, faults' = 0, NEW e \in Entity, stale'[e]
             PROVE  Pending(e)'
    BY DEF NothingForgotten
<1>0. TypeOK /\ TypeOK'
    BY StepType DEF IInv
<1>a. faults = 0 => redis /\ (stale[e] => Pending(e))
    BY DEF IInv, NothingForgotten
<1> USE DEF TypeOK
<1>1. ASSUME NEW r \in Request, NEW x \in Entity, Commit(r, x) PROVE Pending(e)'
  <2>1. CASE x = e
      BY <1>0, <1>1, <2>1 DEF Commit, Pending
  <2>2. CASE x # e
      BY <1>0, <1>1, <1>a, <2>2 DEF Commit, Pending, NoRequest
  <2> QED
      BY <2>1, <2>2
<1>2. ASSUME NEW r \in Request, Add(r) PROVE Pending(e)'
    BY <1>0, <1>2, <1>a DEF Add, Pending
<1>3. ASSUME NEW r \in Request, SetFlag(r) PROVE Pending(e)'
    BY <1>0, <1>3, <1>a DEF SetFlag, Pending, NoRequest
<1>4. ASSUME NEW r \in Request, Apply(r) PROVE Pending(e)'
  <2> DEFINE f == CHOOSE t \in Free : TRUE
  <2>1. f \in Task /\ task[f].pc = "free"
      BY <1>4 DEF Apply, Free, NoTask
  <2>2. task' = [task EXCEPT ![f] = [pc |-> "waiting", left |-> Countdown, keys |-> {}]]
      BY <1>4 DEF Apply
  <2> HIDE DEF f
  <2>3. \A t \in Task : task[t].pc \in {"drain", "update"} => task'[t] = task[t]
      BY <1>0, <2>1, <2>2
  <2>4. \A s \in Request : request[s].pc = "sadd" => request'[s] = request[s]
      BY <1>0, <1>4 DEF Apply
  <2>5. queue' = queue /\ stale' = stale /\ faults' = faults
      BY <1>4 DEF Apply
  <2> QED
      BY <1>a, <2>3, <2>4, <2>5 DEF Pending
<1>5. ASSUME NEW r \in Request, ApplyFails(r) PROVE Pending(e)'
    BY <1>0, <1>5, <1>a DEF ApplyFails, Pending
<1>6. ASSUME NEW t \in Task, Start(t) PROVE Pending(e)'
    BY <1>0, <1>6, <1>a DEF Start, Pending
<1>7. ASSUME NEW t \in Task, Pop(t) PROVE Pending(e)'
    BY <1>0, <1>7, <1>a DEF Pop, Pending
<1>8. ASSUME NEW t \in Task, Drained(t) PROVE Pending(e)'
    BY <1>0, <1>8, <1>a DEF Drained, Pending, NoTask
<1>9. ASSUME NEW t \in Task, Update(t) PROVE Pending(e)'
    BY <1>0, <1>9, <1>a DEF Update, Pending, NoTask
<1>10. ASSUME NEW t \in Task, UpdateFails(t) PROVE Pending(e)'
    BY <1>0, <1>10 DEF UpdateFails, Fault
<1>11. CASE Tick
    BY <1>0, <1>11, <1>a DEF Tick, Pending
<1>12. CASE CrashWeb \/ RedisDown
    BY <1>0, <1>12 DEF CrashWeb, RedisDown, Fault
<1>13. CASE RedisUp \/ UNCHANGED vars
    BY <1>0, <1>13, <1>a DEF RedisUp, Pending, vars
<1> QED
    BY <1>1, <1>2, <1>3, <1>4, <1>5, <1>6, <1>7, <1>8, <1>9, <1>10, <1>11, <1>12,
       <1>13 DEF Next, Enqueue, Batch

(* Faults are only counted up, and Redis goes only with one.               *)
LEMMA StepRedis == IInv /\ [Next]_vars => (faults = 0 => redis)'
<1> SUFFICES ASSUME IInv, [Next]_vars, faults' = 0 PROVE redis'
    OBVIOUS
<1>1. faults \in 0..MaxFaults /\ (faults = 0 => redis)
    BY DEF IInv, TypeOK
<1>2. CASE UNCHANGED <<redis, faults>>
    BY <1>1, <1>2
<1>3. CASE RedisUp
    BY <1>3 DEF RedisUp
<1>4. CASE Fault
    BY <1>1, <1>4, BoundAssumption DEF Fault
<1> QED
    BY <1>2, <1>3, <1>4 DEF Next, Enqueue, Batch, vars, Commit, Add, SetFlag, Apply,
       ApplyFails, Start, Pop, Drained, Update, UpdateFails, Tick, CrashWeb, RedisDown

LEMMA Invariance == Spec => []IInv
<1>1. IInv /\ [Next]_vars => IInv'
    BY StepType, StepForgets, StepRedis DEF IInv
<1> QED
    BY <1>1, InitIInv, PTL DEF Spec

-----------------------------------------------------------------------------
(* The types of the state, however requests and tasks interleave.          *)
THEOREM TypeCorrect == Spec => []TypeOK
<1>1. IInv => TypeOK
    BY DEF IInv
<1> QED
    BY <1>1, Invariance, PTL

(* enqueue_fts_reindex and batch_fts_reindex lose no change between them,  *)
(* for any number of requests and tasks, as long as nothing fails.         *)
THEOREM NothingIsForgotten == Spec => []NothingForgotten
<1>1. IInv => NothingForgotten
    BY DEF IInv
<1> QED
    BY <1>1, Invariance, PTL
=============================================================================
