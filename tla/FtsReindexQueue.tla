--------------------------- MODULE FtsReindexQueue ---------------------------
(***************************************************************************)
(* The debounced full-text reindexing of core/tasks.py.  A request commits *)
(* its change, adds the entity to a set in Redis and, unless a flag with a *)
(* time to live is set, schedules a batch task Countdown later.  The task  *)
(* pops the set until it is empty, recomputes the search vectors of what   *)
(* it popped and commits.  Without Redis the entity goes to a set in the   *)
(* memory of the web process; the task empties the set of its own process, *)
(* a worker, so that what is put there is as good as lost and is not kept. *)
(***************************************************************************)
EXTENDS Naturals, FiniteSets

CONSTANTS
  Entity,     \* works, manifestations and items with a search vector
  Request,    \* requests of the web process that run at the same time
  Task,       \* bound: batch tasks scheduled or running at the same time
  Countdown,  \* delay of a batch task, in ticks (5 s)
  Ttl,        \* life of the flag, in ticks (10 s)
  MaxFaults   \* bound: crashes, outages, failed commits and dispatches

ASSUME TimesAssumption == Countdown \in Nat /\ Ttl \in Nat \ {0}
ASSUME BoundAssumption == MaxFaults \in Nat

VARIABLES
  stale,    \* stale[e]: e's committed data is newer than its search vector
  request,  \* request[r]: [pc, e], where r is after its commit
  queue,    \* REDIS_FTS_QUEUE_KEY
  flag,     \* ticks left of REDIS_FTS_SCHEDULED_KEY, 0 if it is not set
  redis,    \* TRUE iff Redis answers
  task,     \* task[t]: [pc, left, keys]
  faults    \* faults so far

vars == <<stale, request, queue, flag, redis, task, faults>>

NoRequest == [pc |-> "idle", e |-> "none"]
NoTask == [pc |-> "free", left |-> 0, keys |-> {}]

TypeOK ==
  /\ stale \in [Entity -> BOOLEAN]
  /\ request \in [Request -> [pc : {"sadd", "flag", "apply"}, e : Entity] \cup {NoRequest}]
  /\ queue \subseteq Entity
  /\ flag \in 0..Ttl
  /\ redis \in BOOLEAN
  /\ task \in [Task -> [pc : {"free", "waiting", "drain", "update"},
                        left : 0..Countdown, keys : SUBSET Entity]]
  /\ faults \in 0..MaxFaults

Init ==
  /\ stale = [e \in Entity |-> FALSE]
  /\ request = [r \in Request |-> NoRequest]
  /\ queue = {}
  /\ flag = 0
  /\ redis = TRUE
  /\ task = [t \in Task |-> NoTask]
  /\ faults = 0

-----------------------------------------------------------------------------
(* A request: commit, then enqueue_fts_reindex. *)

\* The change is committed; enqueue_fts_reindex begins and pings Redis.
Commit(r, e) ==
  /\ request[r] = NoRequest
  /\ stale' = [stale EXCEPT ![e] = TRUE]
  /\ request' = [request EXCEPT ![r] = [pc |-> "sadd", e |-> e]]
  /\ UNCHANGED <<queue, flag, redis, task, faults>>

\* sadd, or the set of the process if Redis does not answer.
Add(r) ==
  /\ request[r].pc = "sadd"
  /\ IF redis
       THEN /\ queue' = queue \cup {request[r].e}
            /\ request' = [request EXCEPT ![r].pc = "flag"]
       ELSE /\ request' = [request EXCEPT ![r] = NoRequest]
            /\ UNCHANGED queue
  /\ UNCHANGED <<stale, flag, redis, task, faults>>

\* set nx ex: only who sets the flag schedules a batch.
SetFlag(r) ==
  /\ request[r].pc = "flag"
  /\ IF redis /\ flag = 0
       THEN /\ flag' = Ttl
            /\ request' = [request EXCEPT ![r].pc = "apply"]
       ELSE /\ request' = [request EXCEPT ![r] = NoRequest]
            /\ UNCHANGED flag
  /\ UNCHANGED <<stale, queue, redis, task, faults>>

Free == {t \in Task : task[t] = NoTask}

\* apply_async(countdown).
Apply(r) ==
  /\ request[r].pc = "apply"
  /\ redis
  /\ Free # {}
  /\ task' = [task EXCEPT ![CHOOSE t \in Free : TRUE] =
                [pc |-> "waiting", left |-> Countdown, keys |-> {}]]
  /\ request' = [request EXCEPT ![r] = NoRequest]
  /\ UNCHANGED <<stale, queue, flag, redis, faults>>

\* apply_async raises: the flag stays.
ApplyFails(r) ==
  /\ request[r].pc = "apply"
  /\ ~redis
  /\ request' = [request EXCEPT ![r] = NoRequest]
  /\ UNCHANGED <<stale, queue, flag, redis, task, faults>>

-----------------------------------------------------------------------------
(* batch_fts_reindex, in a worker process. *)

Start(t) ==
  /\ task[t].pc = "waiting" /\ task[t].left = 0
  /\ task' = [task EXCEPT ![t].pc = "drain"]
  /\ UNCHANGED <<stale, request, queue, flag, redis, faults>>

\* Mutant: what was popped before is overwritten.
PopLast(t) ==
  /\ task[t].pc = "drain"
  /\ redis /\ queue # {}
  /\ task' = [task EXCEPT ![t].keys = queue]
  /\ queue' = {}
  /\ UNCHANGED <<stale, request, flag, redis, faults>>

\* spop, at most 50 at a time: what is popped is nowhere but in the task.
Pop(t) ==
  /\ task[t].pc = "drain"
  /\ redis /\ queue # {}
  /\ task' = [task EXCEPT ![t].keys = @ \cup queue]
  /\ queue' = {}
  /\ UNCHANGED <<stale, request, flag, redis, faults>>

\* The set is empty, or Redis does not answer: the task goes on with what it
\* has, and ends if that is nothing.
Drained(t) ==
  /\ task[t].pc = "drain"
  /\ queue = {} \/ ~redis
  /\ task' = [task EXCEPT ![t] = IF @.keys = {} THEN NoTask ELSE [@ EXCEPT !.pc = "update"]]
  /\ UNCHANGED <<stale, request, queue, flag, redis, faults>>

\* The vectors are recomputed from what is committed, and committed.
Update(t) ==
  /\ task[t].pc = "update"
  /\ stale' = [e \in Entity |-> stale[e] /\ e \notin task[t].keys]
  /\ task' = [task EXCEPT ![t] = NoTask]
  /\ UNCHANGED <<request, queue, flag, redis, faults>>

-----------------------------------------------------------------------------
(* Time and faults. *)

\* Mutant: the flag is set without a time to live.
TickKeepsFlag ==
  /\ \E t \in Task : task[t].left > 0
  /\ task' = [t \in Task |-> [task[t] EXCEPT !.left = IF @ > 0 THEN @ - 1 ELSE 0]]
  /\ UNCHANGED <<stale, request, queue, flag, redis, faults>>

\* Mutant: the flag is counted below zero.
TickBelow ==
  /\ flag > 0 \/ \E t \in Task : task[t].left > 0
  /\ flag' = flag - 1
  /\ task' = [t \in Task |-> [task[t] EXCEPT !.left = IF @ > 0 THEN @ - 1 ELSE 0]]
  /\ UNCHANGED <<stale, request, queue, redis, faults>>

Tick ==
  /\ flag > 0 \/ \E t \in Task : task[t].left > 0
  /\ flag' = IF flag > 0 THEN flag - 1 ELSE 0
  /\ task' = [t \in Task |-> [task[t] EXCEPT !.left = IF @ > 0 THEN @ - 1 ELSE 0]]
  /\ UNCHANGED <<stale, request, queue, redis, faults>>

Fault == faults < MaxFaults /\ faults' = faults + 1

\* The UPDATE or its commit fails and is only logged; a worker that dies after
\* a pop has the same effect.
UpdateFails(t) ==
  /\ task[t].pc \in {"drain", "update"}
  /\ Fault
  /\ task' = [task EXCEPT ![t] = NoTask]
  /\ UNCHANGED <<stale, request, queue, flag, redis>>

\* The web process dies with its requests.
CrashWeb ==
  /\ Fault
  /\ request' = [r \in Request |-> NoRequest]
  /\ UNCHANGED <<stale, queue, flag, redis, task>>

RedisDown ==
  /\ redis /\ Fault
  /\ redis' = FALSE
  /\ UNCHANGED <<stale, request, queue, flag, task>>

RedisUp ==
  /\ ~redis
  /\ redis' = TRUE
  /\ UNCHANGED <<stale, request, queue, flag, task, faults>>

-----------------------------------------------------------------------------
Enqueue(r) == Add(r) \/ SetFlag(r) \/ Apply(r) \/ ApplyFails(r)
Batch(t) == Start(t) \/ Pop(t) \/ Drained(t) \/ Update(t)

Next ==
  \/ \E r \in Request : Enqueue(r) \/ \E e \in Entity : Commit(r, e)
  \/ \E t \in Task : Batch(t) \/ UpdateFails(t)
  \/ Tick
  \/ CrashWeb \/ RedisDown \/ RedisUp

Spec == Init /\ [][Next]_vars

\* Requests and tasks that have begun go on, time passes, Redis comes back.
FairSpec ==
  /\ Spec
  /\ \A r \in Request : WF_vars(Enqueue(r))
  /\ \A t \in Task : WF_vars(Batch(t))
  /\ WF_vars(Tick)
  /\ WF_vars(RedisUp)

-----------------------------------------------------------------------------
\* Where an entity waits for its vector to be recomputed.
Pending(e) ==
  \/ e \in queue
  \/ \E r \in Request : request[r].pc = "sadd" /\ request[r].e = e
  \/ \E t \in Task : task[t].pc \in {"drain", "update"} /\ e \in task[t].keys

\* Without a fault a change is never forgotten: between the commit of the change
\* and that of its vector the entity is always with a request, in the set or
\* with a task, whatever the order in which requests and tasks take their steps.
NothingForgotten == faults = 0 => \A e \in Entity : stale[e] => Pending(e)

\* What is in the set is popped in the end, also after an outage or a crash that
\* came between the flag and the task, if requests go on enqueueing.
QueueDrains ==
  []<><<\E r \in Request : Add(r)>>_vars => \A e \in Entity : e \in queue ~> e \notin queue
=============================================================================
