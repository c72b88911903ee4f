--------------------------- MODULE SparqlService ----------------------------
(***************************************************************************)
(* The isolated SPARQL execution service: replay protection                *)
(* (services/sparql/protocol.py), admission (services/sparql/server.py)    *)
(* and the killable child process of each query                            *)
(* (services/sparql/worker.py).                                            *)
(*                                                                         *)
(* The service runs in several gunicorn workers, each with its own memory  *)
(* and a few request threads.  A thread is cut at every lock it takes and  *)
(* at every system call another thread or its child can interleave with.   *)
(* A child is forked, so it inherits every file descriptor its worker has  *)
(* open at that moment, the write ends of other threads' pipes included.   *)
(***************************************************************************)
EXTENDS Naturals, FiniteSets

CONSTANTS
    Worker,          \* gunicorn workers
    Thread,          \* request threads of a worker
    Job,             \* job ids the API mints
    Pid,             \* processes the container may run (pids limit)
    MaxConcurrency,  \* AdmissionController.max_concurrency
    MaxQueue,        \* AdmissionController.max_queue
    MaxSeen,         \* ReplayProtector._max_entries
    Copies,          \* bound on the deliveries of one job
    None

VARIABLES
    posts,    \* deliveries of each job so far
    late,     \* jobs whose expires_at has passed
    seen,     \* ReplayProtector._seen_jobs, per worker
    queued,   \* metrics.queued_requests, per worker
    permits,  \* value of _concurrency_sem, per worker
    active,   \* metrics.active_queries, per worker
    thread,   \* the request threads
    child,    \* the query processes
    ran       \* history: executions of a job in the worker's present life

vars == <<posts, late, seen, queued, permits, active, thread, child, ran>>
gauges == <<queued, permits, active>>

Slot == Worker \X Thread

ASSUME SparqlAssumption ==
    /\ MaxConcurrency \in Nat \ {0}
    /\ MaxQueue \in Nat
    /\ MaxSeen \in Nat
    /\ Copies \in Nat
    /\ IsFiniteSet(Thread)
    /\ None \notin Job \cup Pid

Pc == {"idle", "record", "enter", "wait", "admitted", "counted", "pipe", "fork",
       "close", "poll", "recv", "reap", "uncount", "release"}

(* What has been written to a thread's pipe.                               *)
Message == {"none", "partial", "whole"}

ThreadState ==
    [pc : Pc,
     job : Job \cup {None},
     pid : Pid \cup {None},   \* the child of this query
     writers : SUBSET Pid,    \* processes that hold the pipe's write end
     msg : Message]

Idle == [pc |-> "idle", job |-> None, pid |-> None, writers |-> {}, msg |-> "none"]

ChildState == {"none", "running", "sending", "sent"}

TypeOK ==
    /\ posts \in [Job -> 0 .. Copies]
    /\ late \subseteq Job
    /\ seen \in [Worker -> SUBSET Job]
    /\ queued \in [Worker -> Nat]
    /\ permits \in [Worker -> 0 .. MaxConcurrency]
    /\ active \in [Worker -> Nat]
    /\ thread \in [Slot -> ThreadState]
    /\ child \in [Pid -> ChildState]
    /\ ran \in [Worker -> [Job -> Nat]]

Init ==
    /\ posts = [j \in Job |-> 0]
    /\ late = {}
    /\ seen = [w \in Worker |-> {}]
    /\ queued = [w \in Worker |-> 0]
    /\ permits = [w \in Worker |-> MaxConcurrency]
    /\ active = [w \in Worker |-> 0]
    /\ thread = [s \in Slot |-> Idle]
    /\ child = [p \in Pid |-> "none"]
    /\ ran = [w \in Worker |-> [j \in Job |-> 0]]

Slots(w) == {s \in Slot : s[1] = w}

(* Threads of w at one of the points P.                                    *)
At(w, P) == {s \in Slots(w) : thread[s].pc \in P}

Goto(s, pc) == thread' = [thread EXCEPT ![s].pc = pc]
Finish(s) == thread' = [thread EXCEPT ![s] = Idle]

-----------------------------------------------------------------------------
(* verify_execution_request.                                               *)

(* POST /execute with a well-formed, signed request that has not expired.  *)
Post(s, j) ==
    /\ thread[s].pc = "idle"
    /\ j \notin late /\ posts[j] < Copies
    /\ posts' = [posts EXCEPT ![j] = @ + 1]
    /\ thread' = [thread EXCEPT ![s] = [Idle EXCEPT !.pc = "record", !.job = j]]
    /\ UNCHANGED <<late, seen, gauges, child, ran>>

(* Mutant: the purge drops entries that are still valid.                   *)
KeptNone(w) == IF Cardinality(seen[w]) > MaxSeen THEN {} ELSE seen[w]

(* Beyond max_entries the expired entries are purged.                      *)
Kept(w) == IF Cardinality(seen[w]) > MaxSeen THEN seen[w] \ late ELSE seen[w]

(* is_replayed_or_record, which knows nothing of other workers.            *)
Record(s) ==
    LET w == s[1]
        j == thread[s].job IN
    /\ thread[s].pc = "record"
    /\ j \notin Kept(w)
    /\ seen' = [seen EXCEPT ![w] = Kept(w) \cup {j}]
    /\ Goto(s, "enter")
    /\ UNCHANGED <<posts, late, gauges, child, ran>>

Replayed(s) ==
    LET w == s[1] IN
    /\ thread[s].pc = "record"
    /\ thread[s].job \in Kept(w)
    /\ seen' = [seen EXCEPT ![w] = Kept(w)]
    /\ Finish(s)
    /\ UNCHANGED <<posts, late, gauges, child, ran>>

-----------------------------------------------------------------------------
(* AdmissionController.acquire.                                            *)

Enter(s) ==
    LET w == s[1] IN
    /\ thread[s].pc = "enter" /\ queued[w] < MaxQueue
    /\ queued' = [queued EXCEPT ![w] = @ + 1]
    /\ Goto(s, "wait")
    /\ UNCHANGED <<posts, late, seen, permits, active, child, ran>>

Reject(s) ==
    /\ thread[s].pc = "enter" /\ queued[s[1]] >= MaxQueue
    /\ Finish(s)
    /\ UNCHANGED <<posts, late, seen, gauges, child, ran>>

(* Mutant: the semaphore does not count.                                   *)
AcquireAny(s) ==
    /\ thread[s].pc = "wait"
    /\ permits' = [permits EXCEPT ![s[1]] = IF @ = 0 THEN 0 ELSE @ - 1]
    /\ Goto(s, "admitted")
    /\ UNCHANGED <<posts, late, seen, queued, active, child, ran>>

Acquire(s) ==
    LET w == s[1] IN
    /\ thread[s].pc = "wait" /\ permits[w] > 0
    /\ permits' = [permits EXCEPT ![w] = @ - 1]
    /\ Goto(s, "admitted")
    /\ UNCHANGED <<posts, late, seen, queued, active, child, ran>>

(* Mutant: the permit that was never had is returned.                      *)
GiveUpReleases(s) ==
    LET w == s[1] IN
    /\ thread[s].pc = "wait" /\ permits[w] = 0
    /\ queued' = [queued EXCEPT ![w] = @ - 1]
    /\ permits' = [permits EXCEPT ![w] = @ + 1]
    /\ Finish(s)
    /\ UNCHANGED <<posts, late, seen, active, child, ran>>

(* Two seconds pass without a permit: 503, please retry shortly.           *)
GiveUp(s) ==
    LET w == s[1] IN
    /\ thread[s].pc = "wait" /\ permits[w] = 0
    /\ queued' = [queued EXCEPT ![w] = @ - 1]
    /\ Finish(s)
    /\ UNCHANGED <<posts, late, seen, permits, active, child, ran>>

CountActive(s) ==
    /\ thread[s].pc = "admitted"
    /\ active' = [active EXCEPT ![s[1]] = @ + 1]
    /\ Goto(s, "counted")
    /\ UNCHANGED <<posts, late, seen, queued, permits, child, ran>>

(* The finally clause: until here the request still counts as queued.      *)
LeaveQueue(s) ==
    /\ thread[s].pc = "counted"
    /\ queued' = [queued EXCEPT ![s[1]] = @ - 1]
    /\ Goto(s, "pipe")
    /\ UNCHANGED <<posts, late, seen, permits, active, child, ran>>

-----------------------------------------------------------------------------
(* QueryExecutionEngine.execute.                                           *)

OpenPipe(s) ==
    /\ thread[s].pc = "pipe"
    /\ Goto(s, "fork")
    /\ UNCHANGED <<posts, late, seen, gauges, child, ran>>

(* Pids of processes that have ended and been waited for.                  *)
Free == {p \in Pid : child[p] = "none" /\ \A s \in Slot : thread[s].pid # p}

(* Threads whose worker's end of the pipe is still open for writing.       *)
OpenEnds(w) == At(w, {"fork", "close"})

(* process.start(): the child holds every write end open in its worker.    *)
Fork(s, p) ==
    LET w == s[1] IN
    /\ thread[s].pc = "fork" /\ p \in Free
    /\ child' = [child EXCEPT ![p] = "running"]
    /\ thread' = [q \in Slot |->
          [thread[q] EXCEPT
             !.writers = IF q \in OpenEnds(w) THEN @ \cup {p} ELSE @,
             !.pc = IF q = s THEN "close" ELSE @,
             !.pid = IF q = s THEN p ELSE @]]
    /\ ran' = [ran EXCEPT ![w][thread[s].job] = @ + 1]
    /\ UNCHANGED <<posts, late, seen, gauges>>

(* Mutant: a fork that fails skips the release.                            *)
ForkFailsLeaks(s) ==
    /\ thread[s].pc \in {"pipe", "fork"}
    /\ Finish(s)
    /\ UNCHANGED <<posts, late, seen, gauges, child, ran>>

(* No descriptor or no process is to be had: 500.                          *)
ForkFails(s) ==
    /\ thread[s].pc \in {"pipe", "fork"}
    /\ thread' = [thread EXCEPT ![s].pc = "uncount", ![s].writers = {}]
    /\ UNCHANGED <<posts, late, seen, gauges, child, ran>>

CloseEnd(s) ==
    /\ thread[s].pc = "close"
    /\ Goto(s, "poll")
    /\ UNCHANGED <<posts, late, seen, gauges, child, ran>>

(* Mutant: an empty pipe is taken for a closed one.                        *)
AtEofEarly(s) == thread[s].msg # "whole"

(* End of file: nobody holds the write end any more.                       *)
AtEof(s) == thread[s].writers = {} /\ thread[s].msg # "whole"

(* poll() finds neither data nor the end of file within deadline_seconds.  *)
Deadline(s) ==
    /\ thread[s].pc = "poll"
    /\ thread[s].msg = "none" /\ ~AtEof(s)
    /\ Goto(s, "reap")
    /\ UNCHANGED <<posts, late, seen, gauges, child, ran>>

Ready(s) ==
    /\ thread[s].pc = "poll"
    /\ thread[s].msg # "none" \/ AtEof(s)
    /\ Goto(s, "recv")
    /\ UNCHANGED <<posts, late, seen, gauges, child, ran>>

(* recv() has no deadline: it reads a whole message or the end of file.    *)
Receive(s) ==
    /\ thread[s].pc = "recv" /\ thread[s].msg = "whole"
    /\ Goto(s, "reap")
    /\ UNCHANGED <<posts, late, seen, gauges, child, ran>>

WorkerCrash(s) ==
    /\ thread[s].pc = "recv" /\ AtEof(s)
    /\ Goto(s, "reap")
    /\ UNCHANGED <<posts, late, seen, gauges, child, ran>>

(* All the file descriptors of process p are closed.                       *)
Closed(p) == [q \in Slot |-> [thread[q] EXCEPT !.writers = @ \ {p}]]

(* Mutant: the child of a query that timed out is left running.            *)
ReapNothing(s) ==
    /\ thread[s].pc = "reap"
    /\ Goto(s, "uncount")
    /\ UNCHANGED <<posts, late, seen, gauges, child, ran>>

(* The pipe is closed, and the child is joined or killed.                  *)
Reap(s) ==
    LET p == thread[s].pid IN
    /\ thread[s].pc = "reap"
    /\ child' = [child EXCEPT ![p] = "none"]
    /\ thread' = [Closed(p) EXCEPT ![s].pc = "uncount", ![s].pid = None,
                                   ![s].writers = {}, ![s].msg = "none"]
    /\ UNCHANGED <<posts, late, seen, gauges, ran>>

-----------------------------------------------------------------------------
(* AdmissionController.release.                                            *)

Uncount(s) ==
    LET w == s[1] IN
    /\ thread[s].pc = "uncount"
    /\ active' = [active EXCEPT ![w] = IF @ > 0 THEN @ - 1 ELSE @]
    /\ Goto(s, "release")
    /\ UNCHANGED <<posts, late, seen, queued, permits, child, ran>>

Release(s) ==
    /\ thread[s].pc = "release"
    /\ permits' = [permits EXCEPT ![s[1]] = @ + 1]
    /\ Finish(s)
    /\ UNCHANGED <<posts, late, seen, queued, active, child, ran>>

-----------------------------------------------------------------------------
(* The child: _execute_in_child.                                           *)

(* The first bytes of the result, or of the error, are written.            *)
BeginSend(s) ==
    LET p == thread[s].pid IN
    /\ p # None /\ child[p] = "running"
    /\ child' = [child EXCEPT ![p] = "sending"]
    /\ thread' = [thread EXCEPT ![s].msg = "partial"]
    /\ UNCHANGED <<posts, late, seen, gauges, ran>>

FinishSend(s) ==
    LET p == thread[s].pid IN
    /\ p # None /\ child[p] = "sending"
    /\ child' = [child EXCEPT ![p] = "sent"]
    /\ thread' = [thread EXCEPT ![s].msg = "whole"]
    /\ UNCHANGED <<posts, late, seen, gauges, ran>>

(* The process ends: it is done, it fails to write, or a resource limit    *)
(* or the OOM killer strikes, at any point.                                *)
ChildEnds(p) ==
    /\ child[p] # "none"
    /\ child' = [child EXCEPT ![p] = "none"]
    /\ thread' = Closed(p)
    /\ UNCHANGED <<posts, late, seen, gauges, ran>>

-----------------------------------------------------------------------------
(* Around the requests.                                                    *)

ExpireJob(j) ==
    /\ j \notin late /\ posts[j] > 0
    /\ late' = late \cup {j}
    /\ UNCHANGED <<posts, seen, gauges, thread, child, ran>>

(* A worker is killed and started again: its memory is gone, its children  *)
(* live on.                                                                *)
Restart(w) ==
    /\ At(w, Pc \ {"idle"}) # {} \/ seen[w] # {}
    /\ thread' = [s \in Slot |-> IF s[1] = w THEN Idle ELSE thread[s]]
    /\ seen' = [seen EXCEPT ![w] = {}]
    /\ queued' = [queued EXCEPT ![w] = 0]
    /\ permits' = [permits EXCEPT ![w] = MaxConcurrency]
    /\ active' = [active EXCEPT ![w] = 0]
    /\ ran' = [ran EXCEPT ![w] = [j \in Job |-> 0]]
    /\ UNCHANGED <<posts, late, child>>

Proceed(s) ==
    \/ Record(s) \/ Replayed(s)
    \/ Enter(s) \/ Reject(s) \/ Acquire(s) \/ GiveUp(s)
    \/ CountActive(s) \/ LeaveQueue(s)
    \/ OpenPipe(s) \/ ForkFails(s) \/ CloseEnd(s)
    \/ \E p \in Pid : Fork(s, p)
    \/ Deadline(s) \/ Ready(s) \/ Receive(s) \/ WorkerCrash(s) \/ Reap(s)
    \/ Uncount(s) \/ Release(s)

Next ==
    \/ \E s \in Slot : Proceed(s) \/ BeginSend(s) \/ FinishSend(s)
    \/ \E s \in Slot, j \in Job : Post(s, j)
    \/ \E p \in Pid : ChildEnds(p)
    \/ \E j \in Job : ExpireJob(j)
    \/ \E w \in Worker : Restart(w)

Spec == Init /\ [][Next]_vars

(* The threads of a worker all run on; a write that has begun is finished  *)
(* by the child or cut short by its end.  A query may run for ever.        *)
Fairness ==
    /\ \A s \in Slot : WF_vars(Proceed(s))
    /\ \A s \in Slot :
          WF_vars(FinishSend(s)
                  \/ \E p \in Pid : thread[s].pid = p /\ child[p] = "sending" /\ ChildEnds(p))

FairSpec == Spec /\ Fairness

-----------------------------------------------------------------------------
(* Properties.                                                             *)

InQueue == {"wait", "admitted", "counted"}
Counted == {"counted", "pipe", "fork", "close", "poll", "recv", "reap", "uncount"}
Holding == Counted \cup {"admitted", "release"}

(* On every path through acquire, execute and release, and whatever the    *)
(* other threads do between two lock regions, the gauges and the semaphore *)
(* agree with the requests in flight: nothing leaks, nothing is returned   *)
(* twice.                                                                  *)
Accounting ==
    \A w \in Worker :
        /\ queued[w] = Cardinality(At(w, InQueue))
        /\ active[w] = Cardinality(At(w, Counted))
        /\ permits[w] + Cardinality(At(w, Holding)) = MaxConcurrency

(* The queries that the threads of a worker have running.                  *)
Running(w) == {p \in Pid : child[p] # "none"
                            /\ \E s \in Slots(w) : thread[s].pid = p}

(* A worker never has more queries running, or requests queued, than its   *)
(* configuration allows.                                                   *)
Bounded ==
    \A w \in Worker : /\ Cardinality(Running(w)) <= MaxConcurrency
                      /\ queued[w] <= MaxQueue

(* Within its validity a job runs once in the life of a worker, even if    *)
(* copies of it overlap and the table of seen jobs is purged.              *)
ValidJobRunsOnce ==
    \A w \in Worker, j \in Job : ran[w][j] > 1 => j \in late

(* A crash is reported only of a child that has ended, however many other  *)
(* processes came to hold the pipe.                                        *)
CrashIsReal ==
    [][\A s \in Slot : WorkerCrash(s) => child[thread[s].pid] = "none"]_vars

(* Every request is answered, also when its query never ends, its child    *)
(* dies in the middle of a message or other children hold its pipe.        *)
RequestsAnswered ==
    \A s \in Slot : (thread[s].pc # "idle") ~> (thread[s].pc = "idle")

(* What the documents promise and the code does not keep: TLC refutes both, *)
(* so no run claims them.                                                  *)

(* A job is executed at most once by the service.                          *)
AtMostOnce ==
    \A j \in Job, v, w \in Worker :
        ran[v][j] + (IF v = w THEN 0 ELSE ran[w][j]) <= 1

(* A child that ends without a result is reported as such: the deadline    *)
(* strikes only a query that is still running.                             *)
TimeoutMeansRunning ==
    [][\A s \in Slot : Deadline(s) => child[thread[s].pid] # "none"]_vars

=============================================================================
