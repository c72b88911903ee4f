------------------------ MODULE SparqlServiceProofs -------------------------
(***************************************************************************)
(* Proofs about SparqlService, for any number of workers, threads, jobs    *)
(* and processes, and any limits.                                          *)
(***************************************************************************)
EXTENDS SparqlService, Integers, FiniteSetTheorems, TLAPS

(* Points at which a thread has a child.                                   *)
Supervising == {"close", "poll", "recv", "reap"}

(* Points between the record of a job and its execution.                   *)
Pending == {"enter", "wait", "admitted", "counted", "pipe", "fork"}

(* A thread that has a child has one of its own.                           *)
PidInv ==
    /\ \A s \in Slot : thread[s].pid # None <=> thread[s].pc \in Supervising
    /\ \A s, q \in Slot : s # q /\ thread[s].pid # None
                                => thread[q].pid # thread[s].pid

(* A child that has not ended holds its own pipe.                          *)
WriterInv ==
    \A s \in Slot : thread[s].pc \in Supervising /\ child[thread[s].pid] # "none"
                        => thread[s].pid \in thread[s].writers

(* A request past Post has a job.                                          *)
JobInv == \A s \in Slot : thread[s].pc \in Pending \cup {"record"} => thread[s].job \in Job

(* A valid job that a worker has not seen is neither about to run nor has  *)
(* it run; one that it has seen is about to run, or has run, but once.     *)
OnceInv ==
    \A w \in Worker, j \in Job \ late :
        /\ ran[w][j] <= 1
        /\ ran[w][j] = 1 => j \in seen[w]
        /\ \A s \in Slots(w) : thread[s].pc \in Pending /\ thread[s].job = j
              => /\ j \in seen[w] /\ ran[w][j] = 0
                 /\ \A q \in Slots(w) : thread[q].pc \in Pending /\ thread[q].job = j
                       => q = s

QueueInv == \A w \in Worker : queued[w] <= MaxQueue

IInv == TypeOK /\ Accounting /\ QueueInv /\ PidInv /\ WriterInv /\ JobInv /\ OnceInv

-----------------------------------------------------------------------------
(* Counting threads.                                                       *)

LEMMA SlotsFinite ==
  ASSUME NEW w \in Worker
  PROVE  IsFiniteSet(Slots(w))
  <1>. DEFINE f == [t \in Thread |-> <<w, t>>]
              T == {w} \X Thread
  <1>1. f \in Surjection(Thread, T)
    <2>1. f \in [Thread -> T]
      OBVIOUS
    <2>2. \A x \in T : x[2] \in Thread /\ f[x[2]] = x
      OBVIOUS
    <2>. HIDE DEF f, T
    <2>3. QED
      BY <2>1, <2>2, Zenon DEF Surjection
  <1>2. IsFiniteSet(T)
    <2>1. IsFiniteSet(Thread)
      BY SparqlAssumption
    <2>. HIDE DEF f, T
    <2>2. QED
      BY <1>1, <2>1, FS_Surjection, Zenon
  <1>3. Slots(w) \subseteq T
    BY DEF Slots, Slot
  <1>4. QED
    BY <1>2, <1>3, FS_Subset

LEMMA AtFinite ==
  ASSUME NEW w \in Worker, NEW CONSTANT P
  PROVE  /\ IsFiniteSet(At(w, P))
         /\ IsFiniteSet(At(w, P)')
         /\ Cardinality(At(w, P)) \in Nat
  <1>1. At(w, P) \subseteq Slots(w) /\ At(w, P)' \subseteq Slots(w)
    BY DEF At, Slots
  <1>2. IsFiniteSet(At(w, P)) /\ IsFiniteSet(At(w, P)')
    BY <1>1, SlotsFinite, FS_Subset
  <1>3. QED
    BY <1>2, FS_CardinalityType

LEMMA SlotWorker ==
  ASSUME NEW s \in Slot
  PROVE  s[1] \in Worker /\ s \in Slots(s[1])
  BY DEF Slot, Slots

(* Only thread s moves.                                                    *)
Moves(s) == \A q \in Slot \ {s} : thread'[q].pc = thread[q].pc

(* Thread s moves to a point of P, from a point of P, or neither.          *)
LEMMA Moved ==
  ASSUME NEW s \in Slot, NEW CONSTANT P, Moves(s), NEW w \in Worker
  PROVE  /\ w # s[1] \/ (thread[s].pc \in P <=> thread'[s].pc \in P)
              => At(w, P)' = At(w, P)
         /\ w = s[1] /\ thread[s].pc \notin P /\ thread'[s].pc \in P
              => Cardinality(At(w, P)') = Cardinality(At(w, P)) + 1
         /\ w = s[1] /\ thread[s].pc \in P /\ thread'[s].pc \notin P
              => /\ Cardinality(At(w, P)') = Cardinality(At(w, P)) - 1
                 /\ Cardinality(At(w, P)) > 0
  <1>1. CASE w # s[1] \/ (thread[s].pc \in P <=> thread'[s].pc \in P)
    BY <1>1 DEF At, Slots, Moves
  <1>2. CASE w = s[1] /\ thread[s].pc \notin P /\ thread'[s].pc \in P
    <2>1. At(w, P)' = At(w, P) \cup {s} /\ s \notin At(w, P)
      BY <1>2 DEF At, Slots, Moves
    <2>2. QED
      BY <1>2, <2>1, AtFinite, FS_AddElement
  <1>3. CASE w = s[1] /\ thread[s].pc \in P /\ thread'[s].pc \notin P
    <2>1. At(w, P)' = At(w, P) \ {s} /\ s \in At(w, P)
      BY <1>3 DEF At, Slots, Moves
    <2>2. Cardinality(At(w, P)) # 0
      BY <2>1, AtFinite, FS_EmptySet
    <2>3. IsFiniteSet(At(w, P)) /\ Cardinality(At(w, P)) \in Nat
      BY AtFinite
    <2>4. Cardinality(At(w, P) \ {s}) = Cardinality(At(w, P)) - 1
      BY <2>1, <2>3, FS_RemoveElement
    <2>5. QED
      BY <1>3, <2>1, <2>2, <2>3, <2>4
  <1>4. QED
    BY <1>1, <1>2, <1>3

(* A step that neither touches the gauges nor enters or leaves a counted   *)
(* stretch of a request.                                                   *)
LEMMA Steady ==
  ASSUME NEW s \in Slot, Accounting, Moves(s), UNCHANGED gauges,
         thread[s].pc \in InQueue <=> thread'[s].pc \in InQueue,
         thread[s].pc \in Counted <=> thread'[s].pc \in Counted,
         thread[s].pc \in Holding <=> thread'[s].pc \in Holding
  PROVE  Accounting'
  <1>1. ASSUME NEW w \in Worker
        PROVE  /\ At(w, InQueue)' = At(w, InQueue)
               /\ At(w, Counted)' = At(w, Counted)
               /\ At(w, Holding)' = At(w, Holding)
    <2>1. At(w, InQueue)' = At(w, InQueue)
      BY Moved
    <2>2. At(w, Counted)' = At(w, Counted)
      BY Moved
    <2>3. At(w, Holding)' = At(w, Holding)
      BY Moved
    <2>4. QED
      BY <2>1, <2>2, <2>3
  <1>2. QED
    BY <1>1, Zenon DEF Accounting, gauges

-----------------------------------------------------------------------------
(* Steps of a request that leave the children alone.                       *)

Shape == thread \in [Slot -> ThreadState] /\ PidInv /\ WriterInv /\ JobInv /\ OnceInv

(* A thread goes on, and neither gets nor loses a child or a job.          *)
LEMMA GotoKeeps ==
  ASSUME IInv, NEW s \in Slot, NEW CONSTANT pc \in Pc, Goto(s, pc),
         thread[s].pc \in Supervising <=> pc \in Supervising,
         pc \in Pending => thread[s].pc \in Pending,
         pc # "record",
         UNCHANGED <<late, seen, child, ran>>
  PROVE  Shape'
  <1>1. thread \in [Slot -> ThreadState] /\ thread[s] \in ThreadState
    BY DEF IInv, TypeOK
  <1>2. /\ \A q \in Slot \ {s} : thread'[q] = thread[q]
        /\ thread'[s] = [thread[s] EXCEPT !.pc = pc]
    BY <1>1 DEF Goto
  <1>3. /\ thread'[s].pc = pc
        /\ thread'[s].pid = thread[s].pid
        /\ thread'[s].job = thread[s].job
        /\ thread'[s].writers = thread[s].writers
        /\ thread'[s] \in ThreadState
    BY <1>1, <1>2 DEF ThreadState
  <1>4. thread' \in [Slot -> ThreadState]
    BY <1>1, <1>2, <1>3 DEF Goto
  <1>5. \A q \in Slot : /\ thread'[q].pid = thread[q].pid
                        /\ thread'[q].job = thread[q].job
                        /\ thread'[q].writers = thread[q].writers
                        /\ thread'[q].pc \in Supervising <=> thread[q].pc \in Supervising
                        /\ thread'[q].pc \in Pending => thread[q].pc \in Pending
                        /\ thread'[q].pc = "record" => thread[q].pc = "record"
    BY <1>2, <1>3
  <1>6. PidInv'
    BY <1>5 DEF IInv, PidInv
  <1>7. WriterInv'
    BY <1>5 DEF IInv, WriterInv
  <1>8. JobInv'
    BY <1>5 DEF IInv, JobInv
  <1>9. OnceInv'
    BY <1>5 DEF IInv, OnceInv, Slots
  <1>10. QED
    BY <1>4, <1>6, <1>7, <1>8, <1>9 DEF Shape

(* A request without a child is answered; the worker may forget late jobs. *)
LEMMA FinishKeeps ==
  ASSUME IInv, NEW s \in Slot, Finish(s), thread[s].pc \notin Supervising,
         \A w \in Worker : seen[w] \ late \subseteq seen'[w],
         UNCHANGED <<late, child, ran>>
  PROVE  Shape'
  <1>1. thread \in [Slot -> ThreadState] /\ thread[s] \in ThreadState
    BY DEF IInv, TypeOK
  <1>2. /\ \A q \in Slot \ {s} : thread'[q] = thread[q]
        /\ thread'[s] = Idle
    BY <1>1 DEF Finish
  <1>3. Idle \in ThreadState /\ Idle.pid = None /\ Idle.pc = "idle"
    BY DEF ThreadState, Idle, Pc, Message
  <1>4. thread' \in [Slot -> ThreadState]
    BY <1>1, <1>2, <1>3 DEF Finish
  <1>5. thread[s].pid = None
    BY DEF IInv, PidInv
  <1>6. PidInv'
    BY <1>2, <1>3, <1>5 DEF IInv, PidInv, Supervising
  <1>7. WriterInv'
    BY <1>2, <1>3 DEF IInv, WriterInv, Supervising
  <1>8. JobInv'
    BY <1>2, <1>3 DEF IInv, JobInv, Pending
  <1>9. OnceInv'
    BY <1>2, <1>3 DEF IInv, OnceInv, Slots, Pending
  <1>10. QED
    BY <1>4, <1>6, <1>7, <1>8, <1>9 DEF Shape

LEMMA MovesGoto ==
  ASSUME TypeOK, NEW s \in Slot, NEW pc, Goto(s, pc)
  PROVE  Moves(s) /\ thread'[s].pc = pc
  BY DEF TypeOK, Goto, Moves, ThreadState

LEMMA MovesFinish ==
  ASSUME TypeOK, NEW s \in Slot, Finish(s)
  PROVE  Moves(s) /\ thread'[s].pc = "idle"
  BY DEF TypeOK, Finish, Moves, ThreadState, Idle

(* The gauges.                                                             *)

Gauges == /\ queued \in [Worker -> Nat]
          /\ permits \in [Worker -> 0 .. MaxConcurrency]
          /\ active \in [Worker -> Nat]
          /\ Accounting
          /\ QueueInv

Tables == /\ posts \in [Job -> 0 .. Copies]
          /\ late \subseteq Job
          /\ seen \in [Worker -> SUBSET Job]
          /\ child \in [Pid -> ChildState]
          /\ ran \in [Worker -> [Job -> Nat]]

LEMMA Parts == IInv <=> Tables /\ Gauges /\ Shape
  BY DEF IInv, Tables, Gauges, Shape, TypeOK

LEMMA PartsNext == Tables' /\ Gauges' /\ Shape' => IInv'
  BY DEF IInv, Tables, Gauges, Shape, TypeOK

LEMMA TablesStay ==
  ASSUME Tables, UNCHANGED <<posts, late, seen, child, ran>>
  PROVE  Tables'
  BY DEF Tables

LEMMA GaugesStay ==
  ASSUME Gauges, NEW s \in Slot, Moves(s), UNCHANGED gauges,
         thread[s].pc \in InQueue <=> thread'[s].pc \in InQueue,
         thread[s].pc \in Counted <=> thread'[s].pc \in Counted,
         thread[s].pc \in Holding <=> thread'[s].pc \in Holding
  PROVE  Gauges'
  <1>1. Accounting'
    BY Steady DEF Gauges
  <1>2. QED
    BY <1>1 DEF Gauges, QueueInv, gauges

(* What the gauges of a worker come to when thread s moves on.             *)
LEMMA GaugesFollow ==
  ASSUME Gauges, NEW s \in Slot, Moves(s), NEW w \in Worker
  PROVE  /\ w # s[1] \/ (thread[s].pc \in InQueue <=> thread'[s].pc \in InQueue)
              => Cardinality(At(w, InQueue)') = queued[w]
         /\ w # s[1] \/ (thread[s].pc \in Counted <=> thread'[s].pc \in Counted)
              => Cardinality(At(w, Counted)') = active[w]
         /\ w # s[1] \/ (thread[s].pc \in Holding <=> thread'[s].pc \in Holding)
              => Cardinality(At(w, Holding)') = MaxConcurrency - permits[w]
         /\ w = s[1] /\ thread[s].pc \notin InQueue /\ thread'[s].pc \in InQueue
              => Cardinality(At(w, InQueue)') = queued[w] + 1
         /\ w = s[1] /\ thread[s].pc \notin Counted /\ thread'[s].pc \in Counted
              => Cardinality(At(w, Counted)') = active[w] + 1
         /\ w = s[1] /\ thread[s].pc \notin Holding /\ thread'[s].pc \in Holding
              => Cardinality(At(w, Holding)') = MaxConcurrency - permits[w] + 1
         /\ w = s[1] /\ thread[s].pc \in InQueue /\ thread'[s].pc \notin InQueue
              => Cardinality(At(w, InQueue)') = queued[w] - 1 /\ queued[w] > 0
         /\ w = s[1] /\ thread[s].pc \in Counted /\ thread'[s].pc \notin Counted
              => Cardinality(At(w, Counted)') = active[w] - 1 /\ active[w] > 0
         /\ w = s[1] /\ thread[s].pc \in Holding /\ thread'[s].pc \notin Holding
              => /\ Cardinality(At(w, Holding)') = MaxConcurrency - permits[w] - 1
                 /\ permits[w] < MaxConcurrency
  <1>1. /\ queued[w] = Cardinality(At(w, InQueue)) /\ queued[w] \in Nat
        /\ active[w] = Cardinality(At(w, Counted)) /\ active[w] \in Nat
        /\ permits[w] + Cardinality(At(w, Holding)) = MaxConcurrency
        /\ permits[w] \in 0 .. MaxConcurrency
        /\ MaxConcurrency \in Nat
    BY SparqlAssumption DEF Gauges, Accounting
  <1>2. Cardinality(At(w, Holding)) \in Nat
    BY AtFinite
  <1>3. Cardinality(At(w, Holding)) = MaxConcurrency - permits[w]
    BY <1>1, <1>2
  <1>4. QED
    <2>1. /\ w # s[1] \/ (thread[s].pc \in InQueue <=> thread'[s].pc \in InQueue)
               => At(w, InQueue)' = At(w, InQueue)
          /\ w # s[1] \/ (thread[s].pc \in Counted <=> thread'[s].pc \in Counted)
               => At(w, Counted)' = At(w, Counted)
          /\ w # s[1] \/ (thread[s].pc \in Holding <=> thread'[s].pc \in Holding)
               => At(w, Holding)' = At(w, Holding)
      BY Moved, Zenon
    <2>2. /\ w = s[1] /\ thread[s].pc \notin InQueue /\ thread'[s].pc \in InQueue
               => Cardinality(At(w, InQueue)') = Cardinality(At(w, InQueue)) + 1
          /\ w = s[1] /\ thread[s].pc \in InQueue /\ thread'[s].pc \notin InQueue
               => /\ Cardinality(At(w, InQueue)') = Cardinality(At(w, InQueue)) - 1
                  /\ Cardinality(At(w, InQueue)) > 0
      BY Moved, Zenon
    <2>3. /\ w = s[1] /\ thread[s].pc \notin Counted /\ thread'[s].pc \in Counted
               => Cardinality(At(w, Counted)') = Cardinality(At(w, Counted)) + 1
          /\ w = s[1] /\ thread[s].pc \in Counted /\ thread'[s].pc \notin Counted
               => /\ Cardinality(At(w, Counted)') = Cardinality(At(w, Counted)) - 1
                  /\ Cardinality(At(w, Counted)) > 0
      BY Moved, Zenon
    <2>4. /\ w = s[1] /\ thread[s].pc \notin Holding /\ thread'[s].pc \in Holding
               => Cardinality(At(w, Holding)') = Cardinality(At(w, Holding)) + 1
          /\ w = s[1] /\ thread[s].pc \in Holding /\ thread'[s].pc \notin Holding
               => /\ Cardinality(At(w, Holding)') = Cardinality(At(w, Holding)) - 1
                  /\ Cardinality(At(w, Holding)) > 0
      BY Moved, Zenon
    <2>5. QED
      BY <1>1, <1>2, <1>3, <2>1, <2>2, <2>3, <2>4

(* A step of thread s changes the gauges of its worker only, and they      *)
(* still agree with the requests there.                                    *)
LEMMA GaugesChange ==
  ASSUME Gauges, NEW s \in Slot, Moves(s),
         queued' = [queued EXCEPT ![s[1]] = queued'[s[1]]],
         active' = [active EXCEPT ![s[1]] = active'[s[1]]],
         permits' = [permits EXCEPT ![s[1]] = permits'[s[1]]],
         Cardinality(At(s[1], InQueue)') = queued'[s[1]],
         Cardinality(At(s[1], Counted)') = active'[s[1]],
         Cardinality(At(s[1], Holding)') = MaxConcurrency - permits'[s[1]],
         queued'[s[1]] \in 0 .. MaxQueue,
         active'[s[1]] \in Nat,
         permits'[s[1]] \in 0 .. MaxConcurrency
  PROVE  Gauges'
  <1>1. /\ queued' \in [Worker -> Nat]
        /\ active' \in [Worker -> Nat]
        /\ permits' \in [Worker -> 0 .. MaxConcurrency]
        /\ \A w \in Worker \ {s[1]} : /\ queued'[w] = queued[w]
                                      /\ active'[w] = active[w]
                                      /\ permits'[w] = permits[w]
    <2>1. s[1] \in Worker /\ MaxQueue \in Nat
      BY SlotWorker, SparqlAssumption
    <2>2. queued'[s[1]] \in Nat
      BY <2>1
    <2>3. QED
      BY <2>1, <2>2 DEF Gauges
  <1>2. ASSUME NEW w \in Worker
        PROVE  /\ queued'[w] = Cardinality(At(w, InQueue)')
               /\ active'[w] = Cardinality(At(w, Counted)')
               /\ Cardinality(At(w, Holding)') = MaxConcurrency - permits'[w]
               /\ queued'[w] <= MaxQueue
    <2>1. CASE w = s[1]
      BY <2>1, SparqlAssumption
    <2>2. CASE w # s[1]
      BY <1>1, <2>2, GaugesFollow DEF Gauges, QueueInv
    <2>3. QED
      BY <2>1, <2>2
  <1>3. ASSUME NEW w \in Worker
        PROVE  permits'[w] + Cardinality(At(w, Holding)') = MaxConcurrency
    <2>1. permits'[w] \in 0 .. MaxConcurrency /\ MaxConcurrency \in Nat
      BY <1>1, SparqlAssumption
    <2>2. QED
      BY <1>2, <2>1
  <1>4. Accounting'
    BY <1>2, <1>3, Zenon DEF Accounting
  <1>5. QueueInv'
    BY <1>2, Zenon DEF QueueInv
  <1>6. QED
    BY <1>1, <1>4, <1>5, Zenon DEF Gauges

LEMMA EnterGauges ==
  ASSUME IInv, NEW s \in Slot, Enter(s)
  PROVE  Gauges'
  <1>1. Gauges /\ TypeOK /\ s[1] \in Worker
    BY Parts, SlotWorker DEF IInv
  <1>2. Moves(s) /\ thread[s].pc = "enter" /\ thread'[s].pc = "wait"
    BY <1>1, MovesGoto DEF Enter
  <1>3. /\ queued' = [queued EXCEPT ![s[1]] = queued'[s[1]]]
        /\ active' = [active EXCEPT ![s[1]] = active'[s[1]]]
        /\ permits' = [permits EXCEPT ![s[1]] = permits'[s[1]]]
    BY <1>1 DEF Gauges, Enter, gauges
  <1>4. /\ Cardinality(At(s[1], InQueue)') = queued'[s[1]]
        /\ Cardinality(At(s[1], Counted)') = active'[s[1]]
        /\ Cardinality(At(s[1], Holding)') = MaxConcurrency - permits'[s[1]]
        /\ queued'[s[1]] \in 0 .. MaxQueue
        /\ active'[s[1]] \in Nat
        /\ permits'[s[1]] \in 0 .. MaxConcurrency
    <2>1. /\ queued[s[1]] \in Nat /\ active[s[1]] \in Nat
          /\ permits[s[1]] \in 0 .. MaxConcurrency
          /\ queued[s[1]] <= MaxQueue
          /\ MaxConcurrency \in Nat /\ MaxQueue \in Nat
      BY <1>1, SparqlAssumption DEF Gauges, QueueInv
    <2>2. QED
      BY <1>1, <1>2, <2>1, GaugesFollow
         DEF Gauges, Enter, gauges, InQueue, Counted, Holding
  <1>5. QED
    BY <1>1, <1>2, <1>3, <1>4, GaugesChange

LEMMA AcquireGauges ==
  ASSUME IInv, NEW s \in Slot, Acquire(s)
  PROVE  Gauges'
  <1>1. Gauges /\ TypeOK /\ s[1] \in Worker
    BY Parts, SlotWorker DEF IInv
  <1>2. Moves(s) /\ thread[s].pc = "wait" /\ thread'[s].pc = "admitted"
    BY <1>1, MovesGoto DEF Acquire
  <1>3. /\ queued' = [queued EXCEPT ![s[1]] = queued'[s[1]]]
        /\ active' = [active EXCEPT ![s[1]] = active'[s[1]]]
        /\ permits' = [permits EXCEPT ![s[1]] = permits'[s[1]]]
    BY <1>1 DEF Gauges, Acquire, gauges
  <1>4. /\ Cardinality(At(s[1], InQueue)') = queued'[s[1]]
        /\ Cardinality(At(s[1], Counted)') = active'[s[1]]
        /\ Cardinality(At(s[1], Holding)') = MaxConcurrency - permits'[s[1]]
        /\ queued'[s[1]] \in 0 .. MaxQueue
        /\ active'[s[1]] \in Nat
        /\ permits'[s[1]] \in 0 .. MaxConcurrency
    <2>1. /\ queued[s[1]] \in Nat /\ active[s[1]] \in Nat
          /\ permits[s[1]] \in 0 .. MaxConcurrency
          /\ queued[s[1]] <= MaxQueue
          /\ MaxConcurrency \in Nat /\ MaxQueue \in Nat
      BY <1>1, SparqlAssumption DEF Gauges, QueueInv
    <2>2. QED
      BY <1>1, <1>2, <2>1, GaugesFollow
         DEF Gauges, Acquire, gauges, InQueue, Counted, Holding
  <1>5. QED
    BY <1>1, <1>2, <1>3, <1>4, GaugesChange

LEMMA GiveUpGauges ==
  ASSUME IInv, NEW s \in Slot, GiveUp(s)
  PROVE  Gauges'
  <1>1. Gauges /\ TypeOK /\ s[1] \in Worker
    BY Parts, SlotWorker DEF IInv
  <1>2. Moves(s) /\ thread[s].pc = "wait" /\ thread'[s].pc = "idle"
    BY <1>1, MovesFinish DEF GiveUp
  <1>3. /\ queued' = [queued EXCEPT ![s[1]] = queued'[s[1]]]
        /\ active' = [active EXCEPT ![s[1]] = active'[s[1]]]
        /\ permits' = [permits EXCEPT ![s[1]] = permits'[s[1]]]
    BY <1>1 DEF Gauges, GiveUp, gauges
  <1>4. /\ Cardinality(At(s[1], InQueue)') = queued'[s[1]]
        /\ Cardinality(At(s[1], Counted)') = active'[s[1]]
        /\ Cardinality(At(s[1], Holding)') = MaxConcurrency - permits'[s[1]]
        /\ queued'[s[1]] \in 0 .. MaxQueue
        /\ active'[s[1]] \in Nat
        /\ permits'[s[1]] \in 0 .. MaxConcurrency
    <2>1. /\ queued[s[1]] \in Nat /\ active[s[1]] \in Nat
          /\ permits[s[1]] \in 0 .. MaxConcurrency
          /\ queued[s[1]] <= MaxQueue
          /\ MaxConcurrency \in Nat /\ MaxQueue \in Nat
      BY <1>1, SparqlAssumption DEF Gauges, QueueInv
    <2>2. QED
      BY <1>1, <1>2, <2>1, GaugesFollow
         DEF Gauges, GiveUp, gauges, InQueue, Counted, Holding
  <1>5. QED
    BY <1>1, <1>2, <1>3, <1>4, GaugesChange

LEMMA CountActiveGauges ==
  ASSUME IInv, NEW s \in Slot, CountActive(s)
  PROVE  Gauges'
  <1>1. Gauges /\ TypeOK /\ s[1] \in Worker
    BY Parts, SlotWorker DEF IInv
  <1>2. Moves(s) /\ thread[s].pc = "admitted" /\ thread'[s].pc = "counted"
    BY <1>1, MovesGoto DEF CountActive
  <1>3. /\ queued' = [queued EXCEPT ![s[1]] = queued'[s[1]]]
        /\ active' = [active EXCEPT ![s[1]] = active'[s[1]]]
        /\ permits' = [permits EXCEPT ![s[1]] = permits'[s[1]]]
    BY <1>1 DEF Gauges, CountActive, gauges
  <1>4. /\ Cardinality(At(s[1], InQueue)') = queued'[s[1]]
        /\ Cardinality(At(s[1], Counted)') = active'[s[1]]
        /\ Cardinality(At(s[1], Holding)') = MaxConcurrency - permits'[s[1]]
        /\ queued'[s[1]] \in 0 .. MaxQueue
        /\ active'[s[1]] \in Nat
        /\ permits'[s[1]] \in 0 .. MaxConcurrency
    <2>1. /\ queued[s[1]] \in Nat /\ active[s[1]] \in Nat
          /\ permits[s[1]] \in 0 .. MaxConcurrency
          /\ queued[s[1]] <= MaxQueue
          /\ MaxConcurrency \in Nat /\ MaxQueue \in Nat
      BY <1>1, SparqlAssumption DEF Gauges, QueueInv
    <2>2. QED
      BY <1>1, <1>2, <2>1, GaugesFollow
         DEF Gauges, CountActive, gauges, InQueue, Counted, Holding
  <1>5. QED
    BY <1>1, <1>2, <1>3, <1>4, GaugesChange

LEMMA LeaveQueueGauges ==
  ASSUME IInv, NEW s \in Slot, LeaveQueue(s)
  PROVE  Gauges'
  <1>1. Gauges /\ TypeOK /\ s[1] \in Worker
    BY Parts, SlotWorker DEF IInv
  <1>2. Moves(s) /\ thread[s].pc = "counted" /\ thread'[s].pc = "pipe"
    BY <1>1, MovesGoto DEF LeaveQueue
  <1>3. /\ queued' = [queued EXCEPT ![s[1]] = queued'[s[1]]]
        /\ active' = [active EXCEPT ![s[1]] = active'[s[1]]]
        /\ permits' = [permits EXCEPT ![s[1]] = permits'[s[1]]]
    BY <1>1 DEF Gauges, LeaveQueue, gauges
  <1>4. /\ Cardinality(At(s[1], InQueue)') = queued'[s[1]]
        /\ Cardinality(At(s[1], Counted)') = active'[s[1]]
        /\ Cardinality(At(s[1], Holding)') = MaxConcurrency - permits'[s[1]]
        /\ queued'[s[1]] \in 0 .. MaxQueue
        /\ active'[s[1]] \in Nat
        /\ permits'[s[1]] \in 0 .. MaxConcurrency
    <2>1. /\ queued[s[1]] \in Nat /\ active[s[1]] \in Nat
          /\ permits[s[1]] \in 0 .. MaxConcurrency
          /\ queued[s[1]] <= MaxQueue
          /\ MaxConcurrency \in Nat /\ MaxQueue \in Nat
      BY <1>1, SparqlAssumption DEF Gauges, QueueInv
    <2>2. QED
      BY <1>1, <1>2, <2>1, GaugesFollow
         DEF Gauges, LeaveQueue, gauges, InQueue, Counted, Holding
  <1>5. QED
    BY <1>1, <1>2, <1>3, <1>4, GaugesChange

LEMMA UncountGauges ==
  ASSUME IInv, NEW s \in Slot, Uncount(s)
  PROVE  Gauges'
  <1>1. Gauges /\ TypeOK /\ s[1] \in Worker
    BY Parts, SlotWorker DEF IInv
  <1>2. Moves(s) /\ thread[s].pc = "uncount" /\ thread'[s].pc = "release"
    BY <1>1, MovesGoto DEF Uncount
  <1>3. /\ queued' = [queued EXCEPT ![s[1]] = queued'[s[1]]]
        /\ active' = [active EXCEPT ![s[1]] = active'[s[1]]]
        /\ permits' = [permits EXCEPT ![s[1]] = permits'[s[1]]]
    BY <1>1 DEF Gauges, Uncount, gauges
  <1>4. /\ Cardinality(At(s[1], InQueue)') = queued'[s[1]]
        /\ Cardinality(At(s[1], Counted)') = active'[s[1]]
        /\ Cardinality(At(s[1], Holding)') = MaxConcurrency - permits'[s[1]]
        /\ queued'[s[1]] \in 0 .. MaxQueue
        /\ active'[s[1]] \in Nat
        /\ permits'[s[1]] \in 0 .. MaxConcurrency
    <2>1. /\ queued[s[1]] \in Nat /\ active[s[1]] \in Nat
          /\ permits[s[1]] \in 0 .. MaxConcurrency
          /\ queued[s[1]] <= MaxQueue
          /\ MaxConcurrency \in Nat /\ MaxQueue \in Nat
      BY <1>1, SparqlAssumption DEF Gauges, QueueInv
    <2>2. QED
      BY <1>1, <1>2, <2>1, GaugesFollow
         DEF Gauges, Uncount, gauges, InQueue, Counted, Holding
  <1>5. QED
    BY <1>1, <1>2, <1>3, <1>4, GaugesChange

LEMMA ReleaseGauges ==
  ASSUME IInv, NEW s \in Slot, Release(s)
  PROVE  Gauges'
  <1>1. Gauges /\ TypeOK /\ s[1] \in Worker
    BY Parts, SlotWorker DEF IInv
  <1>2. Moves(s) /\ thread[s].pc = "release" /\ thread'[s].pc = "idle"
    BY <1>1, MovesFinish DEF Release
  <1>3. /\ queued' = [queued EXCEPT ![s[1]] = queued'[s[1]]]
        /\ active' = [active EXCEPT ![s[1]] = active'[s[1]]]
        /\ permits' = [permits EXCEPT ![s[1]] = permits'[s[1]]]
    BY <1>1 DEF Gauges, Release, gauges
  <1>4. /\ Cardinality(At(s[1], InQueue)') = queued'[s[1]]
        /\ Cardinality(At(s[1], Counted)') = active'[s[1]]
        /\ Cardinality(At(s[1], Holding)') = MaxConcurrency - permits'[s[1]]
        /\ queued'[s[1]] \in 0 .. MaxQueue
        /\ active'[s[1]] \in Nat
        /\ permits'[s[1]] \in 0 .. MaxConcurrency
    <2>1. /\ queued[s[1]] \in Nat /\ active[s[1]] \in Nat
          /\ permits[s[1]] \in 0 .. MaxConcurrency
          /\ queued[s[1]] <= MaxQueue
          /\ MaxConcurrency \in Nat /\ MaxQueue \in Nat
      BY <1>1, SparqlAssumption DEF Gauges, QueueInv
    <2>2. QED
      BY <1>1, <1>2, <2>1, GaugesFollow
         DEF Gauges, Release, gauges, InQueue, Counted, Holding
  <1>5. QED
    BY <1>1, <1>2, <1>3, <1>4, GaugesChange

-----------------------------------------------------------------------------
(* The remaining steps, and the threads.                                   *)

LEMMA Known ==
  ASSUME IInv
  PROVE  /\ thread \in [Slot -> ThreadState]
         /\ \A s \in Slot : /\ thread[s].pc \in Pc
                            /\ thread[s].job \in Job \cup {None}
                            /\ thread[s].pid \in Pid \cup {None}
                            /\ thread[s].writers \in SUBSET Pid
                            /\ thread[s].msg \in Message
                            /\ thread[s].pc \notin Supervising => thread[s].pid = None
                            /\ thread[s].pc \in Supervising => thread[s].pid \in Pid
         /\ child \in [Pid -> ChildState]
         /\ None \notin Pid
  <1>1. thread \in [Slot -> ThreadState] /\ child \in [Pid -> ChildState] /\ PidInv
    BY DEF IInv, TypeOK
  <1>2. ASSUME NEW s \in Slot
        PROVE  /\ thread[s].pc \in Pc
               /\ thread[s].job \in Job \cup {None}
               /\ thread[s].pid \in Pid \cup {None}
               /\ thread[s].writers \in SUBSET Pid
               /\ thread[s].msg \in Message
    <2>1. thread[s] \in ThreadState
      BY <1>1
    <2>2. QED
      BY <2>1 DEF ThreadState
  <1>3. QED
    BY <1>1, <1>2, SparqlAssumption DEF PidInv

LEMMA PostShape ==
  ASSUME IInv, NEW s \in Slot, NEW j \in Job, Post(s, j)
  PROVE  Shape' /\ Moves(s) /\ thread[s].pc = "idle" /\ thread'[s].pc = "record"
  <1>. DEFINE t == [Idle EXCEPT !.pc = "record", !.job = j]
  <1>1. /\ t \in ThreadState
        /\ t.pc = "record" /\ t.job = j /\ t.pid = None
    BY DEF Idle, ThreadState, Pc, Message
  <1>. HIDE DEF t
  <1>2. /\ \A q \in Slot \ {s} : thread'[q] = thread[q]
        /\ thread'[s] = t
        /\ thread' \in [Slot -> ThreadState]
    BY <1>1, Known DEF Post, t
  <1>3. thread[s].pc = "idle" /\ thread[s].pid = None
    BY Known DEF Post, Supervising
  <1>4. PidInv'
    BY <1>1, <1>2, <1>3 DEF IInv, PidInv, Supervising
  <1>5. WriterInv'
    BY <1>1, <1>2 DEF IInv, WriterInv, Post, Supervising
  <1>6. JobInv'
    BY <1>1, <1>2 DEF IInv, JobInv
  <1>7. OnceInv'
    BY <1>1, <1>2 DEF IInv, OnceInv, Post, Pending, Slots
  <1>8. Moves(s)
    BY <1>2 DEF Moves
  <1>9. QED
    BY <1>1, <1>2, <1>3, <1>4, <1>5, <1>6, <1>7, <1>8 DEF Shape

(* A purge forgets no job that is still valid.                             *)
LEMMA KeptValid ==
  ASSUME NEW w \in Worker
  PROVE  seen[w] \ late \subseteq Kept(w) /\ Kept(w) \subseteq seen[w]
  BY DEF Kept

LEMMA RecordShape ==
  ASSUME IInv, NEW s \in Slot, Record(s)
  PROVE  /\ Shape' /\ Moves(s)
         /\ thread[s].pc = "record" /\ thread'[s].pc = "enter"
         /\ seen' \in [Worker -> SUBSET Job]
  <1>. DEFINE v == s[1]
              k == thread[s].job
  <1>1. v \in Worker /\ s \in Slots(v) /\ k \in Job /\ k \notin Kept(v)
    BY SlotWorker DEF Record, IInv, JobInv
  <1>2. /\ \A q \in Slot \ {s} : thread'[q] = thread[q]
        /\ thread'[s] = [thread[s] EXCEPT !.pc = "enter"]
        /\ thread[s].pc = "record" /\ thread[s].pid = None
    BY Known DEF Record, Goto, Supervising
  <1>3. /\ thread'[s].pc = "enter" /\ thread'[s].job = k
        /\ thread'[s].pid = thread[s].pid
        /\ thread'[s].writers = thread[s].writers
        /\ thread'[s] \in ThreadState
    BY <1>2, Known DEF ThreadState, Pc
  <1>4. thread' \in [Slot -> ThreadState]
    BY <1>2, <1>3, Known DEF Record, Goto
  <1>5. /\ seen \in [Worker -> SUBSET Job]
        /\ seen' = [seen EXCEPT ![v] = Kept(v) \cup {k}]
        /\ UNCHANGED <<late, child, ran>>
    BY DEF IInv, TypeOK, Record
  <1>6. seen' \in [Worker -> SUBSET Job]
    BY <1>1, <1>5, KeptValid
  <1>7. PidInv'
    <2>1. \A q \in Slot : /\ thread'[q].pid = thread[q].pid
                          /\ thread'[q].pc \in Supervising <=> thread[q].pc \in Supervising
      BY <1>2, <1>3 DEF Supervising
    <2>2. QED
      BY <2>1 DEF IInv, PidInv
  <1>8. WriterInv'
    BY <1>2, <1>3, <1>5, ZenonT(40) DEF IInv, WriterInv, Supervising
  <1>9. JobInv'
    BY <1>1, <1>2, <1>3 DEF IInv, JobInv
  <1>10. ASSUME NEW w \in Worker, NEW j \in Job \ late
         PROVE  /\ ran[w][j] <= 1
                /\ ran[w][j] = 1 => j \in seen'[w]
                /\ \A r \in Slots(w) : thread'[r].pc \in Pending /\ thread'[r].job = j
                      => /\ j \in seen'[w] /\ ran[w][j] = 0
                         /\ \A q \in Slots(w) : thread'[q].pc \in Pending /\ thread'[q].job = j
                               => q = r
    <2>1. /\ ran[w][j] <= 1
          /\ ran[w][j] = 1 => j \in seen[w]
          /\ \A r \in Slots(w) : thread[r].pc \in Pending /\ thread[r].job = j
                => /\ j \in seen[w] /\ ran[w][j] = 0
                   /\ \A q \in Slots(w) : thread[q].pc \in Pending /\ thread[q].job = j
                         => q = r
      BY DEF IInv, OnceInv
    <2>2. ran[w][j] \in Nat
      BY DEF IInv, TypeOK
    <2>3. j \in seen[w] => j \in seen'[w]
      BY <1>1, <1>5, KeptValid
    <2>4. CASE w = v /\ j = k
      <3>1. j \notin seen[w] /\ j \in seen'[w]
        BY <1>1, <1>5, <2>4, KeptValid
      <3>2. ran[w][j] = 0
        BY <2>1, <2>2, <3>1
      <3>3. \A r \in Slots(w) : ~ (thread[r].pc \in Pending /\ thread[r].job = j)
        BY <2>1, <3>1
      <3>4. \A r \in Slots(w) : thread'[r].pc \in Pending /\ thread'[r].job = j => r = s
        BY <1>2, <3>3 DEF Slots
      <3>5. QED
        BY <3>1, <3>2, <3>4
    <2>5. CASE ~ (w = v /\ j = k)
      <3>1. \A r \in Slots(w) : thread'[r].pc \in Pending /\ thread'[r].job = j
                => thread[r].pc \in Pending /\ thread[r].job = j
        BY <1>2, <1>3, <2>5 DEF Slots
      <3>2. QED
        BY <2>1, <2>3, <3>1
    <2>6. QED
      BY <2>4, <2>5
  <1>11. OnceInv'
    BY <1>5, <1>10 DEF OnceInv, Slots
  <1>12. Moves(s)
    BY <1>2 DEF Moves
  <1>13. QED
    BY <1>2, <1>3, <1>4, <1>6, <1>7, <1>8, <1>9, <1>11, <1>12 DEF Shape

LEMMA ForkFailsShape ==
  ASSUME IInv, NEW s \in Slot, ForkFails(s)
  PROVE  /\ Shape' /\ Moves(s)
         /\ thread[s].pc \in {"pipe", "fork"} /\ thread'[s].pc = "uncount"
  <1>. DEFINE t == [thread[s] EXCEPT !.pc = "uncount", !.writers = {}]
  <1>1. thread' = [thread EXCEPT ![s] = t] /\ thread[s].pc \in {"pipe", "fork"}
    BY Known DEF ForkFails
  <1>2. thread[s] \in ThreadState /\ thread[s].pid = None
    BY <1>1, Known DEF Supervising
  <1>3. t \in ThreadState /\ t.pc = "uncount" /\ t.pid = None
    BY <1>2 DEF ThreadState, Pc
  <1>. HIDE DEF t
  <1>4. /\ \A q \in Slot \ {s} : thread'[q] = thread[q]
        /\ thread'[s].pc = "uncount"
        /\ thread'[s].pid = None /\ thread[s].pid = None
        /\ thread[s].pc \in {"pipe", "fork"}
        /\ thread' \in [Slot -> ThreadState]
    BY <1>1, <1>2, <1>3, Known
  <1>5. PidInv'
    BY <1>4 DEF IInv, PidInv, Supervising
  <1>6. WriterInv'
    BY <1>4 DEF IInv, WriterInv, ForkFails, Supervising
  <1>7. JobInv'
    BY <1>4 DEF IInv, JobInv, Pending
  <1>8. OnceInv'
    BY <1>4 DEF IInv, OnceInv, ForkFails, Slots, Pending
  <1>9. QED
    BY <1>4, <1>5, <1>6, <1>7, <1>8 DEF Shape, Moves

(* The new process was free: no thread supervises it, and it takes the     *)
(* write end of its own pipe along.                                        *)
LEMMA ForkShape ==
  ASSUME IInv, NEW s \in Slot, NEW p \in Pid, Fork(s, p)
  PROVE  /\ Shape' /\ Tables' /\ Moves(s)
         /\ thread[s].pc = "fork" /\ thread'[s].pc = "close"
  <1>. DEFINE v == s[1]
              k == thread[s].job
              t(q) == [thread[q] EXCEPT
                         !.writers = IF q \in OpenEnds(v) THEN @ \cup {p} ELSE @,
                         !.pc = IF q = s THEN "close" ELSE @,
                         !.pid = IF q = s THEN p ELSE @]
  <1>1. /\ v \in Worker /\ s \in Slots(v) /\ s \in OpenEnds(v)
        /\ thread[s].pc = "fork" /\ thread[s].pid = None
        /\ child[p] = "none" /\ \A q \in Slot : thread[q].pid # p
    BY SlotWorker, Known DEF Fork, OpenEnds, At, Free, Supervising
  <1>2. k \in Job
    BY <1>1 DEF IInv, JobInv, Pending
  <1>3. thread' = [q \in Slot |-> t(q)]
    BY DEF Fork
  <1>4. ASSUME NEW q \in Slot
        PROVE  /\ thread'[q] \in ThreadState
               /\ thread'[q].pc = IF q = s THEN "close" ELSE thread[q].pc
               /\ thread'[q].pid = IF q = s THEN p ELSE thread[q].pid
               /\ thread'[q].job = thread[q].job
               /\ thread[q].writers \subseteq thread'[q].writers
               /\ q = s => p \in thread'[q].writers
    <2>1. thread[q] \in ThreadState
      BY Known
    <2>2. t(q) \in ThreadState
      BY <2>1 DEF ThreadState, Pc
    <2>3. QED
      BY <1>1, <1>3, <2>1, <2>2 DEF ThreadState
  <1>5. thread' \in [Slot -> ThreadState]
    BY <1>3, <1>4
  <1>. HIDE DEF t
  <1>6. /\ child' = [child EXCEPT ![p] = "running"]
        /\ child \in [Pid -> ChildState]
        /\ ran' = [ran EXCEPT ![v][k] = @ + 1]
        /\ ran \in [Worker -> [Job -> Nat]]
        /\ UNCHANGED <<posts, late, seen>>
    BY Known DEF Fork, IInv, TypeOK
  <1>7. child' \in [Pid -> ChildState] /\ ran' \in [Worker -> [Job -> Nat]]
    BY <1>1, <1>2, <1>6 DEF ChildState
  <1>8. Tables'
    BY <1>6, <1>7, Parts DEF Tables
  <1>9. PidInv'
    <2>1. \A q \in Slot : thread'[q].pid # None <=> thread'[q].pc \in Supervising
      BY <1>4, Known DEF Supervising, IInv, PidInv
    <2>2. \A r, q \in Slot : r # q /\ thread'[r].pid # None => thread'[q].pid # thread'[r].pid
      BY <1>1, <1>4 DEF IInv, PidInv
    <2>3. QED
      BY <2>1, <2>2 DEF PidInv
  <1>10. WriterInv'
    <2>1. ASSUME NEW q \in Slot, thread'[q].pc \in Supervising, child'[thread'[q].pid] # "none"
          PROVE  thread'[q].pid \in thread'[q].writers
      <3>1. CASE q = s
        BY <1>4, <3>1
      <3>2. CASE q # s
        <4>1. thread'[q].pid = thread[q].pid /\ thread[q].pc \in Supervising
          BY <1>4, <2>1, <3>2
        <4>2. thread[q].pid \in Pid /\ thread[q].pid # p
          BY <1>1, <4>1, Known
        <4>3. child[thread[q].pid] # "none"
          BY <1>6, <2>1, <4>1, <4>2
        <4>4. QED
          BY <1>4, <4>1, <4>3 DEF IInv, WriterInv
      <3>3. QED
        BY <3>1, <3>2
    <2>2. QED
      BY <2>1 DEF WriterInv
  <1>11. JobInv'
    BY <1>4 DEF IInv, JobInv, Pending
  <1>12. ASSUME NEW w \in Worker, NEW j \in Job \ late
         PROVE  /\ ran'[w][j] <= 1
                /\ ran'[w][j] = 1 => j \in seen[w]
                /\ \A r \in Slots(w) : thread'[r].pc \in Pending /\ thread'[r].job = j
                      => /\ j \in seen[w] /\ ran'[w][j] = 0
                         /\ \A q \in Slots(w) : thread'[q].pc \in Pending /\ thread'[q].job = j
                               => q = r
    <2>1. /\ ran[w][j] <= 1
          /\ ran[w][j] = 1 => j \in seen[w]
          /\ \A r \in Slots(w) : thread[r].pc \in Pending /\ thread[r].job = j
                => /\ j \in seen[w] /\ ran[w][j] = 0
                   /\ \A q \in Slots(w) : thread[q].pc \in Pending /\ thread[q].job = j
                         => q = r
      BY DEF IInv, OnceInv
    <2>2. \A r \in Slots(w) : thread'[r].pc \in Pending /\ thread'[r].job = j
              => r # s /\ thread[r].pc \in Pending /\ thread[r].job = j
      BY <1>4 DEF Slots, Pending
    <2>3. CASE w = v /\ j = k
      <3>1. /\ j \in seen[w] /\ ran[w][j] = 0
            /\ \A r \in Slots(w) : thread[r].pc \in Pending /\ thread[r].job = j => r = s
        BY <1>1, <2>1, <2>3 DEF Pending
      <3>2. ran'[w][j] = 1
        BY <1>6, <2>3, <3>1
      <3>3. QED
        BY <2>2, <3>1, <3>2
    <2>4. CASE ~ (w = v /\ j = k)
      <3>1. ran'[w][j] = ran[w][j]
        BY <1>1, <1>2, <1>6, <2>4
      <3>2. QED
        BY <2>1, <2>2, <3>1
    <2>5. QED
      BY <2>3, <2>4
  <1>13. OnceInv'
    BY <1>6, <1>12 DEF OnceInv, Slots
  <1>14. Moves(s)
    BY <1>4 DEF Moves
  <1>15. QED
    BY <1>1, <1>4, <1>5, <1>8, <1>9, <1>10, <1>11, <1>13, <1>14 DEF Shape

(* A process ends: all it held is closed.                                  *)
LEMMA EndKeepsWriters ==
  ASSUME IInv, NEW p \in Pid, NEW q \in Slot,
         thread[q].pc \in Supervising, thread[q].pid # p,
         child' = [child EXCEPT ![p] = "none"], child'[thread[q].pid] # "none"
  PROVE  thread[q].pid \in thread[q].writers \ {p}
  <1>1. thread[q].pid \in Pid /\ child \in [Pid -> ChildState]
    BY Known
  <1>2. child[thread[q].pid] # "none"
    BY <1>1
  <1>3. QED
    BY <1>2 DEF IInv, WriterInv

LEMMA ReapShape ==
  ASSUME IInv, NEW s \in Slot, Reap(s)
  PROVE  /\ Shape' /\ Tables' /\ Moves(s)
         /\ thread[s].pc = "reap" /\ thread'[s].pc = "uncount"
  <1>. DEFINE p == thread[s].pid
  <1>1. thread[s].pc = "reap" /\ p \in Pid
    BY Known DEF Reap, Supervising
  <1>2. /\ child' = [child EXCEPT ![p] = "none"]
        /\ UNCHANGED <<posts, late, seen, ran>>
    BY DEF Reap
  <1>3. /\ child \in [Pid -> ChildState]
        /\ child' \in [Pid -> ChildState]
    BY <1>2, Known DEF ChildState
  <1>4. Tables'
    BY <1>2, <1>3, Parts DEF Tables
  <1>5. thread' = [q \in Slot |->
          IF q = s THEN [thread[q] EXCEPT !.pc = "uncount", !.pid = None,
                                          !.writers = {}, !.msg = "none"]
          ELSE [thread[q] EXCEPT !.writers = @ \ {p}]]
    BY <1>1, Known, Zenon DEF Reap, Closed, ThreadState
  <1>6. ASSUME NEW q \in Slot
        PROVE  /\ thread'[q] \in ThreadState
               /\ thread'[q].pc = IF q = s THEN "uncount" ELSE thread[q].pc
               /\ thread'[q].pid = IF q = s THEN None ELSE thread[q].pid
               /\ thread'[q].job = thread[q].job
               /\ q # s => thread'[q].writers = thread[q].writers \ {p}
    <2>1. thread[q] \in ThreadState
      BY Known
    <2>2. QED
      BY <1>5, <2>1 DEF ThreadState, Pc, Message
  <1>7. thread' \in [Slot -> ThreadState]
    BY <1>5, <1>6
  <1>8. PidInv'
    <2>1. \A q \in Slot : thread'[q].pid # None <=> thread'[q].pc \in Supervising
      BY <1>6 DEF Supervising, IInv, PidInv
    <2>2. \A r, q \in Slot : r # q /\ thread'[r].pid # None => thread'[q].pid # thread'[r].pid
      BY <1>6 DEF IInv, PidInv
    <2>3. QED
      BY <2>1, <2>2 DEF PidInv
  <1>9. WriterInv'
    <2>1. ASSUME NEW q \in Slot, thread'[q].pc \in Supervising, child'[thread'[q].pid] # "none"
          PROVE  thread'[q].pid \in thread'[q].writers
      <3>1. q # s /\ thread[q].pc \in Supervising /\ thread'[q].pid = thread[q].pid
        BY <1>6, <2>1 DEF Supervising
      <3>2. thread[q].pid # p
        BY <1>1, <3>1, Known DEF IInv, PidInv, Supervising
      <3>3. QED
        <4>1. child'[thread[q].pid] # "none"
          BY <2>1, <3>1
        <4>. HIDE DEF p
        <4>2. thread[q].pid \in thread[q].writers \ {p}
          BY <1>1, <1>2, <3>1, <3>2, <4>1, EndKeepsWriters
        <4>3. QED
          BY <1>6, <3>1, <4>2
    <2>2. QED
      BY <2>1 DEF WriterInv
  <1>10. JobInv'
    BY <1>6 DEF IInv, JobInv, Pending
  <1>11. OnceInv'
    <2>1. \A q \in Slot : /\ thread'[q].pc \in Pending => thread[q].pc \in Pending
                          /\ thread'[q].job = thread[q].job
      BY <1>6 DEF Pending
    <2>2. QED
      BY <1>2, <2>1 DEF IInv, OnceInv, Slots
  <1>12. Moves(s)
    BY <1>6 DEF Moves
  <1>13. QED
    BY <1>1, <1>4, <1>6, <1>7, <1>8, <1>9, <1>10, <1>11, <1>12 DEF Shape

LEMMA ChildEndsShape ==
  ASSUME IInv, NEW p \in Pid, ChildEnds(p)
  PROVE  Shape' /\ Tables' /\ \A q \in Slot : thread'[q].pc = thread[q].pc
  <1>1. /\ child' = [child EXCEPT ![p] = "none"]
        /\ thread' = [q \in Slot |-> [thread[q] EXCEPT !.writers = @ \ {p}]]
        /\ UNCHANGED <<posts, late, seen, ran>>
    BY DEF ChildEnds, Closed
  <1>2. /\ child \in [Pid -> ChildState]
        /\ child' \in [Pid -> ChildState]
    BY <1>1, Known DEF ChildState
  <1>3. Tables'
    BY <1>1, <1>2, Parts DEF Tables
  <1>4. ASSUME NEW q \in Slot
        PROVE  /\ thread'[q] \in ThreadState
               /\ thread'[q].pc = thread[q].pc
               /\ thread'[q].pid = thread[q].pid
               /\ thread'[q].job = thread[q].job
               /\ thread'[q].writers = thread[q].writers \ {p}
    <2>1. thread[q] \in ThreadState
      BY Known
    <2>2. QED
      BY <1>1, <2>1 DEF ThreadState
  <1>5. thread' \in [Slot -> ThreadState]
    BY <1>1, <1>4
  <1>6. PidInv'
    BY <1>4 DEF IInv, PidInv
  <1>7. WriterInv'
    <2>1. ASSUME NEW q \in Slot, thread'[q].pc \in Supervising, child'[thread'[q].pid] # "none"
          PROVE  thread'[q].pid \in thread'[q].writers
      <3>1. thread[q].pc \in Supervising /\ child'[thread[q].pid] # "none"
        BY <1>4, <2>1
      <3>2. thread[q].pid # p
        BY <1>1, <1>2, <3>1
      <3>3. thread[q].pid \in thread[q].writers \ {p}
        BY <1>1, <3>1, <3>2, EndKeepsWriters
      <3>4. QED
        BY <1>4, <3>3
    <2>2. QED
      BY <2>1 DEF WriterInv
  <1>8. JobInv'
    BY <1>4 DEF IInv, JobInv
  <1>9. OnceInv'
    BY <1>1, <1>4 DEF IInv, OnceInv, Slots
  <1>10. QED
    BY <1>3, <1>4, <1>5, <1>6, <1>7, <1>8, <1>9 DEF Shape

(* The child of thread s writes.                                           *)
LEMMA SendShape ==
  ASSUME IInv, NEW s \in Slot, BeginSend(s) \/ FinishSend(s)
  PROVE  Shape' /\ Tables' /\ Moves(s) /\ thread'[s].pc = thread[s].pc
  <1>. DEFINE p == thread[s].pid
  <1>1. p \in Pid /\ child[p] # "none" /\ child \in [Pid -> ChildState]
    BY Known DEF BeginSend, FinishSend
  <1>2. PICK c \in {"sending", "sent"} : child' = [child EXCEPT ![p] = c]
    BY DEF BeginSend, FinishSend
  <1>3. PICK m \in {"partial", "whole"} : thread' = [thread EXCEPT ![s].msg = m]
    BY DEF BeginSend, FinishSend
  <1>4. UNCHANGED <<posts, late, seen, ran, gauges>>
    BY DEF BeginSend, FinishSend
  <1>5. child' \in [Pid -> ChildState] /\ \A r \in Pid : child'[r] # "none" => child[r] # "none"
    BY <1>1, <1>2 DEF ChildState
  <1>6. Tables'
    BY <1>4, <1>5, Parts DEF Tables
  <1>7. ASSUME NEW q \in Slot
        PROVE  /\ thread'[q] \in ThreadState
               /\ thread'[q].pc = thread[q].pc
               /\ thread'[q].pid = thread[q].pid
               /\ thread'[q].job = thread[q].job
               /\ thread'[q].writers = thread[q].writers
    <2>1. thread \in [Slot -> ThreadState] /\ thread[q] \in ThreadState
      BY Known
    <2>2. QED
      BY <1>3, <2>1 DEF ThreadState, Message
  <1>8. thread' \in [Slot -> ThreadState]
    BY <1>3, <1>7, Known
  <1>9. PidInv'
    BY <1>7 DEF IInv, PidInv
  <1>10. WriterInv'
    BY <1>5, <1>7, Known DEF IInv, WriterInv
  <1>11. JobInv'
    BY <1>7 DEF IInv, JobInv
  <1>12. OnceInv'
    BY <1>4, <1>7 DEF IInv, OnceInv, Slots
  <1>13. QED
    BY <1>6, <1>7, <1>8, <1>9, <1>10, <1>11, <1>12 DEF Shape, Moves

LEMMA ExpireShape ==
  ASSUME IInv, NEW j \in Job, ExpireJob(j)
  PROVE  Shape' /\ Tables'
  <1>1. /\ UNCHANGED <<posts, seen, thread, child, ran>>
        /\ late' = late \cup {j}
    BY DEF ExpireJob
  <1>2. OnceInv'
    BY <1>1 DEF IInv, OnceInv, Slots
  <1>3. Tables'
    BY <1>1, Parts DEF Tables
  <1>4. QED
    BY <1>1, <1>2, <1>3 DEF IInv, TypeOK, Shape, PidInv, WriterInv, JobInv

LEMMA RestartKeeps ==
  ASSUME IInv, NEW v \in Worker, Restart(v)
  PROVE  Shape' /\ Tables' /\ Gauges'
  <1>1. /\ thread' = [s \in Slot |-> IF s[1] = v THEN Idle ELSE thread[s]]
        /\ seen' = [seen EXCEPT ![v] = {}]
        /\ queued' = [queued EXCEPT ![v] = 0]
        /\ permits' = [permits EXCEPT ![v] = MaxConcurrency]
        /\ active' = [active EXCEPT ![v] = 0]
        /\ ran' = [ran EXCEPT ![v] = [j \in Job |-> 0]]
        /\ UNCHANGED <<posts, late, child>>
    BY DEF Restart
  <1>2. /\ Idle \in ThreadState /\ Idle.pc = "idle" /\ Idle.pid = None
    BY DEF Idle, ThreadState, Pc, Message
  <1>3. /\ thread' \in [Slot -> ThreadState]
        /\ \A q \in Slot : thread'[q] = IF q[1] = v THEN Idle ELSE thread[q]
    BY <1>1, <1>2, Known
  <1>4. Tables'
    BY <1>1, Parts DEF Tables
  <1>5. PidInv'
    BY <1>2, <1>3 DEF IInv, PidInv, Supervising
  <1>6. WriterInv'
    BY <1>1, <1>2, <1>3 DEF IInv, WriterInv, Supervising
  <1>7. JobInv'
    BY <1>2, <1>3 DEF IInv, JobInv, Pending
  <1>8. OnceInv'
    <2>1. ASSUME NEW w \in Worker, NEW j \in Job \ late
          PROVE  /\ ran'[w][j] <= 1
                 /\ ran'[w][j] = 1 => j \in seen'[w]
                 /\ \A r \in Slots(w) : thread'[r].pc \in Pending /\ thread'[r].job = j
                       => /\ j \in seen'[w] /\ ran'[w][j] = 0
                          /\ \A q \in Slots(w) : thread'[q].pc \in Pending /\ thread'[q].job = j
                                => q = r
      <3>1. CASE w = v
        <4>1. ran'[w][j] = 0
          BY <1>1, <3>1, Parts DEF Tables
        <4>2. \A r \in Slots(w) : thread'[r].pc = "idle"
          BY <1>2, <1>3, <3>1 DEF Slots
        <4>3. QED
          BY <4>1, <4>2 DEF Pending
      <3>2. CASE w # v
        <4>1. ran'[w] = ran[w] /\ seen'[w] = seen[w]
          BY <1>1, <3>2, Parts DEF Tables
        <4>2. \A r \in Slots(w) : thread'[r] = thread[r]
          BY <1>3, <3>2 DEF Slots
        <4>3. QED
          BY <4>1, <4>2 DEF IInv, OnceInv
      <3>3. QED
        BY <3>1, <3>2
    <2>2. QED
      BY <1>1, <2>1 DEF OnceInv, Slots
  <1>9. Gauges'
    <2>1. /\ queued' \in [Worker -> Nat] /\ active' \in [Worker -> Nat]
          /\ permits' \in [Worker -> 0 .. MaxConcurrency]
      BY <1>1, Parts, SparqlAssumption DEF Gauges
    <2>2. ASSUME NEW w \in Worker
          PROVE  /\ queued'[w] = Cardinality(At(w, InQueue)')
                 /\ active'[w] = Cardinality(At(w, Counted)')
                 /\ permits'[w] + Cardinality(At(w, Holding)') = MaxConcurrency
                 /\ queued'[w] <= MaxQueue
      <3>1. CASE w = v
        <4>1. /\ At(w, InQueue)' = {} /\ At(w, Counted)' = {} /\ At(w, Holding)' = {}
          BY <1>2, <1>3, <3>1 DEF At, Slots, InQueue, Counted, Holding
        <4>2. queued'[w] = 0 /\ active'[w] = 0 /\ permits'[w] = MaxConcurrency
          BY <1>1, <3>1, Parts DEF Gauges
        <4>3. QED
          BY <4>1, <4>2, FS_EmptySet, SparqlAssumption
      <3>2. CASE w # v
        <4>1. /\ At(w, InQueue)' = At(w, InQueue)
              /\ At(w, Counted)' = At(w, Counted)
              /\ At(w, Holding)' = At(w, Holding)
          BY <1>3, <3>2 DEF At, Slots
        <4>2. queued'[w] = queued[w] /\ active'[w] = active[w] /\ permits'[w] = permits[w]
          BY <1>1, <3>2, Parts DEF Gauges
        <4>3. QED
          BY <4>1, <4>2 DEF IInv, Accounting, QueueInv
      <3>3. QED
        BY <3>1, <3>2
    <2>3. Accounting' /\ QueueInv'
      BY <2>2, Zenon DEF Accounting, QueueInv
    <2>4. QED
      BY <2>1, <2>3 DEF Gauges
  <1>10. QED
    BY <1>3, <1>4, <1>5, <1>6, <1>7, <1>8, <1>9 DEF Shape

-----------------------------------------------------------------------------
(* The invariant is inductive.                                             *)

LEMMA InitKeeps == Init => IInv
  <1>. SUFFICES ASSUME Init PROVE IInv
    OBVIOUS
  <1>1. Idle \in ThreadState /\ Idle.pc = "idle" /\ Idle.pid = None
    BY DEF Idle, ThreadState, Pc, Message
  <1>2. thread \in [Slot -> ThreadState] /\ \A s \in Slot : thread[s] = Idle
    BY <1>1 DEF Init
  <1>3. Tables
    <2>1. 0 \in 0 .. Copies
      BY SparqlAssumption
    <2>2. QED
      BY <2>1 DEF Init, Tables, ChildState
  <1>4. PidInv /\ WriterInv /\ JobInv
    BY <1>1, <1>2 DEF PidInv, WriterInv, JobInv, Supervising, Pending
  <1>5. OnceInv
    BY <1>1, <1>2 DEF Init, OnceInv, Slots, Pending
  <1>6. Gauges
    <2>1. /\ queued \in [Worker -> Nat] /\ active \in [Worker -> Nat]
          /\ permits \in [Worker -> 0 .. MaxConcurrency]
          /\ QueueInv
      BY SparqlAssumption DEF Init, QueueInv
    <2>2. ASSUME NEW w \in Worker
          PROVE  At(w, InQueue) = {} /\ At(w, Counted) = {} /\ At(w, Holding) = {}
      BY <1>1, <1>2 DEF At, Slots, InQueue, Counted, Holding
    <2>3. Accounting
      BY <2>2, FS_EmptySet, SparqlAssumption, SMTT(30) DEF Init, Accounting
    <2>4. QED
      BY <2>1, <2>3 DEF Gauges
  <1>7. QED
    BY <1>2, <1>3, <1>4, <1>5, <1>6, Parts DEF Shape

LEMMA RequestKeeps ==
  ASSUME IInv, NEW s \in Slot, Proceed(s)
  PROVE  IInv'
  <1>1. Tables /\ Gauges /\ Shape /\ TypeOK
    BY Parts DEF IInv
  <1>2. CASE Enter(s)
    <2>1. Tables'
      BY <1>1, <1>2, TablesStay DEF Enter
    <2>2. Shape'
      BY <1>2, GotoKeeps DEF Enter, Pc, Supervising, Pending
    <2>3. QED
      BY <1>2, <2>1, <2>2, EnterGauges, PartsNext
  <1>3. CASE Acquire(s)
    <2>1. Tables'
      BY <1>1, <1>3, TablesStay DEF Acquire
    <2>2. Shape'
      BY <1>3, GotoKeeps DEF Acquire, Pc, Supervising, Pending
    <2>3. QED
      BY <1>3, <2>1, <2>2, AcquireGauges, PartsNext
  <1>4. CASE CountActive(s)
    <2>1. Tables'
      BY <1>1, <1>4, TablesStay DEF CountActive
    <2>2. Shape'
      BY <1>4, GotoKeeps DEF CountActive, Pc, Supervising, Pending
    <2>3. QED
      BY <1>4, <2>1, <2>2, CountActiveGauges, PartsNext
  <1>5. CASE LeaveQueue(s)
    <2>1. Tables'
      BY <1>1, <1>5, TablesStay DEF LeaveQueue
    <2>2. Shape'
      BY <1>5, GotoKeeps DEF LeaveQueue, Pc, Supervising, Pending
    <2>3. QED
      BY <1>5, <2>1, <2>2, LeaveQueueGauges, PartsNext
  <1>6. CASE Uncount(s)
    <2>1. Tables'
      BY <1>1, <1>6, TablesStay DEF Uncount
    <2>2. Shape'
      BY <1>6, GotoKeeps DEF Uncount, Pc, Supervising, Pending
    <2>3. QED
      BY <1>6, <2>1, <2>2, UncountGauges, PartsNext
  <1>7. CASE OpenPipe(s)
    <2>1. Tables'
      BY <1>1, <1>7, TablesStay DEF OpenPipe
    <2>2. Shape'
      BY <1>7, GotoKeeps DEF OpenPipe, Pc, Supervising, Pending
    <2>3. Moves(s) /\ thread[s].pc = "pipe" /\ thread'[s].pc = "fork"
      BY <1>1, <1>7, MovesGoto DEF OpenPipe
    <2>4. Gauges'
      BY <1>1, <1>7, <2>3, GaugesStay DEF OpenPipe, InQueue, Counted, Holding
    <2>5. QED
      BY <2>1, <2>2, <2>4, PartsNext
  <1>8. CASE CloseEnd(s)
    <2>1. Tables'
      BY <1>1, <1>8, TablesStay DEF CloseEnd
    <2>2. Shape'
      BY <1>8, GotoKeeps DEF CloseEnd, Pc, Supervising, Pending
    <2>3. Moves(s) /\ thread[s].pc = "close" /\ thread'[s].pc = "poll"
      BY <1>1, <1>8, MovesGoto DEF CloseEnd
    <2>4. Gauges'
      BY <1>1, <1>8, <2>3, GaugesStay DEF CloseEnd, InQueue, Counted, Holding
    <2>5. QED
      BY <2>1, <2>2, <2>4, PartsNext
  <1>9. CASE Deadline(s)
    <2>1. Tables'
      BY <1>1, <1>9, TablesStay DEF Deadline
    <2>2. Shape'
      BY <1>9, GotoKeeps DEF Deadline, Pc, Supervising, Pending
    <2>3. Moves(s) /\ thread[s].pc = "poll" /\ thread'[s].pc = "reap"
      BY <1>1, <1>9, MovesGoto DEF Deadline
    <2>4. Gauges'
      BY <1>1, <1>9, <2>3, GaugesStay DEF Deadline, InQueue, Counted, Holding
    <2>5. QED
      BY <2>1, <2>2, <2>4, PartsNext
  <1>10. CASE Ready(s)
    <2>1. Tables'
      BY <1>1, <1>10, TablesStay DEF Ready
    <2>2. Shape'
      BY <1>10, GotoKeeps DEF Ready, Pc, Supervising, Pending
    <2>3. Moves(s) /\ thread[s].pc = "poll" /\ thread'[s].pc = "recv"
      BY <1>1, <1>10, MovesGoto DEF Ready
    <2>4. Gauges'
      BY <1>1, <1>10, <2>3, GaugesStay DEF Ready, InQueue, Counted, Holding
    <2>5. QED
      BY <2>1, <2>2, <2>4, PartsNext
  <1>11. CASE Receive(s)
    <2>1. Tables'
      BY <1>1, <1>11, TablesStay DEF Receive
    <2>2. Shape'
      BY <1>11, GotoKeeps DEF Receive, Pc, Supervising, Pending
    <2>3. Moves(s) /\ thread[s].pc = "recv" /\ thread'[s].pc = "reap"
      BY <1>1, <1>11, MovesGoto DEF Receive
    <2>4. Gauges'
      BY <1>1, <1>11, <2>3, GaugesStay DEF Receive, InQueue, Counted, Holding
    <2>5. QED
      BY <2>1, <2>2, <2>4, PartsNext
  <1>12. CASE WorkerCrash(s)
    <2>1. Tables'
      BY <1>1, <1>12, TablesStay DEF WorkerCrash
    <2>2. Shape'
      BY <1>12, GotoKeeps DEF WorkerCrash, Pc, Supervising, Pending
    <2>3. Moves(s) /\ thread[s].pc = "recv" /\ thread'[s].pc = "reap"
      BY <1>1, <1>12, MovesGoto DEF WorkerCrash
    <2>4. Gauges'
      BY <1>1, <1>12, <2>3, GaugesStay DEF WorkerCrash, InQueue, Counted, Holding
    <2>5. QED
      BY <2>1, <2>2, <2>4, PartsNext
  <1>13. CASE GiveUp(s)
    <2>1. Tables'
      BY <1>1, <1>13, TablesStay DEF GiveUp
    <2>2. Shape'
      BY <1>13, FinishKeeps DEF GiveUp, Supervising
    <2>3. QED
      BY <1>13, <2>1, <2>2, GiveUpGauges, PartsNext
  <1>14. CASE Release(s)
    <2>1. Tables'
      BY <1>1, <1>14, TablesStay DEF Release
    <2>2. Shape'
      BY <1>14, FinishKeeps DEF Release, Supervising
    <2>3. QED
      BY <1>14, <2>1, <2>2, ReleaseGauges, PartsNext
  <1>15. CASE Reject(s)
    <2>1. Tables'
      BY <1>1, <1>15, TablesStay DEF Reject
    <2>2. Shape'
      BY <1>15, FinishKeeps DEF Reject, Supervising
    <2>3. Moves(s) /\ thread[s].pc = "enter" /\ thread'[s].pc = "idle"
      BY <1>1, <1>15, MovesFinish DEF Reject
    <2>4. Gauges'
      BY <1>1, <1>15, <2>3, GaugesStay DEF Reject, InQueue, Counted, Holding
    <2>5. QED
      BY <2>1, <2>2, <2>4, PartsNext
  <1>16. CASE Replayed(s)
    <2>1. /\ seen' = [seen EXCEPT ![s[1]] = Kept(s[1])]
          /\ UNCHANGED <<posts, late, gauges, child, ran>>
          /\ thread[s].pc = "record" /\ Finish(s)
      BY <1>16 DEF Replayed
    <2>2. \A w \in Worker : seen[w] \ late \subseteq seen'[w] /\ seen'[w] \subseteq seen[w]
      BY <1>1, <2>1, KeptValid DEF Tables
    <2>3. Tables'
      BY <1>1, <2>1, <2>2 DEF Tables
    <2>4. Shape'
      BY <2>1, <2>2, FinishKeeps DEF Supervising
    <2>5. Moves(s) /\ thread'[s].pc = "idle"
      BY <1>1, <2>1, MovesFinish
    <2>6. Gauges'
      BY <1>1, <2>1, <2>5, GaugesStay DEF InQueue, Counted, Holding
    <2>7. QED
      BY <2>3, <2>4, <2>6, PartsNext
  <1>17. CASE Record(s)
    <2>1. /\ Shape' /\ Moves(s) /\ seen' \in [Worker -> SUBSET Job]
          /\ thread[s].pc = "record" /\ thread'[s].pc = "enter"
      BY <1>17, RecordShape
    <2>2. Tables'
      BY <1>1, <1>17, <2>1 DEF Tables, Record
    <2>3. Gauges'
      BY <1>1, <1>17, <2>1, GaugesStay DEF Record, InQueue, Counted, Holding
    <2>4. QED
      BY <2>1, <2>2, <2>3, PartsNext
  <1>18. CASE ForkFails(s)
    <2>1. /\ Shape' /\ Moves(s)
          /\ thread[s].pc \in {"pipe", "fork"} /\ thread'[s].pc = "uncount"
      BY <1>18, ForkFailsShape
    <2>2. Tables'
      BY <1>1, <1>18, TablesStay DEF ForkFails
    <2>3. Gauges'
      BY <1>1, <1>18, <2>1, GaugesStay DEF ForkFails, InQueue, Counted, Holding
    <2>4. QED
      BY <2>1, <2>2, <2>3, PartsNext
  <1>19. CASE \E p \in Pid : Fork(s, p)
    <2>1. /\ Shape' /\ Tables' /\ Moves(s)
          /\ thread[s].pc = "fork" /\ thread'[s].pc = "close"
      BY <1>19, ForkShape
    <2>2. Gauges'
      BY <1>1, <1>19, <2>1, GaugesStay DEF Fork, InQueue, Counted, Holding
    <2>3. QED
      BY <2>1, <2>2, PartsNext
  <1>20. CASE Reap(s)
    <2>1. /\ Shape' /\ Tables' /\ Moves(s)
          /\ thread[s].pc = "reap" /\ thread'[s].pc = "uncount"
      BY <1>20, ReapShape, SMTT(30)
    <2>2. Gauges'
      BY <1>1, <1>20, <2>1, GaugesStay DEF Reap, InQueue, Counted, Holding
    <2>3. QED
      BY <2>1, <2>2, PartsNext
  <1>21. QED
    BY <1>2, <1>3, <1>4, <1>5, <1>6, <1>7, <1>8, <1>9, <1>10, <1>11, <1>12, <1>13, <1>14, <1>15, <1>16, <1>17, <1>18, <1>19, <1>20 DEF Proceed

LEMMA NextKeeps ==
  ASSUME IInv, [Next]_vars
  PROVE  IInv'
  <1>1. Tables /\ Gauges /\ Shape /\ TypeOK
    BY Parts DEF IInv
  <1>2. ASSUME NEW s \in Slot, Proceed(s)
        PROVE  IInv'
    BY <1>2, RequestKeeps
  <1>3. ASSUME NEW s \in Slot, BeginSend(s) \/ FinishSend(s)
        PROVE  IInv'
    <2>1. Shape' /\ Tables' /\ Moves(s) /\ thread'[s].pc = thread[s].pc
      BY <1>3, SendShape
    <2>2. UNCHANGED gauges
      BY <1>3 DEF BeginSend, FinishSend
    <2>3. Gauges'
      BY <1>1, <2>1, <2>2, GaugesStay
    <2>4. QED
      BY <2>1, <2>3, PartsNext
  <1>4. ASSUME NEW s \in Slot, NEW j \in Job, Post(s, j)
        PROVE  IInv'
    <2>1. Shape' /\ Moves(s) /\ thread[s].pc = "idle" /\ thread'[s].pc = "record"
      BY <1>4, PostShape
    <2>2. UNCHANGED <<gauges, late, seen, child, ran>>
      BY <1>4 DEF Post
    <2>3. posts' \in [Job -> 0 .. Copies]
      <3>1. posts[j] \in 0 .. Copies /\ posts[j] < Copies /\ Copies \in Nat
        BY <1>1, <1>4, SparqlAssumption DEF Tables, Post
      <3>2. posts[j] + 1 \in 0 .. Copies
        BY <3>1
      <3>3. QED
        BY <1>1, <1>4, <3>2 DEF Tables, Post
    <2>4. Tables'
      BY <1>1, <2>2, <2>3 DEF Tables
    <2>5. Gauges'
      BY <1>1, <2>1, <2>2, GaugesStay DEF InQueue, Counted, Holding
    <2>6. QED
      BY <2>1, <2>4, <2>5, PartsNext
  <1>5. ASSUME NEW p \in Pid, ChildEnds(p)
        PROVE  IInv'
    <2>1. Shape' /\ Tables' /\ \A q \in Slot : thread'[q].pc = thread[q].pc
      BY <1>5, ChildEndsShape
    <2>2. ASSUME NEW w \in Worker, NEW CONSTANT P
          PROVE  At(w, P)' = At(w, P)
      BY <2>1 DEF At, Slots
    <2>3. Gauges'
      <3>1. UNCHANGED <<queued, permits, active>>
        BY <1>5 DEF ChildEnds, gauges
      <3>2. \A w \in Worker : /\ At(w, InQueue)' = At(w, InQueue)
                              /\ At(w, Counted)' = At(w, Counted)
                              /\ At(w, Holding)' = At(w, Holding)
        BY <2>1 DEF At, Slots
      <3>3. Accounting'
        BY <1>1, <3>1, <3>2, Zenon DEF Gauges, Accounting
      <3>4. QED
        BY <1>1, <3>1, <3>3 DEF Gauges, QueueInv
    <2>4. QED
      BY <2>1, <2>3, PartsNext
  <1>6. ASSUME NEW j \in Job, ExpireJob(j)
        PROVE  IInv'
    <2>1. Shape' /\ Tables'
      BY <1>6, ExpireShape
    <2>2. UNCHANGED <<thread, queued, permits, active>>
      BY <1>6 DEF ExpireJob, gauges
    <2>3. Gauges'
      BY <1>1, <2>2 DEF Gauges, Accounting, QueueInv, At, Slots
    <2>4. QED
      BY <2>1, <2>3, PartsNext
  <1>7. ASSUME NEW w \in Worker, Restart(w)
        PROVE  IInv'
    BY <1>7, RestartKeeps, PartsNext
  <1>8. CASE UNCHANGED vars
    <2>1. UNCHANGED <<posts, late, seen, queued, permits, active, thread, child, ran>>
      BY <1>8 DEF vars
    <2>2. Tables' /\ Shape'
      BY <1>1, <2>1 DEF Tables, Shape, PidInv, WriterInv, JobInv, OnceInv, Slots
    <2>3. Gauges'
      BY <1>1, <2>1 DEF Gauges, Accounting, QueueInv, At, Slots
    <2>4. QED
      BY <2>2, <2>3, PartsNext
  <1>9. QED
    BY <1>2, <1>3, <1>4, <1>5, <1>6, <1>7, <1>8 DEF Next

LEMMA Inductive == Spec => []IInv
  BY InitKeeps, NextKeeps, PTL DEF Spec

-----------------------------------------------------------------------------
(* The theorems.                                                           *)

(* The state of the service is always one the types describe.              *)
THEOREM TypeCorrect == Spec => []TypeOK
  BY Inductive, PTL DEF IInv

(* The gauges and the semaphore of acquire and release always agree with   *)
(* the requests in flight, whatever the threads of a worker do in between  *)
(* and however a query ends.                                               *)
THEOREM GaugesAgree == Spec => []Accounting
  BY Inductive, PTL DEF IInv

(* No worker runs more children of its requests than max_concurrency, nor  *)
(* queues more requests than max_queue.                                    *)
THEOREM WorkIsBounded == Spec => []Bounded
  <1>1. ASSUME IInv, NEW w \in Worker
        PROVE  Cardinality(Running(w)) <= MaxConcurrency
    <2>. DEFINE S == {s \in Slots(w) : thread[s].pid \in Running(w)}
                f == [s \in S |-> thread[s].pid]
    <2>1. S \subseteq At(w, Holding)
      <3>1. ASSUME NEW s \in S
            PROVE  thread[s].pc \in Holding
        <4>1. s \in Slot /\ thread[s].pid \in Pid
          BY DEF Running, Slots
        <4>2. thread[s].pc \in Supervising
          BY <1>1, <4>1, Known
        <4>3. QED
          BY <4>2 DEF Supervising, Holding, Counted
      <3>2. QED
        BY <3>1 DEF At
    <2>2. f \in Surjection(S, Running(w))
      <3>1. f \in [S -> Running(w)]
        OBVIOUS
      <3>2. ASSUME NEW p \in Running(w)
            PROVE  \E s \in S : f[s] = p
        <4>1. PICK s \in Slots(w) : thread[s].pid = p
          BY DEF Running
        <4>2. s \in S /\ f[s] = p
          BY <4>1
        <4>3. QED
          BY <4>2
      <3>. HIDE DEF S, f
      <3>3. QED
        BY <3>1, <3>2, Zenon DEF Surjection
    <2>. HIDE DEF S, f
    <2>3. IsFiniteSet(At(w, Holding)) /\ Cardinality(At(w, Holding)) \in Nat
      BY AtFinite
    <2>4. IsFiniteSet(S) /\ Cardinality(S) <= Cardinality(At(w, Holding))
      BY <2>1, <2>3, FS_Subset
    <2>5. IsFiniteSet(Running(w)) /\ Cardinality(Running(w)) <= Cardinality(S)
      BY <2>2, <2>4, FS_Surjection, Zenon
    <2>6. Cardinality(S) \in Nat /\ Cardinality(Running(w)) \in Nat
      BY <2>4, <2>5, FS_CardinalityType
    <2>7. /\ permits[w] + Cardinality(At(w, Holding)) = MaxConcurrency
          /\ permits[w] \in 0 .. MaxConcurrency /\ MaxConcurrency \in Nat
      BY <1>1, SparqlAssumption DEF IInv, TypeOK, Accounting
    <2>8. QED
      BY <2>3, <2>4, <2>5, <2>6, <2>7
  <1>2. IInv => Bounded
    BY <1>1 DEF Bounded, IInv, QueueInv
  <1>3. QED
    BY <1>2, Inductive, PTL

(* While a job is valid a worker runs it at most once in its life, even if *)
(* copies of the request overlap and the table of seen jobs is purged.     *)
THEOREM ValidJobsRunOnce == Spec => []ValidJobRunsOnce
  <1>1. IInv => ValidJobRunsOnce
    <2>1. ASSUME IInv, NEW w \in Worker, NEW j \in Job, ran[w][j] > 1, j \notin late
          PROVE  FALSE
      <3>1. ran[w][j] <= 1 /\ ran[w][j] \in Nat
        BY <2>1 DEF IInv, OnceInv, TypeOK
      <3>2. QED
        BY <2>1, <3>1
    <2>2. QED
      BY <2>1 DEF ValidJobRunsOnce
  <1>2. QED
    BY <1>1, Inductive, PTL

(* A crash is reported only of a child that has ended: as long as the      *)
(* child lives it holds the write end of its pipe.                         *)
THEOREM CrashesAreReal == Spec => CrashIsReal
  <1>1. ASSUME IInv, NEW s \in Slot, WorkerCrash(s)
        PROVE  child[thread[s].pid] = "none"
    <2>1. thread[s].pc \in Supervising /\ thread[s].writers = {}
      BY <1>1 DEF WorkerCrash, AtEof, Supervising
    <2>2. QED
      BY <1>1, <2>1 DEF IInv, WriterInv
  <1>2. IInv /\ [Next]_vars => [\A s \in Slot : WorkerCrash(s) => child[thread[s].pid] = "none"]_vars
    BY <1>1
  <1>3. QED
    BY <1>2, Inductive, PTL DEF Spec, CrashIsReal
-----------------------------------------------------------------------------
=============================================================================
