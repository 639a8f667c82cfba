--------------------------- MODULE ThreadPoolProofs ---------------------------
(***************************************************************************)
(* Theorems about ThreadPool for any set of workers and any limits.        *)
(*                                                                         *)
(* NoJobSleptOver counts the threads that are up; it is kept because each  *)
(* job comes with one pthread_cond_signal(), and because a worker goes to  *)
(* sleep only when it sees no job.  QueueNeverFails needs that a thread    *)
(* which has timed out decides and leaves in one critical section          *)
(* (Leavers), so that not all of them leave at once (Enough).              *)
(***************************************************************************)
EXTENDS ThreadPool, FiniteSetTheorems, SequenceTheorems, TLAPS

Running == {w \in Workers : pc[w] = "running"}

\* pool->threads lists the threads that exist, until the destructor takes the list.
Members == /\ waiting \subseteq {w \in Workers : pc[w] \in {"wait", "timedwait"}}
           /\ \A w \in Workers : pc[w] = "loop" <=> lock = w
           /\ threads = IF terminate THEN {} ELSE {w \in Workers : pc[w] # "none"}
           /\ terminate => joining \subseteq Workers

Counted == busy_threads = Cardinality(Running)

Leavers == \A w \in Workers : got_timeout[w] => /\ pc[w] \in {"loop", "running"}
                                                /\ lock = w => num_threads > MinThreads

Enough == /\ init_threads \in 0 .. MinThreads
          /\ ~terminate => num_threads >= init_threads

PoolInv == /\ TypeOK
           /\ Members /\ Counted /\ Leavers /\ Enough
           /\ NoJobSleptOver /\ QueueNeverFails
-------------------------------------------------------------------------------
(* The sets that are counted are finite. *)
LEMMA Finite ==
  ASSUME threads \subseteq Workers
  PROVE  /\ IsFiniteSet(threads) /\ num_threads \in Nat
         /\ IsFiniteSet(Up) /\ Cardinality(Up) \in Nat
         /\ IsFiniteSet(Running) /\ Cardinality(Running) \in Nat
<1>1. \A S \in SUBSET Workers : IsFiniteSet(S) /\ Cardinality(S) \in Nat
  BY WorkersAssumption, FS_Subset, FS_CardinalityType
<1>2. Up \subseteq Workers /\ Running \subseteq Workers
  BY DEF Up, Running
<1>3. QED
  BY <1>1, <1>2 DEF num_threads

(* A set of workers that grows by one, shrinks by one, or only grows. *)
LEMMA OneMore ==
  ASSUME NEW S \in SUBSET Workers, NEW w, w \notin S
  PROVE  Cardinality(S \union {w}) = Cardinality(S) + 1 /\ Cardinality(S) \in Nat
<1>1. IsFiniteSet(S)
  BY WorkersAssumption, FS_Subset
<1>2. QED
  BY <1>1, FS_AddElement, FS_CardinalityType

LEMMA OneLess ==
  ASSUME NEW S \in SUBSET Workers, NEW w \in S
  PROVE  /\ Cardinality(S \ {w}) = Cardinality(S) - 1
         /\ Cardinality(S) \in Nat \ {0}
<1>1. IsFiniteSet(S) /\ S # {}
  BY WorkersAssumption, FS_Subset
<1>2. Cardinality(S) # 0
  BY <1>1, FS_EmptySet
<1>3. QED
  BY <1>1, <1>2, FS_RemoveElement, FS_CardinalityType

LEMMA NotLess ==
  ASSUME NEW S \in SUBSET Workers, NEW T \in SUBSET Workers, S \subseteq T
  PROVE  /\ Cardinality(S) <= Cardinality(T)
         /\ Cardinality(S) \in Nat /\ Cardinality(T) \in Nat
<1>1. IsFiniteSet(T)
  BY WorkersAssumption, FS_Subset
<1>2. QED
  BY <1>1, FS_Subset, FS_CardinalityType
-------------------------------------------------------------------------------
LEMMA PoolInvInit == Init => PoolInv
<1> SUFFICES ASSUME Init PROVE PoolInv
  OBVIOUS
<1>1. threads \subseteq Workers /\ num_threads = init_threads /\ init_threads \in 0 .. MinThreads
  BY ThreadsAssumption DEF Init, num_threads
<1>2. TypeOK
  <2>1. work \in Seq(Jobs)
    BY EmptySeq DEF Init
  <2>2. num_threads <= MaxThreads
    BY <1>1, ThreadsAssumption
  <2>3. lock \in Workers \union {None} /\ waiting \subseteq Workers
        /\ joining \in (SUBSET Workers) \union {None}
    BY DEF Init
  <2>4. /\ pc \in [Workers -> {"none", "start", "loop", "wait", "timedwait", "running", "exited"}]
        /\ doing \in [Workers -> Jobs \union {None}]
        /\ got_timeout \in [Workers -> BOOLEAN]
    BY DEF Init
  <2>5. QED
    BY <1>1, <2>1, <2>2, <2>3, <2>4 DEF Init, TypeOK
<1>3. Members
  BY <1>1, WorkersAssumption DEF Init, Members
<1>4. Counted
  <2>1. Running = {}
    BY DEF Init, Running
  <2>2. QED
    BY <2>1, FS_EmptySet DEF Init, Counted
<1>5. Leavers /\ Enough
  BY <1>1 DEF Init, Leavers, Enough
<1>6. NoJobSleptOver /\ QueueNeverFails
  BY DEF Init, NoJobSleptOver, QueueNeverFails
<1>7. QED
  BY <1>2, <1>3, <1>4, <1>5, <1>6 DEF PoolInv

(* thread_pool_add() *)
LEMMA AddKeeps ==
  ASSUME PoolInv, NEW job \in Jobs, NEW allow_queue \in BOOLEAN, Add(job, allow_queue),
         UNCHANGED init_threads
  PROVE  PoolInv'
<1> USE DEF PoolInv
<1>1. /\ lock = None /\ ~terminate
      /\ UNCHANGED <<busy_threads, terminate, lock, doing, got_timeout, joining>>
  BY DEF Add
<1>2. threads \subseteq Workers /\ num_threads \in Nat
  BY Finite DEF TypeOK
<1>3. CASE NoThread /\ UNCHANGED <<work, waiting>>
  <2>1. ~MayQueue(allow_queue)
        /\ outcome' = IF allow_queue THEN "queue_failed" ELSE "run_failed"
    <3>1. work' # Append(work, job)
      <4>1. work \in Seq(Jobs)
        BY DEF TypeOK
      <4>2. Len(Append(work, job)) = Len(work) + 1 /\ Len(work) \in Nat
        BY <4>1, AppendProperties, LenProperties
      <4>3. QED
        BY <1>3, <4>2
    <3>2. QED
      BY <3>1 DEF Add, Accept
  <2>2. QueueNeverFails'
    BY <1>1, <1>2, <2>1, ThreadsAssumption DEF QueueNeverFails, MayQueue, Enough
  <2>3. UNCHANGED <<threads, pc, work, waiting>>
    BY <1>3 DEF NoThread
  <2>4. TypeOK' /\ Members' /\ Counted'
    BY <1>1, <2>3 DEF TypeOK, num_threads, Members, Counted, Running
  <2>5. Leavers' /\ Enough' /\ NoJobSleptOver'
    BY <1>1, <2>3 DEF Leavers, Enough, NoJobSleptOver, num_threads, num_work, Up
  <2>6. QED
    BY <2>2, <2>4, <2>5
<1>4. CASE /\ NoThread \/ (NeedThread /\ \E w \in Workers : AddThread(w))
           /\ \E result \in {"queued", "run"} : Accept(job, result)
  <2>1. /\ work' = Append(work, job) /\ Signal /\ outcome' \in {"queued", "run"}
    BY <1>4 DEF Accept
  <2>2. work' \in Seq(Jobs) /\ num_work' = num_work + 1 /\ num_work \in Nat
    BY <2>1, AppendProperties, LenProperties DEF TypeOK, num_work
  <2>3. waiting' \subseteq waiting
    BY <2>1 DEF Signal
  <2>4. \E S \in SUBSET Workers : /\ S \intersect threads = {}
                                  /\ \A u \in S : pc[u] = "none"
                                  /\ threads' = threads \union S
                                  /\ pc' = [u \in Workers |-> IF u \in S THEN "start" ELSE pc[u]]
                                  /\ num_threads' <= MaxThreads /\ num_threads' >= num_threads
    <3>1. CASE NoThread
      <4>1. threads' = threads /\ pc' = [u \in Workers |-> IF u \in {} THEN "start" ELSE pc[u]]
        BY <3>1 DEF NoThread, TypeOK
      <4>2. num_threads' <= MaxThreads /\ num_threads' >= num_threads
        BY <1>2, <4>1 DEF TypeOK, num_threads
      <4>3. WITNESS {} \in SUBSET Workers
      <4>4. QED
        BY <4>1, <4>2
    <3>2. ASSUME NEW w \in Workers, NeedThread, AddThread(w)
          PROVE  \E S \in SUBSET Workers :
                                  /\ S \intersect threads = {}
                                  /\ \A u \in S : pc[u] = "none"
                                  /\ threads' = threads \union S
                                  /\ pc' = [u \in Workers |-> IF u \in S THEN "start" ELSE pc[u]]
                                  /\ num_threads' <= MaxThreads /\ num_threads' >= num_threads
      <4>1. pc[w] = "none" /\ w \notin threads /\ threads' = threads \union {w}
        BY <1>1, <3>2 DEF AddThread, Members
      <4>2. num_threads' = num_threads + 1
        BY <1>2, <4>1, OneMore DEF num_threads
      <4>3. num_threads' <= MaxThreads /\ num_threads' >= num_threads
        BY <1>2, <3>2, <4>2, ThreadsAssumption DEF NeedThread
      <4>4. pc' = [u \in Workers |-> IF u \in {w} THEN "start" ELSE pc[u]]
        BY <3>2 DEF AddThread, TypeOK
      <4>5. WITNESS {w} \in SUBSET Workers
      <4>6. QED
        BY <4>1, <4>3, <4>4
    <3>3. QED
      BY <1>4, <3>1, <3>2
  <2>5. PICK S \in SUBSET Workers : /\ \A u \in S : pc[u] = "none"
                                    /\ threads' = threads \union S
                                    /\ pc' = [u \in Workers |-> IF u \in S THEN "start" ELSE pc[u]]
                                    /\ num_threads' <= MaxThreads /\ num_threads' >= num_threads
    BY <2>4
  <2>6. TypeOK'
    BY <1>1, <1>2, <2>2, <2>3, <2>5 DEF TypeOK
  <2>7. Members'
    BY <1>1, <1>2, <2>3, <2>5, WorkersAssumption DEF Members, TypeOK
  <2>8. Counted'
    <3>1. Running' = Running
      BY <2>5 DEF Running
    <3>2. QED
      BY <1>1, <3>1 DEF Counted
  <2>9. Leavers' /\ Enough'
    <3>1. num_threads' \in Nat
      <4>1. threads' \in SUBSET Workers
        BY <2>6 DEF TypeOK
      <4>2. QED
        BY <4>1, NotLess DEF num_threads
    <3>2. Leavers'
      BY <1>1, <2>5, WorkersAssumption DEF Leavers
    <3>3. Enough'
      BY <1>1, <1>2, <2>5, <3>1, ThreadsAssumption DEF Enough
    <3>4. QED
      BY <3>2, <3>3
  <2>10. NoJobSleptOver'
    <3>1. SUFFICES ASSUME waiting' # {} PROVE num_work' <= Cardinality(Up')
      BY DEF NoJobSleptOver
    <3>2. PICK w \in waiting : waiting' = waiting \ {w}
      BY <2>1, <3>1 DEF Signal
    <3>3. w \in Workers /\ w \notin Up /\ Up \union {w} \subseteq Up'
      BY <2>5, <3>2 DEF Members, Up
    <3>4. Cardinality(Up \union {w}) = Cardinality(Up) + 1 /\ Cardinality(Up) \in Nat
      BY <3>3, OneMore DEF Up
    <3>5. Cardinality(Up \union {w}) <= Cardinality(Up') /\ Cardinality(Up') \in Nat
      <4>1. Up \union {w} \in SUBSET Workers /\ Up' \in SUBSET Workers
        BY <3>3 DEF Up
      <4>2. QED
        BY <3>3, <4>1, NotLess
    <3>6. num_work <= Cardinality(Up)
      BY <3>2 DEF NoJobSleptOver
    <3>7. QED
      BY <2>2, <3>4, <3>5, <3>6
  <2>11. QueueNeverFails'
    BY <2>1 DEF QueueNeverFails
  <2>12. QED
    BY <2>6, <2>7, <2>8, <2>9, <2>10, <2>11
<1>5. QED
  BY <1>3, <1>4 DEF Add
(* Steps that leave the pool's threads, and who runs a job, as they are. *)
LEMMA SameThreads ==
  ASSUME PoolInv, UNCHANGED <<threads, init_threads>>, terminate' = terminate
  PROVE  num_threads' = num_threads /\ Enough'
  BY DEF PoolInv, Enough, num_threads

LEMMA SameRunning ==
  ASSUME PoolInv, NEW w \in Workers, NEW l, pc' = [pc EXCEPT ![w] = l],
         pc[w] # "running", l # "running", UNCHANGED busy_threads
  PROVE  Counted'
<1>1. Running' = Running
  BY DEF PoolInv, TypeOK, Running
<1>2. QED
  BY <1>1 DEF PoolInv, Counted

(* More threads are up for as much work. *)
LEMMA MoreUp ==
  ASSUME PoolInv, Up \subseteq Up', num_work' = num_work,
         waiting' # {} => waiting # {}
  PROVE  NoJobSleptOver'
<1>1. SUFFICES ASSUME waiting' # {} PROVE num_work' <= Cardinality(Up')
  BY DEF NoJobSleptOver
<1>2. num_work <= Cardinality(Up)
  BY <1>1 DEF PoolInv, NoJobSleptOver
<1>3. /\ Cardinality(Up) <= Cardinality(Up')
      /\ Cardinality(Up) \in Nat /\ Cardinality(Up') \in Nat
  <2>1. Up \in SUBSET Workers /\ Up' \in SUBSET Workers
    BY DEF Up
  <2>2. QED
    BY <2>1, NotLess
<1>4. num_work \in Nat
  BY LenProperties DEF PoolInv, TypeOK, num_work
<1>5. QED
  BY <1>2, <1>3, <1>4

(* worker_thread() gets the lock, after its start or after a wait. *)
LEMMA WakesKeeps ==
  ASSUME PoolInv, NEW w \in Workers, GetLock(w) \/ Timeout(w), UNCHANGED init_threads
  PROVE  PoolInv'
<1> USE DEF PoolInv
<1>1. /\ lock = None /\ lock' = w /\ pc[w] \in {"start", "wait", "timedwait"}
      /\ pc' = [pc EXCEPT ![w] = "loop"] /\ outcome' = "none"
      /\ waiting' = waiting \ {w}
      /\ UNCHANGED <<work, threads, busy_threads, terminate, doing, joining>>
  <2>1. CASE GetLock(w)
    <3>1. w \notin waiting
      BY <2>1 DEF GetLock, Members
    <3>2. QED
      BY <2>1, <3>1 DEF GetLock
  <2>2. CASE Timeout(w)
    BY <2>2 DEF Timeout
  <2>3. QED
    BY <2>1, <2>2
<1>2. pc'[w] = "loop" /\ \A u \in Workers : u # w => pc'[u] = pc[u]
  BY <1>1 DEF TypeOK
<1>3. \E b \in BOOLEAN : /\ b => num_threads > MinThreads
                        /\ got_timeout' = [got_timeout EXCEPT ![w] = b]
  <2>1. CASE GetLock(w)
    <3>1. got_timeout[w] = FALSE /\ got_timeout' = got_timeout
      BY <1>1, <2>1 DEF GetLock, Leavers, TypeOK
    <3>2. got_timeout' = [got_timeout EXCEPT ![w] = FALSE]
      BY <3>1 DEF TypeOK
    <3>3. QED
      BY <3>2
  <2>2. CASE Timeout(w)
    <3>1. (num_threads > MinThreads) \in BOOLEAN
      OBVIOUS
    <3>2. got_timeout' = [got_timeout EXCEPT ![w] = num_threads > MinThreads]
      BY <2>2 DEF Timeout, LeavesOnTimeout
    <3>3. QED
      BY <3>1, <3>2
  <2>3. QED
    BY <2>1, <2>2
<1>4. num_threads' = num_threads /\ Enough'
  BY <1>1, SameThreads
<1>5. got_timeout' \in [Workers -> BOOLEAN]
  BY <1>3 DEF TypeOK
<1>6. TypeOK'
  BY <1>1, <1>4, <1>5 DEF TypeOK
<1>7. Members'
  BY <1>1, <1>2, WorkersAssumption DEF Members
<1>8. Counted'
  BY <1>1, SameRunning
<1>9. Leavers'
  <2>1. got_timeout'[w] => num_threads > MinThreads
    BY <1>3 DEF TypeOK
  <2>2. \A u \in Workers : u # w => got_timeout'[u] = got_timeout[u]
    BY <1>3 DEF TypeOK
  <2>3. QED
    BY <1>1, <1>2, <1>4, <2>1, <2>2 DEF Leavers
<1>10. NoJobSleptOver'
  <2>1. Up \subseteq Up'
    BY <1>1, <1>2 DEF Up
  <2>2. QED
    BY <1>1, <2>1, MoreUp DEF num_work
<1>11. QED
  BY <1>1, <1>4, <1>6, <1>7, <1>8, <1>9, <1>10 DEF QueueNeverFails

LEMMA TakeWorkKeeps ==
  ASSUME PoolInv, NEW w \in Workers, TakeWork(w), UNCHANGED init_threads
  PROVE  PoolInv'
<1> USE DEF PoolInv
<1>1. /\ lock = w /\ lock' = None /\ work # <<>> /\ work' = Tail(work)
      /\ doing' = [doing EXCEPT ![w] = Head(work)] /\ busy_threads' = busy_threads + 1
      /\ pc' = [pc EXCEPT ![w] = "running"]
      /\ UNCHANGED <<threads, terminate, got_timeout, waiting, joining, outcome>>
  BY DEF TakeWork, HasWork
<1>2. pc[w] = "loop" /\ w \notin waiting
  BY <1>1 DEF Members
<1>3. pc'[w] = "running" /\ \A u \in Workers : u # w => pc'[u] = pc[u]
  BY <1>1 DEF TypeOK
<1>4. /\ Head(work) \in Jobs /\ Tail(work) \in Seq(Jobs)
      /\ num_work' = num_work - 1 /\ num_work \in Nat
  BY <1>1, HeadTailProperties, LenProperties DEF TypeOK, num_work
<1>5. num_threads' = num_threads /\ Enough'
  BY <1>1, SameThreads
<1>6. TypeOK'
  BY <1>1, <1>4, <1>5 DEF TypeOK
<1>7. Members'
  BY <1>1, <1>2, <1>3, WorkersAssumption DEF Members
<1>8. Counted'
  <2>1. w \notin Running /\ Running' = Running \union {w} /\ Running \in SUBSET Workers
    BY <1>2, <1>3 DEF Running
  <2>2. QED
    BY <1>1, <2>1, OneMore DEF Counted
<1>9. Leavers'
  BY <1>1, <1>3, WorkersAssumption DEF Leavers
<1>10. NoJobSleptOver'
  <2>1. w \in Up /\ Up' = Up \ {w} /\ Up \in SUBSET Workers
    BY <1>1, <1>2, <1>3 DEF Up
  <2>2. Cardinality(Up') = Cardinality(Up) - 1 /\ Cardinality(Up) \in Nat
    BY <2>1, OneLess
  <2>3. QED
    BY <1>1, <1>4, <2>2 DEF NoJobSleptOver
<1>11. QED
  BY <1>1, <1>5, <1>6, <1>7, <1>8, <1>9, <1>10 DEF QueueNeverFails

(* A worker that sees no job sleeps or leaves. *)
LEMMA SleepKeeps ==
  ASSUME PoolInv, NEW w \in Workers, Sleep(w), UNCHANGED init_threads
  PROVE  PoolInv'
<1> USE DEF PoolInv
<1>1. /\ lock = w /\ lock' = None /\ work = <<>> /\ waiting' = waiting \union {w}
      /\ \E l \in {"wait", "timedwait"} : pc' = [pc EXCEPT ![w] = l]
      /\ ~got_timeout[w]
      /\ UNCHANGED <<work, threads, busy_threads, terminate, doing, got_timeout, joining,
                     outcome>>
  BY DEF Sleep, HasWork, MayLeave
<1>2. pc[w] = "loop" /\ w # None
  BY <1>1, WorkersAssumption DEF Members
<1>3. pc'[w] \in {"wait", "timedwait"} /\ \A u \in Workers : u # w => pc'[u] = pc[u]
  BY <1>1 DEF TypeOK
<1>4. num_threads' = num_threads /\ Enough'
  BY <1>1, SameThreads
<1>5. TypeOK'
  BY <1>1, <1>4 DEF TypeOK
<1>6. Members'
  BY <1>1, <1>2, <1>3, WorkersAssumption DEF Members
<1>7. Counted'
  BY <1>1, <1>2, SameRunning
<1>8. Leavers'
  BY <1>1, <1>3, WorkersAssumption DEF Leavers
<1>9. NoJobSleptOver'
  <2>1. num_work' = 0
    BY <1>1, EmptySeq DEF num_work
  <2>2. Up' \in SUBSET Workers
    BY DEF Up
  <2>3. QED
    BY <2>1, <2>2, NotLess DEF NoJobSleptOver
<1>10. QED
  BY <1>1, <1>4, <1>5, <1>6, <1>7, <1>8, <1>9 DEF QueueNeverFails

LEMMA LeaveKeeps ==
  ASSUME PoolInv, NEW w \in Workers, Leave(w), UNCHANGED init_threads
  PROVE  PoolInv'
<1> USE DEF PoolInv
<1> DEFINE l == IF terminate THEN "exited" ELSE "none"
<1>1. /\ lock = w /\ lock' = None /\ work = <<>> /\ threads' = threads \ {w}
      /\ pc' = [pc EXCEPT ![w] = l]
      /\ got_timeout' = [got_timeout EXCEPT ![w] = FALSE]
      /\ got_timeout[w] \/ terminate
      /\ UNCHANGED <<work, busy_threads, terminate, doing, waiting, joining, outcome>>
  BY DEF Leave, HasWork, MayLeave
<1>2. pc[w] = "loop"
  BY <1>1 DEF Members
<1>3. pc'[w] = l /\ \A u \in Workers : u # w => pc'[u] = pc[u]
  BY <1>1 DEF TypeOK
<1>4. /\ num_threads' <= num_threads /\ num_threads \in Nat /\ num_threads' \in Nat
      /\ threads' \subseteq Workers
  BY <1>1, NotLess DEF TypeOK, num_threads
<1>5. TypeOK'
  <2>1. pc' \in [Workers -> {"none", "start", "loop", "wait", "timedwait", "running", "exited"}]
    BY <1>1 DEF TypeOK
  <2>2. num_threads' <= MaxThreads
    BY <1>4, ThreadsAssumption DEF TypeOK
  <2>3. QED
    BY <1>1, <1>4, <2>1, <2>2 DEF TypeOK
<1>6. Members'
  <2>1. threads' = IF terminate' THEN {} ELSE {u \in Workers : pc'[u] # "none"}
    BY <1>1, <1>3 DEF Members
  <2>2. QED
    BY <1>1, <1>2, <1>3, <2>1, WorkersAssumption DEF Members
<1>7. Counted'
  BY <1>1, <1>2, SameRunning
<1>8. Leavers'
  <2>1. ~got_timeout'[w] /\ \A u \in Workers : u # w => got_timeout'[u] = got_timeout[u]
    BY <1>1 DEF TypeOK
  <2>2. QED
    BY <1>1, <1>3, <2>1, WorkersAssumption DEF Leavers
<1>9. Enough'
  <2>1. SUFFICES ASSUME ~terminate PROVE num_threads' >= init_threads
    BY <1>1 DEF Enough
  <2>2. w \in threads
    BY <1>2, <2>1 DEF Members
  <2>3. num_threads' = num_threads - 1
    BY <1>1, <2>2, OneLess DEF TypeOK, num_threads
  <2>4. num_threads > MinThreads
    BY <1>1, <2>1 DEF Leavers
  <2>5. QED
    BY <1>4, <2>3, <2>4, ThreadsAssumption DEF Enough
<1>10. NoJobSleptOver'
  <2>1. num_work' = 0
    BY <1>1, EmptySeq DEF num_work
  <2>2. Up' \in SUBSET Workers
    BY DEF Up
  <2>3. QED
    BY <2>1, <2>2, NotLess DEF NoJobSleptOver
<1>11. QED
  BY <1>1, <1>5, <1>6, <1>7, <1>8, <1>9, <1>10 DEF QueueNeverFails

LEMMA FinishKeeps ==
  ASSUME PoolInv, NEW w \in Workers, Finish(w), UNCHANGED init_threads
  PROVE  PoolInv'
<1> USE DEF PoolInv
<1>1. /\ lock = None /\ pc[w] = "running" /\ busy_threads' = busy_threads - 1
      /\ doing' = [doing EXCEPT ![w] = None]
      /\ got_timeout' = [got_timeout EXCEPT ![w] = FALSE]
      /\ lock' = w /\ pc' = [pc EXCEPT ![w] = "loop"] /\ outcome' = "none"
      /\ UNCHANGED <<work, threads, terminate, waiting, joining>>
  BY DEF Finish
<1>2. pc'[w] = "loop" /\ \A u \in Workers : u # w => pc'[u] = pc[u]
  BY <1>1 DEF TypeOK
<1>3. num_threads' = num_threads /\ Enough'
  BY <1>1, SameThreads
<1>4. busy_threads' \in Nat /\ Counted'
  <2>1. w \in Running /\ Running' = Running \ {w} /\ Running \in SUBSET Workers
    BY <1>1, <1>2 DEF Running
  <2>2. QED
    BY <1>1, <2>1, OneLess DEF Counted
<1>5. TypeOK'
  BY <1>1, <1>3, <1>4 DEF TypeOK
<1>6. Members'
  BY <1>1, <1>2, WorkersAssumption DEF Members
<1>7. Leavers'
  <2>1. ~got_timeout'[w] /\ \A u \in Workers : u # w => got_timeout'[u] = got_timeout[u]
    BY <1>1 DEF TypeOK
  <2>2. QED
    BY <1>1, <1>2, <2>1, WorkersAssumption DEF Leavers
<1>8. NoJobSleptOver'
  <2>1. Up \subseteq Up'
    BY <1>1, <1>2 DEF Up
  <2>2. QED
    BY <1>1, <2>1, MoreUp DEF num_work
<1>9. QED
  BY <1>1, <1>3, <1>4, <1>5, <1>6, <1>7, <1>8 DEF QueueNeverFails

LEMMA SpuriousWakeupKeeps ==
  ASSUME PoolInv, NEW w \in Workers, SpuriousWakeup(w), UNCHANGED init_threads
  PROVE  PoolInv'
<1> USE DEF PoolInv
<1>1. /\ waiting' = waiting \ {w}
      /\ UNCHANGED <<work, threads, busy_threads, terminate, lock, pc, doing, got_timeout,
                     joining, outcome>>
  BY DEF SpuriousWakeup
<1>2. num_threads' = num_threads /\ Enough'
  BY <1>1, SameThreads
<1>3. TypeOK' /\ Members' /\ Counted' /\ Leavers'
  BY <1>1, <1>2 DEF TypeOK, Members, Counted, Running, Leavers
<1>4. NoJobSleptOver'
  <2>1. Up \subseteq Up'
    BY <1>1 DEF Up
  <2>2. QED
    BY <1>1, <2>1, MoreUp DEF num_work
<1>5. QED
  BY <1>1, <1>2, <1>3, <1>4 DEF QueueNeverFails

(* The destructor takes the list of threads, and joins them. *)
LEMMA DestroyKeeps ==
  ASSUME PoolInv, Destroy \/ \E w \in Workers : Join(w), UNCHANGED init_threads
  PROVE  PoolInv'
<1> USE DEF PoolInv
<1>1. CASE Destroy
  <2>1. /\ lock = None /\ terminate' = TRUE /\ waiting' = {} /\ joining' = threads
        /\ threads' = {} /\ outcome' = "none"
        /\ UNCHANGED <<work, busy_threads, lock, pc, doing, got_timeout>>
    BY <1>1 DEF Destroy, WakeAll
  <2>2. num_threads' = 0
    BY <2>1, FS_EmptySet DEF num_threads
  <2>3. TypeOK' /\ Members' /\ Counted'
    BY <2>1, <2>2, ThreadsAssumption DEF TypeOK, Members, Counted, Running
  <2>4. Leavers' /\ Enough' /\ NoJobSleptOver' /\ QueueNeverFails'
    BY <2>1, WorkersAssumption DEF Leavers, Enough, NoJobSleptOver, QueueNeverFails
  <2>5. QED
    BY <2>3, <2>4
<1>2. ASSUME NEW w \in Workers, Join(w) PROVE PoolInv'
  <2>1. /\ joining' = joining \ {w} /\ w \in joining /\ terminate
        /\ UNCHANGED <<work, threads, busy_threads, terminate, lock, pc, doing, got_timeout,
                       waiting, outcome>>
    BY <1>2 DEF Join
  <2>2. num_threads' = num_threads /\ Enough'
    BY <2>1, SameThreads
  <2>3. joining' \in (SUBSET Workers) \union {None} /\ joining' \subseteq Workers
    BY <2>1 DEF Members
  <2>4. TypeOK' /\ Members' /\ Counted' /\ Leavers'
    BY <2>1, <2>2, <2>3 DEF TypeOK, Members, Counted, Running, Leavers
  <2>5. NoJobSleptOver' /\ QueueNeverFails'
    BY <2>1 DEF NoJobSleptOver, Up, num_work, QueueNeverFails
  <2>6. QED
    BY <2>2, <2>4, <2>5
<1>3. QED
  BY <1>1, <1>2

LEMMA PoolInvNext == PoolInv /\ [Next]_vars => PoolInv'
<1> SUFFICES ASSUME PoolInv, [Next]_vars PROVE PoolInv'
  OBVIOUS
<1>1. UNCHANGED init_threads
  BY DEF Next, vars
<1>2. CASE \E job \in Jobs : Queue(job) \/ RunNow(job)
  BY <1>1, <1>2, AddKeeps DEF Queue, RunNow
<1>3. CASE \E w \in Workers : Worker(w) \/ Timeout(w) \/ SpuriousWakeup(w)
  BY <1>1, <1>3, WakesKeeps, TakeWorkKeeps, SleepKeeps, LeaveKeeps, FinishKeeps,
     SpuriousWakeupKeeps DEF Worker
<1>4. CASE Destroy \/ \E w \in Workers : Join(w)
  BY <1>1, <1>4, DestroyKeeps
<1>5. CASE UNCHANGED vars
  <2>1. TypeOK' /\ Members' /\ Counted'
    BY <1>5 DEF vars, PoolInv, TypeOK, num_threads, Members, Counted, Running
  <2>2. Leavers' /\ Enough' /\ NoJobSleptOver' /\ QueueNeverFails'
    BY <1>5 DEF vars, PoolInv, Leavers, Enough, num_threads, NoJobSleptOver, num_work, Up,
                QueueNeverFails
  <2>3. QED
    BY <2>1, <2>2 DEF PoolInv
<1>6. QED
  BY <1>2, <1>3, <1>4, <1>5 DEF Next

(* The pool's books are right in every reachable state. *)
THEOREM PoolInvariant == Spec => []PoolInv
  BY PoolInvInit, PoolInvNext, PTL DEF Spec

(* The fields of struct mp_thread_pool keep their types; in particular there *)
(* are never more than max_threads threads.                                  *)
THEOREM PoolTypeOK == Spec => []TypeOK
<1>1. PoolInv => TypeOK
  BY DEF PoolInv
<1>2. QED
  BY <1>1, PoolInvariant, PTL

(* While a worker sleeps, each queued job has a worker that is up for it:    *)
(* one pthread_cond_signal() per job is enough.                              *)
THEOREM NoJobIsSleptOver == Spec => []NoJobSleptOver
<1>1. PoolInv => NoJobSleptOver
  BY DEF PoolInv
<1>2. QED
  BY <1>1, PoolInvariant, PTL

(* mp_thread_pool_queue() does not fail on a pool created with threads.      *)
THEOREM QueueingNeverFails == Spec => []QueueNeverFails
<1>1. PoolInv => QueueNeverFails
  BY DEF PoolInv
<1>2. QED
  BY <1>1, PoolInvariant, PTL
===============================================================================
