------------------------------ MODULE ThreadPool ------------------------------
(***************************************************************************)
(* misc/thread_pool.c: worker threads are created on demand, sleep on one  *)
(* condition variable that is signalled, not broadcast, and leave after    *)
(* DESTROY_TIMEOUT without work while there are more than min_threads.     *)
(*                                                                         *)
(* A worker keeps pool->lock from waking up (or finishing a job) to its    *)
(* next decision; "lock" says so, and everybody else waits for it.         *)
(***************************************************************************)
EXTENDS Naturals, Sequences, FiniteSets

CONSTANTS Workers,     \* identities threads are created with
          Jobs,        \* (fn, fn_ctx) pairs
          InitThreads, \* values of init_threads
          MinThreads, MaxThreads,
          MaxWork,     \* bound on the number of queued jobs
          None

ASSUME ThreadsAssumption == /\ MinThreads \in Nat /\ MaxThreads \in Nat \ {0}
                            /\ MinThreads <= MaxThreads
                            /\ InitThreads \subseteq 0 .. MinThreads
ASSUME WorkersAssumption == /\ IsFiniteSet(Workers) /\ MaxThreads <= Cardinality(Workers)
                            /\ None \notin Workers \union Jobs

VARIABLES work,        \* next job first
          threads,     \* pool->threads[0 .. num_threads-1]
          busy_threads,
          terminate,
          lock,        \* the worker that holds pool->lock between two steps
          pc,          \* what each worker does
          doing,       \* the job it runs
          got_timeout,
          waiting,     \* workers asleep on pool->wakeup
          joining,     \* threads the destructor waits for, None outside of it
          outcome,     \* ghost: result of the call that just ended
          init_threads \* given to mp_thread_pool_create(), never changes

vars == <<work, threads, busy_threads, terminate, lock, pc, doing, got_timeout,
          waiting, joining, outcome, init_threads>>

num_threads == Cardinality(threads)
num_work == Len(work)

Init == /\ work = <<>>
        /\ init_threads \in InitThreads
        /\ threads \in {T \in SUBSET Workers : Cardinality(T) = init_threads}
        /\ busy_threads = 0
        /\ terminate = FALSE
        /\ lock = None
        /\ pc = [w \in Workers |-> IF w \in threads THEN "start" ELSE "none"]
        /\ doing = [w \in Workers |-> None]
        /\ got_timeout = [w \in Workers |-> FALSE]
        /\ waiting = {}
        /\ joining = None
        /\ outcome = "none"
-------------------------------------------------------------------------------
\* pthread_cond_signal wakes one sleeper, whichever it is; pthread_cond_broadcast.
NoSignal == UNCHANGED waiting
Signal == IF waiting = {} THEN UNCHANGED waiting
                          ELSE \E w \in waiting : waiting' = waiting \ {w}

NeedThreadUnbounded == busy_threads + num_work + 1 > num_threads
NeedThread == busy_threads + num_work + 1 > num_threads /\ num_threads < MaxThreads

\* add_thread(): pthread_create() works, or not.
AddThread(w) == /\ pc[w] = "none"
                /\ pc' = [pc EXCEPT ![w] = "start"]
                /\ threads' = threads \union {w}
NoThread == UNCHANGED <<pc, threads>>

\* Without a new thread the job is still done as long as there is one thread.
MayQueueAlways(allow_queue) == allow_queue
MayQueue(allow_queue) == allow_queue /\ num_threads > 0

\* thread_pool_add(): jobs are taken in the order they come.
Accept(job, result) == /\ num_work < MaxWork
                       /\ work' = Append(work, job)
                       /\ Signal
                       /\ outcome' = result

Add(job, allow_queue) ==
  /\ lock = None /\ ~terminate
  /\ \/ /\ ~NeedThread
        /\ NoThread
        /\ Accept(job, IF allow_queue THEN "queued" ELSE "run")
     \/ /\ NeedThread
        /\ \E w \in Workers : AddThread(w)
        /\ Accept(job, IF allow_queue THEN "queued" ELSE "run")
     \/ /\ NeedThread                            \* pthread_create() failed
        /\ NoThread
        /\ MayQueue(allow_queue)
        /\ Accept(job, "queued")
     \/ /\ NeedThread
        /\ NoThread
        /\ ~MayQueue(allow_queue)
        /\ outcome' = IF allow_queue THEN "queue_failed" ELSE "run_failed"
        /\ UNCHANGED <<work, waiting>>
  /\ UNCHANGED <<busy_threads, terminate, lock, doing, got_timeout, joining>>

Queue(job) == Add(job, TRUE)    \* mp_thread_pool_queue()
RunNow(job) == Add(job, FALSE)  \* mp_thread_pool_run()
-------------------------------------------------------------------------------
\* worker_thread(): it gets the lock at its start, and when it was woken.
GetLock(w) ==
  /\ lock = None
  /\ pc[w] = "start" \/ (pc[w] \in {"wait", "timedwait"} /\ w \notin waiting)
  /\ lock' = w
  /\ pc' = [pc EXCEPT ![w] = "loop"]
  /\ outcome' = "none"
  /\ UNCHANGED <<work, threads, busy_threads, terminate, doing, got_timeout, waiting, joining>>

\* pthread_cond_timedwait() says ETIMEDOUT, maybe after having been signalled.
TooMany == num_threads > MinThreads

LeavesOnTimeout == num_threads > MinThreads
Timeout(w) ==
  /\ lock = None /\ pc[w] = "timedwait"
  /\ lock' = w
  /\ pc' = [pc EXCEPT ![w] = "loop"]
  /\ got_timeout' = [got_timeout EXCEPT ![w] = LeavesOnTimeout]
  /\ waiting' = waiting \ {w}
  /\ outcome' = "none"
  /\ UNCHANGED <<work, threads, busy_threads, terminate, doing, joining>>

\* Queued jobs come before a timeout and before pool->terminate.
HasWork == work # <<>>

TakeWork(w) ==
  /\ lock = w
  /\ HasWork
  /\ doing' = [doing EXCEPT ![w] = Head(work)]
  /\ work' = Tail(work)
  /\ busy_threads' = busy_threads + 1
  /\ lock' = None
  /\ pc' = [pc EXCEPT ![w] = "running"]
  /\ UNCHANGED <<threads, terminate, got_timeout, waiting, joining, outcome>>

MayLeave(w) == got_timeout[w] \/ terminate

Sleep(w) ==
  /\ lock = w
  /\ ~HasWork /\ ~MayLeave(w)
  /\ lock' = None
  /\ pc' = [pc EXCEPT ![w] = IF TooMany THEN "timedwait" ELSE "wait"]
  /\ waiting' = waiting \union {w}
  /\ UNCHANGED <<work, threads, busy_threads, terminate, doing, got_timeout, joining, outcome>>

\* A thread that timed out removes itself, unless the destructor joins it.
Leave(w) ==
  /\ lock = w
  /\ ~HasWork /\ MayLeave(w)
  /\ lock' = None
  /\ pc' = [pc EXCEPT ![w] = IF terminate THEN "exited" ELSE "none"]
  /\ threads' = threads \ {w}
  /\ got_timeout' = [got_timeout EXCEPT ![w] = FALSE]
  /\ UNCHANGED <<work, busy_threads, terminate, doing, waiting, joining, outcome>>

\* The callback returned, and the lock is taken again.
Finish(w) ==
  /\ lock = None /\ pc[w] = "running"
  /\ busy_threads' = busy_threads - 1
  /\ doing' = [doing EXCEPT ![w] = None]
  /\ got_timeout' = [got_timeout EXCEPT ![w] = FALSE]
  /\ lock' = w
  /\ pc' = [pc EXCEPT ![w] = "loop"]
  /\ outcome' = "none"
  /\ UNCHANGED <<work, threads, terminate, waiting, joining>>

SpuriousWakeup(w) ==
  /\ w \in waiting
  /\ waiting' = waiting \ {w}
  /\ UNCHANGED <<work, threads, busy_threads, terminate, lock, pc, doing,
                 got_timeout, joining, outcome>>
-------------------------------------------------------------------------------
\* thread_pool_dtor(), after the last call of the functions above.
WakeAll == waiting' = {}
Destroy ==
  /\ lock = None /\ ~terminate
  /\ terminate' = TRUE
  /\ WakeAll
  /\ joining' = threads
  /\ threads' = {}
  /\ outcome' = "none"
  /\ UNCHANGED <<work, busy_threads, lock, pc, doing, got_timeout>>

Destroyed == terminate /\ joining = {}
Join(w) ==
  /\ terminate /\ w \in joining /\ pc[w] = "exited"
  /\ joining' = joining \ {w}
  /\ UNCHANGED <<work, threads, busy_threads, terminate, lock, pc, doing,
                 got_timeout, waiting, outcome>>

Worker(w) == \/ GetLock(w) \/ TakeWork(w) \/ Sleep(w) \/ Leave(w) \/ Finish(w)

Next == /\ \/ \E job \in Jobs : Queue(job) \/ RunNow(job)
           \/ \E w \in Workers : Worker(w) \/ Timeout(w) \/ SpuriousWakeup(w) \/ Join(w)
           \/ Destroy
        /\ UNCHANGED init_threads

\* Workers are scheduled, callbacks return, and pool->lock starves nobody.
\* That time passes is not needed.
Spec == Init /\ [][Next]_vars
FairSpec == Spec /\ \A w \in Workers : /\ SF_vars(Worker(w) /\ UNCHANGED init_threads)
                                       /\ WF_vars(Join(w) /\ UNCHANGED init_threads)
-------------------------------------------------------------------------------
TypeOK == /\ work \in Seq(Jobs)
          /\ threads \subseteq Workers /\ num_threads <= MaxThreads
          /\ busy_threads \in Nat
          /\ terminate \in BOOLEAN
          /\ lock \in Workers \union {None}
          /\ pc \in [Workers -> {"none", "start", "loop", "wait", "timedwait", "running", "exited"}]
          /\ doing \in [Workers -> Jobs \union {None}]
          /\ got_timeout \in [Workers -> BOOLEAN]
          /\ waiting \subseteq Workers
          /\ joining \in (SUBSET Workers) \union {None}

\* pthread_cond_signal() wakes one thread per job: while somebody sleeps, each
\* queued job has a thread that is up and not busy with another one.
Up == {w \in Workers : pc[w] \in {"start", "loop", "wait", "timedwait"} /\ w \notin waiting}
NoJobSleptOver == waiting # {} => num_work <= Cardinality(Up)

\* thread_pool.h: queueing cannot fail if the pool was created with a thread.
QueueNeverFails == init_threads > 0 => outcome # "queue_failed"

\* Every job is run.
InQueue(job) == \E i \in DOMAIN work : work[i] = job
JobsAreRun == \A job \in Jobs : InQueue(job) ~> \E w \in Workers : doing[w] = job

\* The destructor comes to an end, and leaves no job and no thread: its asserts
\* hold, and no thread that timed out is forgotten or joined twice.
DestroyEnds ==
  terminate ~> Destroyed /\ work = <<>> /\ \A w \in Workers : pc[w] \in {"none", "exited"}

\* Whatever is asked of the pool, it does: jobs are taken and run, and the pool is
\* destroyed.
PoolDelivers == []QueueNeverFails /\ JobsAreRun /\ DestroyEnds
===============================================================================
