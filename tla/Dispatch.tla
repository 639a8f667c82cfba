------------------------------- MODULE Dispatch -------------------------------
(***************************************************************************)
(* misc/dispatch.c: the queue through which every other thread of the      *)
(* player reaches the state of a target thread (the playback core, the VO  *)
(* thread, the decoder thread, the render thread of libmpv).               *)
(*                                                                         *)
(* One step is one critical section of queue->lock, one call of wakeup_fn, *)
(* or one callback.  The target keeps the mutex from entering              *)
(* mp_dispatch_queue_process() to its next wait or callback (tpc =         *)
(* "loop"), so every other critical section waits for MutexFree.           *)
(* pthread_cond_wait puts a thread in "waiting", a broadcast empties that  *)
(* set; a thread that is no longer in it takes the mutex and checks its    *)
(* condition again.                                                        *)
(***************************************************************************)
EXTENDS Naturals, Sequences, FiniteSets

CONSTANTS Threads,    \* threads that use the queue of another thread
          Target,     \* the thread that calls mp_dispatch_queue_process()
          None,       \* no thread, no item
          Fns,        \* (fn, fn_data) pairs of asynchronous items
          Never,      \* the wait that never ends: timeout = INFINITY
          MaxItems,   \* bound on the length of the queue
          HookSets    \* which of wakeup_fn, onlock_fn are set

ASSUME ThreadsAssumption == /\ IsFiniteSet(Threads)
                            /\ Target \notin Threads
                            /\ None \notin Threads \union {Target}
ASSUME ItemsAssumption == Fns \intersect Threads = {}
ASSUME BoundsAssumption == Never \in Nat \ {0} /\ MaxItems \in Nat
ASSUME HooksAssumption == HookSets \subseteq SUBSET {"wakeup_fn", "onlock_fn"}

VARIABLES items,          \* head ... tail
          in_process,     \* the target is in mp_dispatch_queue_process()
          locked,         \* a callback or a lock holder has the target
          lock_requests,  \* calls of mp_dispatch_lock() not yet unlocked
          holder,         \* locked_explicit ? locked_explicit_thread : None
          interrupted,
          wait,           \* 0, a deadline that may pass, or Never
          waiting,        \* threads asleep on the condition variable
          pc,             \* where each thread is
          tpc,            \* where the target is in mp_dispatch_queue_process
          cur,            \* the item whose callback runs
          completed,      \* item.completed of each thread's mp_dispatch_run()
          signal,         \* wakeup_fn/onlock_fn told the target to come
          notified,       \* ghost: notifications no callback has seen yet
          hooks           \* set before the queue is used, never after

vars == <<items, in_process, locked, lock_requests, holder, interrupted, wait,
          waiting, pc, tpc, cur, completed, signal, notified, hooks>>

UseWakeup == "wakeup_fn" \in hooks
UseOnlock == "onlock_fn" \in hooks

Procs == Threads \union {Target}

\* mp_dispatch_run() items live on the caller's stack: one per thread.
RunItem(t) == [kind |-> "run", fn |-> t]
Async(f)   == [kind |-> "async", fn |-> f]
Notify(f)  == [kind |-> "notify", fn |-> f]
Item  == [kind : {"run"}, fn : Threads] \union [kind : {"async", "notify"}, fn : Fns]

\* No item is a NULL pointer.
ASSUME NoneAssumption == None \notin Item

Queue == UNION {[1 .. n -> Item] : n \in 0 .. MaxItems}
Queued(item) == \E i \in DOMAIN items : items[i] = item

LockPhase == {"lockwake", "lockrecheck", "lockwait1", "lockwait2"}
RunPhase  == {"wakerun", "runwait"}

Init == /\ items = <<>>
        /\ in_process = FALSE
        /\ locked = FALSE
        /\ lock_requests = 0
        /\ holder = None
        /\ interrupted = FALSE
        /\ wait = 0
        /\ waiting = {}
        /\ pc = [p \in Procs |-> "idle"]
        /\ tpc = "out"
        /\ cur = None
        /\ completed = [t \in Threads |-> FALSE]
        /\ signal = FALSE
        /\ notified = {}
        /\ hooks \in HookSets
-------------------------------------------------------------------------------
MutexFree == tpc # "loop"

\* The target calls the queue's functions outside of mp_dispatch_queue_process
\* and in callbacks; the others whenever they are not inside another call.
CanCall(p) == /\ MutexFree
              /\ pc[p] = "idle"
              /\ p = Target => tpc \in {"out", "running"}

\* pthread_cond_broadcast(&queue->cond); WakeOne is pthread_cond_signal.
WakeOne == IF waiting = {} THEN UNCHANGED waiting
                           ELSE \E p \in waiting : waiting' = waiting \ {p}
Broadcast == waiting' = {}

\* mp_dispatch_append(): everybody is woken; without a wakeup_fn the target
\* also has to leave mp_dispatch_queue_process() when the queue is empty.
AppendItem(p, item) ==
  /\ Len(items) < MaxItems
  /\ items' = Append(items, item)
  /\ Broadcast
  /\ interrupted' = (interrupted \/ ~UseWakeup)
  /\ UNCHANGED <<in_process, locked, lock_requests, holder, wait, tpc, cur, signal>>

MustWake == UseWakeup

Mergeable(f) == Queued(Notify(f))

Enqueue(p, f) == /\ CanCall(p)
                 /\ AppendItem(p, Async(f))
                 /\ pc' = [pc EXCEPT ![p] = IF MustWake THEN "wake" ELSE "idle"]
                 /\ UNCHANGED <<completed, notified>>

EnqueueNotify(p, f) ==
  /\ CanCall(p)
  /\ IF Mergeable(f)
       THEN /\ notified' = notified \union {f}
            /\ UNCHANGED <<items, in_process, locked, lock_requests, holder,
                           interrupted, wait, waiting, pc, tpc, cur, completed, signal>>
       ELSE /\ AppendItem(p, Notify(f))
            /\ pc' = [pc EXCEPT ![p] = IF MustWake THEN "wake" ELSE "idle"]
            /\ notified' = notified \union {f}
            /\ UNCHANGED completed

\* Neither callbacks nor the holder of the lock may call mp_dispatch_run().
Run(t) == /\ CanCall(t) /\ holder # t
          /\ AppendItem(t, RunItem(t))
          /\ pc' = [pc EXCEPT ![t] = IF MustWake THEN "wakerun" ELSE "runwait"]
          /\ completed' = [completed EXCEPT ![t] = FALSE]
          /\ UNCHANGED notified

\* wakeup_fn is called after the mutex was released.
CallWakeup(p) ==
  /\ pc[p] \in {"wake", "wakerun"}
  /\ signal' = TRUE
  /\ pc' = [pc EXCEPT ![p] = IF pc[p] = "wake" THEN "idle" ELSE "runwait"]
  /\ UNCHANGED <<items, in_process, locked, lock_requests, holder, interrupted,
                 wait, waiting, tpc, cur, completed, notified>>

\* while (!item.completed) pthread_cond_wait(...)
Dequeued(t) == ~Queued(RunItem(t))
Done(t) == completed[t]

RunCheck(t) ==
  /\ MutexFree
  /\ pc[t] = "runwait" /\ t \notin waiting
  /\ IF Done(t) THEN pc' = [pc EXCEPT ![t] = "idle"] /\ UNCHANGED waiting
                ELSE waiting' = waiting \union {t} /\ UNCHANGED pc
  /\ UNCHANGED <<items, in_process, locked, lock_requests, holder, interrupted,
                 wait, tpc, cur, completed, signal, notified>>

\* mp_dispatch_cancel_fn(): frees every queued item of f, tells nobody.  h lists
\* the places that stay, in order.
Kept(f) == {i \in DOMAIN items : items[i].fn # f}
CancelFn(p, f) ==
  /\ CanCall(p)
  /\ \E h \in [1 .. Cardinality(Kept(f)) -> Kept(f)] :
       /\ \A i, j \in DOMAIN h : i < j => h[i] < h[j]
       /\ Kept(f) = {h[i] : i \in DOMAIN h}
       /\ items' = [i \in DOMAIN h |-> items[h[i]]]
  /\ notified' = notified \ {f}
  /\ UNCHANGED <<in_process, locked, lock_requests, holder, interrupted, wait,
                 waiting, pc, tpc, cur, completed, signal>>

Interrupt(p) ==
  /\ CanCall(p)
  /\ interrupted' = TRUE
  /\ Broadcast
  /\ UNCHANGED <<items, in_process, locked, lock_requests, holder, wait, pc, tpc,
                 cur, completed, signal, notified>>

AdjustTimeout(p, until) ==
  /\ CanCall(p)
  /\ in_process /\ wait > until
  /\ wait' = until
  /\ Broadcast
  /\ UNCHANGED <<items, in_process, locked, lock_requests, holder, interrupted,
                 pc, tpc, cur, completed, signal, notified>>
-------------------------------------------------------------------------------
\* mp_dispatch_lock(): the target is trapped in mp_dispatch_queue_process() and
\* nobody else has it.
CanGrantToo == in_process
CanGrant == in_process /\ ~locked

\* The second loop of mp_dispatch_lock(): take the lock or wait.
GetOrWait(t) ==
  IF CanGrant
    THEN /\ locked' = TRUE
         /\ holder' = t
         /\ pc' = [pc EXCEPT ![t] = "idle"]
         /\ UNCHANGED waiting
    ELSE /\ waiting' = waiting \union {t}
         /\ pc' = [pc EXCEPT ![t] = "lockwait2"]
         /\ UNCHANGED <<locked, holder>>

CountIfOutside == lock_requests' = IF in_process THEN lock_requests ELSE lock_requests + 1
CountRequest == lock_requests' = lock_requests + 1

OnlockIfInside == signal' = (signal \/ (UseOnlock /\ in_process))
CallOnlock == signal' = (signal \/ UseOnlock)

StartLock(t) ==
  /\ CanCall(t) /\ holder # t
  /\ CountRequest
  /\ CallOnlock
  /\ IF in_process THEN GetOrWait(t)
                   ELSE /\ pc' = [pc EXCEPT ![t] = "lockwake"]
                        /\ UNCHANGED <<locked, holder, waiting>>
  /\ UNCHANGED <<items, in_process, interrupted, wait, tpc, cur, completed, notified>>

\* The first loop: unlock the mutex, call wakeup_fn, look again, wait.
WakeupForLock == signal' = (signal \/ UseWakeup)

LockWakeup(t) ==
  /\ pc[t] = "lockwake"
  /\ WakeupForLock
  /\ pc' = [pc EXCEPT ![t] = "lockrecheck"]
  /\ UNCHANGED <<items, in_process, locked, lock_requests, holder, interrupted,
                 wait, waiting, tpc, cur, completed, notified>>

\* The check of in_process after the mutex was taken again.
LockRecheck(t) ==
  /\ MutexFree
  /\ pc[t] = "lockrecheck"
  /\ IF in_process THEN GetOrWait(t)
                   ELSE /\ waiting' = waiting \union {t}
                        /\ pc' = [pc EXCEPT ![t] = "lockwait1"]
                        /\ UNCHANGED <<locked, holder>>
  /\ UNCHANGED <<items, in_process, lock_requests, interrupted, wait, tpc, cur,
                 completed, signal, notified>>

LockWoken(t) ==
  /\ MutexFree
  /\ t \notin waiting
  /\ \/ pc[t] = "lockwait2" /\ GetOrWait(t)
     \/ pc[t] = "lockwait1" /\ in_process /\ GetOrWait(t)
     \/ /\ pc[t] = "lockwait1" /\ ~in_process
        /\ pc' = [pc EXCEPT ![t] = "lockwake"]
        /\ UNCHANGED <<locked, holder, waiting>>
  /\ UNCHANGED <<items, in_process, lock_requests, interrupted, wait, tpc, cur,
                 completed, signal, notified>>

Release == locked' = FALSE /\ holder' = None /\ lock_requests' = lock_requests - 1

Unlock(t) ==
  /\ CanCall(t)
  /\ holder = t
  /\ Release
  /\ Broadcast
  /\ UNCHANGED <<items, in_process, interrupted, wait, pc, tpc, cur, completed,
                 signal, notified>>
-------------------------------------------------------------------------------
\* mp_dispatch_queue_process(): the wakeup request, if any, is answered.
WakeLockers == IF lock_requests > 0 THEN Broadcast ELSE UNCHANGED waiting

EnterProcess(timeout) ==
  /\ tpc = "out" /\ pc[Target] = "idle"
  /\ wait' = timeout
  /\ in_process' = TRUE
  /\ WakeLockers
  /\ tpc' = "loop"
  /\ signal' = FALSE
  /\ UNCHANGED <<items, locked, lock_requests, holder, interrupted, pc, cur,
                 completed, notified>>

\* The branches of the loop, in the order of the code: a lock request comes
\* before an item, an item before waiting, and waiting before returning.
BlockForLock ==
  /\ tpc = "loop" /\ lock_requests > 0
  /\ tpc' = "blocked"
  /\ waiting' = waiting \union {Target}
  /\ UNCHANGED <<items, in_process, locked, lock_requests, holder, interrupted,
                 wait, pc, cur, completed, signal, notified>>

TakeItem ==
  /\ tpc = "loop" /\ lock_requests = 0 /\ items # <<>>
  /\ cur' = Head(items)
  /\ items' = Tail(items)
  /\ locked' = TRUE
  /\ tpc' = "running"
  /\ notified' = IF Head(items).kind = "notify" THEN notified \ {Head(items).fn}
                                                ELSE notified
  /\ UNCHANGED <<in_process, lock_requests, holder, interrupted, wait, waiting,
                 pc, completed, signal>>

MayWait == wait > 0 /\ ~interrupted

IdleWait ==
  /\ tpc = "loop" /\ lock_requests = 0 /\ items = <<>>
  /\ MayWait
  /\ tpc' = "idle"
  /\ waiting' = waiting \union {Target}
  /\ UNCHANGED <<items, in_process, locked, lock_requests, holder, interrupted,
                 wait, pc, cur, completed, signal, notified>>

ExitProcess ==
  /\ tpc = "loop" /\ lock_requests = 0 /\ items = <<>>
  /\ ~MayWait
  /\ in_process' = FALSE
  /\ interrupted' = FALSE
  /\ tpc' = "out"
  /\ UNCHANGED <<items, locked, lock_requests, holder, wait, waiting, pc, cur,
                 completed, signal, notified>>

\* The callback returned; its item is freed, or completed if somebody waits.
FinishItem ==
  /\ tpc = "running" /\ pc[Target] = "idle"
  /\ locked' = FALSE
  /\ Broadcast
  /\ completed' = IF cur.kind = "run" THEN [completed EXCEPT ![cur.fn] = TRUE]
                                      ELSE completed
  /\ cur' = None
  /\ tpc' = "loop"
  /\ UNCHANGED <<items, in_process, lock_requests, holder, interrupted, wait, pc,
                 signal, notified>>

\* pthread_cond_wait returned; pthread_cond_timedwait returned ETIMEDOUT.
TargetWoken ==
  /\ tpc \in {"blocked", "idle"} /\ Target \notin waiting
  /\ tpc' = "loop"
  /\ UNCHANGED <<items, in_process, locked, lock_requests, holder, interrupted,
                 wait, waiting, pc, cur, completed, signal, notified>>

Timeout ==
  /\ tpc = "idle" /\ wait \in 1 .. Never - 1
  /\ wait' = 0
  /\ waiting' = waiting \ {Target}
  /\ tpc' = "loop"
  /\ UNCHANGED <<items, in_process, locked, lock_requests, holder, interrupted,
                 pc, cur, completed, signal, notified>>

\* POSIX allows a wait to return for no reason.
SpuriousWakeup(p) ==
  /\ p \in waiting
  /\ waiting' = waiting \ {p}
  /\ UNCHANGED <<items, in_process, locked, lock_requests, holder, interrupted,
                 wait, pc, tpc, cur, completed, signal, notified>>
-------------------------------------------------------------------------------
Loop == BlockForLock \/ TakeItem \/ IdleWait \/ ExitProcess

Call(p) == \/ \E f \in Fns : Enqueue(p, f) \/ EnqueueNotify(p, f) \/ CancelFn(p, f)
           \/ Interrupt(p)
           \/ \E until \in 1 .. Never : AdjustTimeout(p, until)

\* What a thread does without being asked: it ends the call it is in.
Continue(t) == \/ CallWakeup(t) \/ RunCheck(t)
               \/ LockWakeup(t) \/ LockRecheck(t) \/ LockWoken(t)

TargetStep == Loop \/ FinishItem \/ TargetWoken \/ Timeout \/ CallWakeup(Target)

Next == /\ \/ \E p \in Procs : Call(p) \/ SpuriousWakeup(p)
           \/ \E t \in Threads : Run(t) \/ StartLock(t) \/ Unlock(t) \/ Continue(t)
           \/ \E timeout \in 0 .. Never : EnterProcess(timeout)
           \/ TargetStep
        /\ UNCHANGED hooks

Spec == Init /\ [][Next]_vars
-------------------------------------------------------------------------------
(* Every thread ends the call it is in, callbacks end, holders unlock, time    *)
(* passes, and the mutex starves nobody (strong fairness: it is taken and    *)
(* released by others again and again).  The target comes back to            *)
(* mp_dispatch_queue_process() by itself, or, if it sleeps elsewhere, when   *)
(* wakeup_fn or onlock_fn told it to.                                        *)
Asked == signal \/ hooks = {}

Come == Asked /\ \E timeout \in 0 .. Never : EnterProcess(timeout)

Fairness == /\ WF_vars(TargetStep /\ UNCHANGED hooks)
            /\ SF_vars(FinishItem /\ UNCHANGED hooks)
            /\ SF_vars(Timeout /\ UNCHANGED hooks)
            /\ SF_vars(Come /\ UNCHANGED hooks)
            /\ \A t \in Threads : /\ SF_vars(Continue(t) /\ UNCHANGED hooks)
                                 /\ SF_vars(Unlock(t) /\ UNCHANGED hooks)

FairSpec == Spec /\ Fairness
-------------------------------------------------------------------------------
\* The variables hold what the fields of struct mp_dispatch_queue can hold.
TypeOK == /\ items \in Queue
          /\ in_process \in BOOLEAN
          /\ locked \in BOOLEAN
          /\ lock_requests \in Nat
          /\ holder \in Threads \union {None}
          /\ interrupted \in BOOLEAN
          /\ wait \in 0 .. Never
          /\ waiting \subseteq Procs
          /\ pc \in [Procs -> {"idle", "wake"} \union RunPhase \union LockPhase]
          /\ tpc \in {"out", "loop", "blocked", "idle", "running"}
          /\ cur \in Item \union {None}
          /\ completed \in [Threads -> BOOLEAN]
          /\ signal \in BOOLEAN
          /\ notified \subseteq Fns

\* A thread that returned from mp_dispatch_lock() has the target to itself: the
\* target is caught inside mp_dispatch_queue_process() and runs no callback.
Exclusive == holder # None => tpc \notin {"out", "running"}

\* lock_requests counts the threads between the start of mp_dispatch_lock() and
\* the end of mp_dispatch_unlock(), so the target is never let go too early, nor
\* kept when everybody has left.
Requesters == {t \in Threads : holder = t \/ pc[t] \in LockPhase}
LockAccounting == lock_requests = Cardinality(Requesters)

\* The asserts on "locked": it is set exactly while one party has the target, so
\* no item is taken and no lock granted over another one.
LockedIsOwned == /\ locked <=> (holder # None \/ tpc = "running")
                 /\ in_process <=> tpc # "out"
                 /\ tpc = "loop" /\ lock_requests = 0 => ~locked

\* One party at a time has the target's state: the lock holder, a callback, or the
\* target outside of the queue, and the books about it are right.
TargetIsOwned == Exclusive /\ LockAccounting /\ LockedIsOwned

\* Nobody sleeps on the condition variable when what it waits for is already
\* there, and no item lies in a queue whose target was not told of it.
NoLostWakeup ==
  /\ Target \in waiting /\ tpc = "idle" => items = <<>> /\ ~interrupted
  /\ Target \in waiting /\ tpc = "blocked" => lock_requests > 0
  /\ \A t \in waiting \intersect Threads :
       \/ pc[t] = "runwait" /\ ~completed[t]
       \/ pc[t] = "lockwait1" /\ ~in_process
       \/ pc[t] = "lockwait2" /\ in_process /\ locked
  /\ tpc = "out" /\ items # <<>> /\ UseWakeup =>
       signal \/ \E p \in Procs : pc[p] \in {"wake", "wakerun"}

\* The item of mp_dispatch_run() lies on its caller's stack: it is queued or runs,
\* once, exactly while its caller waits for it.
Places(item) == {i \in DOMAIN items : items[i] = item}
RunItemsLive ==
  \A t \in Threads :
    Cardinality(Places(RunItem(t))) + (IF cur = RunItem(t) THEN 1 ELSE 0)
      = IF pc[t] \in RunPhase /\ ~completed[t] THEN 1 ELSE 0

\* mp_dispatch_enqueue_notify() merges without losing anything: a notification is
\* followed by a callback that starts after it, and at most one is queued.
NotifyMerged == \A f \in Fns :
  Cardinality(Places(Notify(f))) = IF f \in notified THEN 1 ELSE 0

\* The queue holds exactly what its callers wait for or rely on, and neither they nor
\* the target sleep over what was done.
NobodyWaitsInVain == NoLostWakeup /\ RunItemsLive /\ NotifyMerged

\* mp_dispatch_lock() makes progress: while there are requests, one is granted
\* (which one is up to the scheduler).
LockProgress == lock_requests > 0 ~> holder # None

\* mp_dispatch_run() returns, unless other threads keep locking the target, or
\* the target is only told of locks.
RunReturns == hooks # {"onlock_fn"} /\ <>[](lock_requests = 0)
                => \A t \in Threads : pc[t] \in RunPhase ~> pc[t] = "idle"

\* Nobody who called into the queue is left waiting for ever.
CallersReturn == LockProgress /\ RunReturns

\* The queue gives what its callers were promised.
Service == INSTANCE DispatchService WITH
  Nobody  <- None,
  owner   <- IF holder # None THEN holder
             ELSE IF tpc \in {"out", "running"} THEN Target ELSE None,
  request <- [t \in Threads |-> IF pc[t] \notin RunPhase THEN "none"
                                ELSE IF completed[t] THEN "served" ELSE "queued"]
ImplementsService == Service!Spec
===============================================================================
