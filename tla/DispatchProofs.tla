---------------------------- MODULE DispatchProofs ----------------------------
(***************************************************************************)
(* Theorems about Dispatch for any set of threads, callbacks and bounds.   *)
(*                                                                         *)
(* LockInv is inductive.  Exclusive alone is not: that the target may      *)
(* leave mp_dispatch_queue_process() when lock_requests = 0 is only safe   *)
(* because lock_requests counts the holder (LockAccounting), and that a    *)
(* free "locked" flag means a free target is LockedIsOwned.                *)
(*                                                                         *)
(* BookInv adds what the queue holds: an item of mp_dispatch_run() or a    *)
(* notification is there at most once (Once), exactly when it is waited    *)
(* for; a callback runs exactly while "cur" is its item; and who waits in  *)
(* the second loop of mp_dispatch_lock() finds the target still inside,    *)
(* because it is counted.  NobodyWaitsInVain follows from it, and it is    *)
(* the invariant under which every step is a step of DispatchService.      *)
(***************************************************************************)
EXTENDS Dispatch, FiniteSetTheorems, SequenceTheorems, TLAPS

(* A queue is a sequence of items whose length is within the bound. *)
LEMMA QueueIsSeq == \A q : q \in Queue <=> q \in Seq(Item) /\ Len(q) \in 0 .. MaxItems
<1>1. ASSUME NEW q, NEW n \in 0 .. MaxItems, q \in [1 .. n -> Item]
      PROVE  q \in Seq(Item) /\ Len(q) \in 0 .. MaxItems
  BY <1>1, BoundsAssumption
<1>2. ASSUME NEW q \in Seq(Item), Len(q) \in 0 .. MaxItems
      PROVE  q \in Queue
  BY <1>2, LenProperties DEF Queue
<1>3. QED
  BY <1>1, <1>2 DEF Queue

LEMMA QueueAppend ==
  ASSUME NEW q \in Queue, NEW item \in Item, Len(q) < MaxItems
  PROVE  Append(q, item) \in Queue
<1>1. q \in Seq(Item) /\ Len(q) \in 0 .. MaxItems
  BY QueueIsSeq
<1>2. Append(q, item) \in Seq(Item) /\ Len(Append(q, item)) = Len(q) + 1
  BY <1>1, AppendProperties
<1>3. Len(Append(q, item)) \in 0 .. MaxItems
  BY <1>1, <1>2, BoundsAssumption
<1>4. QED
  BY <1>2, <1>3, QueueIsSeq

LEMMA QueueHeadTail ==
  ASSUME NEW q \in Queue, q # <<>>
  PROVE  Head(q) \in Item /\ Tail(q) \in Queue
<1>1. q \in Seq(Item) /\ Len(q) \in 0 .. MaxItems
  BY QueueIsSeq
<1>2. /\ Head(q) \in Item
      /\ Tail(q) \in Seq(Item) /\ Len(Tail(q)) = Len(q) - 1 /\ Len(Tail(q)) \in Nat
  BY <1>1, HeadTailProperties, LenProperties
<1>3. Len(Tail(q)) \in 0 .. MaxItems
  BY <1>1, <1>2, BoundsAssumption
<1>4. QED
  BY <1>2, <1>3, QueueIsSeq

(* Cancelling leaves a queue: the kept items are no more than there were. *)
LEMMA QueueKept ==
  ASSUME items \in Queue, NEW f,
         NEW h \in [1 .. Cardinality(Kept(f)) -> Kept(f)]
  PROVE  [i \in DOMAIN h |-> items[h[i]]] \in Queue
<1> DEFINE n == Cardinality(Kept(f))
<1>1. items \in Seq(Item) /\ Len(items) \in 0 .. MaxItems /\ DOMAIN items = 1 .. Len(items)
  BY QueueIsSeq, LenProperties
<1>2. Kept(f) \in SUBSET (1 .. Len(items))
  BY <1>1 DEF Kept
<1>3. IsFiniteSet(1 .. Len(items)) /\ Cardinality(1 .. Len(items)) = Len(items)
  <2>1. Len(items) \in Int /\ 1 \in Int /\ ~(1 > Len(items) /\ Len(items) # 0)
    BY <1>1, BoundsAssumption
  <2>2. QED
    BY <2>1, FS_Interval
<1>4. n \in Nat /\ n <= Len(items)
  BY <1>2, <1>3, FS_Subset, FS_CardinalityType
<1>5. n \in 0 .. MaxItems
  BY <1>1, <1>4, BoundsAssumption
<1>6. \A i \in 1 .. n : items[h[i]] \in Item
  BY <1>1, <1>2, ElementOfSeq
<1>7. [i \in DOMAIN h |-> items[h[i]]] \in [1 .. n -> Item]
  BY <1>6
<1>8. QED
  BY <1>5, <1>7 DEF Queue
-------------------------------------------------------------------------------
(* AppendItem is the only action that puts an item in the queue. *)
LEMMA AppendItemType ==
  ASSUME TypeOK, NEW p \in Procs, NEW item \in Item, AppendItem(p, item)
  PROVE  /\ items' \in Queue
         /\ waiting' = {}
         /\ interrupted' \in BOOLEAN
         /\ UNCHANGED <<in_process, locked, lock_requests, holder, wait, tpc, cur, signal>>
<1>1. items' \in Queue
  BY QueueAppend DEF TypeOK, AppendItem
<1>2. QED
  BY <1>1 DEF TypeOK, AppendItem, Broadcast, UseWakeup

(* The second loop of mp_dispatch_lock() ends with the lock or asleep. *)
LEMMA GetOrWaitType ==
  ASSUME TypeOK, NEW t \in Threads, GetOrWait(t)
  PROVE  /\ locked' \in BOOLEAN
         /\ holder' \in Threads \union {None}
         /\ pc' \in [Procs -> {"idle", "wake"} \union RunPhase \union LockPhase]
         /\ waiting' \subseteq Procs
  BY DEF TypeOK, GetOrWait, Procs, RunPhase, LockPhase

LEMMA ItemTypes ==
  /\ \A f \in Fns : Async(f) \in Item /\ Notify(f) \in Item
  /\ \A t \in Threads : RunItem(t) \in Item
  BY DEF Async, Notify, RunItem, Item
-------------------------------------------------------------------------------
LockInv == TypeOK /\ LockAccounting /\ LockedIsOwned /\ Exclusive

(* A holder is a requester, so the target cannot see lock_requests = 0. *)
LEMMA RequestersFinite == IsFiniteSet(Requesters) /\ Cardinality(Requesters) \in Nat
<1>1. Requesters \in SUBSET Threads
  BY DEF Requesters
<1>2. QED
  BY <1>1, ThreadsAssumption, FS_Subset, FS_CardinalityType

LEMMA HolderCounts ==
  ASSUME LockInv, holder # None
  PROVE  lock_requests # 0
<1>1. holder \in Requesters
  BY DEF LockInv, TypeOK, Requesters
<1>2. Cardinality(Requesters) # 0
  BY <1>1, RequestersFinite, FS_EmptySet
<1>3. QED
  BY <1>2 DEF LockInv, LockAccounting

(* How the count of requesters follows one thread entering or leaving. *)
LEMMA RequesterEnters ==
  ASSUME NEW t \in Threads, t \notin Requesters, Requesters' = Requesters \union {t}
  PROVE  Cardinality(Requesters') = Cardinality(Requesters) + 1
  BY RequestersFinite, FS_AddElement

LEMMA RequesterLeaves ==
  ASSUME NEW t \in Threads, t \in Requesters, Requesters' = Requesters \ {t}
  PROVE  /\ Cardinality(Requesters') = Cardinality(Requesters) - 1
         /\ Cardinality(Requesters) \in Nat \ {0}
<1>1. Cardinality(Requesters) # 0
  BY RequestersFinite, FS_EmptySet
<1>2. QED
  BY <1>1, RequestersFinite, FS_RemoveElement
-------------------------------------------------------------------------------
LEMMA LockInvInit == Init => LockInv
<1> SUFFICES ASSUME Init PROVE LockInv
  OBVIOUS
<1>1. TypeOK
  <2>1. <<>> \in Seq(Item) /\ Len(<<>>) = 0
    BY EmptySeq
  <2>2. 0 \in 0 .. MaxItems /\ 0 \in 0 .. Never
    BY BoundsAssumption
  <2>3. items \in Queue
    BY <2>1, <2>2, QueueIsSeq DEF Init
  <2>4. pc \in [Procs -> {"idle", "wake"} \union RunPhase \union LockPhase]
    BY DEF Init
  <2>5. QED
    BY <2>2, <2>3, <2>4 DEF Init, TypeOK
<1>2. Requesters = {}
  BY ThreadsAssumption DEF Init, Requesters, Procs, LockPhase
<1>3. LockAccounting
  BY <1>2, FS_EmptySet DEF Init, LockAccounting
<1>4. QED
  BY <1>1, <1>3 DEF Init, LockInv, LockedIsOwned, Exclusive

(* Most steps do not touch the lock: what is left to show is their types. *)
LEMMA LockUntouched ==
  ASSUME LockInv, UNCHANGED <<in_process, locked, lock_requests, holder, tpc>>,
         Requesters' = Requesters, TypeOK'
  PROVE  LockInv'
  BY DEF LockInv, LockAccounting, LockedIsOwned, Exclusive

(* Changing the pc of a thread between non-lock phases leaves the requesters. *)
LEMMA SameRequesters ==
  ASSUME TypeOK, NEW p \in Procs, NEW l, pc' = [pc EXCEPT ![p] = l],
         UNCHANGED holder, pc[p] \in LockPhase <=> l \in LockPhase
  PROVE  Requesters' = Requesters
  BY DEF TypeOK, Requesters, Procs

(* Requests to the queue: enqueue, notify, run, cancel, interrupt, timeouts. *)
LEMMA CallLockInv ==
  ASSUME LockInv, NEW p \in Procs, Call(p)
  PROVE  LockInv'
<1> USE DEF LockInv
<1>1. ASSUME NEW f \in Fns, Enqueue(p, f) PROVE LockInv'
  <2>1. AppendItem(p, Async(f)) /\ Async(f) \in Item
    BY <1>1, ItemTypes DEF Enqueue
  <2>2. /\ items' \in Queue /\ waiting' = {} /\ interrupted' \in BOOLEAN
        /\ UNCHANGED <<in_process, locked, lock_requests, holder, wait, tpc, cur, signal>>
    BY <2>1, AppendItemType
  <2>3. TypeOK'
    BY <1>1, <2>2 DEF TypeOK, Enqueue
  <2>4. Requesters' = Requesters
    BY <1>1, <2>2, SameRequesters DEF Enqueue, CanCall, LockPhase
  <2>5. QED
    BY <2>2, <2>3, <2>4, LockUntouched
<1>2. ASSUME NEW f \in Fns, EnqueueNotify(p, f) PROVE LockInv'
  <2>1. CASE Mergeable(f)
    BY <1>2, <2>1, LockUntouched DEF EnqueueNotify, TypeOK, Requesters
  <2>2. CASE ~Mergeable(f)
    <3>1. AppendItem(p, Notify(f)) /\ Notify(f) \in Item
      BY <1>2, <2>2, ItemTypes DEF EnqueueNotify
    <3>2. /\ items' \in Queue /\ waiting' = {} /\ interrupted' \in BOOLEAN
          /\ UNCHANGED <<in_process, locked, lock_requests, holder, wait, tpc, cur, signal>>
      BY <3>1, AppendItemType
    <3>3. TypeOK'
      BY <1>2, <2>2, <3>2 DEF TypeOK, EnqueueNotify
    <3>4. Requesters' = Requesters
      BY <1>2, <2>2, <3>2, SameRequesters DEF EnqueueNotify, CanCall, LockPhase
    <3>5. QED
      BY <3>2, <3>3, <3>4, LockUntouched
  <2>3. QED
    BY <2>1, <2>2
<1>3. ASSUME NEW f \in Fns, CancelFn(p, f) PROVE LockInv'
  <2>1. PICK h \in [1 .. Cardinality(Kept(f)) -> Kept(f)] :
               items' = [i \in DOMAIN h |-> items[h[i]]]
    BY <1>3 DEF CancelFn
  <2>2. items' \in Queue
    BY <2>1, QueueKept DEF TypeOK
  <2>3. TypeOK' /\ Requesters' = Requesters
    BY <1>3, <2>2 DEF CancelFn, TypeOK, Requesters
  <2>4. QED
    BY <1>3, <2>3, LockUntouched DEF CancelFn
<1>4. CASE Interrupt(p)
  BY <1>4, LockUntouched DEF Interrupt, Broadcast, TypeOK, Requesters
<1>5. ASSUME NEW until \in 1 .. Never, AdjustTimeout(p, until) PROVE LockInv'
  BY <1>5, LockUntouched, BoundsAssumption DEF AdjustTimeout, Broadcast, TypeOK, Requesters
<1>6. QED
  BY <1>1, <1>2, <1>3, <1>4, <1>5 DEF Call

(* mp_dispatch_run() and its wait; the calls of wakeup_fn; spurious wakeups. *)
LEMMA RunLockInv ==
  ASSUME LockInv, NEW t \in Threads, Run(t) \/ RunCheck(t)
  PROVE  LockInv'
<1> USE DEF LockInv
<1>1. CASE Run(t)
  <2>1. AppendItem(t, RunItem(t)) /\ RunItem(t) \in Item /\ t \in Procs
    BY <1>1, ItemTypes DEF Run, Procs
  <2>2. /\ items' \in Queue /\ waiting' = {} /\ interrupted' \in BOOLEAN
        /\ UNCHANGED <<in_process, locked, lock_requests, holder, wait, tpc, cur, signal>>
    BY <2>1, AppendItemType
  <2>3. TypeOK'
    BY <1>1, <2>1, <2>2 DEF TypeOK, Run, RunPhase
  <2>4. Requesters' = Requesters
    BY <1>1, <2>1, <2>2, SameRequesters DEF Run, CanCall, LockPhase
  <2>5. QED
    BY <2>2, <2>3, <2>4, LockUntouched
<1>2. CASE RunCheck(t)
  <2>1. TypeOK'
    BY <1>2 DEF RunCheck, TypeOK, Procs
  <2>2. Requesters' = Requesters
    BY <1>2, SameRequesters DEF RunCheck, LockPhase, Procs, Requesters
  <2>3. QED
    BY <1>2, <2>1, <2>2, LockUntouched DEF RunCheck
<1>3. QED
  BY <1>1, <1>2

LEMMA WakeupLockInv ==
  ASSUME LockInv, NEW p \in Procs, CallWakeup(p) \/ SpuriousWakeup(p)
  PROVE  LockInv'
<1> USE DEF LockInv
<1>1. CASE CallWakeup(p)
  <2>1. TypeOK'
    BY <1>1 DEF CallWakeup, TypeOK, RunPhase
  <2>2. Requesters' = Requesters
    BY <1>1, SameRequesters DEF CallWakeup, LockPhase
  <2>3. QED
    BY <1>1, <2>1, <2>2, LockUntouched DEF CallWakeup
<1>2. CASE SpuriousWakeup(p)
  BY <1>2, LockUntouched DEF SpuriousWakeup, TypeOK, Requesters
<1>3. QED
  BY <1>1, <1>2
-------------------------------------------------------------------------------
(* The lock is granted only when nobody has the target, which is caught in   *)
(* mp_dispatch_queue_process().                                              *)
LEMMA GrantIsExclusive ==
  ASSUME LockInv, MutexFree, CanGrant
  PROVE  holder = None /\ tpc \notin {"out", "running", "loop"}
  BY DEF LockInv, LockedIsOwned, MutexFree, CanGrant

(* The second loop of mp_dispatch_lock(), for a thread already counted. *)
LEMMA GetOrWaitLockInv ==
  ASSUME LockInv, MutexFree, NEW t \in Threads, pc[t] \in LockPhase, GetOrWait(t),
         UNCHANGED <<items, in_process, lock_requests, interrupted, wait, tpc, cur,
                     completed, signal, notified>>
  PROVE  LockInv'
<1>1. TypeOK'
  BY GetOrWaitType DEF LockInv, TypeOK
<1>2. CASE CanGrant
  <2>1. holder = None /\ tpc \notin {"out", "running", "loop"}
    BY <1>2, GrantIsExclusive
  <2>2. Requesters' = Requesters
    BY <1>2, <2>1, ThreadsAssumption
       DEF GetOrWait, LockInv, TypeOK, Requesters, Procs, LockPhase
  <2>3. QED
    BY <1>1, <1>2, <2>1, <2>2, ThreadsAssumption
       DEF GetOrWait, CanGrant, LockInv, LockAccounting, LockedIsOwned, Exclusive
<1>3. CASE ~CanGrant
  <2>1. Requesters' = Requesters
    BY <1>3, SameRequesters DEF GetOrWait, LockInv, Procs, LockPhase
  <2>2. QED
    BY <1>1, <1>3, <2>1, LockUntouched DEF GetOrWait
<1>4. QED
  BY <1>2, <1>3

(* Entering mp_dispatch_lock(), whether or not the target is there already. *)
LEMMA StartLockInv ==
  ASSUME LockInv, NEW t \in Threads, StartLock(t)
  PROVE  LockInv'
<1>1. MutexFree /\ pc[t] = "idle" /\ holder # t /\ t \in Procs
  BY DEF StartLock, CanCall, Procs
<1>2. t \notin Requesters
  BY <1>1 DEF Requesters, LockPhase
<1>3. lock_requests' = lock_requests + 1 /\ lock_requests' \in Nat
  BY DEF StartLock, CountRequest, LockInv, TypeOK
<1>4. TypeOK'
  <2>1. CASE in_process
    BY <1>3, <2>1, GetOrWaitType
       DEF StartLock, CallOnlock, UseOnlock, LockInv, TypeOK
  <2>2. CASE ~in_process
    BY <1>1, <1>3, <2>2 DEF StartLock, CallOnlock, UseOnlock, LockInv, TypeOK, LockPhase
  <2>3. QED
    BY <2>1, <2>2
<1>5. Requesters' = Requesters \union {t}
  <2>1. CASE in_process /\ CanGrant
    <3>1. holder = None
      BY <1>1, <2>1, GrantIsExclusive
    <3>2. QED
      BY <1>1, <2>1, <3>1, ThreadsAssumption
         DEF StartLock, GetOrWait, LockInv, TypeOK, Requesters, Procs, LockPhase
  <2>2. CASE ~(in_process /\ CanGrant)
    BY <1>1, <2>2 DEF StartLock, GetOrWait, LockInv, TypeOK, Requesters, Procs, LockPhase
  <2>3. QED
    BY <2>1, <2>2
<1>6. LockAccounting'
  BY <1>2, <1>3, <1>5, RequesterEnters DEF LockInv, LockAccounting
<1>7. LockedIsOwned' /\ Exclusive'
  <2>1. CASE in_process /\ CanGrant
    <3>1. holder = None /\ tpc \notin {"out", "running", "loop"}
      BY <1>1, <2>1, GrantIsExclusive
    <3>2. QED
      BY <2>1, <3>1, ThreadsAssumption
         DEF StartLock, GetOrWait, LockInv, LockedIsOwned, Exclusive
  <2>2. CASE ~(in_process /\ CanGrant)
    BY <1>1, <2>2
       DEF StartLock, GetOrWait, LockInv, LockedIsOwned, Exclusive, MutexFree
  <2>3. QED
    BY <2>1, <2>2
<1>8. QED
  BY <1>4, <1>6, <1>7 DEF LockInv

(* The rest of mp_dispatch_lock(). *)
LEMMA LockLoopInv ==
  ASSUME LockInv, NEW t \in Threads, LockWakeup(t) \/ LockRecheck(t) \/ LockWoken(t)
  PROVE  LockInv'
<1> USE DEF LockPhase
<1>0. t \in Procs
  BY DEF Procs
<1>1. CASE LockWakeup(t)
  <2>1. TypeOK'
    BY <1>1 DEF LockWakeup, WakeupForLock, UseWakeup, LockInv, TypeOK
  <2>2. Requesters' = Requesters
    BY <1>0, <1>1, SameRequesters DEF LockWakeup, LockInv
  <2>3. QED
    BY <1>1, <2>1, <2>2, LockUntouched DEF LockWakeup
<1>2. CASE LockRecheck(t)
  <2>1. CASE in_process
    BY <1>2, <2>1, GetOrWaitLockInv DEF LockRecheck
  <2>2. CASE ~in_process
    <3>1. TypeOK'
      BY <1>0, <1>2, <2>2 DEF LockRecheck, LockInv, TypeOK
    <3>2. Requesters' = Requesters
      BY <1>0, <1>2, <2>2, SameRequesters DEF LockRecheck, LockInv
    <3>3. QED
      BY <1>2, <2>2, <3>1, <3>2, LockUntouched DEF LockRecheck
  <2>3. QED
    BY <2>1, <2>2
<1>3. CASE LockWoken(t)
  <2>1. CASE GetOrWait(t)
    BY <1>3, <2>1, GetOrWaitLockInv DEF LockWoken
  <2>2. CASE ~GetOrWait(t)
    <3>1. TypeOK'
      BY <1>0, <1>3, <2>2 DEF LockWoken, LockInv, TypeOK
    <3>2. Requesters' = Requesters
      BY <1>0, <1>3, <2>2, SameRequesters DEF LockWoken, LockInv
    <3>3. QED
      BY <1>3, <2>2, <3>1, <3>2, LockUntouched DEF LockWoken
  <2>3. QED
    BY <2>1, <2>2
<1>4. QED
  BY <1>1, <1>2, <1>3

(* mp_dispatch_unlock(): the holder leaves and is no longer counted. *)
LEMMA UnlockInv ==
  ASSUME LockInv, NEW t \in Threads, Unlock(t)
  PROVE  LockInv'
<1>1. /\ MutexFree /\ pc[t] = "idle" /\ holder = t
      /\ locked' = FALSE /\ holder' = None /\ lock_requests' = lock_requests - 1
      /\ UNCHANGED <<in_process, pc, tpc>>
  BY DEF Unlock, CanCall, Release
<1>2. t \in Requesters /\ Requesters' = Requesters \ {t}
  BY <1>1, ThreadsAssumption DEF Requesters, LockPhase
<1>3. LockAccounting' /\ lock_requests' \in Nat
  <2>1. /\ Cardinality(Requesters') = Cardinality(Requesters) - 1
        /\ Cardinality(Requesters) \in Nat \ {0}
    BY <1>2, RequesterLeaves
  <2>2. lock_requests = Cardinality(Requesters)
    BY DEF LockInv, LockAccounting
  <2>3. QED
    BY <1>1, <2>1, <2>2 DEF LockAccounting
<1>4. TypeOK'
  BY <1>3 DEF Unlock, Release, Broadcast, LockInv, TypeOK
<1>5. LockedIsOwned' /\ Exclusive'
  BY <1>1, ThreadsAssumption DEF LockInv, LockedIsOwned, Exclusive, MutexFree
<1>6. QED
  BY <1>3, <1>4, <1>5 DEF LockInv
-------------------------------------------------------------------------------
(* mp_dispatch_queue_process(): a step of the target thread. *)
LEMMA TargetLockInv ==
  ASSUME LockInv,
         (\E timeout \in 0 .. Never : EnterProcess(timeout)) \/ Loop \/ FinishItem
           \/ TargetWoken \/ Timeout
  PROVE  LockInv'
<1>1. ASSUME NEW timeout \in 0 .. Never, EnterProcess(timeout) PROVE LockInv'
  <2>1. TypeOK' /\ Requesters' = Requesters
    BY <1>1 DEF EnterProcess, WakeLockers, Broadcast, LockInv, TypeOK, Requesters
  <2>2. holder = None /\ ~locked
    BY <1>1 DEF EnterProcess, LockInv, LockedIsOwned, Exclusive
  <2>3. QED
    BY <1>1, <2>1, <2>2
       DEF EnterProcess, LockInv, LockAccounting, LockedIsOwned, Exclusive
<1>2. CASE BlockForLock
  <2>1. TypeOK' /\ Requesters' = Requesters
    BY <1>2 DEF BlockForLock, LockInv, TypeOK, Requesters, Procs
  <2>2. QED
    BY <1>2, <2>1
       DEF BlockForLock, LockInv, LockAccounting, LockedIsOwned, Exclusive
<1>3. CASE TakeItem
  <2>1. Head(items) \in Item /\ Tail(items) \in Queue
    BY <1>3, QueueHeadTail DEF TakeItem, LockInv, TypeOK
  <2>2. TypeOK' /\ Requesters' = Requesters
    BY <1>3, <2>1 DEF TakeItem, LockInv, TypeOK, Requesters
  <2>3. holder = None
    BY <1>3, HolderCounts DEF TakeItem
  <2>4. QED
    BY <1>3, <2>2, <2>3 DEF TakeItem, LockInv, LockAccounting, LockedIsOwned, Exclusive
<1>4. CASE IdleWait
  <2>1. TypeOK' /\ Requesters' = Requesters
    BY <1>4 DEF IdleWait, LockInv, TypeOK, Requesters, Procs
  <2>2. QED
    BY <1>4, <2>1 DEF IdleWait, LockInv, LockAccounting, LockedIsOwned, Exclusive
<1>5. CASE ExitProcess
  <2>1. TypeOK' /\ Requesters' = Requesters
    BY <1>5 DEF ExitProcess, LockInv, TypeOK, Requesters
  <2>2. holder = None
    BY <1>5, HolderCounts DEF ExitProcess
  <2>3. QED
    BY <1>5, <2>1, <2>2
       DEF ExitProcess, LockInv, LockAccounting, LockedIsOwned, Exclusive
<1>6. CASE FinishItem
  <2>1. TypeOK' /\ Requesters' = Requesters
    BY <1>6 DEF FinishItem, Broadcast, LockInv, TypeOK, Requesters
  <2>2. holder = None
    BY <1>6 DEF FinishItem, LockInv, Exclusive
  <2>3. QED
    BY <1>6, <2>1, <2>2 DEF FinishItem, LockInv, LockAccounting, LockedIsOwned, Exclusive
<1>7. CASE TargetWoken \/ Timeout
  <2>1. TypeOK' /\ Requesters' = Requesters
    BY <1>7, BoundsAssumption DEF TargetWoken, Timeout, LockInv, TypeOK, Requesters
  <2>2. lock_requests = 0 => ~locked
    BY <1>7, HolderCounts DEF TargetWoken, Timeout, LockInv, LockedIsOwned
  <2>3. QED
    BY <1>7, <2>1, <2>2
       DEF TargetWoken, Timeout, LockInv, LockAccounting, LockedIsOwned, Exclusive
<1>8. QED
  BY <1>1, <1>2, <1>3, <1>4, <1>5, <1>6, <1>7 DEF Loop

LEMMA LockInvNext == LockInv /\ [Next]_vars => LockInv'
<1> SUFFICES ASSUME LockInv, [Next]_vars PROVE LockInv'
  OBVIOUS
<1>1. CASE \E p \in Procs : Call(p) \/ SpuriousWakeup(p)
  BY <1>1, CallLockInv, WakeupLockInv
<1>2. CASE \E t \in Threads : Run(t) \/ StartLock(t) \/ Unlock(t) \/ Continue(t)
  <2>1. Threads \subseteq Procs
    BY DEF Procs
  <2>2. QED
    BY <1>2, <2>1, RunLockInv, StartLockInv, UnlockInv, LockLoopInv, WakeupLockInv
       DEF Continue
<1>3. CASE (\E timeout \in 0 .. Never : EnterProcess(timeout)) \/ TargetStep
  <2>1. Target \in Procs
    BY DEF Procs
  <2>2. QED
    BY <1>3, <2>1, TargetLockInv, WakeupLockInv DEF TargetStep
<1>4. CASE UNCHANGED vars
  BY <1>4, LockUntouched DEF vars, LockInv, TypeOK, Requesters
<1>5. QED
  BY <1>1, <1>2, <1>3, <1>4 DEF Next

(* The four facts hold in every reachable state, for any number of threads.  *)
THEOREM LockInvariant == Spec => []LockInv
  BY LockInvInit, LockInvNext, PTL DEF Spec

(* The fields of struct mp_dispatch_queue keep their types; in particular    *)
(* lock_requests, a size_t, never wraps below zero.                          *)
THEOREM DispatchTypeOK == Spec => []TypeOK
<1>1. LockInv => TypeOK
  BY DEF LockInv
<1>2. QED
  BY <1>1, LockInvariant, PTL

(* The thread that holds mp_dispatch_lock() is alone with the target's state:*)
(* the target is neither outside mp_dispatch_queue_process() nor in a        *)
(* callback.                                                                 *)
THEOREM MutualExclusion == Spec => []Exclusive
<1>1. LockInv => Exclusive
  BY DEF LockInv
<1>2. QED
  BY <1>1, LockInvariant, PTL

(* lock_requests is the number of threads in mp_dispatch_lock() or holding   *)
(* it, so the target leaves exactly when the last of them is gone.           *)
THEOREM RequestsAreCounted == Spec => []LockAccounting
<1>1. LockInv => LockAccounting
  BY DEF LockInv
<1>2. QED
  BY <1>1, LockInvariant, PTL

(* The asserts of the code on "locked" never fail.                           *)
THEOREM AssertsHold == Spec => []LockedIsOwned
<1>1. LockInv => LockedIsOwned
  BY DEF LockInv
<1>2. QED
  BY <1>1, LockInvariant, PTL

(* At any time one party has the target's state, and lock_requests, locked   *)
(* and in_process say so.                                                    *)
THEOREM TargetOwnership == Spec => []TargetIsOwned
<1>1. LockInv => TargetIsOwned
  BY DEF LockInv, TargetIsOwned
<1>2. QED
  BY <1>1, LockInvariant, PTL

-------------------------------------------------------------------------------
(* The books of the queue: what is queued or runs is what its caller waits   *)
(* for or relies on.  "Once" says without counting that an item is queued at *)
(* most once.                                                                *)
Once(item) == \A i, j \in DOMAIN items : items[i] = item /\ items[j] = item => i = j

RunBook ==
  \A t \in Threads :
    /\ Once(RunItem(t))
    /\ ~(Queued(RunItem(t)) /\ cur = RunItem(t))
    /\ Queued(RunItem(t)) \/ cur = RunItem(t) <=> pc[t] \in RunPhase /\ ~completed[t]

NotifyBook == \A f \in Fns : Once(Notify(f)) /\ (Queued(Notify(f)) <=> f \in notified)

CurBook == tpc = "running" <=> cur # None

LockersInside == \A t \in Threads : pc[t] = "lockwait2" => in_process

BookInv == /\ LockInv
           /\ RunBook /\ NotifyBook /\ CurBook
           /\ LockersInside /\ NoLostWakeup

(* The items of threads and notifications are told apart. *)
LEMMA ItemsDiffer ==
  /\ \A t, u \in Threads : RunItem(t) = RunItem(u) => t = u
  /\ \A f, g \in Fns : Notify(f) = Notify(g) => f = g
  /\ \A t \in Threads, f \in Fns : /\ RunItem(t) # Async(f) /\ RunItem(t) # Notify(f)
                                   /\ RunItem(t).fn # f
  /\ \A f, g \in Fns : Notify(f) # Async(g)
  /\ \A f \in Fns : Notify(f).fn = f /\ Notify(f).kind = "notify"
  /\ \A t \in Threads : RunItem(t).fn = t /\ RunItem(t).kind = "run" /\ RunItem(t) # None
  BY ItemsAssumption, NoneAssumption, ItemTypes DEF RunItem, Notify, Async

(* Every item is one of these three. *)
LEMMA ItemShape ==
  ASSUME NEW item \in Item
  PROVE  \/ item.kind = "run" /\ item.fn \in Threads /\ item = RunItem(item.fn)
         \/ item.kind = "async" /\ item.fn \in Fns
         \/ item.kind = "notify" /\ item.fn \in Fns /\ item = Notify(item.fn)
  BY DEF Item, RunItem, Notify

(* An item that is queued at most once is queued in one place or none. *)
LEMMA PlacesCounted ==
  ASSUME NEW item, Once(item)
  PROVE  Cardinality(Places(item)) = IF Queued(item) THEN 1 ELSE 0
<1>1. CASE Queued(item)
  <2>1. PICK i \in DOMAIN items : items[i] = item
    BY <1>1 DEF Queued
  <2>2. Places(item) = {i}
    BY <2>1 DEF Places, Once
  <2>3. QED
    BY <1>1, <2>2, FS_Singleton
<1>2. CASE ~Queued(item)
  <2>1. Places(item) = {}
    BY <1>2 DEF Queued, Places
  <2>2. QED
    BY <1>2, <2>1, FS_EmptySet
<1>3. QED
  BY <1>1, <1>2

(* What the three operations on the queue do to it. *)
LEMMA AppendBook ==
  ASSUME items \in Queue, NEW item \in Item, items' = Append(items, item)
  PROVE  \A x : /\ Queued(x)' <=> Queued(x) \/ x = item
                /\ Once(x) /\ ~(Queued(x) /\ x = item) => Once(x)'
<1> DEFINE n == Len(items)
<1>1. items \in Seq(Item) /\ n \in Nat /\ DOMAIN items = 1 .. n
  BY QueueIsSeq, LenProperties
<1>2. /\ DOMAIN items' = 1 .. n + 1
      /\ items'[n + 1] = item
      /\ \A i \in 1 .. n : items'[i] = items[i]
  BY <1>1, AppendProperties, LenProperties
<1>3. ASSUME NEW x PROVE Queued(x)' <=> Queued(x) \/ x = item
  <2>1. ASSUME Queued(x)' PROVE Queued(x) \/ x = item
    <3>1. PICK i \in 1 .. n + 1 : items'[i] = x
      BY <1>2, <2>1 DEF Queued
    <3>2. i = n + 1 \/ i \in 1 .. n
      BY <1>1
    <3>3. QED
      BY <1>1, <1>2, <3>1, <3>2 DEF Queued
  <2>2. ASSUME Queued(x) PROVE Queued(x)'
    <3>1. PICK i \in 1 .. n : items[i] = x
      BY <1>1, <2>2 DEF Queued
    <3>2. i \in DOMAIN items' /\ items'[i] = x
      BY <1>1, <1>2, <3>1
    <3>3. QED
      BY <3>2 DEF Queued
  <2>3. ASSUME x = item PROVE Queued(x)'
    <3>1. n + 1 \in DOMAIN items'
      BY <1>1, <1>2
    <3>2. QED
      BY <1>2, <2>3, <3>1 DEF Queued
  <2>4. QED
    BY <2>1, <2>2, <2>3
<1>4. ASSUME NEW x, Once(x), ~(Queued(x) /\ x = item) PROVE Once(x)'
  <2>1. SUFFICES ASSUME NEW i \in 1 .. n + 1, NEW j \in 1 .. n + 1,
                        items'[i] = x, items'[j] = x
                 PROVE  i = j
    BY <1>2 DEF Once
  <2>2. CASE i \in 1 .. n /\ j \in 1 .. n
    BY <1>1, <1>2, <1>4, <2>1, <2>2 DEF Once
  <2>3. CASE i = n + 1 \/ j = n + 1
    BY <1>1, <1>2, <1>4, <2>1, <2>3 DEF Queued
  <2>4. QED
    BY <1>1, <2>2, <2>3
<1>5. QED
  BY <1>3, <1>4

LEMMA TailBook ==
  ASSUME items \in Queue, items # <<>>, items' = Tail(items)
  PROVE  /\ Queued(Head(items))
         /\ \A x : Once(x) => Once(x)' /\ (Queued(x)' <=> Queued(x) /\ x # Head(items))
<1> DEFINE n == Len(items)
<1>1. items \in Seq(Item) /\ n \in Nat /\ DOMAIN items = 1 .. n
  BY QueueIsSeq, LenProperties
<1>2. n # 0
  BY <1>1, EmptySeq
<1>3. /\ Tail(items) \in Seq(Item) /\ Len(Tail(items)) = n - 1
      /\ Head(items) = items[1]
      /\ \A i \in 1 .. n - 1 : Tail(items)[i] = items[i + 1]
  BY <1>1, HeadTailProperties
<1>4. DOMAIN items' = 1 .. n - 1
  BY <1>3, LenProperties
<1>5. 1 \in DOMAIN items
  BY <1>1, <1>2
<1>6. ASSUME NEW x, Once(x) PROVE Once(x)'
  <2>1. SUFFICES ASSUME NEW i \in 1 .. n - 1, NEW j \in 1 .. n - 1,
                        items'[i] = x, items'[j] = x
                 PROVE  i = j
    BY <1>4 DEF Once
  <2>2. i + 1 \in 1 .. n /\ j + 1 \in 1 .. n /\ items[i + 1] = x /\ items[j + 1] = x
    BY <1>1, <1>3, <2>1
  <2>3. i + 1 = j + 1
    BY <1>1, <1>6, <2>2 DEF Once
  <2>4. QED
    BY <1>1, <2>3
<1>7. ASSUME NEW x, Once(x), Queued(x)' PROVE Queued(x) /\ x # Head(items)
  <2>1. PICK i \in 1 .. n - 1 : items'[i] = x
    BY <1>4, <1>7 DEF Queued
  <2>2. i + 1 \in DOMAIN items /\ items[i + 1] = x /\ i + 1 # 1
    BY <1>1, <1>3, <2>1
  <2>3. QED
    BY <1>3, <1>5, <1>7, <2>2 DEF Queued, Once
<1>8. ASSUME NEW x, Queued(x), x # Head(items) PROVE Queued(x)'
  <2>1. PICK i \in 1 .. n : items[i] = x
    BY <1>1, <1>8 DEF Queued
  <2>2. i # 1
    BY <1>3, <1>8, <2>1
  <2>3. i - 1 \in 1 .. n - 1 /\ (i - 1) + 1 = i
    BY <1>1, <2>2
  <2>4. items'[i - 1] = x
    BY <1>3, <2>1, <2>3
  <2>5. QED
    BY <1>4, <2>3, <2>4 DEF Queued
<1>9. Queued(Head(items))
  BY <1>3, <1>5 DEF Queued
<1>10. QED
  BY <1>6, <1>7, <1>8, <1>9

LEMMA CancelBook ==
  ASSUME items \in Queue, NEW f,
         NEW h \in [1 .. Cardinality(Kept(f)) -> Kept(f)],
         \A i, j \in DOMAIN h : i < j => h[i] < h[j],
         Kept(f) = {h[i] : i \in DOMAIN h},
         items' = [i \in DOMAIN h |-> items[h[i]]]
  PROVE  \A x : /\ Queued(x)' <=> Queued(x) /\ x.fn # f
                /\ Once(x) => Once(x)'
<1> DEFINE m == Cardinality(Kept(f))
<1>1. items \in Seq(Item) /\ Len(items) \in Nat /\ DOMAIN items = 1 .. Len(items)
  BY QueueIsSeq, LenProperties
<1>2. DOMAIN items' = DOMAIN h /\ \A i \in DOMAIN h : items'[i] = items[h[i]]
  OBVIOUS
<1>3. \A i \in DOMAIN h : h[i] \in DOMAIN items /\ items[h[i]].fn # f
  BY DEF Kept
<1>4. DOMAIN h = 1 .. m
  OBVIOUS
<1>5. \A i, j \in DOMAIN h : h[i] = h[j] => i = j
  <2>1. m \in Nat
    <3>1. Kept(f) \in SUBSET (1 .. Len(items))
      BY <1>1 DEF Kept
    <3>2. 1 \in Int /\ Len(items) \in Int
      BY <1>1
    <3>3. IsFiniteSet(1 .. Len(items))
      BY <3>2, FS_Interval
    <3>4. QED
      BY <3>1, <3>3, FS_Subset, FS_CardinalityType
  <2>2. \A i \in DOMAIN h : h[i] \in Int
    BY <1>1, <1>3
  <2>3. \A i, j \in 1 .. m : i < j => h[i] < h[j]
    BY <1>4
  <2>4. ASSUME NEW i \in 1 .. m, NEW j \in 1 .. m, h[i] = h[j] PROVE i = j
    <3>1. h[i] \in Int /\ h[j] \in Int
      BY <2>2, <1>4
    <3>2. ~(i < j)
      BY <2>3, <2>4, <3>1
    <3>3. ~(j < i)
      BY <2>3, <2>4, <3>1
    <3>4. QED
      BY <2>1, <3>2, <3>3
  <2>5. QED
    BY <1>4, <2>4
<1>6. ASSUME NEW x, Queued(x)' PROVE Queued(x) /\ x.fn # f
  BY <1>2, <1>3, <1>6 DEF Queued
<1>7. ASSUME NEW x, Queued(x), x.fn # f PROVE Queued(x)'
  <2>1. PICK i \in DOMAIN items : items[i] = x
    BY <1>7 DEF Queued
  <2>2. i \in Kept(f)
    BY <1>7, <2>1 DEF Kept
  <2>3. PICK k \in DOMAIN h : h[k] = i
    BY <2>2
  <2>4. QED
    BY <1>2, <2>1, <2>3 DEF Queued
<1>8. ASSUME NEW x, Once(x) PROVE Once(x)'
  <2>1. SUFFICES ASSUME NEW i \in DOMAIN h, NEW j \in DOMAIN h,
                        items[h[i]] = x, items[h[j]] = x
                 PROVE  i = j
    BY <1>2 DEF Once
  <2>2. h[i] = h[j]
    BY <1>3, <1>8, <2>1 DEF Once
  <2>3. QED
    BY <1>5, <2>2
<1>9. QED
  BY <1>6, <1>7, <1>8

-------------------------------------------------------------------------------
(* Steps that leave the queue alone leave its books right. *)
LEMMA BookUntouched ==
  ASSUME RunBook, NotifyBook, UNCHANGED <<items, cur, notified, completed>>,
         \A t \in Threads : pc'[t] \in RunPhase <=> pc[t] \in RunPhase
  PROVE  RunBook' /\ NotifyBook'
  BY DEF RunBook, NotifyBook, Once, Queued

LEMMA PhasesKept ==
  ASSUME TypeOK, NEW p \in Procs, NEW l, pc' = [pc EXCEPT ![p] = l],
         l \in RunPhase <=> pc[p] \in RunPhase
  PROVE  \A t \in Threads : pc'[t] \in RunPhase <=> pc[t] \in RunPhase
  BY DEF TypeOK, Procs

(* A broadcast leaves nobody to sleep in vain. *)
LEMMA AwakeInTime ==
  ASSUME waiting' = {},
         (tpc = "out" /\ items # <<>> /\ UseWakeup =>
            signal \/ \E p \in Procs : pc[p] \in {"wake", "wakerun"})'
  PROVE  NoLostWakeup'
  BY DEF NoLostWakeup

(* An appended item: who appends it will call wakeup_fn. *)
LEMMA AppendSleeps ==
  ASSUME BookInv, NEW p \in Procs, NEW item \in Item, AppendItem(p, item),
         pc[p] = "idle", NEW l, pc' = [pc EXCEPT ![p] = l], UNCHANGED hooks,
         UseWakeup => l \in {"wake", "wakerun"}, l # "lockwait2"
  PROVE  LockersInside' /\ NoLostWakeup' /\ (UNCHANGED cur => CurBook')
<1>1. /\ waiting' = {}
      /\ UNCHANGED <<in_process, locked, lock_requests, holder, wait, tpc, cur, signal>>
  BY AppendItemType DEF BookInv, LockInv
<1>2. pc'[p] = l /\ \A t \in Threads : t # p => pc'[t] = pc[t]
  BY DEF BookInv, LockInv, TypeOK, Procs
<1>3. NoLostWakeup'
  BY <1>1, <1>2, AwakeInTime DEF UseWakeup
<1>4. LockersInside'
  BY <1>1, <1>2 DEF BookInv, LockersInside
<1>5. QED
  BY <1>1, <1>3, <1>4 DEF BookInv, CurBook

LEMMA CallBook ==
  ASSUME BookInv, NEW p \in Procs, Call(p), UNCHANGED hooks, LockInv'
  PROVE  BookInv'
<1> USE DEF BookInv
<1>0. TypeOK /\ items \in Queue
  BY DEF LockInv, TypeOK
<1>1. ASSUME NEW f \in Fns, Enqueue(p, f) PROVE BookInv'
  <2>1. AppendItem(p, Async(f)) /\ Async(f) \in Item /\ pc[p] = "idle"
    BY <1>1, ItemTypes DEF Enqueue, CanCall
  <2>2. \A x : /\ Queued(x)' <=> Queued(x) \/ x = Async(f)
               /\ Once(x) /\ ~(Queued(x) /\ x = Async(f)) => Once(x)'
    BY <1>0, <2>1, AppendBook DEF AppendItem
  <2>3. pc' = [pc EXCEPT ![p] = IF UseWakeup THEN "wake" ELSE "idle"]
    BY <1>1 DEF Enqueue, MustWake
  <2>4. \A t \in Threads : pc'[t] \in RunPhase <=> pc[t] \in RunPhase
    BY <1>0, <2>1, <2>3, PhasesKept DEF RunPhase
  <2>5. UNCHANGED <<cur, completed, notified>>
    BY <1>1 DEF Enqueue, AppendItem
  <2>6. RunBook'
    BY <2>2, <2>4, <2>5, ItemsDiffer DEF RunBook
  <2>7. NotifyBook'
    BY <2>2, <2>5, ItemsDiffer DEF NotifyBook
  <2>8. QED
    BY <2>1, <2>3, <2>5, <2>6, <2>7, AppendSleeps
<1>2. ASSUME NEW f \in Fns, EnqueueNotify(p, f), ~Mergeable(f) PROVE BookInv'
  <2>1. AppendItem(p, Notify(f)) /\ Notify(f) \in Item /\ pc[p] = "idle" /\ ~Queued(Notify(f))
    BY <1>2, ItemTypes DEF EnqueueNotify, CanCall, Mergeable
  <2>2. \A x : /\ Queued(x)' <=> Queued(x) \/ x = Notify(f)
               /\ Once(x) /\ ~(Queued(x) /\ x = Notify(f)) => Once(x)'
    BY <1>0, <2>1, AppendBook DEF AppendItem
  <2>3. pc' = [pc EXCEPT ![p] = IF UseWakeup THEN "wake" ELSE "idle"]
    BY <1>2 DEF EnqueueNotify, MustWake
  <2>4. \A t \in Threads : pc'[t] \in RunPhase <=> pc[t] \in RunPhase
    BY <1>0, <2>1, <2>3, PhasesKept DEF RunPhase
  <2>5. UNCHANGED <<cur, completed>> /\ notified' = notified \union {f}
    BY <1>2 DEF EnqueueNotify, AppendItem
  <2>6. RunBook'
    BY <2>2, <2>4, <2>5, ItemsDiffer DEF RunBook
  <2>7. NotifyBook'
    BY <2>1, <2>2, <2>5, ItemsDiffer DEF NotifyBook
  <2>8. QED
    BY <2>1, <2>3, <2>5, <2>6, <2>7, AppendSleeps
<1>3. ASSUME NEW f \in Fns, EnqueueNotify(p, f), Mergeable(f) PROVE BookInv'
  <2>1. /\ notified' = notified \union {f}
        /\ UNCHANGED <<items, in_process, locked, lock_requests, holder, interrupted, wait,
                       waiting, pc, tpc, cur, completed, signal>>
    BY <1>3 DEF EnqueueNotify
  <2>2. RunBook'
    BY <2>1 DEF RunBook, Once, Queued
  <2>3. NotifyBook'
    BY <1>3, <2>1, ItemsDiffer DEF NotifyBook, Once, Queued, Mergeable
  <2>4. CurBook' /\ LockersInside' /\ NoLostWakeup'
    BY <2>1 DEF CurBook, LockersInside, NoLostWakeup, UseWakeup
  <2>5. QED
    BY <2>2, <2>3, <2>4
<1>4. ASSUME NEW f \in Fns, CancelFn(p, f) PROVE BookInv'
  <2>1. PICK h \in [1 .. Cardinality(Kept(f)) -> Kept(f)] :
               /\ \A i, j \in DOMAIN h : i < j => h[i] < h[j]
               /\ Kept(f) = {h[i] : i \in DOMAIN h}
               /\ items' = [i \in DOMAIN h |-> items[h[i]]]
    BY <1>4 DEF CancelFn
  <2>2. \A x : /\ Queued(x)' <=> Queued(x) /\ x.fn # f
               /\ Once(x) => Once(x)'
    BY <1>0, <2>1, CancelBook
  <2>3. /\ notified' = notified \ {f}
        /\ UNCHANGED <<in_process, locked, lock_requests, holder, interrupted, wait,
                       waiting, pc, tpc, cur, completed, signal>>
    BY <1>4 DEF CancelFn
  <2>4. RunBook'
    BY <2>2, <2>3, ItemsDiffer DEF RunBook
  <2>5. NotifyBook'
    BY <2>2, <2>3, ItemsDiffer DEF NotifyBook
  <2>6. CurBook' /\ LockersInside'
    BY <2>3 DEF CurBook, LockersInside
  <2>7. items = <<>> => items' = <<>>
    <3>1. SUFFICES ASSUME items = <<>> PROVE items' = <<>>
      OBVIOUS
    <3>2. Kept(f) = {}
      BY <3>1 DEF Kept
    <3>3. Cardinality(Kept(f)) = 0
      BY <3>2, FS_EmptySet
    <3>4. DOMAIN items' = 1 .. 0 /\ items' \in Seq(Item)
      <4>1. items' \in Queue
        BY DEF LockInv, TypeOK
      <4>2. QED
        BY <2>1, <3>3, <4>1, QueueIsSeq
    <3>5. Len(items') = 0
      BY <3>4, LenProperties
    <3>6. QED
      BY <3>4, <3>5, EmptySeq
  <2>8. NoLostWakeup'
    BY <2>3, <2>7 DEF NoLostWakeup, UseWakeup
  <2>9. QED
    BY <2>4, <2>5, <2>6, <2>8
<1>5. ASSUME Interrupt(p) \/ \E until \in 1 .. Never : AdjustTimeout(p, until)
      PROVE  BookInv'
  <2>1. /\ waiting' = {}
        /\ UNCHANGED <<items, in_process, locked, lock_requests, holder, pc, tpc, cur,
                       completed, signal, notified>>
    BY <1>5 DEF Interrupt, AdjustTimeout, Broadcast
  <2>2. RunBook' /\ NotifyBook'
    BY <2>1, BookUntouched
  <2>3. CurBook' /\ LockersInside'
    BY <2>1 DEF CurBook, LockersInside
  <2>4. NoLostWakeup'
    BY <2>1 DEF NoLostWakeup, UseWakeup
  <2>5. QED
    BY <2>2, <2>3, <2>4
<1>6. QED
  BY <1>1, <1>2, <1>3, <1>4, <1>5 DEF Call

(* mp_dispatch_run(), its wait, and the calls of wakeup_fn. *)
LEMMA RunStepBook ==
  ASSUME BookInv, NEW t \in Threads, Run(t) \/ RunCheck(t), UNCHANGED hooks, LockInv'
  PROVE  BookInv'
<1> USE DEF BookInv
<1>0. TypeOK /\ items \in Queue /\ t \in Procs
  BY DEF LockInv, TypeOK, Procs
<1>1. CASE Run(t)
  <2>1. AppendItem(t, RunItem(t)) /\ RunItem(t) \in Item /\ pc[t] = "idle"
    BY <1>1, ItemTypes DEF Run, CanCall
  <2>2. ~Queued(RunItem(t)) /\ cur # RunItem(t)
    BY <2>1 DEF RunBook, RunPhase
  <2>3. \A x : /\ Queued(x)' <=> Queued(x) \/ x = RunItem(t)
               /\ Once(x) /\ ~(Queued(x) /\ x = RunItem(t)) => Once(x)'
    BY <1>0, <2>1, AppendBook DEF AppendItem
  <2>4. pc' = [pc EXCEPT ![t] = IF UseWakeup THEN "wakerun" ELSE "runwait"]
    BY <1>1 DEF Run, MustWake
  <2>5. /\ UNCHANGED <<cur, notified>>
        /\ completed' = [completed EXCEPT ![t] = FALSE]
    BY <1>1 DEF Run, AppendItem
  <2>6. pc'[t] \in RunPhase /\ ~completed'[t]
    BY <1>0, <2>4, <2>5 DEF TypeOK, RunPhase
  <2>7. \A u \in Threads : u # t => pc'[u] = pc[u] /\ completed'[u] = completed[u]
    BY <1>0, <2>4, <2>5 DEF TypeOK
  <2>8. RunBook'
    <3>1. ASSUME NEW u \in Threads, u # t
          PROVE  /\ Once(RunItem(u))'
                 /\ ~(Queued(RunItem(u)) /\ cur = RunItem(u))'
                 /\ (Queued(RunItem(u)) \/ cur = RunItem(u) <=> pc[u] \in RunPhase /\ ~completed[u])'
      <4>1. RunItem(u) # RunItem(t)
        BY <3>1, ItemsDiffer
      <4>2. QED
        BY <2>3, <2>5, <2>7, <3>1, <4>1 DEF RunBook
    <3>2. /\ Once(RunItem(t))'
          /\ ~(Queued(RunItem(t)) /\ cur = RunItem(t))'
          /\ (Queued(RunItem(t)) \/ cur = RunItem(t) <=> pc[t] \in RunPhase /\ ~completed[t])'
      BY <2>2, <2>3, <2>5, <2>6 DEF RunBook
    <3>3. QED
      BY <3>1, <3>2 DEF RunBook
  <2>9. NotifyBook'
    BY <2>3, <2>5, ItemsDiffer DEF NotifyBook
  <2>10. QED
    BY <1>0, <2>1, <2>4, <2>5, <2>8, <2>9, AppendSleeps
<1>2. CASE RunCheck(t)
  <2>1. /\ pc[t] = "runwait"
        /\ UNCHANGED <<items, in_process, locked, lock_requests, interrupted, tpc, cur,
                       completed, signal, notified>>
    BY <1>2 DEF RunCheck
  <2>2. CASE completed[t]
    <3>1. pc' = [pc EXCEPT ![t] = "idle"] /\ UNCHANGED waiting /\ t \notin waiting
      BY <1>2, <2>2 DEF RunCheck, Done
    <3>2. pc'[t] = "idle" /\ \A u \in Procs : u # t => pc'[u] = pc[u]
      BY <1>0, <3>1 DEF TypeOK
    <3>3. RunBook'
      BY <2>1, <2>2, <3>2 DEF RunBook, Once, Queued, Procs, RunPhase
    <3>4. NotifyBook'
      BY <2>1 DEF NotifyBook, Once, Queued
    <3>5. CurBook' /\ LockersInside'
      BY <2>1, <3>2 DEF CurBook, LockersInside, Procs
    <3>6. NoLostWakeup'
      BY <2>1, <3>1, <3>2 DEF NoLostWakeup, UseWakeup, Procs
    <3>7. QED
      BY <3>3, <3>4, <3>5, <3>6
  <2>3. CASE ~completed[t]
    <3>1. UNCHANGED pc /\ waiting' = waiting \union {t}
      BY <1>2, <2>3 DEF RunCheck, Done
    <3>2. RunBook' /\ NotifyBook'
      BY <2>1, <3>1, BookUntouched
    <3>3. CurBook' /\ LockersInside'
      BY <2>1, <3>1 DEF CurBook, LockersInside
    <3>4. NoLostWakeup'
      BY <2>1, <2>3, <3>1, ThreadsAssumption DEF NoLostWakeup, UseWakeup
    <3>5. QED
      BY <3>2, <3>3, <3>4
  <2>4. QED
    BY <2>2, <2>3
<1>3. QED
  BY <1>1, <1>2

LEMMA WakeupBook ==
  ASSUME BookInv, NEW p \in Procs, CallWakeup(p) \/ SpuriousWakeup(p), UNCHANGED hooks,
         LockInv'
  PROVE  BookInv'
<1> USE DEF BookInv
<1>0. TypeOK
  BY DEF LockInv
<1>1. CASE CallWakeup(p)
  <2>1. /\ pc' = [pc EXCEPT ![p] = IF pc[p] = "wake" THEN "idle" ELSE "runwait"]
        /\ pc[p] \in {"wake", "wakerun"} /\ signal' = TRUE
        /\ UNCHANGED <<items, in_process, locked, lock_requests, interrupted, waiting, tpc,
                       cur, completed, notified>>
    BY <1>1 DEF CallWakeup
  <2>2. \A u \in Procs : u # p => pc'[u] = pc[u]
    BY <1>0, <2>1 DEF TypeOK
  <2>3. pc'[p] \in {"idle", "runwait"}
    BY <1>0, <2>1 DEF TypeOK
  <2>4. RunBook' /\ NotifyBook'
    BY <1>0, <2>1, PhasesKept, BookUntouched DEF RunPhase
  <2>5. CurBook' /\ LockersInside'
    BY <2>1, <2>2, <2>3 DEF CurBook, LockersInside, Procs
  <2>6. NoLostWakeup'
    BY <2>1, <2>2 DEF NoLostWakeup, Procs
  <2>7. QED
    BY <2>4, <2>5, <2>6
<1>2. CASE SpuriousWakeup(p)
  <2>1. /\ waiting' = waiting \ {p}
        /\ UNCHANGED <<items, in_process, locked, lock_requests, interrupted, pc, tpc,
                       cur, completed, signal, notified>>
    BY <1>2 DEF SpuriousWakeup
  <2>2. RunBook' /\ NotifyBook'
    BY <2>1, BookUntouched
  <2>3. CurBook' /\ LockersInside' /\ NoLostWakeup'
    BY <2>1 DEF CurBook, LockersInside, NoLostWakeup, UseWakeup
  <2>4. QED
    BY <2>2, <2>3
<1>3. QED
  BY <1>1, <1>2
-------------------------------------------------------------------------------
(* When nobody is counted, nobody is in mp_dispatch_lock(). *)
LEMMA NobodyRequests ==
  ASSUME LockInv, lock_requests = 0
  PROVE  \A t \in Threads : pc[t] \notin LockPhase
<1>1. Requesters = {}
  BY RequestersFinite, FS_EmptySet DEF LockInv, LockAccounting
<1>2. QED
  BY <1>1 DEF Requesters

(* mp_dispatch_lock() does not look at the queue. *)
LEMMA LockStepBook ==
  ASSUME BookInv, NEW t \in Threads, pc[t] \notin RunPhase \union {"wake"},
         NEW l, l \notin RunPhase, pc' = [pc EXCEPT ![t] = l],
         UNCHANGED <<items, in_process, interrupted, tpc, cur, completed, notified, hooks>>,
         l = "lockwait2" => in_process, signal => signal'
  PROVE  /\ RunBook' /\ NotifyBook' /\ CurBook' /\ LockersInside'
         /\ (tpc = "out" /\ items # <<>> /\ UseWakeup =>
               signal \/ \E p \in Procs : pc[p] \in {"wake", "wakerun"})'
         /\ pc'[t] = l /\ \A u \in Threads : u # t => pc'[u] = pc[u]
<1> USE DEF BookInv
<1>1. TypeOK /\ t \in Procs /\ Threads \subseteq Procs
  BY DEF LockInv, Procs
<1>2. pc'[t] = l /\ \A p \in Procs : p # t => pc'[p] = pc[p]
  BY <1>1 DEF TypeOK
<1>3. RunBook' /\ NotifyBook'
  BY <1>1, PhasesKept, BookUntouched
<1>4. CurBook' /\ LockersInside'
  BY <1>1, <1>2 DEF CurBook, LockersInside
<1>5. (tpc = "out" /\ items # <<>> /\ UseWakeup =>
               signal \/ \E p \in Procs : pc[p] \in {"wake", "wakerun"})'
  <2>1. SUFFICES ASSUME tpc = "out", items # <<>>, UseWakeup
                 PROVE  signal' \/ \E p \in Procs : pc'[p] \in {"wake", "wakerun"}
    BY DEF UseWakeup
  <2>2. CASE signal
    BY <2>2
  <2>3. CASE ~signal
    <3>1. PICK p \in Procs : pc[p] \in {"wake", "wakerun"}
      BY <2>1, <2>3 DEF NoLostWakeup
    <3>2. p # t
      BY <3>1 DEF RunPhase
    <3>3. QED
      BY <1>2, <3>1, <3>2
  <2>4. QED
    BY <2>2, <2>3
<1>6. QED
  BY <1>1, <1>2, <1>3, <1>4, <1>5

(* The second loop of mp_dispatch_lock(): who is refused sleeps until the  *)
(* lock is released.                                                       *)
LEMMA GetOrWaitBook ==
  ASSUME BookInv, NEW t \in Threads, pc[t] \notin RunPhase \union {"wake"}, t \notin waiting,
         GetOrWait(t), in_process, tpc # "loop",
         UNCHANGED <<items, in_process, interrupted, tpc, cur, completed, notified, hooks>>,
         lock_requests' \in {lock_requests, lock_requests + 1},
         signal => signal', LockInv'
  PROVE  BookInv'
<1> USE DEF BookInv
<1> DEFINE l == IF CanGrant THEN "idle" ELSE "lockwait2"
<1>1. pc' = [pc EXCEPT ![t] = l] /\ l \notin RunPhase
  BY DEF GetOrWait, RunPhase
<1>2. /\ RunBook' /\ NotifyBook' /\ CurBook' /\ LockersInside'
      /\ (tpc = "out" /\ items # <<>> /\ UseWakeup =>
            signal \/ \E p \in Procs : pc[p] \in {"wake", "wakerun"})'
      /\ pc'[t] = l /\ \A u \in Threads : u # t => pc'[u] = pc[u]
  <2> HIDE DEF l
  <2>1. l = "lockwait2" => in_process
    OBVIOUS
  <2>2. QED
    BY <1>1, <2>1, LockStepBook
<1>3. NoLostWakeup'
  <2>1. Target # t /\ lock_requests \in Nat
    BY ThreadsAssumption DEF LockInv, TypeOK
  <2>2. (Target \in waiting /\ tpc = "idle" => items = <<>> /\ ~interrupted)'
    BY <2>1 DEF GetOrWait, NoLostWakeup
  <2>3. (Target \in waiting /\ tpc = "blocked" => lock_requests > 0)'
    BY <2>1 DEF GetOrWait, NoLostWakeup
  <2>4. ASSUME NEW u \in Threads, u \in waiting'
        PROVE  \/ pc'[u] = "runwait" /\ ~completed'[u]
               \/ pc'[u] = "lockwait1" /\ ~in_process'
               \/ pc'[u] = "lockwait2" /\ in_process' /\ locked'
    <3>1. CASE u = t
      BY <1>2, <2>4, <3>1 DEF GetOrWait, CanGrant
    <3>2. CASE u # t
      <4>1. u \in waiting /\ pc'[u] = pc[u] /\ (locked => locked')
        BY <1>2, <2>4, <3>2 DEF GetOrWait
      <4>2. QED
        BY <4>1 DEF NoLostWakeup
    <3>3. QED
      BY <3>1, <3>2
  <2>5. QED
    BY <1>2, <2>2, <2>3, <2>4 DEF NoLostWakeup
<1>4. QED
  BY <1>2, <1>3

(* Nobody who sleeps is in a phase other than these. *)
LEMMA SleepersPhase ==
  ASSUME BookInv, NEW t \in Threads, t \in waiting
  PROVE  pc[t] \in {"runwait", "lockwait1", "lockwait2"}
  BY DEF BookInv, NoLostWakeup

LEMMA LockBook ==
  ASSUME BookInv, NEW t \in Threads,
         StartLock(t) \/ LockWakeup(t) \/ LockRecheck(t) \/ LockWoken(t),
         UNCHANGED hooks, LockInv'
  PROVE  BookInv'
<1> USE DEF BookInv
<1>0. lock_requests \in Nat /\ t # Target
  BY ThreadsAssumption DEF LockInv, TypeOK
<1>1. CASE GetOrWait(t) /\ in_process
  <2>1. /\ pc[t] \notin RunPhase \union {"wake"} /\ tpc # "loop"
        /\ UNCHANGED <<items, in_process, interrupted, tpc, cur, completed, notified>>
        /\ lock_requests' \in {lock_requests, lock_requests + 1}
        /\ signal => signal'
    <3>1. CASE StartLock(t)
      BY <3>1 DEF StartLock, CanCall, MutexFree, RunPhase, CountRequest, CallOnlock
    <3>2. CASE LockWakeup(t)
      <4>1. pc' = [pc EXCEPT ![t] = "lockrecheck"] /\ TypeOK
        BY <3>2 DEF LockWakeup, LockInv
      <4>2. pc'[t] = "lockrecheck"
        BY <4>1 DEF TypeOK, Procs
      <4>3. pc'[t] \in {"idle", "lockwait2"}
        BY <1>1, <4>1 DEF GetOrWait, TypeOK, Procs
      <4>4. QED
        BY <4>2, <4>3
    <3>3. CASE LockRecheck(t) \/ LockWoken(t)
      BY <3>3 DEF LockRecheck, LockWoken, MutexFree, RunPhase
    <3>4. QED
      BY <3>1, <3>2, <3>3
  <2>2. t \notin waiting
    BY SleepersPhase, <2>1 DEF StartLock, CanCall, LockWakeup, LockRecheck, LockWoken
  <2>3. QED
    BY <1>1, <2>1, <2>2, GetOrWaitBook
<1>2. CASE ~(GetOrWait(t) /\ in_process)
  <2>1. PICK l : /\ l \in {"lockwake", "lockrecheck", "lockwait1"}
                 /\ pc' = [pc EXCEPT ![t] = l]
                 /\ l = "lockwait1" => ~in_process
                 /\ waiting' = IF l = "lockwait1" THEN waiting \union {t} ELSE waiting
    BY <1>2 DEF StartLock, LockWakeup, LockRecheck, LockWoken, LockersInside
  <2>2. /\ pc[t] \in {"idle", "lockwake", "lockrecheck", "lockwait1", "lockwait2"}
        /\ t \notin waiting
        /\ UNCHANGED <<items, in_process, interrupted, tpc, cur, completed, notified>>
        /\ lock_requests' \in {lock_requests, lock_requests + 1}
        /\ signal => signal'
    <3>1. CASE StartLock(t)
      BY <3>1, SleepersPhase DEF StartLock, CanCall, CountRequest, CallOnlock
    <3>2. CASE LockWakeup(t)
      BY <3>2, SleepersPhase DEF LockWakeup, WakeupForLock
    <3>3. CASE LockRecheck(t) \/ LockWoken(t)
      BY <3>3, SleepersPhase DEF LockRecheck, LockWoken
    <3>4. QED
      BY <3>1, <3>2, <3>3
  <2>3. UNCHANGED locked
    BY <1>2, <2>1, <2>2 DEF StartLock, LockWakeup, LockRecheck, LockWoken, LockersInside
  <2>4. /\ RunBook' /\ NotifyBook' /\ CurBook' /\ LockersInside'
        /\ (tpc = "out" /\ items # <<>> /\ UseWakeup =>
              signal \/ \E p \in Procs : pc[p] \in {"wake", "wakerun"})'
        /\ pc'[t] = l /\ \A u \in Threads : u # t => pc'[u] = pc[u]
    <3>1. l \notin RunPhase /\ l # "lockwait2" /\ pc[t] \notin RunPhase \union {"wake"}
      BY <2>1, <2>2 DEF RunPhase
    <3>2. QED
      BY <2>1, <2>2, <3>1, LockStepBook
  <2>5. ASSUME NEW u \in Threads, u \in waiting'
        PROVE  \/ pc'[u] = "runwait" /\ ~completed'[u]
               \/ pc'[u] = "lockwait1" /\ ~in_process'
               \/ pc'[u] = "lockwait2" /\ in_process' /\ locked'
    <3>1. CASE u = t
      BY <2>1, <2>2, <2>4, <2>5, <3>1
    <3>2. CASE u # t
      <4>1. u \in waiting /\ pc'[u] = pc[u]
        BY <2>1, <2>4, <2>5, <3>2
      <4>2. QED
        BY <2>2, <2>3, <4>1 DEF NoLostWakeup
    <3>3. QED
      BY <3>1, <3>2
  <2>6. /\ (Target \in waiting /\ tpc = "idle" => items = <<>> /\ ~interrupted)'
        /\ (Target \in waiting /\ tpc = "blocked" => lock_requests > 0)'
    BY <1>0, <2>1, <2>2 DEF NoLostWakeup
  <2>7. NoLostWakeup'
    BY <2>4, <2>5, <2>6 DEF NoLostWakeup
  <2>8. QED
    BY <2>4, <2>7
<1>3. QED
  BY <1>1, <1>2

LEMMA UnlockBook ==
  ASSUME BookInv, NEW t \in Threads, Unlock(t), UNCHANGED hooks, LockInv'
  PROVE  BookInv'
<1> USE DEF BookInv
<1>1. /\ waiting' = {}
      /\ UNCHANGED <<items, in_process, interrupted, pc, tpc, cur, completed, signal, notified>>
  BY DEF Unlock, Broadcast
<1>2. RunBook' /\ NotifyBook'
  BY <1>1, BookUntouched
<1>3. CurBook' /\ LockersInside' /\ NoLostWakeup'
  BY <1>1 DEF CurBook, LockersInside, NoLostWakeup, UseWakeup
<1>4. QED
  BY <1>2, <1>3
-------------------------------------------------------------------------------
(* mp_dispatch_queue_process(), except for the callbacks. *)
LEMMA TargetBook ==
  ASSUME BookInv, UNCHANGED hooks, LockInv',
         (\E timeout \in 0 .. Never : EnterProcess(timeout)) \/ BlockForLock \/ IdleWait
           \/ ExitProcess \/ TargetWoken \/ Timeout
  PROVE  BookInv'
<1> USE DEF BookInv
<1>0. Target \notin Threads /\ lock_requests \in Nat
  BY ThreadsAssumption DEF LockInv, TypeOK
<1>1. RunBook' /\ NotifyBook'
  BY BookUntouched DEF EnterProcess, BlockForLock, IdleWait, ExitProcess, TargetWoken, Timeout
<1>2. ASSUME NEW timeout \in 0 .. Never, EnterProcess(timeout) PROVE BookInv'
  <2>1. /\ in_process' /\ tpc = "out" /\ tpc' = "loop"
        /\ UNCHANGED <<items, locked, lock_requests, interrupted, pc, cur, completed>>
    BY <1>2 DEF EnterProcess
  <2>2. CurBook' /\ LockersInside'
    BY <2>1 DEF CurBook, LockersInside
  <2>3. CASE lock_requests > 0
    BY <1>1, <1>2, <2>1, <2>2, <2>3 DEF EnterProcess, WakeLockers, Broadcast, NoLostWakeup
  <2>4. CASE lock_requests = 0
    <3>1. \A t \in Threads : pc[t] \notin LockPhase
      BY <2>4, NobodyRequests
    <3>2. UNCHANGED waiting
      BY <1>0, <1>2, <2>4 DEF EnterProcess, WakeLockers
    <3>3. NoLostWakeup'
      BY <2>1, <3>1, <3>2 DEF NoLostWakeup, LockPhase
    <3>4. QED
      BY <1>1, <2>2, <3>3
  <2>5. QED
    BY <1>0, <2>3, <2>4
<1>3. CASE BlockForLock
  <2>1. CurBook' /\ LockersInside'
    BY <1>3 DEF BlockForLock, CurBook, LockersInside
  <2>2. NoLostWakeup'
    BY <1>0, <1>3 DEF BlockForLock, NoLostWakeup
  <2>3. QED
    BY <1>1, <2>1, <2>2
<1>4. CASE IdleWait
  <2>1. CurBook' /\ LockersInside'
    BY <1>4 DEF IdleWait, CurBook, LockersInside
  <2>2. NoLostWakeup'
    BY <1>0, <1>4 DEF IdleWait, MayWait, NoLostWakeup
  <2>3. QED
    BY <1>1, <2>1, <2>2
<1>5. CASE ExitProcess
  <2>1. \A t \in Threads : pc[t] \notin LockPhase
    BY <1>5, NobodyRequests DEF ExitProcess
  <2>2. CurBook' /\ LockersInside'
    BY <1>5, <2>1 DEF ExitProcess, CurBook, LockersInside, LockPhase
  <2>3. NoLostWakeup'
    BY <1>5, <2>1 DEF ExitProcess, NoLostWakeup, LockPhase
  <2>4. QED
    BY <1>1, <2>2, <2>3
<1>6. CASE TargetWoken \/ Timeout
  <2>1. CurBook' /\ LockersInside'
    BY <1>6 DEF TargetWoken, Timeout, CurBook, LockersInside
  <2>2. NoLostWakeup'
    BY <1>6 DEF TargetWoken, Timeout, NoLostWakeup
  <2>3. QED
    BY <1>1, <2>1, <2>2
<1>7. QED
  BY <1>2, <1>3, <1>4, <1>5, <1>6

LEMMA TakeItemBook ==
  ASSUME BookInv, UNCHANGED hooks, LockInv', TakeItem
  PROVE  BookInv'
<1> USE DEF BookInv
<1>1. /\ tpc = "loop" /\ tpc' = "running" /\ cur' = Head(items) /\ items' = Tail(items)
      /\ items \in Queue /\ items # <<>> /\ locked'
      /\ UNCHANGED <<in_process, lock_requests, interrupted, waiting, pc, completed, signal>>
  BY DEF TakeItem, LockInv, TypeOK
<1>2. Head(items) \in Item /\ cur = None
  BY <1>1, QueueHeadTail DEF CurBook
<1>3. /\ Queued(Head(items))
      /\ \A x : Once(x) => Once(x)' /\ (Queued(x)' <=> Queued(x) /\ x # Head(items))
  BY <1>1, TailBook
<1>4. RunBook'
  <2>1. SUFFICES ASSUME NEW t \in Threads
                 PROVE  /\ Once(RunItem(t))'
                        /\ ~(Queued(RunItem(t)) /\ cur = RunItem(t))'
                        /\ (Queued(RunItem(t)) \/ cur = RunItem(t)
                              <=> pc[t] \in RunPhase /\ ~completed[t])'
    BY DEF RunBook
  <2>2. RunItem(t) # None
    BY ItemsDiffer
  <2>3. QED
    BY <1>1, <1>2, <1>3, <2>2 DEF RunBook
<1>5. NotifyBook'
  <2>1. ASSUME NEW f \in Fns
        PROVE  f \in notified' <=> f \in notified /\ Notify(f) # Head(items)
    BY <1>2, ItemShape, ItemsDiffer DEF TakeItem
  <2>2. QED
    BY <1>3, <2>1 DEF NotifyBook
<1>6. CurBook' /\ LockersInside'
  BY <1>1, <1>2, NoneAssumption DEF CurBook, LockersInside
<1>7. NoLostWakeup'
  BY <1>1 DEF NoLostWakeup
<1>8. QED
  BY <1>4, <1>5, <1>6, <1>7

LEMMA FinishItemBook ==
  ASSUME BookInv, UNCHANGED hooks, LockInv', FinishItem
  PROVE  BookInv'
<1> USE DEF BookInv
<1>1. /\ tpc = "running" /\ tpc' = "loop" /\ cur' = None /\ waiting' = {}
      /\ UNCHANGED <<items, in_process, pc, notified>>
  BY DEF FinishItem, Broadcast
<1>2. cur \in Item /\ completed \in [Threads -> BOOLEAN]
  BY <1>1 DEF CurBook, LockInv, TypeOK
<1>3. RunBook'
  <2>1. SUFFICES ASSUME NEW t \in Threads
                 PROVE  /\ Once(RunItem(t))'
                        /\ ~(Queued(RunItem(t)) /\ cur = RunItem(t))'
                        /\ (Queued(RunItem(t)) \/ cur = RunItem(t)
                              <=> pc[t] \in RunPhase /\ ~completed[t])'
    BY DEF RunBook
  <2>2. RunItem(t) # None
    BY ItemsDiffer
  <2>3. completed'[t] <=> completed[t] \/ cur = RunItem(t)
    <3>1. CASE cur.kind = "run"
      <4>1. cur.fn \in Threads /\ cur = RunItem(cur.fn)
        BY <1>2, <3>1, ItemShape
      <4>2. completed' = [completed EXCEPT ![cur.fn] = TRUE]
        BY <3>1 DEF FinishItem
      <4>3. CASE cur.fn = t
        BY <1>2, <4>1, <4>2, <4>3
      <4>4. CASE cur.fn # t
        <5>1. completed'[t] = completed[t]
          BY <1>2, <4>1, <4>2, <4>4
        <5>2. cur # RunItem(t)
          BY <4>4, ItemsDiffer
        <5>3. QED
          BY <5>1, <5>2
      <4>5. QED
        BY <4>3, <4>4
    <3>2. CASE cur.kind # "run"
      BY <3>2, ItemsDiffer DEF FinishItem
    <3>3. QED
      BY <3>1, <3>2
  <2>4. /\ Once(RunItem(t))' /\ (Queued(RunItem(t))' <=> Queued(RunItem(t)))
    BY <1>1 DEF RunBook, Once, Queued
  <2>5. QED
    BY <1>1, <2>2, <2>3, <2>4 DEF RunBook
<1>4. NotifyBook'
  BY <1>1 DEF NotifyBook, Once, Queued
<1>5. CurBook' /\ LockersInside' /\ NoLostWakeup'
  BY <1>1 DEF CurBook, LockersInside, NoLostWakeup
<1>6. QED
  BY <1>3, <1>4, <1>5

LEMMA BookInvInit == Init => BookInv
<1> SUFFICES ASSUME Init PROVE BookInv
  OBVIOUS
<1>1. LockInv /\ items = <<>> /\ cur = None /\ waiting = {} /\ notified = {} /\ tpc = "out"
  BY LockInvInit DEF Init
<1>2. \A t \in Threads : pc[t] = "idle"
  BY DEF Init, Procs
<1>3. \A x : Once(x) /\ ~Queued(x)
  BY <1>1 DEF Once, Queued
<1>4. RunBook
  BY <1>1, <1>2, <1>3, ItemsDiffer DEF RunBook, RunPhase
<1>5. NotifyBook /\ CurBook /\ LockersInside /\ NoLostWakeup
  BY <1>1, <1>2, <1>3 DEF NotifyBook, CurBook, LockersInside, NoLostWakeup
<1>6. QED
  BY <1>1, <1>4, <1>5 DEF BookInv

LEMMA BookInvNext == BookInv /\ [Next]_vars => BookInv'
<1> SUFFICES ASSUME BookInv, [Next]_vars PROVE BookInv'
  OBVIOUS
<1>1. LockInv'
  BY LockInvNext DEF BookInv
<1>2. Threads \subseteq Procs /\ Target \in Procs
  BY DEF Procs
<1>3. UNCHANGED hooks
  BY DEF Next, vars
<1>4. CASE \E p \in Procs : Call(p) \/ SpuriousWakeup(p)
  BY <1>1, <1>3, <1>4, CallBook, WakeupBook
<1>5. CASE \E t \in Threads : Run(t) \/ StartLock(t) \/ Unlock(t) \/ Continue(t)
  BY <1>1, <1>2, <1>3, <1>5, RunStepBook, LockBook, UnlockBook, WakeupBook DEF Continue
<1>6. CASE (\E timeout \in 0 .. Never : EnterProcess(timeout)) \/ TargetStep
  BY <1>1, <1>2, <1>3, <1>6, TargetBook, TakeItemBook, FinishItemBook, WakeupBook
     DEF TargetStep, Loop
<1>7. CASE UNCHANGED vars
  <2>1. UNCHANGED <<items, cur, notified, completed, pc, tpc, waiting, interrupted, signal,
                    in_process, locked, lock_requests>>
    BY <1>7 DEF vars
  <2>2. RunBook' /\ NotifyBook'
    BY <2>1, BookUntouched DEF BookInv
  <2>3. CurBook' /\ LockersInside' /\ NoLostWakeup'
    BY <1>3, <2>1 DEF BookInv, CurBook, LockersInside, NoLostWakeup, UseWakeup
  <2>4. QED
    BY <1>1, <2>2, <2>3 DEF BookInv
<1>8. QED
  BY <1>4, <1>5, <1>6, <1>7 DEF Next

THEOREM BooksAreRight == Spec => []BookInv
  BY BookInvInit, BookInvNext, PTL DEF Spec

(* Nobody sleeps over what has happened; the item of mp_dispatch_run() is  *)
(* queued or runs exactly while its caller waits for it, and of each       *)
(* notification one is queued until a callback has seen it.                *)
THEOREM NobodyWaits == Spec => []NobodyWaitsInVain
<1>1. BookInv => NobodyWaitsInVain
  <2>1. SUFFICES ASSUME BookInv PROVE NobodyWaitsInVain
    OBVIOUS
  <2>2. RunItemsLive
    <3>1. ASSUME NEW t \in Threads
          PROVE  Cardinality(Places(RunItem(t))) + (IF cur = RunItem(t) THEN 1 ELSE 0)
                   = IF pc[t] \in RunPhase /\ ~completed[t] THEN 1 ELSE 0
      <4>1. Cardinality(Places(RunItem(t))) = IF Queued(RunItem(t)) THEN 1 ELSE 0
        BY <2>1, PlacesCounted DEF BookInv, RunBook
      <4>2. QED
        BY <2>1, <4>1 DEF BookInv, RunBook
    <3>2. QED
      BY <3>1 DEF RunItemsLive
  <2>3. NotifyMerged
    <3>1. ASSUME NEW f \in Fns
          PROVE  Cardinality(Places(Notify(f))) = IF f \in notified THEN 1 ELSE 0
      BY <2>1, PlacesCounted DEF BookInv, NotifyBook
    <3>2. QED
      BY <3>1 DEF NotifyMerged
  <2>4. QED
    BY <2>1, <2>2, <2>3 DEF BookInv, NobodyWaitsInVain
<1>2. QED
  BY <1>1, BooksAreRight, PTL
-------------------------------------------------------------------------------
(* The refinement of DispatchService: what its variables stand for here, and *)
(* how its steps show.                                                       *)
Owner == IF holder # None THEN holder
         ELSE IF tpc \in {"out", "running"} THEN Target ELSE None
Asks == [t \in Threads |-> IF pc[t] \notin RunPhase THEN "none"
                           ELSE IF completed[t] THEN "served" ELSE "queued"]

LEMMA ServiceVars == Service!vars = <<Owner, Asks>>
  BY DEF Service!vars, Owner, Asks

LEMMA ServiceStutter ==
  ASSUME Owner' = Owner, Asks' = Asks
  PROVE  [Service!Next]_(Service!vars)
  BY DEF Service!vars, Owner, Asks

LEMMA ServiceTake ==
  ASSUME NEW p \in Threads \union {Target}, Owner = None, Owner' = p, Asks' = Asks
  PROVE  Service!Next
  BY DEF Service!Next, Service!Take, Owner, Asks

LEMMA ServiceGive ==
  ASSUME Owner # None, Owner' = None, Asks' = Asks
  PROVE  Service!Next
  BY DEF Service!Next, Service!Give, Owner, Asks

LEMMA ServiceRequest ==
  ASSUME NEW t \in Threads,
         \/ /\ Asks[t] = "none" /\ Asks' = [Asks EXCEPT ![t] = "queued"]
            /\ Owner' = Owner
         \/ /\ Asks[t] = "queued" /\ Asks' = [Asks EXCEPT ![t] = "served"]
            /\ Owner = Target /\ Owner' = None
         \/ /\ Asks[t] = "served" /\ Asks' = [Asks EXCEPT ![t] = "none"]
            /\ Owner' = Owner
  PROVE  Service!Next
<1>1. Service!Submit(t) \/ Service!Serve(t) \/ Service!Return(t)
  BY DEF Service!Submit, Service!Serve, Service!Return, Owner, Asks
<1>2. QED
  BY <1>1 DEF Service!Next

LEMMA OwnerKept ==
  ASSUME holder' = holder,
         tpc' \in {"out", "running"} <=> tpc \in {"out", "running"}
  PROVE  Owner' = Owner
  BY DEF Owner

LEMMA AsksKept ==
  ASSUME UNCHANGED completed,
         \A t \in Threads : pc'[t] \in RunPhase <=> pc[t] \in RunPhase
  PROVE  Asks' = Asks
  BY DEF Asks

LEMMA CallImplements ==
  ASSUME TypeOK, NEW p \in Procs, Call(p) \/ SpuriousWakeup(p) \/ CallWakeup(p)
  PROVE  [Service!Next]_(Service!vars)
<1>1. holder' = holder /\ tpc' = tpc /\ completed' = completed
  BY DEF Call, Enqueue, EnqueueNotify, CancelFn, Interrupt, AdjustTimeout, AppendItem,
         SpuriousWakeup, CallWakeup
<1>2. pc' = pc \/ \E l : /\ pc' = [pc EXCEPT ![p] = l]
                         /\ l \in RunPhase <=> pc[p] \in RunPhase
  <2>1. CASE Call(p)
    <3>1. pc' = pc \/ (pc[p] = "idle" /\ \E l \in {"idle", "wake"} : pc' = [pc EXCEPT ![p] = l])
      BY <2>1 DEF Call, Enqueue, EnqueueNotify, CancelFn, Interrupt, AdjustTimeout, CanCall
    <3>2. QED
      BY <3>1 DEF RunPhase
  <2>2. CASE SpuriousWakeup(p)
    BY <2>2 DEF SpuriousWakeup
  <2>3. CASE CallWakeup(p)
    BY <2>3 DEF CallWakeup, RunPhase
  <2>4. QED
    BY <2>1, <2>2, <2>3
<1>3. \A t \in Threads : pc'[t] \in RunPhase <=> pc[t] \in RunPhase
  BY <1>2, PhasesKept
<1>4. QED
  BY <1>1, <1>3, OwnerKept, AsksKept, ServiceStutter

LEMMA RunImplements ==
  ASSUME TypeOK, NEW t \in Threads, Run(t) \/ RunCheck(t)
  PROVE  [Service!Next]_(Service!vars)
<1>1. Owner' = Owner
  BY OwnerKept DEF Run, RunCheck, AppendItem
<1>2. t \in Procs
  BY DEF Procs
<1>3. CASE Run(t)
  <2>1. pc[t] = "idle" /\ \E l \in RunPhase : pc' = [pc EXCEPT ![t] = l]
    BY <1>3 DEF Run, CanCall, RunPhase
  <2>2. completed' = [completed EXCEPT ![t] = FALSE]
    BY <1>3 DEF Run
  <2>3. Asks[t] = "none" /\ Asks' = [Asks EXCEPT ![t] = "queued"]
    <3>1. pc[t] \notin RunPhase /\ pc'[t] \in RunPhase /\ ~completed'[t]
      BY <1>2, <2>1, <2>2 DEF TypeOK, RunPhase
    <3>2. \A u \in Threads : u # t => pc'[u] = pc[u] /\ completed'[u] = completed[u]
      BY <1>2, <2>1, <2>2 DEF TypeOK
    <3>3. QED
      BY <3>1, <3>2 DEF Asks
  <2>4. QED
    BY <1>1, <2>3, ServiceRequest
<1>4. CASE RunCheck(t) /\ completed[t]
  <2>1. pc[t] = "runwait" /\ pc' = [pc EXCEPT ![t] = "idle"] /\ UNCHANGED completed
    BY <1>4 DEF RunCheck, Done
  <2>2. Asks[t] = "served" /\ Asks' = [Asks EXCEPT ![t] = "none"]
    <3>1. pc[t] \in RunPhase /\ pc'[t] \notin RunPhase
      BY <1>2, <2>1 DEF TypeOK, RunPhase
    <3>2. \A u \in Threads : u # t => pc'[u] = pc[u]
      BY <1>2, <2>1 DEF TypeOK
    <3>3. QED
      BY <1>4, <2>1, <3>1, <3>2 DEF Asks
  <2>3. QED
    BY <1>1, <2>2, ServiceRequest
<1>5. CASE RunCheck(t) /\ ~completed[t]
  <2>1. Asks' = Asks
    BY <1>5, AsksKept DEF RunCheck, Done
  <2>2. QED
    BY <1>1, <2>1, ServiceStutter
<1>6. QED
  BY <1>3, <1>4, <1>5

LEMMA LockImplements ==
  ASSUME LockInv, NEW t \in Threads,
         StartLock(t) \/ LockWakeup(t) \/ LockRecheck(t) \/ LockWoken(t) \/ Unlock(t)
  PROVE  [Service!Next]_(Service!vars)
<1>1. TypeOK /\ t \in Procs /\ t # None
  BY ThreadsAssumption DEF LockInv, Procs
<1>2. pc[t] \notin RunPhase /\ UNCHANGED <<completed, tpc>>
  BY DEF StartLock, LockWakeup, LockRecheck, LockWoken, Unlock, CanCall, RunPhase
<1>3. pc' = pc \/ \E l : l \notin RunPhase /\ pc' = [pc EXCEPT ![t] = l]
  BY DEF StartLock, LockWakeup, LockRecheck, LockWoken, Unlock, GetOrWait, RunPhase
<1>4. Asks' = Asks
  BY <1>1, <1>2, <1>3, PhasesKept, AsksKept
<1>5. CASE Unlock(t)
  <2>1. holder = t /\ holder' = None /\ tpc \notin {"out", "running"}
    BY <1>1, <1>5 DEF Unlock, Release, LockInv, Exclusive
  <2>2. Owner = t /\ Owner' = None
    BY <1>1, <1>2, <2>1 DEF Owner
  <2>3. QED
    BY <1>1, <1>4, <2>2, ServiceGive
<1>6. CASE ~Unlock(t) /\ holder' # holder
  <2>1. CanGrant /\ MutexFree /\ holder' = t
    BY <1>6 DEF StartLock, LockWakeup, LockRecheck, LockWoken, GetOrWait, CanCall
  <2>2. holder = None /\ tpc \notin {"out", "running"}
    BY <2>1, GrantIsExclusive
  <2>3. Owner = None /\ Owner' = t
    BY <1>1, <2>1, <2>2 DEF Owner
  <2>4. QED
    BY <1>4, <2>3, ServiceTake
<1>7. CASE holder' = holder
  BY <1>2, <1>4, <1>7, OwnerKept, ServiceStutter
<1>8. QED
  BY <1>5, <1>6, <1>7

LEMMA TargetImplements ==
  ASSUME BookInv,
         \/ \E timeout \in 0 .. Never : EnterProcess(timeout)
         \/ Loop \/ FinishItem \/ TargetWoken \/ Timeout
  PROVE  [Service!Next]_(Service!vars)
<1>1. LockInv /\ TypeOK /\ Target # None
  BY ThreadsAssumption DEF BookInv, LockInv
<1>2. UNCHANGED <<holder, pc>>
  BY DEF EnterProcess, Loop, BlockForLock, TakeItem, IdleWait, ExitProcess, FinishItem,
         TargetWoken, Timeout
<1>3. ~FinishItem => Asks' = Asks
  BY <1>2, AsksKept
     DEF EnterProcess, Loop, BlockForLock, TakeItem, IdleWait, ExitProcess, TargetWoken, Timeout
<1>4. CASE \E timeout \in 0 .. Never : EnterProcess(timeout)
  <2>1. tpc = "out" /\ tpc' = "loop"
    BY <1>4 DEF EnterProcess
  <2>2. holder = None
    BY <1>1, <2>1 DEF LockInv, Exclusive
  <2>3. Owner = Target /\ Owner' = None
    BY <1>2, <2>1, <2>2 DEF Owner
  <2>4. ~FinishItem
    BY <2>1 DEF FinishItem
  <2>5. QED
    BY <1>1, <1>3, <2>3, <2>4, ServiceGive
<1>5. CASE TakeItem \/ ExitProcess
  <2>1. tpc = "loop" /\ lock_requests = 0 /\ tpc' \in {"out", "running"}
    BY <1>5 DEF TakeItem, ExitProcess
  <2>2. holder = None
    BY <1>1, <2>1, HolderCounts
  <2>3. Owner = None /\ Owner' = Target
    BY <1>2, <2>1, <2>2 DEF Owner
  <2>4. ~FinishItem
    BY <2>1 DEF FinishItem
  <2>5. QED
    BY <1>3, <2>3, <2>4, ServiceTake
<1>6. CASE BlockForLock \/ IdleWait \/ TargetWoken \/ Timeout
  <2>1. tpc \in {"loop", "blocked", "idle"} /\ tpc' \in {"loop", "blocked", "idle"}
    BY <1>6 DEF BlockForLock, IdleWait, TargetWoken, Timeout
  <2>2. Owner' = Owner /\ ~FinishItem
    BY <1>2, <2>1, OwnerKept DEF FinishItem
  <2>3. QED
    BY <1>3, <2>2, ServiceStutter
<1>7. CASE FinishItem
  <2>1. tpc = "running" /\ tpc' = "loop"
    BY <1>7 DEF FinishItem
  <2>2. holder = None
    BY <1>1, <2>1 DEF LockInv, Exclusive
  <2>3. Owner = Target /\ Owner' = None
    BY <1>2, <2>1, <2>2 DEF Owner
  <2>4. cur \in Item
    BY <1>1, <2>1 DEF BookInv, CurBook, TypeOK
  <2>5. CASE cur.kind = "run"
    <3>1. cur.fn \in Threads /\ cur = RunItem(cur.fn)
      BY <2>4, <2>5, ItemShape
    <3>2. pc[cur.fn] \in RunPhase /\ ~completed[cur.fn]
      BY <3>1 DEF BookInv, RunBook
    <3>3. completed' = [completed EXCEPT ![cur.fn] = TRUE]
      BY <1>7, <2>5 DEF FinishItem
    <3>4. Asks[cur.fn] = "queued" /\ Asks' = [Asks EXCEPT ![cur.fn] = "served"]
      BY <1>1, <1>2, <3>1, <3>2, <3>3 DEF Asks, TypeOK
    <3>5. QED
      BY <2>3, <3>1, <3>4, ServiceRequest
  <2>6. CASE cur.kind # "run"
    <3>1. Asks' = Asks
      BY <1>2, <1>7, <2>6, AsksKept DEF FinishItem
    <3>2. QED
      BY <1>1, <2>3, <3>1, ServiceGive
  <2>7. QED
    BY <2>5, <2>6
<1>8. QED
  BY <1>4, <1>5, <1>6, <1>7 DEF Loop

LEMMA InitImplements == Init => Service!Init
<1> SUFFICES ASSUME Init PROVE Service!Init
  OBVIOUS
<1>1. holder = None /\ tpc = "out" /\ \A t \in Threads : pc[t] = "idle"
  BY DEF Init, Procs
<1>2. Owner = Target /\ Asks = [t \in Threads |-> "none"]
  BY <1>1 DEF Owner, Asks, RunPhase
<1>3. QED
  BY <1>2 DEF Service!Init, Owner, Asks

LEMMA StepImplements == BookInv /\ [Next]_vars => [Service!Next]_(Service!vars)
<1> SUFFICES ASSUME BookInv, [Next]_vars PROVE [Service!Next]_(Service!vars)
  OBVIOUS
<1>1. LockInv /\ TypeOK /\ Threads \subseteq Procs /\ Target \in Procs
  BY DEF BookInv, LockInv, Procs
<1>2. CASE \E p \in Procs : Call(p) \/ SpuriousWakeup(p)
  BY <1>1, <1>2, CallImplements
<1>3. CASE \E t \in Threads : Run(t) \/ StartLock(t) \/ Unlock(t) \/ Continue(t)
  BY <1>1, <1>3, RunImplements, LockImplements, CallImplements DEF Continue
<1>4. CASE (\E timeout \in 0 .. Never : EnterProcess(timeout)) \/ TargetStep
  BY <1>1, <1>4, TargetImplements, CallImplements DEF TargetStep
<1>5. CASE UNCHANGED vars
  BY <1>5, OwnerKept, AsksKept, ServiceStutter DEF vars
<1>6. QED
  BY <1>2, <1>3, <1>4, <1>5 DEF Next

(* The queue does what DispatchService promises: one owner of the target's   *)
(* state at a time, and each mp_dispatch_run() served once by the target     *)
(* before it returns.                                                        *)
THEOREM ImplementsDispatchService == Spec => ImplementsService
<1>1. Spec => Service!Init /\ [][Service!Next]_(Service!vars)
  BY InitImplements, StepImplements, BooksAreRight, PTL DEF Spec
<1>2. QED
  BY <1>1 DEF ImplementsService, Service!Spec
===============================================================================
