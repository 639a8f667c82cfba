--------------------------- MODULE DispatchService ---------------------------
(***************************************************************************)
(* What misc/dispatch.c promises to its callers, without saying how:       *)
(*  - the state of the target thread has at most one owner: the target     *)
(*    itself (outside mp_dispatch_queue_process or in a callback), or the  *)
(*    one thread that returned from mp_dispatch_lock();                    *)
(*  - mp_dispatch_run() returns once its callback was run, exactly once,   *)
(*    while the target was the owner.                                      *)
(***************************************************************************)
CONSTANTS Threads,  \* the threads that use somebody else's dispatch queue
          Target,   \* the thread that calls mp_dispatch_queue_process()
          Nobody    \* no owner

VARIABLES owner,    \* who may touch the target's state
          request   \* the state of each thread's mp_dispatch_run()

vars == <<owner, request>>

Owners == Threads \union {Target, Nobody}

TypeOK == /\ owner \in Owners
          /\ request \in [Threads -> {"none", "queued", "served"}]

Init == /\ owner = Target
        /\ request = [t \in Threads |-> "none"]

\* Ownership is taken only when nobody has it, and given back by its owner.
Take(p) == /\ owner = Nobody
           /\ owner' = p
           /\ UNCHANGED request

Give == /\ owner # Nobody
        /\ owner' = Nobody
        /\ UNCHANGED request

\* mp_dispatch_run() is called, its callback ends, it returns.
Submit(t) == /\ request[t] = "none"
             /\ request' = [request EXCEPT ![t] = "queued"]
             /\ UNCHANGED owner

Serve(t) == /\ owner = Target
            /\ request[t] = "queued"
            /\ request' = [request EXCEPT ![t] = "served"]
            /\ owner' = Nobody

Return(t) == /\ request[t] = "served"
             /\ request' = [request EXCEPT ![t] = "none"]
             /\ UNCHANGED owner

Next == \/ \E p \in Threads \union {Target} : Take(p)
        \/ Give
        \/ \E t \in Threads : Submit(t) \/ Serve(t) \/ Return(t)

Spec == Init /\ [][Next]_vars
==============================================================================
