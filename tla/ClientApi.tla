------------------------------- MODULE ClientApi -------------------------------
(***************************************************************************)
(* The client API (player/client.c): what a handle is told, and how it is  *)
(* taken down.  Every handle has a ring of events, some of whose places    *)
(* are reserved for replies, and a list of observed properties, whose      *)
(* values the core reads with the handle unlocked.                         *)
(*                                                                         *)
(* The core thread runs the play loop, mp_client_send_property_changes()   *)
(* and its dispatch queue, and waits for hooks and for the handles to      *)
(* leave.  Each handle has a user, who calls mpv_wait_event(), blocking or *)
(* when the wakeup callback was called, and destroys the handle; other     *)
(* threads of the same user may call anything else.  One step is one       *)
(* critical section of mpv_handle.lock, of wakeup_lock or of the list of   *)
(* clients.  The dispatch queue is that of module Dispatch: locking the    *)
(* core is a step that needs the core in mp_dispatch_queue_process().      *)
(***************************************************************************)
EXTENDS Integers, FiniteSets, SequencesExt

CONSTANTS Handles,
          Props,        \* names of properties
          Values,       \* what they can be, "not available" being one
          MaxEvents,    \* max_events
          Setups        \* who is there, and how often what may happen (bounds)

ASSUME ConstantsAssumption == MaxEvents \in Nat \ {0} /\ Handles # {} /\ Values # {}

\* The handles there are at first, and those of them that are weak; whose user waits
\* for the wakeup callback; who has a thread in mpv_wait_async_requests(); who registers
\* a hook, destroys a handle without being told to, or quits or terminates the player;
\* and the properties that are observed and change.
ASSUME SetupsAssumption ==
  \A s \in Setups : /\ s.clients \in Seq(Handles) /\ IsInjective(s.clients)
                    /\ s.weak \subseteq Handles
                    /\ s.polling \subseteq Handles /\ s.joining \subseteq Handles
                    /\ s.hooking \subseteq Handles /\ s.leaving \subseteq Handles
                    /\ s.quitting \subseteq Handles /\ s.props \subseteq Props
                    /\ {s.events, s.requests, s.changes, s.resizes, s.observes} \subseteq Nat

VARIABLES setup,     \* never changes
          client,    \* struct mpv_handle, with the calls that are in progress
          clients,   \* the list of struct mp_client_api
          api,       \* its flags
          core,      \* the core thread
          items,     \* its dispatch queue: requests that were accepted
          running,   \* asynchronous commands that were started
          value,     \* the properties
          counts     \* how often what happened, for the bounds

vars == <<setup, client, clients, api, core, items, running, value, counts>>

Listed == {clients[n] : n \in DOMAIN clients}

Init ==
  /\ setup \in Setups
  /\ client = [h \in Handles |->
       [events |-> <<>>, reserved |-> 0, async_counter |-> 0, choked |-> FALSE,
        destroying |-> FALSE, need_wakeup |-> FALSE, queued_wakeup |-> FALSE,
        hook_pending |-> FALSE, masked |-> FALSE, props |-> <<>>, pending |-> FALSE,
        new_events |-> FALSE, cur |-> 1,
        user |-> "idle", polls |-> h \in setup.polling, timed |-> FALSE, called |-> TRUE,
        joiner |-> "idle", terminate |-> FALSE, told |-> 0, sent |-> 0, orphaned |-> FALSE]]
  /\ clients = setup.clients
  /\ api = [shutting_down |-> FALSE, have_terminator |-> FALSE, terminate_core_thread |-> FALSE]
  /\ core = [pc |-> "loop", mode |-> "play", woken |-> FALSE, stop_play |-> FALSE,
             patient |-> TRUE, list_changed |-> FALSE, n |-> 1, i |-> 1,
             reads |-> CHOOSE h \in Handles : TRUE, props_changed |-> FALSE,
             read |-> CHOOSE v \in Values : TRUE, raced |-> FALSE, hook |-> "none"]
  /\ items = <<>> /\ running = <<>>
  /\ value = [p \in Props |-> CHOOSE v \in Values : TRUE]
  /\ counts = [events |-> 0, requests |-> 0, changes |-> 0, resizes |-> 0, observes |-> 0]
--------------------------------------------------------------------------------
(* Events.  Each of these operators is what happens to a locked handle. *)

\* wakeup_client(): wakes who waits, or calls the callback, once until it was seen.
Rouse(pc) == IF pc = "sleep" THEN "woken" ELSE pc
WakeupClient(c) ==
  IF c.need_wakeup THEN c
  ELSE [c EXCEPT !.need_wakeup = TRUE, !.called = TRUE,
                 !.user = Rouse(@), !.joiner = Rouse(@)]

\* append_event(): the places reserved for replies are not used for anything else.
HasRoom(c) == Len(c.events) + c.reserved < MaxEvents
AppendEvent(c, what) ==
  WakeupClient([c EXCEPT !.events = Append(@, what), !.masked = @ \/ what[1] = "shutdown"])

\* send_event(); broadcast events are numbered.  After an overflow nothing is sent
\* until the user was told.
Masked(c, what) == what[1] = "shutdown" /\ c.masked
Fails(c, what) == ~Masked(c, what) /\ (c.choked \/ ~HasRoom(c))
SendEventSilently(c, what) == IF Masked(c, what) \/ Fails(c, what) THEN c ELSE AppendEvent(c, what)
SendEvent(c, what) ==
  IF Masked(c, what) THEN c
  ELSE IF Fails(c, what) THEN [c EXCEPT !.choked = TRUE] ELSE AppendEvent(c, what)
SendNumbered(c) == [SendEvent(c, <<"event", c.sent + 1>>) EXCEPT !.sent = @ + 1]

\* reserve_reply(), send_reply()
MayReserve(c) == HasRoom(c) /\ ~c.choked
Reserved(c) == [c EXCEPT !.reserved = @ + 1]
SendReply(c) == AppendEvent([c EXCEPT !.reserved = @ - 1], <<"reply", 0>>)
--------------------------------------------------------------------------------
(* Observed properties. *)

\* mp_client_property_change(), notify_property_events()
Observes(c, p) == \E i \in DOMAIN c.props : c.props[i].name = p
Bumped(q) == [q EXCEPT !.change_ts = @ + 1]
Notified(c, p) ==
  IF ~Observes(c, p) THEN c
  ELSE [c EXCEPT !.pending = TRUE,
                 !.props = [i \in DOMAIN c.props |->
                    IF c.props[i].name = p THEN Bumped(c.props[i]) ELSE c.props[i]]]

\* mpv_observe_property(), mpv_unobserve_property()
NewProp(p) == [name |-> p, change_ts |-> 1, value_ts |-> 0, value |-> value[p],
               ret_ts |-> 0, ret |-> {}, waiting_for_hook |-> FALSE,
               hook_ts |-> 0, swallowed |-> FALSE]
Observed(c, p) == [c EXCEPT !.props = Append(@, NewProp(p)), !.new_events = TRUE,
                            !.cur = 1, !.pending = TRUE]
\* (`orphaned' is ghost: a hook may be waiting for a property that is not there any more).
UnobservedOnly(c, i) == [c EXCEPT !.props = RemoveAt(@, i),
                                  !.orphaned = @ \/ c.props[i].waiting_for_hook]
Unobserved(c, i) == [c EXCEPT !.props = RemoveAt(@, i), !.cur = 1,
                              !.orphaned = @ \/ c.props[i].waiting_for_hook]

\* What send_client_property_changes() has read is compared with what it had, and
\* with what the user was told.
Stale(q) == q.value_ts # q.change_ts
StoredUntold(q, v, raced) ==
  LET new == [q EXCEPT !.value = v, !.value_ts = q.change_ts, !.swallowed = raced]
  IN IF q.value_ts # 0 /\ q.value = v
       THEN [new EXCEPT !.ret_ts = q.change_ts, !.waiting_for_hook = FALSE] ELSE new
Stored(q, v, raced) ==
  LET changed == q.value_ts = 0 \/ q.value # v
      new     == [q EXCEPT !.value = v, !.value_ts = q.change_ts, !.swallowed = raced]
  IN IF ~changed /\ q.ret_ts = q.value_ts
       THEN [new EXCEPT !.ret_ts = q.change_ts, !.waiting_for_hook = FALSE]
       ELSE new
NewToUser(q, v) == q.waiting_for_hook \/ q.value_ts = 0 \/ q.value # v \/ q.ret_ts # q.value_ts

\* gen_property_change_event(): round robin, once more if the core found something new.
Ready(q) == q.value_ts = q.change_ts /\ q.ret_ts # q.value_ts
ReadyFrom(c, i) == {j \in i .. Len(c.props) : Ready(c.props[j])}
Least(S) == CHOOSE i \in S : \A j \in S : i <= j
Wraps(c) == ReadyFrom(c, c.cur) = {} /\ c.new_events
Scan(c) == ReadyFrom(c, IF Wraps(c) THEN 1 ELSE c.cur)
Told(q) == [q EXCEPT !.ret_ts = q.value_ts, !.ret = {q.value}, !.waiting_for_hook = FALSE]
ToldOf(c, i) == [c EXCEPT !.props[i] = Told(@), !.cur = i + 1, !.new_events = @ /\ ~Wraps(c)]
ToldNothing(c) == [c EXCEPT !.cur = Len(c.props) + 1, !.new_events = FALSE]

\* Hooks are kept back until the changes from before were told.
Held(c) == c.events # <<>> /\ Head(c.events)[1] = "hook"
HookFlagsUnread(c) ==
  IF Held(c) /\ ~c.hook_pending
    THEN [c EXCEPT !.hook_pending = TRUE,
                   !.props = [i \in DOMAIN c.props |->
                      [c.props[i] EXCEPT !.waiting_for_hook = @ \/ Stale(c.props[i])]]]
    ELSE c
Waiting(q) == [q EXCEPT !.waiting_for_hook = @ \/ q.ret_ts # q.change_ts]
HookFlags(c) ==
  IF Held(c) /\ ~c.hook_pending
    THEN [c EXCEPT !.hook_pending = TRUE,
                   !.props = [i \in DOMAIN c.props |-> Waiting(c.props[i])]]
    ELSE c
WaitsForProps(c) == \E i \in DOMAIN c.props : c.props[i].waiting_for_hook
--------------------------------------------------------------------------------
(* The user: mpv_wait_event() *)

Here(h) == h \in Listed
Others == UNCHANGED <<setup, clients, api, core, items, running, value, counts>>
Only(h, c) == client' = [client EXCEPT ![h] = c]

CallWaitEvent(h) ==
  LET c == client[h]
  IN /\ Here(h) /\ c.user = "idle" /\ ~c.destroying /\ (c.polls => c.called)
     /\ Only(h, [c EXCEPT !.user = "check", !.timed = c.polls, !.called = FALSE])
     /\ Others

\* It returns to the user, who will call again.
Return(c) == [c EXCEPT !.user = "idle", !.called = TRUE, !.queued_wakeup = FALSE]
Reaction(what) == IF what = "hook" THEN "continue" ELSE IF what = "shutdown" THEN "leave" ELSE "idle"
TakeEvent(c) ==
  [Return(c) EXCEPT !.events = Tail(@), !.user = Reaction(Head(c.events)[1]),
                    !.hook_pending = @ /\ ~Held(c),
                    !.told = IF Head(c.events)[1] = "event" THEN Head(c.events)[2] ELSE @]
Overflowed(c) == c.choked /\ c.events = <<>>
TakeOverflow(c) == [Return(c) EXCEPT !.choked = FALSE, !.told = c.sent]
Enters(c) == [c EXCEPT !.timed = @ \/ c.queued_wakeup, !.orphaned = FALSE]
WaitEvent(h) ==
  LET c == HookFlags(Enters(client[h]))
      takes == c.events # <<>> /\ ~(Held(c) /\ WaitsForProps(c))
  IN /\ c.user = "check" /\ ~c.destroying
     /\ \/ /\ Overflowed(c)
           /\ Only(h, TakeOverflow(c))
        \/ /\ ~Overflowed(c) /\ takes
           /\ Only(h, TakeEvent(c))
        \/ /\ ~Overflowed(c) /\ ~takes /\ Scan(c) # {}
           /\ Only(h, Return(ToldOf(c, Least(Scan(c)))))
        \/ /\ ~Overflowed(c) /\ ~takes /\ Scan(c) = {}
           /\ Only(h, [ToldNothing(c) EXCEPT !.user = "wait"])
     /\ Others

\* wait_wakeup(), for the user and for mpv_wait_async_requests() of another thread.
WaitWakeup(h) ==
  LET c == client[h]
  IN /\ \/ /\ c.user \in {"wait", "woken"}
           /\ Only(h, IF c.user = "wait" /\ ~c.need_wakeup THEN [c EXCEPT !.user = "sleep"]
                      ELSE [c EXCEPT !.user = "check", !.need_wakeup = FALSE])
        \/ /\ c.joiner \in {"wait", "woken"}
           /\ Only(h, IF c.joiner = "wait" /\ ~c.need_wakeup THEN [c EXCEPT !.joiner = "sleep"]
                      ELSE [c EXCEPT !.joiner = "check", !.need_wakeup = FALSE])
     /\ Others
TimedOut(h) ==
  /\ client[h].user = "sleep" /\ client[h].timed
  /\ Only(h, [client[h] EXCEPT !.user = "idle", !.queued_wakeup = FALSE])
  /\ Others
--------------------------------------------------------------------------------
(* What any thread of the user may call. *)

Usable(h) == Here(h) /\ ~client[h].destroying
Count(what, bound) == counts[what] < bound /\ counts' = [counts EXCEPT ![what] = @ + 1]

\* mp_wakeup_core()
WakeupCore(k) == [k EXCEPT !.woken = TRUE]
Reads(h) == core.pc \in {"fetch", "store"} /\ core.reads = h
PropsChanged(h) == [WakeupCore(core) EXCEPT !.props_changed = @ \/ Reads(h)]

ObserveProperty(h, p) ==
  /\ Usable(h) /\ ~Observes(client[h], p) /\ Count("observes", setup.observes)
  /\ Only(h, Observed(client[h], p))
  /\ core' = PropsChanged(h)
  /\ UNCHANGED <<setup, clients, api, items, running, value>>
UnobserveProperty(h, p) ==
  /\ Usable(h) /\ Count("observes", setup.observes)
  /\ \E i \in DOMAIN client[h].props : /\ client[h].props[i].name = p
                                       /\ Only(h, Unobserved(client[h], i))
  /\ core' = [core EXCEPT !.props_changed = @ \/ Reads(h)]
  /\ UNCHANGED <<setup, clients, api, items, running, value>>

\* run_async() for a property ("get") or a command for a worker thread ("cmd").
RunAsync(h, what) ==
  /\ Usable(h) /\ MayReserve(client[h]) /\ Count("requests", setup.requests)
  /\ Only(h, Reserved(client[h]))
  /\ items' = Append(items, <<h, what>>)
  /\ UNCHANGED <<setup, clients, api, core, running, value>>

\* mpv_wakeup()
Wakeup(h) ==
  /\ Usable(h) /\ h \in setup.joining /\ ~client[h].queued_wakeup
  /\ Only(h, WakeupClient([client[h] EXCEPT !.queued_wakeup = TRUE]))
  /\ Others

\* mpv_wait_async_requests(), of another thread or in mp_destroy_client().
UnservedReplies(c) == c.reserved > 0
Unserved(c) == c.reserved > 0 \/ c.async_counter > 0
WaitAsyncRequests(h) ==
  LET c == client[h]
  IN /\ \/ /\ c.joiner = "idle" /\ Usable(h) /\ h \in setup.joining /\ Unserved(c)
           /\ Only(h, [c EXCEPT !.joiner = "check"])
        \/ /\ c.joiner = "check"
           /\ Only(h, [c EXCEPT !.joiner = IF Unserved(c) THEN "wait" ELSE "idle"])
        \/ /\ c.user = "check" /\ c.destroying
           /\ Only(h, [c EXCEPT !.user = IF Unserved(c) THEN "wait" ELSE "remove"])
     /\ Others

\* mpv_hook_continue(); it was the only hook.
HookContinue(h) ==
  /\ client[h].user = "continue" /\ core.pc = "process"
  /\ Only(h, [client[h] EXCEPT !.user = "idle"])
  /\ core' = WakeupCore([core EXCEPT !.hook = "over"])
  /\ UNCHANGED <<setup, clients, api, items, running, value, counts>>

\* The command "quit": a user runs it and waits for the event, or mpv_terminate_destroy()
\* runs it first.  Whoever got the event may call mpv_terminate_destroy() as well.
QuitPlayer(h) ==
  /\ Usable(h) /\ h \in setup.quitting /\ core.pc = "process" /\ ~client[h].terminate
  /\ \/ /\ client[h].user \in {"idle", "leave"}
        /\ Only(h, [client[h] EXCEPT !.user = "leave", !.terminate = TRUE])
     \/ /\ client[h].user = "idle" /\ ~core.stop_play
        /\ UNCHANGED client
  /\ core' = WakeupCore([core EXCEPT !.stop_play = TRUE])
  /\ UNCHANGED <<setup, clients, api, items, running, value, counts>>
\* mp_destroy_client(): what comes before waiting for the replies, and what comes after.
MayLeave(h) == client[h].user = "leave" \/ (client[h].user = "idle" /\ h \in setup.leaving)
BeginDestroy(h) ==
  /\ Usable(h) /\ MayLeave(h) /\ client[h].joiner = "idle"
  /\ Only(h, [client[h] EXCEPT !.destroying = TRUE, !.props = <<>>, !.user = "check",
                               !.timed = FALSE])
  /\ core' = [core EXCEPT !.props_changed = @ \/ Reads(h)]
  /\ UNCHANGED <<setup, clients, api, items, running, value, counts>>

Strong(L) == {L[n] : n \in DOMAIN L} \ setup.weak
ListChanged(k) == WakeupCore([k EXCEPT !.list_changed = TRUE])
\* Who destroys the core: the first that calls mpv_terminate_destroy(), or the last strong
\* handle if nobody does.
TerminatesToo(h, left) == client[h].terminate \/ Strong(left) = {}
Terminates(h, left) == (client[h].terminate \/ Strong(left) = {}) /\ ~api.have_terminator
RemoveClient(h) ==
  \E n \in DOMAIN clients :
  LET left == RemoveAt(clients, n)
      terminate == Terminates(h, left)
  IN /\ client[h].user = "remove" /\ clients[n] = h
     /\ clients' = left
     /\ api' = [api EXCEPT !.have_terminator = @ \/ terminate]
     /\ Only(h, [client[h] EXCEPT !.user = IF terminate THEN "quit" ELSE "gone",
                                  !.events = <<>>])
     /\ core' = ListChanged(core)
     /\ UNCHANGED <<setup, items, running, value, counts>>

\* The terminator: mp_dispatch_lock(), mp_dispatch_run(), and the end of the core thread
\* is waited for.
Quit(h) ==
  /\ core.pc = "process"
  /\ \/ /\ client[h].user = "quit"
        /\ Only(h, [client[h] EXCEPT !.user = "getthread"])
        /\ core' = [core EXCEPT !.stop_play = TRUE]
     \/ /\ client[h].user = "getthread"
        /\ Only(h, [client[h] EXCEPT !.user = "stop"])
        /\ UNCHANGED core
  /\ UNCHANGED <<setup, clients, api, items, running, value, counts>>
StopCore(h) ==
  /\ client[h].user = "stop"
  /\ api' = [api EXCEPT !.terminate_core_thread = TRUE]
  /\ Only(h, [client[h] EXCEPT !.user = "join"])
  /\ core' = WakeupCore(core)
  /\ UNCHANGED <<setup, clients, items, running, value, counts>>
Join(h) ==
  /\ client[h].user = "join" /\ core.pc = "exit"
  /\ Only(h, [client[h] EXCEPT !.user = "gone"])
  /\ Others
--------------------------------------------------------------------------------
(* The core thread. *)

Sent(what) == [h \in Handles |-> IF Here(h) THEN SendEvent(client[h], <<what, 0>>) ELSE client[h]]

\* mp_notify() of an event that everybody gets.
BroadcastEvent ==
  /\ core.pc = "loop" /\ Count("events", setup.events)
  /\ client' = [h \in Handles |-> IF Here(h) THEN SendNumbered(client[h]) ELSE client[h]]
  /\ UNCHANGED <<setup, clients, api, core, items, running, value>>

\* A property changes: by the core, or a thread that has locked it; or, what the VO
\* thread does with the size of the OSD, at any time.
Notifies(p) == client' = [h \in Handles |-> IF Here(h) THEN Notified(client[h], p) ELSE client[h]]
AnyNotified(p) == \E h \in Listed : Observes(client[h], p)
PropertyChange(p, v) ==
  /\ core.pc \in {"loop", "process"} /\ value[p] # v /\ Count("changes", setup.changes)
  /\ value' = [value EXCEPT ![p] = v]
  /\ Notifies(p)
  /\ core' = IF core.pc = "process" /\ AnyNotified(p) THEN WakeupCore(core) ELSE core
  /\ UNCHANGED <<setup, clients, api, items, running>>
ReadProp == client[core.reads].props[core.i].name
BroadcastExternal(p, v) ==
  /\ core.pc # "exit" /\ value[p] # v /\ Count("resizes", setup.resizes)
  /\ value' = [value EXCEPT ![p] = v]
  /\ Notifies(p)
  /\ core' = [WakeupCore(core) EXCEPT
                !.raced = @ \/ (core.pc = "store" /\ ~core.props_changed /\ p = ReadProp)]
  /\ UNCHANGED <<setup, clients, api, items, running>>

Hook == <<"hook", 0>>
Marked(q) == [q EXCEPT !.hook_ts = q.change_ts]
AllMarked(c) == [c EXCEPT !.props = [i \in DOMAIN c.props |-> Marked(c.props[i])]]
\* process_hooks(): a handler that cannot be told is removed.
StartHook ==
  /\ core.pc = "loop" /\ core.mode = "play" /\ core.hook = "none"
  /\ \E h \in setup.hooking :
       /\ Here(h)
       /\ IF Fails(client[h], Hook)
            THEN /\ Only(h, SendEvent(client[h], Hook))
                 /\ core' = WakeupCore([core EXCEPT !.hook = "over"])
            ELSE /\ Only(h, AllMarked(SendEvent(client[h], Hook)))
                 /\ core' = [core EXCEPT !.hook = "active", !.mode = "hook"]
  /\ UNCHANGED <<setup, clients, api, items, running, value, counts>>
EndHook ==
  /\ core.pc = "loop" /\ core.mode = "hook"
  /\ core.hook = "over" \/ setup.hooking \intersect Listed = {}
  /\ core' = [core EXCEPT !.hook = "over", !.mode = "play"]
  /\ UNCHANGED <<setup, client, clients, api, items, running, value, counts>>
HookIsOut == core.hook = "active" /\ setup.hooking \intersect Listed # {}

\* mp_shutdown_clients(), and mp_wait_events() in all cases.
SendChanges(k) == [k EXCEPT !.pc = "send", !.n = 1]
PlayLoop ==
  /\ core.pc = "loop"
  /\ \/ /\ core.mode = "play" /\ ~core.stop_play
        /\ core' = SendChanges(core)
     \/ /\ core.mode = "hook" /\ HookIsOut
        /\ core' = SendChanges(core)
  /\ UNCHANGED <<setup, client, clients, api, items, running, value, counts>>
MayExit == clients = <<>> /\ running = <<>> /\ api.terminate_core_thread
ShutdownClients ==
  /\ core.pc = "loop" /\ core.stop_play /\ core.mode # "hook"
  /\ api' = [api EXCEPT !.shutting_down = TRUE]
  /\ IF MayExit
       THEN core' = [core EXCEPT !.pc = "exit"] /\ UNCHANGED client
       ELSE /\ core' = SendChanges([core EXCEPT !.mode = "shutdown"])
            /\ client' = Sent("shutdown")
  /\ UNCHANGED <<setup, clients, items, running, value, counts>>

\* send_client_property_changes(): the next property to be read, or the end.
StaleFrom(c, i) == {j \in i .. Len(c.props) : Stale(c.props[j])}
NextClient(n) == {m \in n .. Len(clients) :
                    client[clients[m]].pending /\ ~client[clients[m]].destroying}
Finished(c) == IF c.destroying \/ c.new_events THEN WakeupClient(c) ELSE c
ReadNext(h, c, i, k) ==
  IF StaleFrom(c, i) # {}
    THEN /\ Only(h, [c EXCEPT !.async_counter = 1])
         /\ core' = [k EXCEPT !.pc = "fetch", !.i = Least(StaleFrom(c, i)),
                              !.reads = h, !.raced = FALSE]
    ELSE /\ Only(h, Finished([c EXCEPT !.async_counter = 0]))
         /\ core' = [k EXCEPT !.pc = "send", !.n = @ + 1, !.raced = FALSE]
ToProcess == [core EXCEPT !.pc = "process", !.n = 1, !.i = 1, !.list_changed = FALSE]
SendPropertyChanges ==
  /\ core.pc = "send"
  /\ IF core.n > 1 /\ core.list_changed
       THEN core' = WakeupCore(ToProcess) /\ UNCHANGED client
     ELSE IF NextClient(core.n) = {}
       THEN core' = ToProcess /\ UNCHANGED client
     ELSE LET n == Least(NextClient(core.n))
              h == clients[n]
          IN ReadNext(h, [client[h] EXCEPT !.pending = FALSE], 1,
                      [core EXCEPT !.n = n, !.props_changed = FALSE,
                                   !.list_changed = @ /\ core.n > 1])
  /\ UNCHANGED <<setup, clients, api, items, running, value, counts>>

\* getproperty_fn(), with nothing locked; then the result is looked at.
GetProperty ==
  /\ core.pc = "fetch"
  /\ core' = [core EXCEPT !.pc = "store",
                          !.read = IF core.props_changed THEN @ ELSE value[ReadProp]]
  /\ UNCHANGED <<setup, client, clients, api, items, running, value, counts>>
StoreProperty ==
  /\ core.pc = "store"
  /\ LET h == core.reads
         c == client[h]
         q == c.props[core.i]
     IN IF core.props_changed \/ c.destroying
          THEN /\ Only(h, Finished([c EXCEPT !.async_counter = 0, !.pending = TRUE]))
               /\ core' = WakeupCore([core EXCEPT !.pc = "send", !.n = @ + 1])
          ELSE ReadNext(h, [c EXCEPT !.props[core.i] = Stored(@, core.read, core.raced),
                                     !.new_events = @ \/ NewToUser(q, core.read)],
                        core.i + 1, core)
  /\ UNCHANGED <<setup, clients, api, items, running, value, counts>>

\* The dispatch queue: requests are answered, commands are given to a thread, who
\* answers with the core locked; if there is no thread, they fail at once.
RunItem ==
  /\ core.pc = "process" /\ items # <<>>
  /\ LET h == Head(items)[1]
     IN \/ /\ Only(h, SendReply(client[h]))
           /\ UNCHANGED running
        \/ /\ Head(items)[2] = "cmd"
           /\ running' = Append(running, h)
           /\ UNCHANGED client
  /\ items' = Tail(items)
  /\ UNCHANGED <<setup, clients, api, core, value, counts>>
Complete(n) ==
  /\ core.pc = "process" /\ n \in DOMAIN running
  /\ Only(running[n], SendReply(client[running[n]]))
  /\ running' = RemoveAt(running, n)
  /\ core' = IF Len(running) = 1 /\ api.shutting_down THEN WakeupCore(core) ELSE core
  /\ UNCHANGED <<setup, clients, api, items, value, counts>>

\* mp_dispatch_queue_process() returns because it was interrupted; after a time in
\* mp_shutdown_clients(); or because the player has something else to do.
Busy == counts.events < setup.events \/ (setup.hooking # {} /\ core.hook = "none")
ReturnsFromProcess ==
  /\ core.pc = "process" /\ items = <<>>
  /\ \/ /\ core.woken
        /\ core' = [core EXCEPT !.pc = "loop", !.woken = FALSE]
     \/ /\ core.mode = "shutdown" /\ core.patient
        /\ core' = [core EXCEPT !.pc = "loop", !.patient = FALSE]
     \/ /\ core.mode # "shutdown" /\ Busy
        /\ core' = [core EXCEPT !.pc = "loop"]
  /\ UNCHANGED <<setup, client, clients, api, items, running, value, counts>>
--------------------------------------------------------------------------------
Calls(h) ==
  \/ CallWaitEvent(h) \/ WaitEvent(h) \/ WaitWakeup(h) \/ TimedOut(h)
  \/ WaitAsyncRequests(h) \/ HookContinue(h)
  \/ QuitPlayer(h) \/ BeginDestroy(h) \/ RemoveClient(h) \/ Quit(h) \/ StopCore(h) \/ Join(h)
Asks(h) ==
  \/ \E p \in setup.props : ObserveProperty(h, p) \/ UnobserveProperty(h, p)
  \/ \E what \in {"get", "cmd"} : RunAsync(h, what)
  \/ Wakeup(h)
Plays == StartHook \/ EndHook \/ PlayLoop \/ ShutdownClients \/ SendPropertyChanges
         \/ GetProperty \/ StoreProperty \/ RunItem \/ ReturnsFromProcess
Changes == \E p \in setup.props, v \in Values : PropertyChange(p, v) \/ BroadcastExternal(p, v)
Next == \/ \E h \in Handles : Calls(h) \/ Asks(h)
        \/ BroadcastEvent \/ Changes \/ Plays
        \/ \E n \in DOMAIN running : Complete(n)

Spec == Init /\ [][Next]_vars

\* The scheduler runs every thread, and the users handle what they are told.  A thread that
\* locks the core gets it, although the core runs in between (LockProgress of Dispatch).
Serve == Plays \/ \E n \in DOMAIN running : Complete(n)
Fairness == /\ WF_vars(Serve)
            /\ \A h \in Handles : SF_vars(Calls(h))
FairSpec == Spec /\ Fairness
--------------------------------------------------------------------------------
Outstanding(h) == Cardinality({n \in DOMAIN items : items[n][1] = h})
                  + Cardinality({n \in DOMAIN running : running[n] = h})

\* The variables hold what the fields can hold.
Kinds == {"event", "reply", "hook", "shutdown"}
TypeOK ==
  /\ clients \in Seq(Handles) /\ IsInjective(clients)
  /\ \A h \in Handles :
       LET c == client[h]
       IN /\ \A n \in DOMAIN c.events : c.events[n][1] \in Kinds /\ c.events[n][2] \in Nat
          /\ c.reserved \in Nat /\ c.async_counter \in {0, 1}
          /\ \A i \in DOMAIN c.props :
               LET q == c.props[i]
               IN /\ q.name \in Props /\ q.value \in Values /\ q.ret \subseteq Values
                  /\ {q.change_ts, q.value_ts, q.ret_ts} \subseteq Nat
                  /\ q.ret_ts <= q.change_ts /\ q.value_ts <= q.change_ts
          /\ ~c.destroying => c.cur \in 1 .. Len(c.props) + 1
          /\ c.user \in {"idle", "check", "wait", "sleep", "woken", "continue", "leave",
                         "remove", "quit", "getthread", "stop", "join", "gone"}
          /\ c.joiner \in {"idle", "check", "wait", "sleep", "woken"}
  /\ core.pc \in {"loop", "send", "fetch", "store", "process", "exit"}
  /\ core.mode \in {"play", "hook", "shutdown"}
  /\ \A n \in DOMAIN items : items[n] \in Handles \X {"get", "cmd"}
  /\ running \in Seq(Handles)

\* A client sees the broadcast events in order and without a gap, unless it is choked:
\* then, and only then, it is told of an overflow once its queue is empty (send_event(),
\* mpv_wait_event()).  And a reply never finds the queue full: the places that
\* reserve_reply() took are one for every request that is not answered.
EventPlaces(c) == {n \in DOMAIN c.events : c.events[n][1] = "event"}
InOrder(c) == \A m, n \in EventPlaces(c) : m < n => c.events[m][2] < c.events[n][2]
NoGap(c) == \E last \in c.told .. c.sent :
              /\ {c.events[n][2] : n \in EventPlaces(c)} = c.told + 1 .. last
              /\ last # c.sent => c.choked
NothingLostUntold ==
  \A h \in Listed :
    LET c == client[h]
    IN /\ InOrder(c) /\ NoGap(c)
       /\ c.reserved = Outstanding(h)
       /\ Len(c.events) + c.reserved <= MaxEvents

\* A handle is freed when nothing uses it any more: no request that will be answered,
\* and not the core thread, which reads a property for it without its lock
\* (mp_destroy_client(), send_client_property_changes()).
HandlesOutliveUse ==
  /\ \A n \in DOMAIN items : items[n][1] \in Listed
  /\ \A n \in DOMAIN running : running[n] \in Listed
  /\ core.pc \in {"fetch", "store"} => core.reads \in Listed
  /\ \A h \in Handles \ Listed : client[h].async_counter = 0 /\ client[h].reserved = 0

\* When the core and a client both sleep, the client has seen everything: every event,
\* every overflow, and the last value of every property it observes.  Except for a change
\* that another thread makes while the core reads the property (Stored), and if another
\* thread waits for the same handle (mpv_wait_async_requests() takes the wakeups too).
\* And except for a hook that waits for a property which is unobserved meanwhile: nothing
\* wakes the client to take it (mpv_unobserve_property()).
\* And when a client gets a hook, it was told of every property change from before the
\* hook was started (set_wait_for_hook_flags()).
AtRest == core.pc = "process" /\ ~core.woken /\ items = <<>> /\ running = <<>>
Sleeps(c) == ~c.destroying /\ (c.user = "sleep" \/ (c.user = "idle" /\ c.polls /\ ~c.called))
SleepersAreCurrent ==
  AtRest => \A h \in Listed \ setup.joining :
    LET c == client[h]
    IN Sleeps(c) => /\ c.orphaned \/ (c.events = <<>> /\ ~c.choked)
                    /\ \A i \in DOMAIN c.props :
                         LET q == c.props[i]
                         IN q.ret_ts = q.change_ts /\ (q.swallowed \/ q.ret = {value[q.name]})

HooksComeAfterChanges ==
  \A h \in Listed : client[h].user = "continue" =>
    \A i \in DOMAIN client[h].props : client[h].props[i].ret_ts >= client[h].props[i].hook_ts

\* What a client is owed it gets: no event is lost without a word, and whoever sleeps or
\* handles a hook knows what there was to know.
ClientsMissNothing ==
  /\ NothingLostUntold
  /\ SleepersAreCurrent
  /\ HooksComeAfterChanges

\* When the player quits, the clients are told, leave, the core thread ends and the one
\* terminator returns from mp_destroy_client(), also if several handles call
\* mpv_terminate_destroy(), or one does while strong handles remain.  Except that the core,
\* which tries again whenever it runs, but not for more than two seconds by itself, may not be able to tell
\* a client, because its queue is full.
NotTold(h) == AtRest /\ ~core.patient /\ ~client[h].masked
PlayerEnds ==
  core.stop_play ~> \/ /\ core.pc = "exit" /\ Listed = {}
                       /\ \A h \in Handles : client[h].user \in {"gone", "idle"}
                    \/ \E h \in Listed : NotTold(h)
================================================================================
