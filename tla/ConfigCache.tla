----------------------------- MODULE ConfigCache -----------------------------
(***************************************************************************)
(* options/m_config_core.c: the global option values (m_config_shadow) and *)
(* the copies of them that threads own (m_config_cache).  A writer bumps   *)
(* the time stamp of the option's group under shadow->lock; a reader       *)
(* compares stamps, the first time without the lock, and copies what       *)
(* differs.  A listening cache is told of changes through a callback that  *)
(* its thread's dispatch queue runs (m_config_cache_set_dispatch_change_cb;*)
(* Dispatch models that queue, here a pending notification is enough).     *)
(***************************************************************************)
EXTENDS Integers, FiniteSets

CONSTANTS UpdateCaches, \* caches read with m_config_cache_update()
          NextCaches,   \* caches read with m_config_cache_get_next_changed()
          NumGroups,    \* shadow->num_groups
          OptCount,     \* group -> number of its options
          Start,        \* cache -> its first group
          GroupCount,   \* cache -> number of its groups
          Values, Default, None,
          MaxTs         \* bound on the number of changes

Caches == UpdateCaches \union NextCaches
Groups == 0 .. NumGroups - 1
Opts   == UNION {{g} \X (0 .. OptCount[g] - 1) : g \in Groups}
Owned(c) == Start[c] .. Start[c] + GroupCount[c] - 1

ASSUME CachesAssumption == /\ UpdateCaches \intersect NextCaches = {}
                           /\ None \notin Caches
                           /\ None \notin Groups \X Nat  \* the -1 of upd_group
ASSUME GroupsAssumption == /\ NumGroups \in Nat \ {0}
                           /\ OptCount \in [Groups -> Nat]
                           /\ Start \in [Caches -> Groups]
                           /\ GroupCount \in [Caches -> Nat \ {0}]
                           /\ \A c \in Caches : Owned(c) \subseteq Groups
ASSUME ValuesAssumption == Default \in Values /\ MaxTs \in Nat

VARIABLES value,     \* option -> value                   (shadow->data)
          stamp,     \* group -> time stamp               (its gdata[].ts)
          shadowTs,  \* shadow->ts, read without the lock
          lock,      \* shadow->lock, where it is held over several steps
          listening, \* shadow->listeners
          copy,      \* cache -> option -> value          (in->data)
          copyTs,    \* cache -> group -> time stamp
          ts,        \* cache -> in->ts
          upd,       \* cache -> <<upd_group, upd_opt>>, or None
          notified,  \* caches whose callback is queued on their thread
          pc,
          missed,    \* ghost: was not told of a change, by its own choice
          raced      \* ghost: a change was made between check and lock

vars == <<value, stamp, shadowTs, lock, listening, copy, copyTs, ts, upd,
          notified, pc, missed, raced>>

Init == /\ value = [o \in Opts |-> Default]
        /\ stamp = [g \in Groups |-> 0]
        /\ shadowTs = 0
        /\ lock = None
        /\ listening = Caches
        /\ copy = [c \in Caches |-> value]
        /\ copyTs = [c \in Caches |-> stamp]
        /\ ts = [c \in Caches |-> 0]
        /\ upd = [c \in Caches |-> None]
        /\ notified = {}
        /\ pc = [c \in Caches |-> "idle"]
        /\ missed = {}
        /\ raced = {}
-----------------------------------------------------------------------------
\* m_config_gdata(in->data, group) != NULL
Covers(c, g) == g \in Owned(c)

\* Listeners hear of every group they have a copy of.
HearsRoot(d, g) == d \in listening /\ g = Start[d]
Hears(d, g) == d \in listening /\ Covers(d, g)

\* atomic_fetch_add(&shadow->ts, 1) + 1
StampBefore == shadowTs
NewStamp == shadowTs + 1

\* m_config_cache_write_opt(): the owner has put v into its own copy before.  The
\* new time is visible to m_config_cache_update() before the listeners are told.
WriteOpt(c, o, v) ==
  /\ pc[c] \in (IF c \in NextCaches THEN {"idle", "check"} ELSE {"idle"})
  /\ lock = None
  /\ Covers(c, o[1])
  /\ copy' = [copy EXCEPT ![c][o] = v]
  /\ IF value[o] = v
       THEN UNCHANGED <<value, stamp, shadowTs, lock, pc, missed, raced>>
       ELSE /\ shadowTs < MaxTs
            /\ value' = [value EXCEPT ![o] = v]
            /\ stamp' = [stamp EXCEPT ![o[1]] = NewStamp]
            /\ shadowTs' = shadowTs + 1
            /\ lock' = c
            /\ pc' = [pc EXCEPT ![c] = IF pc[c] = "idle" THEN "notify" ELSE "notifynext"]
            /\ missed' = missed \union {d \in Caches \ listening : Covers(d, o[1])}
            /\ raced' = raced \union {d \in NextCaches : pc[d] = "lock" /\ Covers(d, o[1])}
  /\ UNCHANGED <<listening, copyTs, ts, upd, notified>>

\* The loop over the listeners; mp_dispatch_enqueue_notify() merges.  The group
\* written last is the one with the newest stamp.
NotifyListeners(c) ==
  /\ pc[c] \in {"notify", "notifynext"}
  /\ \E g \in Groups : /\ stamp[g] = shadowTs
                       /\ notified' = notified \union {d \in Caches : Hears(d, g)}
  /\ lock' = None
  /\ pc' = [pc EXCEPT ![c] = IF pc[c] = "notify" THEN "idle" ELSE "check"]
  /\ UNCHANGED <<value, stamp, shadowTs, listening, copy, copyTs, ts, upd, missed, raced>>

\* The dispatch queue runs the callback, or the thread looks by itself.
Dispatched(c) == /\ pc[c] = "idle" /\ c \in notified
                 /\ notified' = notified \ {c}
                 /\ pc' = [pc EXCEPT ![c] = "check"]
                 /\ UNCHANGED <<value, stamp, shadowTs, lock, listening, copy,
                                copyTs, ts, upd, missed, raced>>

Poll(c) == /\ pc[c] = "idle"
           /\ pc' = [pc EXCEPT ![c] = "check"]
           /\ UNCHANGED <<value, stamp, shadowTs, lock, listening, copy, copyTs,
                          ts, upd, notified, missed, raced>>

\* cache_check_update(), without the lock.  get_next_changed() goes on with an
\* iteration that has not ended.
CacheCheckUpdate(c) ==
  /\ pc[c] = "check"
  /\ IF ts[c] >= shadowTs
       THEN /\ pc' = [pc EXCEPT ![c] = IF c \in NextCaches /\ upd[c] # None
                                       THEN "lock" ELSE "idle"]
            /\ UNCHANGED <<ts, upd>>
       ELSE /\ pc' = [pc EXCEPT ![c] = "lock"]
            /\ ts' = [ts EXCEPT ![c] = shadowTs]
            /\ upd' = [upd EXCEPT ![c] = <<Start[c], 0>>]
  /\ UNCHANGED <<value, stamp, shadowTs, lock, listening, copy, copyTs, notified,
                 missed, raced>>

\* The options update_next_option() still finds changed, first groups first.
Before(o, p) == o[1] < p[1] \/ (o[1] = p[1] /\ o[2] < p[2])
Stale(c, g) == copyTs[c][g] < stamp[g]

\* gdst->ts = gsrc->ts
SyncedTs(g) == stamp[g]

Changed(c) == {o \in Opts : /\ Covers(c, o[1]) /\ ~Before(o, upd[c])
                            /\ Stale(c, o[1])
                            /\ copy[c][o] # value[o]}
Current(c) == \A o \in Opts : Covers(c, o[1]) => copy[c][o] = value[o]

\* m_config_cache_update(): update_next_option() until nothing is left.
Update(c) ==
  /\ c \in UpdateCaches /\ pc[c] = "lock" /\ lock = None
  /\ copy' = [copy EXCEPT ![c] = [o \in Opts |-> IF o \in Changed(c) THEN value[o] ELSE @[o]]]
  /\ copyTs' = [copyTs EXCEPT ![c] = [g \in Groups |-> IF Covers(c, g) THEN SyncedTs(g) ELSE @[g]]]
  /\ upd' = [upd EXCEPT ![c] = None]
  /\ pc' = [pc EXCEPT ![c] = "idle"]
  /\ missed' = missed \ {c}
  /\ UNCHANGED <<value, stamp, shadowTs, lock, listening, ts, notified, raced>>

\* m_config_cache_get_next_changed() finds another option: the groups passed on
\* the way are up to date, and the caller asks again.
PassedOne(c, o, g) == upd[c][1] <= g /\ g <= o[1]
Passed(c, o, g) == upd[c][1] <= g /\ g < o[1]

NextGroup(o) == <<o[1] + 1, 0>>
NextPos(o) == <<o[1], o[2] + 1>>

NextChanged(c) ==
  /\ c \in NextCaches /\ pc[c] = "lock" /\ lock = None
  /\ \E o \in Changed(c) :
       /\ \A p \in Changed(c) : ~Before(p, o)
       /\ copy' = [copy EXCEPT ![c][o] = value[o]]
       /\ copyTs' = [copyTs EXCEPT ![c] =
                       [g \in Groups |-> IF Covers(c, g) /\ Passed(c, o, g)
                                         THEN SyncedTs(g) ELSE @[g]]]
       /\ upd' = [upd EXCEPT ![c] = NextPos(o)]
  /\ pc' = [pc EXCEPT ![c] = "check"]
  /\ UNCHANGED <<value, stamp, shadowTs, lock, listening, ts, notified, missed, raced>>

\* It finds none: false is returned, and the iteration is over.
NoneChanged(c) ==
  /\ c \in NextCaches /\ pc[c] = "lock" /\ lock = None
  /\ Changed(c) = {}
  /\ copyTs' = [copyTs EXCEPT ![c] = [g \in Groups |-> IF Covers(c, g) /\ upd[c][1] <= g
                                                       THEN SyncedTs(g) ELSE @[g]]]
  /\ upd' = [upd EXCEPT ![c] = None]
  /\ pc' = [pc EXCEPT ![c] = "idle"]
  /\ missed' = IF Current(c) THEN missed \ {c} ELSE missed
  /\ raced'  = IF Current(c) THEN raced \ {c} ELSE raced
  /\ UNCHANGED <<value, stamp, shadowTs, lock, listening, copy, ts, notified>>

\* m_config_cache_set_dispatch_change_cb(NULL): no new notifications first, then
\* the queued one is removed.  Both run on the thread of the cache.
Listen(c) == /\ pc[c] = "idle" /\ lock = None
             /\ c \notin listening
             /\ listening' = listening \union {c}
             /\ UNCHANGED <<value, stamp, shadowTs, lock, copy, copyTs, ts, upd,
                            notified, pc, missed, raced>>

RemoveListener(c) == /\ pc[c] = "idle" /\ lock = None
                     /\ c \in listening
                     /\ listening' = listening \ {c}
                     /\ pc' = [pc EXCEPT ![c] = "cancel"]
                     /\ UNCHANGED <<value, stamp, shadowTs, lock, copy, copyTs, ts,
                                    upd, notified, missed, raced>>

NotCancelled(c) == notified
Cancelled(c) == notified \ {c}
CancelPending(c) == /\ pc[c] = "cancel"
                    /\ notified' = Cancelled(c)
                    /\ missed' = missed \union (notified \intersect {c})
                    /\ pc' = [pc EXCEPT ![c] = "idle"]
                    /\ UNCHANGED <<value, stamp, shadowTs, lock, listening, copy,
                                   copyTs, ts, upd, raced>>
-----------------------------------------------------------------------------
Finish(c) == \/ NotifyListeners(c) \/ Dispatched(c) \/ CacheCheckUpdate(c)
             \/ Update(c) \/ NextChanged(c) \/ NoneChanged(c) \/ CancelPending(c)

Next == \E c \in Caches :
          \/ \E o \in Opts, v \in Values : WriteOpt(c, o, v)
          \/ Poll(c) \/ Listen(c) \/ RemoveListener(c)
          \/ Finish(c)

Spec == Init /\ [][Next]_vars
-----------------------------------------------------------------------------
Position == {None} \union (Groups \X Nat)

TypeOK == /\ value \in [Opts -> Values]
          /\ stamp \in [Groups -> Nat]
          /\ shadowTs \in Nat
          /\ lock \in Caches \union {None}
          /\ listening \subseteq Caches
          /\ copy \in [Caches -> [Opts -> Values]]
          /\ copyTs \in [Caches -> [Groups -> Nat]]
          /\ ts \in [Caches -> Nat]
          /\ upd \in [Caches -> Position]
          /\ notified \subseteq Caches
          /\ pc \in [Caches -> {"idle", "notify", "notifynext", "check", "lock", "cancel"}]
          /\ missed \subseteq Caches
          /\ raced \subseteq NextCaches

\* Equal stamps mean equal data: gdst->ts < gsrc->ts is the only thing
\* update_next_option() looks at before it skips a group.
StampTellsData ==
  \A c \in UpdateCaches, o \in Opts :
    Covers(c, o[1]) /\ ~Stale(c, o[1]) => copy[c][o] = value[o]

\* A thread that is neither reading nor about to be told has all changes, those
\* made before it listened aside.
Settled(c) == pc[c] = "idle" /\ c \notin notified /\ lock = None /\ c \notin missed
UpdateSeesAll == \A c \in UpdateCaches : Settled(c) => Current(c)

\* After the callback was unset nothing calls it any more, although its context
\* may be gone (m_config_core.h: clean shutdown of the dispatch queue).
NoLateCallback == \A c \in Caches :
  pc[c] # "cancel" /\ c \notin listening => c \notin notified

\* m_config_cache_get_next_changed() loses a change at most when it was made
\* between the unlocked check and the lock of an iteration.
NextLosesOnlyRaces == \A c \in NextCaches : Settled(c) /\ c \notin raced => Current(c)
=============================================================================
