-------------------------- MODULE ConfigCacheProofs --------------------------
(***************************************************************************)
(* Theorems about ConfigCache for any number of caches, groups, options    *)
(* and changes.                                                            *)
(*                                                                         *)
(* StampTellsData rests on the order of the stamps (a cache is never ahead *)
(* of the shadow, StampOrder) and on an update that starts over with the   *)
(* cache's first group (StartsOver).  UpdateSeesAll says of a cache at     *)
(* rest what StaleIsKnown says of it wherever it is: each group that is    *)
(* stale will be read, or told of.  NextLosesOnlyRaces needs the same of   *)
(* each option that differs, as an iteration gives equal stamps to groups  *)
(* it has passed, and is itself where the next call goes on (IterInv).     *)
(***************************************************************************)
EXTENDS ConfigCache, TLAPS

(* Options are pairs of their group and their number in it.                *)
LEMMA OptsArePairs == \A o \in Opts : o \in Groups \X Nat
  BY GroupsAssumption DEF Opts, Groups

LEMMA PairsEqual ==
  ASSUME NEW S, NEW T, NEW x \in S \X T, NEW y \in S \X T, x[1] = y[1], x[2] = y[2]
  PROVE  x = y
  OBVIOUS

LEMMA FarBehind ==
  ASSUME NEW i \in Nat, NEW j \in Nat, NEW k \in Nat, NEW l \in Nat,
         ~(i < k), ~(i = k /\ j < l), i # k \/ j # l
  PROVE  i > k \/ (i = k /\ j > l)
  OBVIOUS

LEMMA FirstPosition == \A c \in Caches : <<Start[c], 0>> \in Groups \X Nat
  BY GroupsAssumption

(* The stamps only grow, and a cache gets its stamps from the shadow.      *)
StampOrder == /\ \A g \in Groups : stamp[g] <= shadowTs
              /\ \A c \in Caches, g \in Groups : copyTs[c][g] <= stamp[g]

(* Between check and lock, m_config_cache_update() is at the first group.  *)
StartsOver == \A c \in UpdateCaches : pc[c] = "lock" => upd[c] = <<Start[c], 0>>

DataInv == TypeOK /\ StampOrder /\ StartsOver /\ StampTellsData
-----------------------------------------------------------------------------
LEMMA TypeInit == Init => TypeOK
  BY CachesAssumption, GroupsAssumption, ValuesAssumption DEF Init, TypeOK, Position

LEMMA TypeNext == TypeOK /\ [Next]_vars => TypeOK'
<1> SUFFICES ASSUME TypeOK, [Next]_vars PROVE TypeOK'
  OBVIOUS
<1> USE DEF TypeOK
<1>1. ASSUME NEW c \in Caches, NEW o \in Opts, NEW v \in Values, WriteOpt(c, o, v)
      PROVE  TypeOK'
  <2>1. copy' \in [Caches -> [Opts -> Values]]
    BY <1>1 DEF WriteOpt
  <2>2. UNCHANGED <<listening, copyTs, ts, upd, notified>>
    BY <1>1 DEF WriteOpt
  <2>3. CASE value[o] = v
    BY <1>1, <2>1, <2>2, <2>3 DEF WriteOpt
  <2>4. CASE value[o] # v
    <3>1. /\ value' = [value EXCEPT ![o] = v]
          /\ stamp' = [stamp EXCEPT ![o[1]] = shadowTs + 1]
          /\ shadowTs' = shadowTs + 1
          /\ lock' = c
      BY <1>1, <2>4 DEF WriteOpt, NewStamp
    <3>2. /\ pc' \in [Caches -> {"idle", "notify", "notifynext", "check", "lock", "cancel"}]
          /\ missed' \subseteq Caches
          /\ raced' \subseteq NextCaches
      BY <1>1, <2>4 DEF WriteOpt
    <3>3. value' \in [Opts -> Values]
      BY <3>1
    <3>4. shadowTs' \in Nat
      BY <3>1
    <3>5. stamp' \in [Groups -> Nat]
      BY <3>1, <3>4
    <3>6. QED
      BY <2>1, <2>2, <3>1, <3>2, <3>3, <3>4, <3>5
  <2>5. QED
    BY <2>3, <2>4
<1>2. ASSUME NEW c \in Caches, Poll(c) \/ Listen(c) \/ RemoveListener(c) \/ CancelPending(c)
      PROVE  TypeOK'
  BY <1>2 DEF Poll, Listen, RemoveListener, CancelPending, Cancelled
<1>3. ASSUME NEW c \in Caches, NotifyListeners(c) \/ Dispatched(c)
      PROVE  TypeOK'
  BY <1>3 DEF NotifyListeners, Dispatched
<1>4. ASSUME NEW c \in Caches, CacheCheckUpdate(c)
      PROVE  TypeOK'
  BY <1>4, FirstPosition DEF CacheCheckUpdate, Position
<1>5. ASSUME NEW c \in Caches, Update(c)
      PROVE  TypeOK'
  <2>1. /\ copy' \in [Caches -> [Opts -> Values]]
        /\ copyTs' \in [Caches -> [Groups -> Nat]]
    BY <1>5 DEF Update, SyncedTs
  <2>2. QED
    BY <1>5, <2>1 DEF Update, Position
<1>6. ASSUME NEW c \in Caches, NextChanged(c)
      PROVE  TypeOK'
  <2>1. PICK o \in Changed(c) :
          /\ copy' = [copy EXCEPT ![c][o] = value[o]]
          /\ copyTs' = [copyTs EXCEPT ![c] =
                          [g \in Groups |-> IF Covers(c, g) /\ Passed(c, o, g)
                                            THEN SyncedTs(g) ELSE @[g]]]
          /\ upd' = [upd EXCEPT ![c] = NextPos(o)]
    BY <1>6 DEF NextChanged
  <2>2. o \in Opts
    BY DEF Changed
  <2>3. NextPos(o) \in Groups \X Nat
    BY <2>2, OptsArePairs DEF NextPos
  <2>4. copyTs' \in [Caches -> [Groups -> Nat]]
    BY <2>1 DEF SyncedTs
  <2>5. QED
    BY <1>6, <2>1, <2>2, <2>3, <2>4 DEF NextChanged, Position
<1>7. ASSUME NEW c \in Caches, NoneChanged(c)
      PROVE  TypeOK'
  <2>1. copyTs' \in [Caches -> [Groups -> Nat]]
    BY <1>7 DEF NoneChanged, SyncedTs
  <2>2. QED
    BY <1>7, <2>1 DEF NoneChanged, Position
<1>8. CASE UNCHANGED vars
  BY <1>8 DEF vars
<1>9. QED
  BY <1>1, <1>2, <1>3, <1>4, <1>5, <1>6, <1>7, <1>8 DEF Next, Finish
-----------------------------------------------------------------------------
LEMMA DataInit == Init => DataInv
<1> SUFFICES ASSUME Init PROVE DataInv
  OBVIOUS
<1>1. TypeOK
  BY TypeInit
<1>2. StampOrder
  BY GroupsAssumption DEF Init, StampOrder
<1>3. StartsOver
  BY DEF Init, StartsOver, Caches
<1>4. StampTellsData
  BY DEF Init, StampTellsData, Caches
<1>5. QED
  BY <1>1, <1>2, <1>3, <1>4 DEF DataInv

(* A step that leaves the values, the copies and all stamps alone.         *)
LEMMA DataUntouched ==
  ASSUME DataInv, TypeOK', StartsOver',
         UNCHANGED <<value, stamp, shadowTs, copy, copyTs>>
  PROVE  DataInv'
  BY DEF DataInv, StampOrder, StampTellsData, Stale

(* A write: the group's stamp is newer than that of any copy, the writer's *)
(* own copy included, unless the value stays as it was.                    *)
LEMMA WriteKeepsData ==
  ASSUME DataInv, TypeOK', NEW c \in Caches, NEW o \in Opts, NEW v \in Values, WriteOpt(c, o, v)
  PROVE  DataInv'
<1> USE DEF DataInv, TypeOK
<1>1. /\ copy' = [copy EXCEPT ![c][o] = v]
      /\ UNCHANGED <<copyTs, upd>>
  BY DEF WriteOpt
<1>2. CASE value[o] = v
  <2>1. UNCHANGED <<value, stamp, shadowTs, pc>>
    BY <1>2 DEF WriteOpt
  <2>2. StampOrder' /\ StartsOver'
    BY <1>1, <2>1 DEF StampOrder, StartsOver
  <2>3. StampTellsData'
    BY <1>1, <1>2, <2>1 DEF StampTellsData, Stale, Caches
  <2>4. QED
    BY <2>2, <2>3
<1>3. CASE value[o] # v
  <2>1. /\ value' = [value EXCEPT ![o] = v]
        /\ stamp' = [stamp EXCEPT ![o[1]] = shadowTs + 1]
        /\ shadowTs' = shadowTs + 1
        /\ pc' = [pc EXCEPT ![c] = IF pc[c] = "idle" THEN "notify" ELSE "notifynext"]
    BY <1>3 DEF WriteOpt, NewStamp
  <2>2. \A g \in Groups : stamp'[g] = IF g = o[1] THEN shadowTs + 1 ELSE stamp[g]
    BY <2>1
  <2>3. StampOrder'
    BY <1>1, <2>1, <2>2 DEF StampOrder
  <2>4. StartsOver'
    BY <1>1, <2>1 DEF StartsOver, Caches
  <2>5. StampTellsData'
    <3> SUFFICES ASSUME NEW d \in UpdateCaches, NEW p \in Opts, Covers(d, p[1]), ~Stale(d, p[1])'
                 PROVE  copy'[d][p] = value'[p]
      BY DEF StampTellsData, Covers, Owned
    <3>1. p[1] \in Groups /\ d \in Caches
      BY OptsArePairs DEF Caches
    <3>2. copyTs[d][p[1]] <= stamp[p[1]] /\ stamp[p[1]] <= shadowTs
      BY <3>1 DEF StampOrder
    <3>3. copyTs[d][p[1]] \in Nat /\ stamp[p[1]] \in Nat
      BY <3>1
    <3>4. p[1] # o[1]
      BY <1>1, <2>2, <3>1, <3>2, <3>3 DEF Stale
    <3>5. ~Stale(d, p[1])
      BY <1>1, <2>2, <3>1, <3>4 DEF Stale
    <3>6. copy[d][p] = value[p]
      BY <3>5 DEF StampTellsData
    <3>7. QED
      BY <1>1, <2>1, <3>4, <3>6
  <2>6. QED
    BY <2>3, <2>4, <2>5
<1>4. QED
  BY <1>2, <1>3

(* m_config_cache_update() makes every covered group equal: it passes all  *)
(* options, and those it does not copy have the value already.             *)
LEMMA UpdateMakesCurrent ==
  ASSUME DataInv, NEW c \in Caches, Update(c)
  PROVE  /\ \A o \in Opts : Covers(c, o[1]) => copy'[c][o] = value[o]
         /\ \A g \in Groups : copyTs'[c][g] = IF Covers(c, g) THEN stamp[g] ELSE copyTs[c][g]
         /\ \A d \in Caches \ {c} : copy'[d] = copy[d] /\ copyTs'[d] = copyTs[d]
<1> USE DEF DataInv, TypeOK
<1>1. /\ copy' = [copy EXCEPT ![c] = [o \in Opts |-> IF o \in Changed(c) THEN value[o] ELSE @[o]]]
      /\ copyTs' = [copyTs EXCEPT ![c] = [g \in Groups |-> IF Covers(c, g) THEN stamp[g] ELSE @[g]]]
      /\ c \in UpdateCaches /\ pc[c] = "lock"
  BY DEF Update, SyncedTs
<1>2. ASSUME NEW o \in Opts, Covers(c, o[1])
      PROVE  copy'[c][o] = value[o]
  <2>1. upd[c] = <<Start[c], 0>>
    BY <1>1 DEF StartsOver
  <2>2. Start[c] \in Nat /\ GroupCount[c] \in Nat
    BY GroupsAssumption DEF Groups
  <2>3. o[1] \in Nat /\ o[2] \in Nat /\ o[1] >= Start[c]
    BY <1>2, <2>2, OptsArePairs DEF Covers, Owned, Groups
  <2>4. ~Before(o, upd[c])
    BY <2>1, <2>2, <2>3 DEF Before
  <2>5. o \in Changed(c) \/ copy[c][o] = value[o]
    BY <1>1, <1>2, <2>4 DEF Changed, StampTellsData
  <2>6. QED
    BY <1>1, <2>5
<1>3. \A d \in Caches \ {c} : copy'[d] = copy[d] /\ copyTs'[d] = copyTs[d]
  BY <1>1
<1>4. copyTs'[c] = [g \in Groups |-> IF Covers(c, g) THEN stamp[g] ELSE copyTs[c][g]]
  BY <1>1
<1>5. QED
  BY <1>2, <1>3, <1>4

(* An iteration copies stamps of groups, of its own cache only.            *)
LEMMA IterationKeepsData ==
  ASSUME DataInv, TypeOK', NEW c \in Caches, NextChanged(c) \/ NoneChanged(c)
  PROVE  DataInv'
<1> USE DEF DataInv, TypeOK
<1>1. /\ c \in NextCaches /\ c \notin UpdateCaches
      /\ UNCHANGED <<value, stamp, shadowTs>>
      /\ \A d \in Caches \ {c} : copy'[d] = copy[d] /\ copyTs'[d] = copyTs[d] /\ upd'[d] = upd[d]
      /\ \A d \in Caches \ {c} : pc'[d] = pc[d]
  BY CachesAssumption DEF NextChanged, NoneChanged
<1>2. \A g \in Groups : copyTs'[c][g] = copyTs[c][g] \/ copyTs'[c][g] = stamp[g]
  <2>1. CASE NextChanged(c)
    <3>1. PICK o \in Changed(c) :
            copyTs' = [copyTs EXCEPT ![c] = [g \in Groups |-> IF Covers(c, g) /\ Passed(c, o, g)
                                                             THEN stamp[g] ELSE @[g]]]
      BY <2>1 DEF NextChanged, SyncedTs
    <3>2. copyTs'[c] = [g \in Groups |-> IF Covers(c, g) /\ Passed(c, o, g)
                                          THEN stamp[g] ELSE copyTs[c][g]]
      BY <3>1
    <3>3. QED
      BY <3>2
  <2>2. CASE NoneChanged(c)
    <3>1. copyTs'[c] = [g \in Groups |-> IF Covers(c, g) /\ upd[c][1] <= g
                                          THEN stamp[g] ELSE copyTs[c][g]]
      BY <2>2 DEF NoneChanged, SyncedTs
    <3>2. QED
      BY <3>1
  <2>3. QED
    BY <2>1, <2>2
<1>3. StampOrder'
  <2>1. ASSUME NEW d \in Caches, NEW g \in Groups PROVE copyTs'[d][g] <= stamp[g]
    <3>1. copyTs'[d][g] = copyTs[d][g] \/ copyTs'[d][g] = stamp[g]
      BY <1>1, <1>2
    <3>2. copyTs[d][g] <= stamp[g] /\ stamp[g] \in Nat
      BY DEF StampOrder
    <3>3. QED
      BY <3>1, <3>2
  <2>2. QED
    BY <1>1, <2>1 DEF StampOrder
<1>4. StartsOver'
  BY <1>1 DEF StartsOver, Caches
<1>5. StampTellsData'
  BY <1>1 DEF StampTellsData, Stale, Covers, Owned, Caches
<1>6. QED
  BY <1>3, <1>4, <1>5

LEMMA DataNext == DataInv /\ [Next]_vars => DataInv'
<1> SUFFICES ASSUME DataInv, [Next]_vars PROVE DataInv'
  OBVIOUS
<1>0. TypeOK /\ TypeOK'
  BY TypeNext DEF DataInv
<1>1. ASSUME NEW c \in Caches, NEW o \in Opts, NEW v \in Values, WriteOpt(c, o, v)
      PROVE  DataInv'
  BY <1>0, <1>1, WriteKeepsData
<1>2. ASSUME NEW c \in Caches,
             \/ Poll(c) \/ Listen(c) \/ RemoveListener(c) \/ CancelPending(c)
             \/ NotifyListeners(c) \/ Dispatched(c)
      PROVE  DataInv'
  <2>1. UNCHANGED <<value, stamp, shadowTs, copy, copyTs, upd>>
    BY <1>2 DEF Poll, Listen, RemoveListener, CancelPending, NotifyListeners, Dispatched
  <2>2. \A d \in Caches : pc'[d] = "lock" => pc[d] = "lock"
    BY <1>0, <1>2 DEF TypeOK, Poll, Listen, RemoveListener, CancelPending, NotifyListeners,
                      Dispatched
  <2>3. StartsOver'
    BY <2>1, <2>2 DEF DataInv, StartsOver, Caches
  <2>4. QED
    BY <1>0, <2>1, <2>3, DataUntouched
<1>3. ASSUME NEW c \in Caches, CacheCheckUpdate(c)
      PROVE  DataInv'
  <2>1. UNCHANGED <<value, stamp, shadowTs, copy, copyTs>>
    BY <1>3 DEF CacheCheckUpdate
  <2>2. StartsOver'
    BY <1>0, <1>3, CachesAssumption DEF CacheCheckUpdate, TypeOK, DataInv, StartsOver, Caches
  <2>3. QED
    BY <1>0, <2>1, <2>2, DataUntouched
<1>4. ASSUME NEW c \in Caches, Update(c)
      PROVE  DataInv'
  <2>1. /\ UNCHANGED <<value, stamp, shadowTs>>
        /\ pc' = [pc EXCEPT ![c] = "idle"]
        /\ upd' = [upd EXCEPT ![c] = None]
    BY <1>4 DEF Update
  <2>2. StampOrder'
    <3>1. ASSUME NEW d \in Caches, NEW g \in Groups PROVE copyTs'[d][g] <= stamp[g]
      <4>1. copyTs'[d] = copyTs[d] \/ copyTs'[d][g] = copyTs[d][g] \/ copyTs'[d][g] = stamp[g]
        BY <1>4, UpdateMakesCurrent
      <4>2. copyTs[d][g] <= stamp[g] /\ stamp[g] \in Nat
        BY <1>0 DEF DataInv, StampOrder, TypeOK
      <4>3. QED
        BY <4>1, <4>2
    <3>2. QED
      BY <2>1, <3>1 DEF DataInv, StampOrder
  <2>3. StartsOver'
    BY <1>0, <2>1 DEF DataInv, StartsOver, TypeOK, Caches
  <2>4. StampTellsData'
    BY <1>4, <2>1, UpdateMakesCurrent DEF DataInv, StampTellsData, Stale, Covers, Owned, Caches
  <2>5. QED
    BY <1>0, <2>2, <2>3, <2>4 DEF DataInv
<1>5. ASSUME NEW c \in Caches, NextChanged(c) \/ NoneChanged(c)
      PROVE  DataInv'
  BY <1>0, <1>5, IterationKeepsData
<1>6. CASE UNCHANGED vars
  BY <1>0, <1>6, DataUntouched DEF vars, DataInv, StartsOver
<1>7. QED
  BY <1>1, <1>2, <1>3, <1>4, <1>5, <1>6 DEF Next, Finish

(* The fields of the shadow and of the caches keep their types.            *)
THEOREM ConfigTypeOK == Spec => []TypeOK
  BY TypeInit, TypeNext, PTL DEF Spec

(* The four facts about stamps and data are inductive.                     *)
THEOREM DataInvariant == Spec => []DataInv
  BY DataInit, DataNext, PTL DEF Spec

(* update_next_option() may skip a group whose stamps are equal: its data  *)
(* are.                                                                    *)
THEOREM EqualStampsEqualData == Spec => []StampTellsData
<1>1. DataInv => StampTellsData
  BY DEF DataInv
<1>2. QED
  BY <1>1, DataInvariant, PTL
-----------------------------------------------------------------------------
\* The writer that notifies has the lock, and the group it wrote is the only one
\* with the newest stamp.
OneNotifier ==
  /\ \A c \in Caches : pc[c] \in {"notify", "notifynext"} => lock = c
  /\ lock # None => \A g, h \in Groups : stamp[g] = shadowTs /\ stamp[h] = shadowTs => g = h

\* No cache has checked a time that has not come.
TsOrder == \A c \in Caches : ts[c] <= shadowTs

\* A stale group is newer than the last check, or is about to be read; and its
\* cache was told, or will be when the writer goes through the listeners.
WillBeSeen(c, g) == pc[c] = "lock" \/ ts[c] < stamp[g]
WillBeTold(c, g) == \/ c \in missed \/ c \in notified
                    \/ pc[c] \in {"check", "lock"}
                    \/ c \in listening /\ lock # None /\ stamp[g] = shadowTs
StaleIsKnown == \A c \in UpdateCaches, g \in Groups :
  Covers(c, g) /\ Stale(c, g) => WillBeSeen(c, g) /\ WillBeTold(c, g)

ReadInv == DataInv /\ OneNotifier /\ TsOrder /\ StaleIsKnown

LEMMA ReadInit == Init => ReadInv
<1> SUFFICES ASSUME Init PROVE ReadInv
  OBVIOUS
<1>1. DataInv
  BY DataInit
<1>2. OneNotifier
  BY DEF Init, OneNotifier
<1>3. TsOrder
  BY DEF Init, TsOrder
<1>4. StaleIsKnown
  BY DEF Init, StaleIsKnown, Stale, Caches
<1>5. QED
  BY <1>1, <1>2, <1>3, <1>4 DEF ReadInv

(* A write makes one group stale, and lists those that will be told.       *)
LEMMA WriteKeepsRead ==
  ASSUME ReadInv, DataInv', NEW c \in Caches, NEW o \in Opts, NEW v \in Values,
         WriteOpt(c, o, v)
  PROVE  ReadInv'
<1> USE DEF ReadInv, DataInv, TypeOK
<1>1. /\ lock = None /\ UNCHANGED <<listening, copyTs, ts, notified>>
      /\ pc[c] \in {"idle", "check"} /\ (c \notin NextCaches => pc[c] = "idle")
  BY DEF WriteOpt
<1>2. CASE value[o] = v
  <2>1. UNCHANGED <<stamp, shadowTs, lock, pc, missed>>
    BY <1>2 DEF WriteOpt
  <2>2. OneNotifier' /\ TsOrder'
    BY <1>1, <2>1 DEF OneNotifier, TsOrder
  <2>3. StaleIsKnown'
    BY <1>1, <2>1 DEF StaleIsKnown, Stale, Covers, Owned, WillBeSeen, WillBeTold
  <2>4. QED
    BY <2>2, <2>3
<1>3. CASE value[o] # v
  <2>1. /\ stamp' = [stamp EXCEPT ![o[1]] = shadowTs + 1]
        /\ shadowTs' = shadowTs + 1
        /\ lock' = c /\ lock' # None
        /\ pc' = [pc EXCEPT ![c] = IF pc[c] = "idle" THEN "notify" ELSE "notifynext"]
        /\ missed' = missed \union {d \in Caches \ listening : Covers(d, o[1])}
    BY <1>3, CachesAssumption DEF WriteOpt, NewStamp
  <2>2. \A g \in Groups : stamp'[g] = IF g = o[1] THEN shadowTs + 1 ELSE stamp[g]
    BY <2>1
  <2>3. \A g \in Groups : stamp[g] <= shadowTs /\ stamp[g] \in Nat
    BY DEF StampOrder
  <2>4. TsOrder'
    BY <1>1, <2>1 DEF TsOrder
  <2>5. OneNotifier'
    <3>1. ASSUME NEW d \in Caches, d # c PROVE pc'[d] \notin {"notify", "notifynext"}
      BY <1>1, <2>1, <3>1, CachesAssumption DEF OneNotifier
    <3>2. ASSUME NEW g \in Groups, stamp'[g] = shadowTs' PROVE g = o[1]
      BY <2>1, <2>2, <2>3, <3>2
    <3>3. QED
      BY <2>1, <3>1, <3>2 DEF OneNotifier
  <2>6. StaleIsKnown'
    <3> SUFFICES ASSUME NEW d \in UpdateCaches, NEW g \in Groups, Covers(d, g), Stale(d, g)'
                 PROVE  WillBeSeen(d, g)' /\ WillBeTold(d, g)'
      BY DEF StaleIsKnown, Covers, Owned
    <3>1. d \in Caches /\ (d = c => pc[c] = "idle")
      BY <1>1, CachesAssumption DEF Caches
    <3>2. CASE g = o[1]
      <4>1. ts[d] <= shadowTs /\ ts[d] \in Nat
        BY <3>1 DEF TsOrder
      <4>2. WillBeSeen(d, g)'
        BY <1>1, <2>1, <2>2, <3>2, <4>1 DEF WillBeSeen
      <4>3. WillBeTold(d, g)'
        BY <1>1, <2>1, <2>2, <3>1, <3>2 DEF WillBeTold, Covers, Owned
      <4>4. QED
        BY <4>2, <4>3
    <3>3. CASE g # o[1]
      <4>1. stamp'[g] = stamp[g] /\ Stale(d, g)
        BY <1>1, <2>2, <3>3 DEF Stale
      <4>2. WillBeSeen(d, g) /\ WillBeTold(d, g)
        BY <4>1 DEF StaleIsKnown
      <4>3. d # c => pc'[d] = pc[d]
        BY <2>1, <3>1
      <4>4. WillBeSeen(d, g)'
        BY <1>1, <3>1, <4>1, <4>2, <4>3 DEF WillBeSeen
      <4>5. WillBeTold(d, g)'
        BY <1>1, <2>1, <3>1, <4>2, <4>3 DEF WillBeTold
      <4>6. QED
        BY <4>4, <4>5
    <3>4. QED
      BY <3>2, <3>3
  <2>7. QED
    BY <2>4, <2>5, <2>6
<1>4. QED
  BY <1>2, <1>3

(* The listeners of the group written last are told.                       *)
LEMMA NotifyKeepsRead ==
  ASSUME ReadInv, DataInv', NEW c \in Caches, NotifyListeners(c)
  PROVE  ReadInv'
<1> USE DEF ReadInv, DataInv, TypeOK
<1>1. /\ UNCHANGED <<stamp, shadowTs, listening, copyTs, ts, missed>>
      /\ lock = c /\ lock # None /\ lock' = None
      /\ pc[c] \in {"notify", "notifynext"}
      /\ pc' = [pc EXCEPT ![c] = IF pc[c] = "notify" THEN "idle" ELSE "check"]
  BY CachesAssumption DEF NotifyListeners, OneNotifier
<1>2. PICK w \in Groups : /\ stamp[w] = shadowTs
                          /\ notified' = notified \union {d \in Caches : Hears(d, w)}
  BY DEF NotifyListeners
<1>3. OneNotifier'
  BY <1>1 DEF OneNotifier
<1>4. TsOrder'
  BY <1>1 DEF TsOrder
<1>5. StaleIsKnown'
  <2> SUFFICES ASSUME NEW d \in UpdateCaches, NEW g \in Groups, Covers(d, g), Stale(d, g)'
               PROVE  WillBeSeen(d, g)' /\ WillBeTold(d, g)'
    BY DEF StaleIsKnown, Covers, Owned
  <2>1. d \in Caches /\ Stale(d, g)
    BY <1>1 DEF Stale, Caches
  <2>2. WillBeSeen(d, g) /\ WillBeTold(d, g)
    BY <2>1 DEF StaleIsKnown
  <2>3. pc[d] \in {"check", "lock"} => pc'[d] = pc[d]
    BY <1>1, <2>1
  <2>4. d \in listening /\ stamp[g] = shadowTs => d \in notified'
    BY <1>1, <1>2, <2>1 DEF OneNotifier, Hears
  <2>5. WillBeSeen(d, g)'
    BY <1>1, <2>2, <2>3 DEF WillBeSeen
  <2>6. WillBeTold(d, g)'
    BY <1>1, <1>2, <2>2, <2>3, <2>4 DEF WillBeTold
  <2>7. QED
    BY <2>5, <2>6
<1>6. QED
  BY <1>3, <1>4, <1>5

(* The steps of a cache that touch neither stamps nor data, its unlocked   *)
(* check aside.                                                            *)
LEMMA RestKeepsRead ==
  ASSUME ReadInv, DataInv', NEW c \in Caches,
         \/ Poll(c) \/ Dispatched(c)
         \/ Listen(c) \/ RemoveListener(c) \/ CancelPending(c)
  PROVE  ReadInv'
<1> USE DEF ReadInv, DataInv, TypeOK
<1>1. UNCHANGED <<stamp, shadowTs, lock, copyTs, ts>>
  BY DEF Poll, Dispatched, Listen, RemoveListener, CancelPending
<1>2. /\ \A d \in Caches : pc'[d] \in {"notify", "notifynext", "lock"} => pc'[d] = pc[d]
      /\ \A d \in Caches : pc[d] \in {"check", "lock"} => pc'[d] = pc[d]
  BY DEF Poll, Dispatched, Listen, RemoveListener, CancelPending
<1>3. OneNotifier' /\ TsOrder'
  BY <1>1, <1>2 DEF OneNotifier, TsOrder
<1>4. \A d \in Caches : \/ d \in notified => d \in notified'
                        \/ pc'[d] = "check"
                        \/ d \in missed'
  BY DEF Poll, Dispatched, Listen, RemoveListener, CancelPending, Cancelled
<1>5. missed \subseteq missed' /\ (lock # None => listening' = listening)
  BY DEF Poll, Dispatched, Listen, RemoveListener, CancelPending
<1>6. StaleIsKnown'
  <2> SUFFICES ASSUME NEW d \in UpdateCaches, NEW g \in Groups, Covers(d, g), Stale(d, g)'
               PROVE  WillBeSeen(d, g)' /\ WillBeTold(d, g)'
    BY DEF StaleIsKnown, Covers, Owned
  <2>1. d \in Caches /\ Stale(d, g)
    BY <1>1 DEF Stale, Caches
  <2>2. WillBeSeen(d, g) /\ WillBeTold(d, g)
    BY <2>1 DEF StaleIsKnown
  <2>3. WillBeSeen(d, g)'
    BY <1>1, <1>2, <2>1, <2>2 DEF WillBeSeen
  <2>4. WillBeTold(d, g)'
    BY <1>1, <1>2, <1>4, <1>5, <2>1, <2>2 DEF WillBeTold
  <2>5. QED
    BY <2>3, <2>4
<1>7. QED
  BY <1>3, <1>6

(* The unlocked check: it passes only if no group is stale.                *)
LEMMA CheckKeepsRead ==
  ASSUME ReadInv, DataInv', NEW c \in Caches, CacheCheckUpdate(c)
  PROVE  ReadInv'
<1> USE DEF ReadInv, DataInv, TypeOK
<1>1. /\ UNCHANGED <<stamp, shadowTs, lock, listening, copyTs, notified, missed>>
      /\ pc[c] = "check" /\ pc'[c] \in {"idle", "lock"}
      /\ \A d \in Caches \ {c} : pc'[d] = pc[d] /\ ts'[d] = ts[d]
      /\ ts'[c] \in {ts[c], shadowTs}
  BY DEF CacheCheckUpdate
<1>2. OneNotifier'
  BY <1>1 DEF OneNotifier
<1>3. TsOrder'
  <2>1. ts'[c] <= shadowTs
    <3>1. ts[c] <= shadowTs /\ shadowTs \in Nat
      BY DEF TsOrder
    <3>2. QED
      BY <1>1, <3>1
  <2>2. \A d \in Caches \ {c} : ts'[d] <= shadowTs
    BY <1>1 DEF TsOrder
  <2>3. QED
    BY <1>1, <2>1, <2>2 DEF TsOrder
<1>4. StaleIsKnown'
  <2> SUFFICES ASSUME NEW d \in UpdateCaches, NEW g \in Groups, Covers(d, g), Stale(d, g)'
               PROVE  WillBeSeen(d, g)' /\ WillBeTold(d, g)'
    BY DEF StaleIsKnown, Covers, Owned
  <2>1. d \in Caches /\ Stale(d, g)
    BY <1>1 DEF Stale, Caches
  <2>2. WillBeSeen(d, g) /\ WillBeTold(d, g)
    BY <2>1 DEF StaleIsKnown
  <2>3. CASE d = c
    <3>1. ts[c] < stamp[g] /\ stamp[g] <= shadowTs
      BY <1>1, <2>2, <2>3 DEF WillBeSeen, StampOrder
    <3>2. ts[c] \in Nat /\ stamp[g] \in Nat /\ shadowTs \in Nat
      OBVIOUS
    <3>3. ~(ts[c] >= shadowTs)
      BY <3>1, <3>2
    <3>4. pc'[c] = "lock"
      BY <3>3 DEF CacheCheckUpdate
    <3>5. QED
      BY <2>3, <3>4 DEF WillBeSeen, WillBeTold
  <2>4. CASE d # c
    BY <1>1, <2>1, <2>2, <2>4 DEF WillBeSeen, WillBeTold
  <2>5. QED
    BY <2>3, <2>4
<1>5. QED
  BY <1>2, <1>3, <1>4

(* Reading under the lock: an update leaves nothing stale, an iteration is *)
(* another cache's matter.                                                 *)
LEMMA LockedKeepsRead ==
  ASSUME ReadInv, DataInv', NEW c \in Caches, Update(c) \/ NextChanged(c) \/ NoneChanged(c)
  PROVE  ReadInv'
<1> USE DEF ReadInv, DataInv, TypeOK
<1>1. /\ UNCHANGED <<stamp, shadowTs, lock, listening, ts, notified>>
      /\ lock = None
      /\ pc'[c] \in {"idle", "check"}
      /\ \A d \in Caches \ {c} : pc'[d] = pc[d] /\ copyTs'[d] = copyTs[d]
      /\ missed' \in {missed, missed \ {c}}
  BY DEF Update, NextChanged, NoneChanged
<1>2. OneNotifier'
  BY <1>1 DEF OneNotifier
<1>3. TsOrder'
  BY <1>1 DEF TsOrder
<1>4. StaleIsKnown'
  <2> SUFFICES ASSUME NEW d \in UpdateCaches, NEW g \in Groups, Covers(d, g), Stale(d, g)'
               PROVE  WillBeSeen(d, g)' /\ WillBeTold(d, g)'
    BY DEF StaleIsKnown, Covers, Owned
  <2>1. d \in Caches /\ d \notin NextCaches
    BY CachesAssumption DEF Caches
  <2>2. CASE d = c
    <3>1. Update(c)
      BY <2>1, <2>2 DEF NextChanged, NoneChanged
    <3>2. copyTs'[c][g] = stamp[g]
      BY <2>2, <3>1, UpdateMakesCurrent
    <3>3. QED
      BY <1>1, <2>2, <3>2 DEF Stale
  <2>3. CASE d # c
    <3>1. Stale(d, g)
      BY <1>1, <2>1, <2>3 DEF Stale
    <3>2. WillBeSeen(d, g) /\ WillBeTold(d, g)
      BY <3>1 DEF StaleIsKnown
    <3>3. QED
      BY <1>1, <2>1, <2>3, <3>2 DEF WillBeSeen, WillBeTold
  <2>4. QED
    BY <2>2, <2>3
<1>5. QED
  BY <1>2, <1>3, <1>4

LEMMA ReadNext == ReadInv /\ [Next]_vars => ReadInv'
<1> SUFFICES ASSUME ReadInv, [Next]_vars PROVE ReadInv'
  OBVIOUS
<1>0. DataInv'
  BY DataNext DEF ReadInv
<1>1. ASSUME NEW c \in Caches, NEW o \in Opts, NEW v \in Values, WriteOpt(c, o, v)
      PROVE  ReadInv'
  BY <1>0, <1>1, WriteKeepsRead
<1>2. ASSUME NEW c \in Caches, NotifyListeners(c) PROVE ReadInv'
  BY <1>0, <1>2, NotifyKeepsRead
<1>3. ASSUME NEW c \in Caches,
             \/ Poll(c) \/ Dispatched(c)
             \/ Listen(c) \/ RemoveListener(c) \/ CancelPending(c)
      PROVE  ReadInv'
  BY <1>0, <1>3, RestKeepsRead
<1>4. ASSUME NEW c \in Caches, CacheCheckUpdate(c) PROVE ReadInv'
  BY <1>0, <1>4, CheckKeepsRead
<1>5. ASSUME NEW c \in Caches, Update(c) \/ NextChanged(c) \/ NoneChanged(c)
      PROVE  ReadInv'
  BY <1>0, <1>5, LockedKeepsRead
<1>6. CASE UNCHANGED vars
  BY <1>0, <1>6 DEF vars, ReadInv, OneNotifier, TsOrder, StaleIsKnown, Stale, Covers, Owned,
                    WillBeSeen, WillBeTold
<1>7. QED
  BY <1>1, <1>2, <1>3, <1>4, <1>5, <1>6 DEF Next, Finish

(* No step gives a notification to a cache that does not listen, and the   *)
(* listener is removed before the notification is.                         *)
LEMMA CallbackNext == TypeOK /\ NoLateCallback /\ [Next]_vars => NoLateCallback'
<1> SUFFICES ASSUME TypeOK, NoLateCallback, [Next]_vars,
                    NEW d \in Caches, pc'[d] # "cancel", d \notin listening', d \in notified'
             PROVE  FALSE
  BY DEF NoLateCallback
<1> USE DEF TypeOK
<1>1. ASSUME NEW c \in Caches, NEW o \in Opts, NEW v \in Values, WriteOpt(c, o, v)
      PROVE  FALSE
  BY <1>1 DEF WriteOpt, NoLateCallback
<1>2. ASSUME NEW c \in Caches, NotifyListeners(c) PROVE FALSE
  BY <1>2 DEF NotifyListeners, Hears, NoLateCallback
<1>3. ASSUME NEW c \in Caches, Dispatched(c) \/ Poll(c) \/ CacheCheckUpdate(c)
      PROVE  FALSE
  BY <1>3 DEF Dispatched, Poll, CacheCheckUpdate, NoLateCallback
<1>4. ASSUME NEW c \in Caches, Update(c) \/ NextChanged(c) \/ NoneChanged(c)
      PROVE  FALSE
  BY <1>4 DEF Update, NextChanged, NoneChanged, NoLateCallback
<1>5. ASSUME NEW c \in Caches, Listen(c) \/ RemoveListener(c) \/ CancelPending(c)
      PROVE  FALSE
  BY <1>5 DEF Listen, RemoveListener, CancelPending, Cancelled, NoLateCallback
<1>6. CASE UNCHANGED vars
  BY <1>6 DEF vars, NoLateCallback
<1>7. QED
  BY <1>1, <1>2, <1>3, <1>4, <1>5, <1>6 DEF Next, Finish

(* What is stale will be seen and told of: inductive with the data facts.  *)
THEOREM ReadInvariant == Spec => []ReadInv
  BY ReadInit, ReadNext, PTL DEF Spec

(* A cache at rest that was not told of anything, and chose to listen, has *)
(* every change, although m_config_cache_update() looks at the time first  *)
(* and locks later.                                                        *)
THEOREM UpdatesAreComplete == Spec => []UpdateSeesAll
<1>1. ReadInv => UpdateSeesAll
  <2> SUFFICES ASSUME ReadInv, NEW c \in UpdateCaches, Settled(c),
                      NEW o \in Opts, Covers(c, o[1])
               PROVE  copy[c][o] = value[o]
    BY DEF UpdateSeesAll, Current
  <2>1. o[1] \in Groups
    BY OptsArePairs
  <2>2. ~WillBeTold(c, o[1])
    BY DEF Settled, WillBeTold
  <2>3. ~Stale(c, o[1])
    BY <2>1, <2>2 DEF ReadInv, StaleIsKnown
  <2>4. QED
    BY <2>3 DEF ReadInv, DataInv, StampTellsData
<1>2. QED
  BY <1>1, ReadInvariant, PTL

(* After m_config_cache_set_dispatch_change_cb(NULL) returned, no callback *)
(* is queued.                                                              *)
THEOREM CallbacksEnd == Spec => []NoLateCallback
<1>1. Init => NoLateCallback
  BY DEF Init, NoLateCallback
<1>2. QED
  BY <1>1, CallbackNext, ConfigTypeOK, PTL DEF Spec
-----------------------------------------------------------------------------
(* Iterations: m_config_cache_get_next_changed().                          *)

\* An option that update_next_option() has yet to come to.
Ahead(c, o) == upd[c] # None /\ ~Before(o, upd[c])

\* It will be found: its group is stale, and the next check starts the iteration
\* over, or the present one has not passed it.
Differs(c, o) == Covers(c, o[1]) /\ copy[c][o] # value[o]
WillBeFound(c, o) == Stale(c, o[1]) /\ (ts[c] < stamp[o[1]] \/ Ahead(c, o))
WillBeRead(c, g) == \/ c \in missed \/ c \in notified
                    \/ pc[c] \in {"notifynext", "check", "lock"}
                    \/ c \in listening /\ lock # None /\ stamp[g] = shadowTs

\* Between check and lock there is an iteration, and nothing newer than its check
\* but the changes that race with it.
Checked == \A c \in NextCaches : pc[c] = "lock" =>
  /\ upd[c] # None
  /\ \A g \in Groups : c \notin raced /\ Covers(c, g) => stamp[g] <= ts[c]

DifferenceIsKnown == \A c \in NextCaches \ raced, o \in Opts :
  Differs(c, o) => WillBeFound(c, o) /\ WillBeRead(c, o[1])

IterInv == ReadInv /\ Checked /\ DifferenceIsKnown

LEMMA IterInit == Init => IterInv
<1> SUFFICES ASSUME Init PROVE IterInv
  OBVIOUS
<1>1. ReadInv
  BY ReadInit
<1>2. Checked
  BY DEF Init, Checked, Caches
<1>3. DifferenceIsKnown
  BY DEF Init, DifferenceIsKnown, Differs, Caches
<1>4. QED
  BY <1>1, <1>2, <1>3 DEF IterInv

(* What differs after a write either differed before, or is of a group     *)
(* that is now newer than any check and any copy.                          *)
LEMMA WriteKeepsIter ==
  ASSUME IterInv, ReadInv', NEW c \in Caches, NEW o \in Opts, NEW v \in Values,
         WriteOpt(c, o, v)
  PROVE  IterInv'
<1> USE DEF IterInv, ReadInv, DataInv, TypeOK
<1>1. /\ lock = None /\ UNCHANGED <<listening, copyTs, ts, upd, notified>>
      /\ pc[c] \in {"idle", "check"} /\ (c \notin NextCaches => pc[c] = "idle")
      /\ copy' = [copy EXCEPT ![c][o] = v]
  BY DEF WriteOpt
<1>2. o[1] \in Groups
  BY OptsArePairs
<1>3. CASE value[o] = v
  <2>1. UNCHANGED <<value, stamp, shadowTs, lock, pc, missed, raced>>
    BY <1>3 DEF WriteOpt
  <2>2. Checked'
    BY <1>1, <2>1 DEF Checked, Covers, Owned
  <2>3. DifferenceIsKnown'
    <3> SUFFICES ASSUME NEW d \in NextCaches \ raced, NEW p \in Opts, Differs(d, p)'
                 PROVE  (WillBeFound(d, p) /\ WillBeRead(d, p[1]))'
      BY <2>1 DEF DifferenceIsKnown
    <3>1. d \in Caches
      BY DEF Caches
    <3>2. Differs(d, p)
      BY <1>1, <1>3, <2>1, <3>1 DEF Differs, Covers, Owned
    <3>3. WillBeFound(d, p) /\ WillBeRead(d, p[1])
      BY <3>2 DEF DifferenceIsKnown
    <3>4. QED
      BY <1>1, <2>1, <3>3 DEF WillBeFound, WillBeRead, Stale, Ahead, Before
  <2>4. QED
    BY <2>2, <2>3
<1>4. CASE value[o] # v
  <2>1. /\ value' = [value EXCEPT ![o] = v]
        /\ stamp' = [stamp EXCEPT ![o[1]] = shadowTs + 1]
        /\ shadowTs' = shadowTs + 1
        /\ lock' = c /\ lock' # None
        /\ pc' = [pc EXCEPT ![c] = IF pc[c] = "idle" THEN "notify" ELSE "notifynext"]
        /\ missed' = missed \union {d \in Caches \ listening : Covers(d, o[1])}
        /\ raced' = raced \union {d \in NextCaches : pc[d] = "lock" /\ Covers(d, o[1])}
    BY <1>4, CachesAssumption DEF WriteOpt, NewStamp
  <2>2. \A g \in Groups : stamp'[g] = IF g = o[1] THEN shadowTs + 1 ELSE stamp[g]
    BY <2>1
  <2>3. \A g \in Groups : stamp[g] <= shadowTs /\ stamp[g] \in Nat
    BY DEF StampOrder
  <2>4. Checked'
    <3> SUFFICES ASSUME NEW d \in NextCaches, pc'[d] = "lock"
                 PROVE  /\ upd'[d] # None
                        /\ \A g \in Groups : d \notin raced' /\ Covers(d, g)'
                                              => stamp'[g] <= ts'[d]
      BY DEF Checked
    <3>1. d \in Caches /\ d # c /\ pc[d] = "lock"
      BY <1>1, <2>1 DEF Caches
    <3>2. upd'[d] # None
      BY <1>1, <3>1 DEF Checked
    <3>3. ASSUME NEW g \in Groups, d \notin raced', Covers(d, g)
          PROVE  stamp'[g] <= ts'[d]
      BY <1>1, <2>1, <2>2, <3>1, <3>3 DEF Checked
    <3>4. QED
      BY <3>2, <3>3 DEF Covers, Owned
  <2>5. DifferenceIsKnown'
    <3> SUFFICES ASSUME NEW d \in NextCaches \ raced', NEW p \in Opts, Differs(d, p)'
                 PROVE  (WillBeFound(d, p) /\ WillBeRead(d, p[1]))'
      BY DEF DifferenceIsKnown
    <3>1. d \in Caches /\ d \notin raced /\ p[1] \in Groups /\ Covers(d, p[1])
      BY <2>1, OptsArePairs DEF Caches, Differs, Covers, Owned
    <3>2. ts[d] <= shadowTs /\ ts[d] \in Nat
      BY <3>1 DEF TsOrder
    <3>3. copyTs[d][p[1]] <= stamp[p[1]] /\ copyTs[d][p[1]] \in Nat
      BY <3>1 DEF StampOrder
    <3>4. CASE p[1] = o[1]
      <4>1. WillBeFound(d, p)'
        BY <1>1, <2>2, <2>3, <3>1, <3>2, <3>3, <3>4 DEF WillBeFound, Stale
      <4>2. WillBeRead(d, p[1])'
        BY <1>1, <2>1, <2>2, <3>1, <3>4 DEF WillBeRead
      <4>3. QED
        BY <4>1, <4>2
    <3>5. CASE p[1] # o[1]
      <4>1. p # o /\ copy'[d][p] = copy[d][p] /\ value'[p] = value[p]
        BY <1>1, <2>1, <3>1, <3>5
      <4>2. Differs(d, p)
        BY <3>1, <4>1 DEF Differs
      <4>3. WillBeFound(d, p) /\ WillBeRead(d, p[1])
        BY <3>1, <4>2 DEF DifferenceIsKnown
      <4>4. stamp'[p[1]] = stamp[p[1]]
        BY <2>2, <3>1, <3>5
      <4>5. WillBeFound(d, p)'
        BY <1>1, <4>3, <4>4 DEF WillBeFound, Stale, Ahead, Before
      <4>6. d # c => pc'[d] = pc[d]
        BY <2>1, <3>1
      <4>7. WillBeRead(d, p[1])'
        BY <1>1, <2>1, <3>1, <4>3, <4>6 DEF WillBeRead
      <4>8. QED
        BY <4>5, <4>7
    <3>6. QED
      BY <3>4, <3>5
  <2>6. QED
    BY <2>4, <2>5
<1>5. QED
  BY <1>3, <1>4

(* Telling the listeners, and steps that touch neither stamps nor data.    *)
LEMMA RestKeepsIter ==
  ASSUME IterInv, ReadInv', NEW c \in Caches,
         \/ NotifyListeners(c) \/ Poll(c) \/ Dispatched(c)
         \/ Listen(c) \/ RemoveListener(c) \/ CancelPending(c)
  PROVE  IterInv'
<1> USE DEF IterInv, ReadInv, DataInv, TypeOK
<1>1. UNCHANGED <<value, stamp, shadowTs, copy, copyTs, ts, upd, raced>>
  BY DEF NotifyListeners, Poll, Dispatched, Listen, RemoveListener, CancelPending
<1>2. /\ \A d \in Caches : pc'[d] = "lock" => pc[d] = "lock"
      /\ \A d \in Caches : pc[d] \in {"check", "lock"} => pc'[d] = pc[d]
      /\ \A d \in Caches : pc[d] = "notifynext" => pc'[d] \in {"notifynext", "check"}
  BY DEF NotifyListeners, Poll, Dispatched, Listen, RemoveListener, CancelPending
<1>3. \A d \in Caches : \/ d \in notified => d \in notified'
                        \/ pc'[d] = "check"
                        \/ d \in missed'
  BY DEF NotifyListeners, Poll, Dispatched, Listen, RemoveListener, CancelPending, Cancelled
<1>4. missed \subseteq missed'
  BY DEF NotifyListeners, Poll, Dispatched, Listen, RemoveListener, CancelPending
<1>5. ASSUME NEW d \in Caches, NEW g \in Groups, Covers(d, g),
             d \in listening, lock # None, stamp[g] = shadowTs
      PROVE  \/ d \in notified'
             \/ d \in listening' /\ lock' # None
  <2>1. CASE NotifyListeners(c)
    <3>1. PICK w \in Groups : /\ stamp[w] = shadowTs
                              /\ notified' = notified \union {e \in Caches : Hears(e, w)}
      BY <2>1 DEF NotifyListeners
    <3>2. w = g
      BY <1>5, <3>1 DEF OneNotifier
    <3>3. QED
      BY <1>5, <3>1, <3>2 DEF Hears
  <2>2. CASE ~NotifyListeners(c)
    BY <1>5, <2>2 DEF Poll, Dispatched, Listen, RemoveListener, CancelPending
  <2>3. QED
    BY <2>1, <2>2
<1>6. Checked'
  BY <1>1, <1>2 DEF Checked, Covers, Owned, Caches
<1>7. DifferenceIsKnown'
  <2> SUFFICES ASSUME NEW d \in NextCaches \ raced, NEW p \in Opts, Differs(d, p)'
               PROVE  (WillBeFound(d, p) /\ WillBeRead(d, p[1]))'
    BY <1>1 DEF DifferenceIsKnown
  <2>1. d \in Caches /\ p[1] \in Groups
    BY OptsArePairs DEF Caches
  <2>2. Differs(d, p)
    BY <1>1 DEF Differs, Covers, Owned
  <2>3. WillBeFound(d, p) /\ WillBeRead(d, p[1])
    BY <2>2 DEF DifferenceIsKnown
  <2>4. WillBeFound(d, p)'
    BY <1>1, <2>3 DEF WillBeFound, Stale, Ahead, Before
  <2>5. WillBeRead(d, p[1])'
    BY <1>1, <1>2, <1>3, <1>4, <1>5, <2>1, <2>2, <2>3 DEF WillBeRead, Differs
  <2>6. QED
    BY <2>4, <2>5
<1>8. QED
  BY <1>6, <1>7

(* The check: what is newer is found from the first group on, and when     *)
(* nothing is newer, an iteration that has not ended goes on.              *)
LEMMA CheckKeepsIter ==
  ASSUME IterInv, ReadInv', NEW c \in Caches, CacheCheckUpdate(c)
  PROVE  IterInv'
<1> USE DEF IterInv, ReadInv, DataInv, TypeOK
<1>1. /\ UNCHANGED <<value, stamp, shadowTs, lock, listening, copy, copyTs, notified,
                     missed, raced>>
      /\ pc[c] = "check" /\ pc'[c] \in {"idle", "lock"}
      /\ \A d \in Caches \ {c} : pc'[d] = pc[d] /\ ts'[d] = ts[d] /\ upd'[d] = upd[d]
  BY DEF CacheCheckUpdate
<1>2. \A g \in Groups : stamp[g] <= shadowTs /\ stamp[g] \in Nat
  BY DEF StampOrder
<1>3. \/ /\ ts'[c] = ts[c] /\ ts[c] >= shadowTs /\ upd'[c] = upd[c]
         /\ c \in NextCaches => (pc'[c] = "lock" <=> upd[c] # None)
      \/ ts'[c] = shadowTs /\ upd'[c] = <<Start[c], 0>> /\ pc'[c] = "lock"
  <2>1. CASE ts[c] >= shadowTs
    BY <2>1 DEF CacheCheckUpdate
  <2>2. CASE ~(ts[c] >= shadowTs)
    BY <2>2 DEF CacheCheckUpdate
  <2>3. QED
    BY <2>1, <2>2
<1>4. <<Start[c], 0>> # None
  BY FirstPosition, CachesAssumption
<1>5. Checked'
  <2>1. ASSUME c \in NextCaches, pc'[c] = "lock"
        PROVE  upd'[c] # None /\ \A g \in Groups : stamp[g] <= ts'[c]
    <3>1. upd'[c] # None
      BY <1>3, <1>4, <2>1
    <3>2. ts'[c] >= shadowTs /\ ts'[c] \in Nat /\ shadowTs \in Nat
      BY <1>3
    <3>3. ASSUME NEW g \in Groups PROVE stamp[g] <= ts'[c]
      BY <1>2, <3>2
    <3>4. QED
      BY <3>1, <3>3
  <2>2. QED
    BY <1>1, <2>1 DEF Checked, Covers, Owned, Caches
<1>6. DifferenceIsKnown'
  <2> SUFFICES ASSUME NEW d \in NextCaches \ raced, NEW p \in Opts, Differs(d, p)'
               PROVE  (WillBeFound(d, p) /\ WillBeRead(d, p[1]))'
    BY <1>1 DEF DifferenceIsKnown
  <2>1. d \in Caches /\ p \in Groups \X Nat /\ Covers(d, p[1])
    BY OptsArePairs DEF Caches, Differs, Covers, Owned
  <2>2. Differs(d, p)
    BY <1>1 DEF Differs, Covers, Owned
  <2>3. WillBeFound(d, p) /\ WillBeRead(d, p[1])
    BY <2>2 DEF DifferenceIsKnown
  <2>4. CASE d # c
    BY <1>1, <2>1, <2>3, <2>4 DEF WillBeFound, WillBeRead, Stale, Ahead, Before
  <2>5. CASE d = c
    <3>1. Stale(c, p[1])'
      BY <1>1, <2>3, <2>5 DEF WillBeFound, Stale
    <3>2. Ahead(c, p)' /\ pc'[c] = "lock"
      <4>1. CASE ts'[c] = shadowTs /\ upd'[c] = <<Start[c], 0>> /\ pc'[c] = "lock"
        <5>1. Start[c] \in Nat /\ GroupCount[c] \in Nat
          BY GroupsAssumption DEF Groups
        <5>2. p[1] \in Nat /\ p[2] \in Nat /\ p[1] >= Start[c]
          BY <2>1, <2>5, <5>1 DEF Covers, Owned, Groups
        <5>3. ~Before(p, <<Start[c], 0>>)
          BY <5>1, <5>2 DEF Before
        <5>4. QED
          BY <1>4, <4>1, <5>3 DEF Ahead, Before
      <4>2. CASE /\ ts'[c] = ts[c] /\ ts[c] >= shadowTs /\ upd'[c] = upd[c]
                 /\ c \in NextCaches => (pc'[c] = "lock" <=> upd[c] # None)
        <5>1. ~(ts[c] < stamp[p[1]])
          BY <1>2, <2>1, <4>2
        <5>2. Ahead(c, p)
          BY <2>3, <2>5, <5>1 DEF WillBeFound
        <5>3. QED
          BY <2>5, <4>2, <5>2 DEF Ahead, Before
      <4>3. QED
        BY <1>3, <4>1, <4>2
    <3>3. QED
      BY <2>5, <3>1, <3>2 DEF WillBeFound, WillBeRead
  <2>6. QED
    BY <2>4, <2>5
<1>7. QED
  BY <1>5, <1>6

(* An update is another cache's matter.                                    *)
LEMMA UpdateKeepsIter ==
  ASSUME IterInv, ReadInv', NEW c \in Caches, Update(c)
  PROVE  IterInv'
<1> USE DEF IterInv, ReadInv, DataInv, TypeOK
<1>1. /\ UNCHANGED <<value, stamp, shadowTs, lock, listening, ts, notified, raced>>
      /\ c \notin NextCaches
      /\ \A d \in Caches \ {c} : /\ pc'[d] = pc[d] /\ copyTs'[d] = copyTs[d]
                                 /\ copy'[d] = copy[d] /\ upd'[d] = upd[d]
      /\ missed' = missed \ {c}
  BY CachesAssumption DEF Update
<1>2. Checked'
  BY <1>1 DEF Checked, Covers, Owned, Caches
<1>3. DifferenceIsKnown'
  <2> SUFFICES ASSUME NEW d \in NextCaches \ raced, NEW p \in Opts, Differs(d, p)'
               PROVE  (WillBeFound(d, p) /\ WillBeRead(d, p[1]))'
    BY <1>1 DEF DifferenceIsKnown
  <2>1. d \in Caches /\ d # c
    BY <1>1 DEF Caches
  <2>2. Differs(d, p)
    BY <1>1, <2>1 DEF Differs, Covers, Owned
  <2>3. WillBeFound(d, p) /\ WillBeRead(d, p[1])
    BY <2>2 DEF DifferenceIsKnown
  <2>4. QED
    BY <1>1, <2>1, <2>3 DEF WillBeFound, WillBeRead, Stale, Ahead, Before
<1>4. QED
  BY <1>2, <1>3

(* While the lock is held, an unraced cache finds all that differs.        *)
LEMMA LockedFindsAll ==
  ASSUME IterInv, NEW c \in NextCaches \ raced, pc[c] = "lock",
         NEW p \in Opts, Differs(c, p)
  PROVE  p \in Changed(c)
<1> USE DEF IterInv, ReadInv, DataInv, TypeOK
<1>1. WillBeFound(c, p)
  BY DEF DifferenceIsKnown
<1>2. p[1] \in Groups /\ Covers(c, p[1]) /\ c \in Caches
  BY OptsArePairs DEF Differs, Caches
<1>3. stamp[p[1]] <= ts[c] /\ stamp[p[1]] \in Nat /\ ts[c] \in Nat
  BY <1>2 DEF Checked
<1>4. Ahead(c, p) /\ Stale(c, p[1])
  BY <1>1, <1>3 DEF WillBeFound
<1>5. QED
  BY <1>4 DEF Changed, Ahead, Differs

(* The first option that differs is copied; the groups before it have      *)
(* nothing that differs, and what is left is behind it.                    *)
LEMMA NextKeepsIter ==
  ASSUME IterInv, ReadInv', NEW c \in Caches, NextChanged(c)
  PROVE  IterInv'
<1> USE DEF IterInv, ReadInv, DataInv, TypeOK
<1>1. /\ UNCHANGED <<value, stamp, shadowTs, lock, listening, ts, notified, missed, raced>>
      /\ c \in NextCaches /\ pc[c] = "lock" /\ pc'[c] = "check"
      /\ \A d \in Caches \ {c} : /\ pc'[d] = pc[d] /\ copyTs'[d] = copyTs[d]
                                 /\ copy'[d] = copy[d] /\ upd'[d] = upd[d]
  BY DEF NextChanged
<1>2. PICK o \in Changed(c) :
        /\ \A p \in Changed(c) : ~Before(p, o)
        /\ copy' = [copy EXCEPT ![c][o] = value[o]]
        /\ copyTs' = [copyTs EXCEPT ![c] = [g \in Groups |-> IF Covers(c, g) /\ Passed(c, o, g)
                                                            THEN stamp[g] ELSE @[g]]]
        /\ upd' = [upd EXCEPT ![c] = NextPos(o)]
  BY DEF NextChanged, SyncedTs
<1>3. /\ \A g \in Groups : copyTs'[c][g] = IF Covers(c, g) /\ Passed(c, o, g)
                                           THEN stamp[g] ELSE copyTs[c][g]
      /\ upd'[c] = NextPos(o)
      /\ \A p \in Opts : p # o => copy'[c][p] = copy[c][p]
      /\ copy'[c][o] = value[o]
  BY <1>2 DEF Changed
<1>4. o \in Groups \X Nat /\ o \in Opts
  BY <1>2, OptsArePairs DEF Changed
<1>5. NextPos(o) # None
  BY <1>4, CachesAssumption DEF NextPos
<1>6. Checked'
  BY <1>1 DEF Checked, Covers, Owned, Caches
<1>7. DifferenceIsKnown'
  <2> SUFFICES ASSUME NEW d \in NextCaches \ raced, NEW p \in Opts, Differs(d, p)'
               PROVE  (WillBeFound(d, p) /\ WillBeRead(d, p[1]))'
    BY <1>1 DEF DifferenceIsKnown
  <2>1. d \in Caches /\ p \in Groups \X Nat
    BY OptsArePairs DEF Caches
  <2>2. CASE d # c
    <3>1. Differs(d, p)
      BY <1>1, <2>1, <2>2 DEF Differs, Covers, Owned
    <3>2. WillBeFound(d, p) /\ WillBeRead(d, p[1])
      BY <3>1 DEF DifferenceIsKnown
    <3>3. QED
      BY <1>1, <2>1, <2>2, <3>2 DEF WillBeFound, WillBeRead, Stale, Ahead, Before
  <2>3. CASE d = c
    <3>1. p # o /\ copy'[c][p] = copy[c][p] /\ Differs(c, p)
      BY <1>1, <1>3, <2>3 DEF Differs, Covers, Owned
    <3>2. p \in Changed(c)
      BY <1>1, <2>3, <3>1, LockedFindsAll
    <3>3. ~Before(p, o)
      BY <1>2, <3>2
    <3>4. p[1] \in Nat /\ p[2] \in Nat /\ o[1] \in Nat /\ o[2] \in Nat
      BY <1>4, <2>1 DEF Groups
    <3>5. p[1] > o[1] \/ (p[1] = o[1] /\ p[2] > o[2])
      <4>1. p[1] # o[1] \/ p[2] # o[2]
        BY <1>4, <2>1, <3>1, PairsEqual
      <4>2. ~(p[1] < o[1]) /\ ~(p[1] = o[1] /\ p[2] < o[2])
        BY <3>3 DEF Before
      <4>3. QED
        BY <3>4, <4>1, <4>2, FarBehind
    <3>6. ~Before(p, NextPos(o))
      BY <3>4, <3>5 DEF Before, NextPos
    <3>7. ~Passed(c, o, p[1])
      BY <3>4, <3>5 DEF Passed
    <3>8. Stale(c, p[1])'
      BY <1>1, <1>3, <2>1, <3>2, <3>7 DEF Changed, Stale
    <3>9. Ahead(c, p)'
      BY <1>3, <1>5, <3>6 DEF Ahead, Before
    <3>10. QED
      BY <1>1, <2>3, <3>8, <3>9 DEF WillBeFound, WillBeRead
  <2>4. QED
    BY <2>2, <2>3
<1>8. QED
  BY <1>6, <1>7

(* No option differs when none is found; a race is over when none does.    *)
LEMMA NoneKeepsIter ==
  ASSUME IterInv, ReadInv', NEW c \in Caches, NoneChanged(c)
  PROVE  IterInv'
<1> USE DEF IterInv, ReadInv, DataInv, TypeOK
<1>1. /\ UNCHANGED <<value, stamp, shadowTs, lock, listening, copy, ts, notified>>
      /\ c \in NextCaches /\ pc[c] = "lock" /\ pc'[c] = "idle" /\ Changed(c) = {}
      /\ \A d \in Caches \ {c} : /\ pc'[d] = pc[d] /\ copyTs'[d] = copyTs[d]
                                 /\ upd'[d] = upd[d]
      /\ missed' \in {missed, missed \ {c}}
      /\ raced' = IF Current(c) THEN raced \ {c} ELSE raced
  BY DEF NoneChanged
<1>2. Checked'
  BY <1>1 DEF Checked, Covers, Owned, Caches
<1>3. DifferenceIsKnown'
  <2> SUFFICES ASSUME NEW d \in NextCaches \ raced', NEW p \in Opts, Differs(d, p)'
               PROVE  (WillBeFound(d, p) /\ WillBeRead(d, p[1]))'
    BY DEF DifferenceIsKnown
  <2>1. d \in Caches /\ Differs(d, p)
    BY <1>1 DEF Caches, Differs, Covers, Owned
  <2>2. CASE d # c
    <3>1. WillBeFound(d, p) /\ WillBeRead(d, p[1])
      BY <1>1, <2>1, <2>2 DEF DifferenceIsKnown
    <3>2. QED
      BY <1>1, <2>1, <2>2, <3>1 DEF WillBeFound, WillBeRead, Stale, Ahead, Before
  <2>3. CASE d = c
    <3>1. c \notin raced
      BY <1>1, <2>1, <2>3 DEF Current, Differs
    <3>2. p \in Changed(c)
      BY <1>1, <2>1, <2>3, <3>1, LockedFindsAll
    <3>3. QED
      BY <1>1, <3>2
  <2>4. QED
    BY <2>2, <2>3
<1>4. QED
  BY <1>2, <1>3

LEMMA IterNext == IterInv /\ [Next]_vars => IterInv'
<1> SUFFICES ASSUME IterInv, [Next]_vars PROVE IterInv'
  OBVIOUS
<1>0. ReadInv'
  BY ReadNext DEF IterInv
<1>1. ASSUME NEW c \in Caches, NEW o \in Opts, NEW v \in Values, WriteOpt(c, o, v)
      PROVE  IterInv'
  BY <1>0, <1>1, WriteKeepsIter
<1>2. ASSUME NEW c \in Caches,
             \/ NotifyListeners(c) \/ Poll(c) \/ Dispatched(c)
             \/ Listen(c) \/ RemoveListener(c) \/ CancelPending(c)
      PROVE  IterInv'
  BY <1>0, <1>2, RestKeepsIter
<1>3. ASSUME NEW c \in Caches, CacheCheckUpdate(c) PROVE IterInv'
  BY <1>0, <1>3, CheckKeepsIter
<1>4. ASSUME NEW c \in Caches, Update(c) PROVE IterInv'
  BY <1>0, <1>4, UpdateKeepsIter
<1>5. ASSUME NEW c \in Caches, NextChanged(c) PROVE IterInv'
  BY <1>0, <1>5, NextKeepsIter
<1>6. ASSUME NEW c \in Caches, NoneChanged(c) PROVE IterInv'
  BY <1>0, <1>6, NoneKeepsIter
<1>7. CASE UNCHANGED vars
  BY <1>0, <1>7 DEF vars, IterInv, Checked, DifferenceIsKnown, Differs, WillBeFound,
                    WillBeRead, Ahead, Before, Stale, Covers, Owned
<1>8. QED
  BY <1>1, <1>2, <1>3, <1>4, <1>5, <1>6, <1>7 DEF Next, Finish

(* What an iterating cache has yet to take over is found by its iteration, *)
(* or by the next: inductive with the facts about reading.                 *)
THEOREM IterInvariant == Spec => []IterInv
  BY IterInit, IterNext, PTL DEF Spec

(* m_config_cache_get_next_changed() goes through the changes one call     *)
(* after the other, skips groups and starts over, while others write: it   *)
(* misses no change but one made between its check and its lock.           *)
THEOREM IterationsLoseOnlyRaces == Spec => []NextLosesOnlyRaces
<1>1. IterInv => NextLosesOnlyRaces
  <2> SUFFICES ASSUME IterInv, NEW c \in NextCaches, Settled(c), c \notin raced,
                      NEW o \in Opts, Covers(c, o[1]), copy[c][o] # value[o]
               PROVE  FALSE
    BY DEF NextLosesOnlyRaces, Current
  <2>1. WillBeRead(c, o[1])
    BY DEF IterInv, DifferenceIsKnown, Differs
  <2>2. QED
    BY <2>1 DEF Settled, WillBeRead
<1>2. QED
  BY <1>1, IterInvariant, PTL
=============================================================================
