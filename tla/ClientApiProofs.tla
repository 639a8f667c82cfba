------------------------- MODULE ClientApiProofs -------------------------
EXTENDS ClientApi, FunctionTheorems, FiniteSetTheorems, SequenceTheorems,
        WellFoundedInduction, TLAPS
(***************************************************************************)
(* Proofs about ClientApi: for any handles, properties and queue size, no  *)
(* event is lost without a word, replies have their places, handles are    *)
(* not freed while somebody uses them, and nobody sleeps on news.          *)
(*                                                                         *)
(* The invariant, Inv, says of every handle what it is by itself (Own),    *)
(* how it fits to the core, the list of clients and the values (Linked),   *)
(* and that the places it has reserved are those of the requests under     *)
(* way (Booked).  ReadInv is about the one property that the core reads.   *)
(* The chain behind SleepersAreCurrent is in Linked: what is not the value *)
(* is stale (ValuesTrue); what is stale is pending, or the core is just    *)
(* about to read it (StaleKnown); what is pending the core comes to, or it *)
(* was woken (PendingKnown); and a user does not sleep when something that *)
(* was read is ready (SleepsJustly).                                       *)
(*                                                                         *)
(* Own and Linked are about one handle c and the core k, as parameters, so *)
(* that there is a lemma for each thing that may happen to a handle        *)
(* (EventSent, NotifiedIs, PropertyTold, ...).  OneHandle, CoreAlone and   *)
(* EveryHandle carry them over to Inv', and each action has one lemma.     *)
(***************************************************************************)

Event == Kinds \X Nat
Prop ==
  [name : Props, change_ts : Nat, value_ts : Nat, value : Values, ret_ts : Nat,
   ret : SUBSET Values, waiting_for_hook : BOOLEAN, hook_ts : Nat, swallowed : BOOLEAN]
UserPlaces == {"idle", "check", "wait", "sleep", "woken", "continue", "leave", "remove",
               "quit", "getthread", "stop", "join", "gone"}
JoinerPlaces == {"idle", "check", "wait", "sleep", "woken"}
ClientState ==
  [events : Seq(Event), reserved : Nat, async_counter : {0, 1}, choked : BOOLEAN,
   destroying : BOOLEAN, need_wakeup : BOOLEAN, queued_wakeup : BOOLEAN,
   hook_pending : BOOLEAN, masked : BOOLEAN, props : Seq(Prop), pending : BOOLEAN,
   new_events : BOOLEAN, cur : Nat \ {0}, user : UserPlaces, polls : BOOLEAN,
   timed : BOOLEAN, called : BOOLEAN, joiner : JoinerPlaces, terminate : BOOLEAN, told : Nat,
   sent : Nat, orphaned : BOOLEAN]
CoreState ==
  [pc : {"loop", "send", "fetch", "store", "process", "exit"},
   mode : {"play", "hook", "shutdown"}, woken : BOOLEAN, stop_play : BOOLEAN,
   patient : BOOLEAN, list_changed : BOOLEAN, n : Nat \ {0}, i : Nat \ {0},
   reads : Handles, props_changed : BOOLEAN, read : Values, raced : BOOLEAN,
   hook : {"none", "active", "over"}]

(* An observed property: its stamps, and what the client has of it.        *)
StampsOf(q) ==
  /\ q.ret_ts <= q.value_ts /\ q.value_ts <= q.change_ts /\ q.change_ts > 0
  /\ q.hook_ts <= q.change_ts
  /\ q.ret_ts = q.value_ts /\ q.value_ts # 0 => q.ret = {q.value}
  /\ q.waiting_for_hook => q.ret_ts # q.change_ts

(* A handle by itself.                                                     *)
Fits(c) == Len(c.events) + c.reserved <= MaxEvents
Cursor(c) == ~c.destroying => c.cur <= Len(c.props) + 1
Stamps(c) == \A i \in DOMAIN c.props : StampsOf(c.props[i])
HookInOrder(c) ==
  \A i \in DOMAIN c.props :
    /\ c.hook_pending => c.props[i].waiting_for_hook \/ c.props[i].ret_ts >= c.props[i].hook_ts
    /\ c.user = "continue" => c.props[i].ret_ts >= c.props[i].hook_ts
ReadyAhead(c) ==
  \A i \in DOMAIN c.props : Ready(c.props[i]) => i >= c.cur \/ c.new_events
Own(c) ==
  /\ c \in ClientState
  /\ Fits(c) /\ Cursor(c) /\ Stamps(c) /\ HookInOrder(c) /\ ReadyAhead(c)

(* A handle and those around it: whether it is listed, and the core reads  *)
(* a property for it; who may be in mpv_wait_async_requests().             *)
ReadsOf(k, h) == k.pc \in {"fetch", "store"} /\ k.reads = h
Gone == {"quit", "getthread", "stop", "join", "gone"}
Life(h, c, k, L, s) ==
  /\ c.async_counter = IF ReadsOf(k, h) THEN 1 ELSE 0
  /\ ReadsOf(k, h) => h \in L
  /\ h \notin L => c.reserved = 0 /\ c.joiner = "idle" /\ c.user \in {"idle"} \cup Gone
  /\ h \in L => c.user \notin Gone
  /\ c.user = "continue" => c.called
  /\ c.destroying => /\ c.joiner = "idle" /\ c.props = <<>> /\ ~c.timed
                     /\ c.user \notin {"idle", "leave", "continue"}
  /\ c.user = "remove" => c.destroying /\ c.reserved = 0 /\ ~ReadsOf(k, h)
  /\ c.joiner # "idle" => h \in s.joining

(* A user who sleeps, or is about to, or waits for the callback: there is  *)
(* nothing to be told that the core will not wake it for.                  *)
Drowsy(c) ==
  \/ c.user = "sleep" \/ (c.user = "wait" /\ ~c.need_wakeup)
  \/ c.user = "idle" /\ c.polls /\ ~c.called
NothingNew(h, c, k) ==
  /\ c.new_events => ReadsOf(k, h) \/ c.pending
  /\ \A i \in DOMAIN c.props : Ready(c.props[i]) => c.new_events
  /\ c.choked => c.reserved > 0 \/ c.events # <<>>
  /\ c.events = <<>> \/ c.orphaned \/ c.new_events \/ WaitsForProps(c)
SleepsJustly(h, c, k, L, s) ==
  h \in L /\ ~c.destroying /\ h \notin s.joining /\ Drowsy(c) =>
    ~c.need_wakeup /\ NothingNew(h, c, k)

(* The events that it was sent.                                            *)
EventsInv(h, c, L) == h \in L => InOrder(c) /\ NoGap(c)

(* There is one hook.                                                      *)
HookInv(c, k) ==
  k.hook = "none" => /\ ~c.hook_pending /\ c.user # "continue"
                     /\ \A n \in DOMAIN c.events : c.events[n][1] # "hook"

(* What the core knows of the properties, and of what it does not know.    *)
ValuesTrue(h, c, L, v) ==
  h \in L => \A i \in DOMAIN c.props :
    Stale(c.props[i]) \/ c.props[i].swallowed \/ c.props[i].value = v[c.props[i].name]
StaleKnown(h, c, k, L) ==
  h \in L => \A i \in DOMAIN c.props :
    Stale(c.props[i]) => c.pending \/ (ReadsOf(k, h) /\ (k.props_changed \/ k.i <= i))
From(cs, n) == {cs[m] : m \in {l \in DOMAIN cs : l >= n}}
PendingKnown(h, c, k, cs, L) ==
  h \in L /\ c.pending /\ ~c.destroying =>
    \/ k.woken \/ k.pc = "loop"
    \/ k.pc = "send" /\ h \in From(cs, k.n)
    \/ k.pc \in {"fetch", "store"} /\ h \in From(cs, k.n + 1)

(* The requests of a handle that will be answered.                         *)
Places(s, T) == {n \in DOMAIN s : s[n] \in T}
Requests(h) == {h} \X {"get", "cmd"}
Booked(h, c, it, ru) ==
  c.reserved = Cardinality(Places(it, Requests(h))) + Cardinality(Places(ru, {h}))

Linked(h, c, k, cs, L, s, v) ==
  /\ Life(h, c, k, L, s) /\ SleepsJustly(h, c, k, L, s) /\ EventsInv(h, c, L)
  /\ HookInv(c, k) /\ ValuesTrue(h, c, L, v) /\ StaleKnown(h, c, k, L)
  /\ PendingKnown(h, c, k, cs, L)

(* The property that is read is there and stale, and what was read is its  *)
(* value, unless it changed when nobody looked.                            *)
ReadInv ==
  core.pc \in {"fetch", "store"} /\ ~core.props_changed =>
    /\ ~client[core.reads].destroying /\ core.i \in DOMAIN client[core.reads].props
    /\ Stale(client[core.reads].props[core.i])
    /\ core.pc = "store" => core.raced \/ core.read = value[ReadProp]

Types ==
  /\ setup \in Setups /\ DOMAIN client = Handles
  /\ clients \in Seq(Handles) /\ IsInjective(clients)
  /\ core \in CoreState /\ (core.pc = "exit" => clients = <<>>)
  /\ items \in Seq(Handles \X {"get", "cmd"}) /\ running \in Seq(Handles)
  /\ value \in [Props -> Values]

Inv ==
  /\ Types
  /\ \A h \in Handles :
       /\ Own(client[h])
       /\ Linked(h, client[h], core, clients, Listed, setup, value)
       /\ Booked(h, client[h], items, running)
  /\ ReadInv

\* Removing a place from a sequence.
LEMMA RemoveAtIs ==
  ASSUME NEW S, NEW s \in Seq(S), NEW n \in DOMAIN s
  PROVE  /\ RemoveAt(s, n) \in Seq(S) /\ Len(RemoveAt(s, n)) = Len(s) - 1
         /\ DOMAIN RemoveAt(s, n) = 1 .. Len(s) - 1
         /\ \A i \in 1 .. Len(s) - 1 : RemoveAt(s, n)[i] = s[IF i < n THEN i ELSE i + 1]
<1> DEFINE a == SubSeq(s, 1, n - 1)
           b == SubSeq(s, n + 1, Len(s))
<1>1. n \in 1 .. Len(s) /\ Len(s) \in Nat
  OBVIOUS
<1>2. a \in Seq(S) /\ Len(a) = n - 1 /\ \A i \in 1 .. n - 1 : a[i] = s[i]
  BY <1>1, SubSeqProperties
<1>3. b \in Seq(S) /\ Len(b) = Len(s) - n /\ \A i \in 1 .. Len(s) - n : b[i] = s[n + i]
  BY <1>1, SubSeqProperties
<1>4. RemoveAt(s, n) = a \o b
  BY DEF RemoveAt
<1> HIDE DEF a, b
<1>5. /\ a \o b \in Seq(S) /\ Len(a \o b) = Len(a) + Len(b)
      /\ \A i \in 1 .. Len(a) + Len(b) : (a \o b)[i] = IF i <= Len(a) THEN a[i] ELSE b[i - Len(a)]
  BY <1>2, <1>3, ConcatProperties
<1>6. Len(a) + Len(b) = Len(s) - 1
  BY <1>1, <1>2, <1>3
<1>7. ASSUME NEW i \in 1 .. Len(s) - 1
      PROVE  (a \o b)[i] = s[IF i < n THEN i ELSE i + 1]
  <2>1. CASE i < n
    <3>1. i \in 1 .. n - 1 /\ i <= Len(a) /\ i \in 1 .. Len(a) + Len(b)
      BY <1>1, <1>2, <1>6, <2>1
    <3>2. QED
      BY <1>2, <1>5, <2>1, <3>1
  <2>2. CASE ~(i < n)
    <3>1. /\ i - Len(a) \in 1 .. Len(s) - n /\ ~(i <= Len(a)) /\ i \in 1 .. Len(a) + Len(b)
          /\ n + (i - Len(a)) = i + 1
      BY <1>1, <1>2, <1>6, <2>2
    <3>2. b[i - Len(a)] = s[i + 1]
      BY <1>3, <3>1
    <3>3. QED
      BY <1>5, <2>2, <3>1, <3>2
  <2>3. QED
    BY <2>1, <2>2
<1>8. DOMAIN (a \o b) = 1 .. Len(s) - 1
  BY <1>1, <1>5, <1>6, LenProperties
<1>9. QED
  BY <1>4, <1>5, <1>6, <1>7, <1>8

\* Adding to the end of a sequence, and taking from its front.
LEMMA AppendIs ==
  ASSUME NEW S, NEW s \in Seq(S), NEW e \in S
  PROVE  /\ Append(s, e) \in Seq(S) /\ Append(s, e) # <<>> /\ Len(Append(s, e)) = Len(s) + 1
         /\ DOMAIN Append(s, e) = 1 .. Len(s) + 1 /\ DOMAIN s = 1 .. Len(s)
         /\ \A i \in 1 .. Len(s) : Append(s, e)[i] = s[i]
         /\ Append(s, e)[Len(s) + 1] = e
<1>1. /\ Append(s, e) \in Seq(S) /\ Append(s, e) # <<>> /\ Len(Append(s, e)) = Len(s) + 1
      /\ \A i \in 1 .. Len(s) : Append(s, e)[i] = s[i]
      /\ Append(s, e)[Len(s) + 1] = e
  BY AppendProperties
<1>2. QED
  BY <1>1, LenProperties

\* And its front.
LEMMA TailIs ==
  ASSUME NEW S, NEW s \in Seq(S), s # <<>>
  PROVE  /\ Tail(s) \in Seq(S) /\ Len(Tail(s)) = Len(s) - 1 /\ Len(s) > 0
         /\ Head(s) = s[1] /\ s[1] \in S /\ DOMAIN s = 1 .. Len(s)
         /\ DOMAIN Tail(s) = 1 .. Len(s) - 1
         /\ \A i \in 1 .. Len(s) - 1 : Tail(s)[i] = s[i + 1]
<1>1. /\ Tail(s) \in Seq(S) /\ Len(Tail(s)) = Len(s) - 1 /\ Head(s) = s[1] /\ Head(s) \in S
      /\ \A i \in 1 .. Len(Tail(s)) : Tail(s)[i] = s[i + 1]
  BY HeadTailProperties
<1>2. Len(s) \in Nat /\ Len(s) # 0 /\ DOMAIN s = 1 .. Len(s)
  BY LenProperties, EmptySeq
<1>3. DOMAIN Tail(s) = 1 .. Len(s) - 1
  BY <1>1, LenProperties
<1>4. QED
  BY <1>1, <1>2, <1>3

\* Counting places of a sequence: adding an element, removing one.
LEMMA PlacesAreFinite ==
  ASSUME NEW S, NEW s \in Seq(S), NEW T
  PROVE  IsFiniteSet(Places(s, T)) /\ Cardinality(Places(s, T)) \in Nat
<1>1. IsFiniteSet(1 .. Len(s)) /\ DOMAIN s = 1 .. Len(s)
  BY LenProperties, FS_Interval
<1>2. Places(s, T) \subseteq 1 .. Len(s)
  BY <1>1 DEF Places
<1>3. QED
  BY <1>1, <1>2, FS_Subset, FS_CardinalityType

\* An element more at the end.
LEMMA PlacesOfAppend ==
  ASSUME NEW S, NEW s \in Seq(S), NEW e \in S, NEW T
  PROVE  Cardinality(Places(Append(s, e), T)) =
           Cardinality(Places(s, T)) + (IF e \in T THEN 1 ELSE 0)
<1>1. Len(s) + 1 \notin Places(s, T)
  BY LenProperties DEF Places
<1>2. Places(Append(s, e), T) = IF e \in T THEN Places(s, T) \cup {Len(s) + 1} ELSE Places(s, T)
  <2>1. /\ DOMAIN Append(s, e) = 1 .. Len(s) + 1 /\ DOMAIN s = 1 .. Len(s) /\ Len(s) \in Nat
        /\ \A i \in 1 .. Len(s) : Append(s, e)[i] = s[i] /\ i # Len(s) + 1
        /\ Append(s, e)[Len(s) + 1] = e
    BY AppendIs, LenProperties
  <2>2. 1 .. Len(s) + 1 = (1 .. Len(s)) \cup {Len(s) + 1}
    BY <2>1
  <2>3. QED
    BY <2>1, <2>2 DEF Places
<1>3. IsFiniteSet(Places(s, T)) /\ Cardinality(Places(s, T)) \in Nat
  BY PlacesAreFinite
<1>4. CASE e \in T
  BY <1>1, <1>2, <1>3, <1>4, FS_AddElement
<1>5. CASE e \notin T
  BY <1>2, <1>3, <1>5
<1>6. QED
  BY <1>4, <1>5

\* An element less: the places after it move by one.
LEMMA PlacesOfRemoved ==
  ASSUME NEW S, NEW s \in Seq(S), NEW n \in DOMAIN s, NEW T, NEW t \in Seq(S),
         DOMAIN t = 1 .. Len(s) - 1,
         \A i \in 1 .. Len(s) - 1 : t[i] = s[IF i < n THEN i ELSE i + 1]
  PROVE  Cardinality(Places(t, T)) = Cardinality(Places(s, T)) - (IF s[n] \in T THEN 1 ELSE 0)
<1> DEFINE A == Places(s, T) \ {n}
           f == [i \in Places(t, T) |-> IF i < n THEN i ELSE i + 1]
<1>1. DOMAIN s = 1 .. Len(s) /\ Len(s) \in Nat /\ n \in 1 .. Len(s)
  BY LenProperties
<1>2. ASSUME NEW i \in Places(t, T)
      PROVE  /\ i \in 1 .. Len(s) - 1 /\ t[i] = s[IF i < n THEN i ELSE i + 1]
             /\ (IF i < n THEN i ELSE i + 1) \in A
  <2>1. i \in 1 .. Len(s) - 1 /\ t[i] \in T
    BY DEF Places
  <2>2. /\ (IF i < n THEN i ELSE i + 1) \in 1 .. Len(s)
        /\ (IF i < n THEN i ELSE i + 1) # n
    BY <1>1, <2>1
  <2>3. QED
    BY <1>1, <2>1, <2>2 DEF Places
<1>3. f \in Bijection(Places(t, T), A)
  <2>1. f \in [Places(t, T) -> A]
    BY <1>2
  <2>2. ASSUME NEW i \in Places(t, T), NEW j \in Places(t, T), f[i] = f[j]
        PROVE  i = j
    <3>1. i \in Nat /\ j \in Nat
      BY <1>2
    <3>2. (IF i < n THEN i ELSE i + 1) = (IF j < n THEN j ELSE j + 1)
      BY <2>2
    <3>3. QED
      BY <1>1, <3>1, <3>2
  <2>3. ASSUME NEW j \in A PROVE \E i \in Places(t, T) : f[i] = j
    <3> DEFINE i == IF j < n THEN j ELSE j - 1
    <3>1. j \in 1 .. Len(s) /\ j # n /\ s[j] \in T
      BY <1>1 DEF Places
    <3>2. i \in 1 .. Len(s) - 1 /\ (IF i < n THEN i ELSE i + 1) = j
      BY <1>1, <3>1
    <3> HIDE DEF i
    <3>3. i \in Places(t, T)
      BY <3>1, <3>2 DEF Places
    <3>4. QED
      BY <3>2, <3>3
  <2>4. QED
    BY <2>1, <2>2, <2>3, Fun_IsBij
<1>4. /\ IsFiniteSet(Places(s, T)) /\ Cardinality(Places(s, T)) \in Nat
      /\ IsFiniteSet(Places(t, T))
  BY PlacesAreFinite
<1>5. Cardinality(Places(t, T)) = Cardinality(A)
  <2>1. ExistsBijection(Places(t, T), A)
    BY <1>3 DEF ExistsBijection
  <2>2. QED
    BY <1>4, <2>1, FS_Bijection
<1>6. n \in Places(s, T) <=> s[n] \in T
  BY DEF Places
<1>7. CASE s[n] \in T
  BY <1>4, <1>5, <1>6, <1>7, FS_RemoveElement
<1>8. CASE s[n] \notin T
  <2>1. A = Places(s, T)
    BY <1>6, <1>8
  <2>2. Cardinality(A) = Cardinality(Places(s, T))
    BY <2>1, Zenon
  <2>3. QED
    BY <1>4, <1>5, <1>8, <2>2
<1>9. QED
  BY <1>7, <1>8

-------------------------------------------------------------------------------
\* What a step leaves alone of a handle: its events, its properties.
SameEvents(c, d) ==
  /\ d.events = c.events /\ d.reserved = c.reserved /\ d.choked = c.choked
  /\ d.told = c.told /\ d.sent = c.sent
SameProps(c, d) ==
  /\ d.props = c.props /\ d.cur = c.cur /\ d.new_events = c.new_events
  /\ d.pending = c.pending /\ d.hook_pending = c.hook_pending /\ d.orphaned = c.orphaned
SameLife(c, d) ==
  /\ d.destroying = c.destroying /\ d.async_counter = c.async_counter /\ d.polls = c.polls
  /\ c.destroying => d.timed = c.timed
SameUser(c, d) ==
  /\ d.user = c.user /\ d.joiner = c.joiner
  /\ d.need_wakeup = c.need_wakeup /\ d.called = c.called
\* wakeup_client() was called.
Roused(c, d) ==
  IF c.need_wakeup THEN SameUser(c, d)
  ELSE /\ d.need_wakeup /\ d.called
       /\ d.user = Rouse(c.user) /\ d.joiner = Rouse(c.joiner)

\* wakeup_client() and append_event(): what they change and what they leave alone.
LEMMA WakeupClientIs ==
  ASSUME NEW c \in ClientState, NEW d, d = WakeupClient(c)
  PROVE  /\ d \in ClientState /\ SameEvents(c, d) /\ SameProps(c, d) /\ SameLife(c, d)
         /\ Roused(c, d)
<1>1. CASE c.need_wakeup
  <2>1. d = c
    BY <1>1 DEF WakeupClient
  <2>2. QED
    BY <1>1, <2>1 DEF SameEvents, SameProps, SameLife, Roused, SameUser
<1>2. CASE ~c.need_wakeup
  <2> DEFINE e == [c EXCEPT !.need_wakeup = TRUE, !.called = TRUE,
                            !.user = Rouse(@), !.joiner = Rouse(@)]
  <2>1. d = e
    BY <1>2 DEF WakeupClient
  <2>2. Rouse(c.user) \in UserPlaces /\ Rouse(c.joiner) \in JoinerPlaces
    BY DEF ClientState, Rouse, UserPlaces, JoinerPlaces
  <2>3. e \in ClientState
    BY <2>2 DEF ClientState
  <2>4. SameEvents(c, e) /\ SameProps(c, e) /\ SameLife(c, e)
    BY DEF ClientState, SameEvents, SameProps, SameLife
  <2>5. e.need_wakeup /\ e.called /\ e.user = Rouse(c.user) /\ e.joiner = Rouse(c.joiner)
    BY DEF ClientState
  <2>6. QED
    BY <1>2, <2>1, <2>3, <2>4, <2>5 DEF Roused
<1>3. QED
  BY <1>1, <1>2

LEMMA AppendEventIs ==
  ASSUME NEW c \in ClientState, NEW what \in Event, NEW d, d = AppendEvent(c, what)
  PROVE  /\ d \in ClientState /\ d.events = Append(c.events, what) /\ d.events # <<>>
         /\ Len(d.events) = Len(c.events) + 1
         /\ d.reserved = c.reserved /\ d.choked = c.choked /\ d.told = c.told /\ d.sent = c.sent
         /\ SameProps(c, d) /\ SameLife(c, d) /\ Roused(c, d)
<1> DEFINE e == [c EXCEPT !.events = Append(@, what), !.masked = @ \/ what[1] = "shutdown"]
<1>1. /\ Append(c.events, what) \in Seq(Event) /\ Append(c.events, what) # <<>>
      /\ Len(Append(c.events, what)) = Len(c.events) + 1
  BY AppendIs DEF ClientState
<1>2. e \in ClientState
  BY <1>1 DEF ClientState
<1>3. /\ e.events = Append(c.events, what) /\ e.reserved = c.reserved /\ e.choked = c.choked
      /\ e.told = c.told /\ e.sent = c.sent
  BY DEF ClientState
<1>4. SameProps(c, e) /\ SameLife(c, e) /\ SameUser(c, e)
  BY DEF ClientState, SameProps, SameLife, SameUser
<1>5. d = WakeupClient(e)
  BY DEF AppendEvent
<1> HIDE DEF e
<1>6. /\ d \in ClientState /\ SameEvents(e, d) /\ SameProps(e, d) /\ SameLife(e, d)
      /\ Roused(e, d)
  BY <1>2, <1>5, WakeupClientIs
<1>7. SameProps(c, d) /\ SameLife(c, d) /\ Roused(c, d)
  BY <1>4, <1>6 DEF SameProps, SameLife, SameUser, Roused
<1>8. QED
  BY <1>1, <1>3, <1>6, <1>7 DEF SameEvents

\* Numbered events: the ways in which the queue changes.
Ordered(c) == InOrder(c) /\ NoGap(c)
NumbersOf(c) == {c.events[n][2] : n \in EventPlaces(c)}

\* The same events, and perhaps an overflow.
LEMMA OrderedSame ==
  ASSUME NEW c, NEW d, d.events = c.events, d.told = c.told, d.sent = c.sent,
         c.choked => d.choked, Ordered(c)
  PROVE  Ordered(d)
  BY DEF Ordered, InOrder, NoGap, EventPlaces

\* An event is lost, and the client is choked.
LEMMA OrderedChoked ==
  ASSUME NEW c \in ClientState, NEW d, d.events = c.events, d.told = c.told,
         d.sent = c.sent + 1, d.choked, Ordered(c)
  PROVE  Ordered(d)
<1>1. PICK last \in c.told .. c.sent : NumbersOf(c) = c.told + 1 .. last
  BY DEF Ordered, NoGap, NumbersOf
<1>2. last \in d.told .. d.sent
  BY DEF ClientState
<1>3. NumbersOf(d) = d.told + 1 .. last
  BY <1>1 DEF NumbersOf, EventPlaces
<1>4. QED
  BY <1>2, <1>3 DEF Ordered, NoGap, InOrder, NumbersOf, EventPlaces

\* An event without a number is added.
LEMMA OrderedOther ==
  ASSUME NEW c \in ClientState, NEW e \in Event, e[1] # "event", NEW d,
         d.events = Append(c.events, e), d.told = c.told, d.sent = c.sent,
         d.choked = c.choked, Ordered(c)
  PROVE  Ordered(d)
<1>1. /\ DOMAIN d.events = 1 .. Len(c.events) + 1 /\ DOMAIN c.events = 1 .. Len(c.events)
      /\ \A i \in 1 .. Len(c.events) : d.events[i] = c.events[i]
      /\ d.events[Len(c.events) + 1] = e /\ Len(c.events) \in Nat
  BY AppendIs, LenProperties DEF ClientState
<1>2. EventPlaces(d) = EventPlaces(c)
  <2>1. ASSUME NEW n \in EventPlaces(d) PROVE n \in EventPlaces(c)
    <3>1. n \in 1 .. Len(c.events) + 1 /\ n # Len(c.events) + 1
      BY <1>1 DEF EventPlaces
    <3>2. n \in 1 .. Len(c.events)
      BY <1>1, <3>1
    <3>3. QED
      BY <1>1, <3>2 DEF EventPlaces
  <2>2. ASSUME NEW n \in EventPlaces(c) PROVE n \in EventPlaces(d)
    BY <1>1 DEF EventPlaces
  <2>3. QED
    BY <2>1, <2>2
<1>3. \A n \in EventPlaces(c) : d.events[n] = c.events[n]
  BY <1>1 DEF EventPlaces
<1>4. InOrder(d)
  BY <1>2, <1>3 DEF InOrder, Ordered
<1>5. NumbersOf(d) = NumbersOf(c)
  BY <1>2, <1>3 DEF NumbersOf
<1>6. QED
  BY <1>4, <1>5 DEF Ordered, NoGap, NumbersOf

\* The next number is added: the numbers stay an interval that ends with the last one sent.
LEMMA OrderedNumbered ==
  ASSUME NEW c \in ClientState, ~c.choked, NEW d,
         d.events = Append(c.events, <<"event", c.sent + 1>>), d.told = c.told,
         d.sent = c.sent + 1, d.choked = c.choked, Ordered(c)
  PROVE  Ordered(d)
<1> DEFINE e == <<"event", c.sent + 1>>
           l == Len(c.events) + 1
<1>0. e \in Event /\ e[1] = "event" /\ e[2] = c.sent + 1
  BY DEF Event, Kinds, ClientState
<1> HIDE DEF e
<1>1. /\ DOMAIN d.events = 1 .. l /\ DOMAIN c.events = 1 .. Len(c.events)
      /\ \A i \in 1 .. Len(c.events) : d.events[i] = c.events[i]
      /\ d.events[l] = e /\ Len(c.events) \in Nat
  <2>1. c.events \in Seq(Event) /\ d.events = Append(c.events, e)
    BY DEF ClientState, e
  <2>2. QED
    BY <1>0, <2>1, AppendIs, LenProperties
<1>2. EventPlaces(d) = EventPlaces(c) \cup {l}
  <2>1. ASSUME NEW n \in EventPlaces(d), n # l PROVE n \in EventPlaces(c)
    <3>1. n \in 1 .. Len(c.events)
      BY <1>1, <2>1 DEF EventPlaces
    <3>2. QED
      BY <1>1, <3>1 DEF EventPlaces
  <2>2. ASSUME NEW n \in EventPlaces(c) PROVE n \in EventPlaces(d)
    BY <1>1 DEF EventPlaces
  <2>3. l \in EventPlaces(d)
    BY <1>0, <1>1 DEF EventPlaces
  <2>4. QED
    BY <2>1, <2>2, <2>3
<1>3. \A n \in EventPlaces(c) : d.events[n] = c.events[n] /\ n < l /\ n \in Nat
  BY <1>1 DEF EventPlaces
<1>4. PICK last \in c.told .. c.sent : NumbersOf(c) = c.told + 1 .. last /\ last = c.sent
  BY DEF Ordered, NoGap, NumbersOf
<1>5. c.told \in Nat /\ c.sent \in Nat /\ c.told <= c.sent
  BY <1>4 DEF ClientState
<1>6. \A n \in EventPlaces(c) : c.events[n][2] \in c.told + 1 .. c.sent
  BY <1>4 DEF NumbersOf
<1>7. d.events[l][2] = c.sent + 1
  BY <1>0, <1>1
<1>8. InOrder(d)
  <2> SUFFICES ASSUME NEW m \in EventPlaces(d), NEW n \in EventPlaces(d), m < n
               PROVE  d.events[m][2] < d.events[n][2]
    BY DEF InOrder
  <2>0. l \in Nat
    BY <1>1
  <2>1. CASE m = l
    BY <1>2, <1>3, <2>0, <2>1
  <2>2. CASE m \in EventPlaces(c) /\ n = l
    <3>1. d.events[m] = c.events[m]
      BY <1>3, <2>2
    <3>2. c.events[m][2] \in c.told + 1 .. c.sent
      BY <1>6, <2>2
    <3>3. c.events[m][2] < c.sent + 1
      BY <1>5, <3>2
    <3>4. QED
      BY <1>7, <2>2, <3>1, <3>3
  <2>3. CASE m \in EventPlaces(c) /\ n \in EventPlaces(c)
    BY <1>3, <2>3 DEF InOrder, Ordered
  <2>4. QED
    BY <1>2, <2>1, <2>2, <2>3
<1>9. NumbersOf(d) = d.told + 1 .. d.sent
  <2>1. NumbersOf(d) = NumbersOf(c) \cup {c.sent + 1}
    BY <1>2, <1>3, <1>7 DEF NumbersOf
  <2>2. (c.told + 1 .. c.sent) \cup {c.sent + 1} = c.told + 1 .. c.sent + 1
    BY <1>5
  <2>3. QED
    BY <1>4, <2>1, <2>2
<1>10. d.sent \in d.told .. d.sent
  BY <1>5
<1>11. QED
  BY <1>8, <1>9, <1>10 DEF Ordered, NoGap, NumbersOf

\* The first event is taken: if it has a number, that is the one after the last one told.
LEMMA OrderedTaken ==
  ASSUME NEW c \in ClientState, c.events # <<>>, NEW d, d.events = Tail(c.events),
         d.told = IF Head(c.events)[1] = "event" THEN Head(c.events)[2] ELSE c.told,
         d.sent = c.sent, d.choked = c.choked, Ordered(c)
  PROVE  Ordered(d)
<1>1. /\ Len(c.events) \in Nat /\ Len(c.events) > 0 /\ Head(c.events) = c.events[1]
      /\ DOMAIN c.events = 1 .. Len(c.events) /\ DOMAIN d.events = 1 .. Len(c.events) - 1
      /\ \A i \in 1 .. Len(c.events) - 1 : d.events[i] = c.events[i + 1]
  BY TailIs, LenProperties DEF ClientState
<1>2. \A n \in EventPlaces(d) : n \in Nat /\ n + 1 \in EventPlaces(c) /\ n + 1 > 1
                                /\ d.events[n] = c.events[n + 1]
  BY <1>1 DEF EventPlaces
<1>3. \A n \in EventPlaces(c) : n \in Nat /\ (n = 1 \/ (n > 1 /\ n - 1 \in EventPlaces(d)
                                                      /\ d.events[n - 1] = c.events[n]))
  <2> SUFFICES ASSUME NEW n \in EventPlaces(c), n # 1
               PROVE  n \in Nat /\ n > 1 /\ n - 1 \in EventPlaces(d) /\ d.events[n - 1] = c.events[n]
    BY <1>1 DEF EventPlaces
  <2>1. n \in 1 .. Len(c.events) /\ n > 1 /\ n - 1 \in 1 .. Len(c.events) - 1 /\ (n - 1) + 1 = n
    BY <1>1 DEF EventPlaces
  <2>2. d.events[n - 1] = c.events[n]
    BY <1>1, <2>1
  <2>3. QED
    BY <1>1, <2>1, <2>2 DEF EventPlaces
<1>4. InOrder(d)
  <2> SUFFICES ASSUME NEW m \in EventPlaces(d), NEW n \in EventPlaces(d), m < n
               PROVE  d.events[m][2] < d.events[n][2]
    BY DEF InOrder
  <2>1. m + 1 < n + 1
    BY <1>2
  <2>2. QED
    BY <1>2, <2>1 DEF Ordered, InOrder
<1>5. PICK last \in c.told .. c.sent :
        NumbersOf(c) = c.told + 1 .. last /\ (last # c.sent => c.choked)
  BY DEF Ordered, NoGap, NumbersOf
<1>6. c.told \in Nat /\ c.sent \in Nat /\ last \in Nat /\ c.told <= last /\ last <= c.sent
  BY <1>5 DEF ClientState
<1>7. CASE 1 \notin EventPlaces(c)
  <2>1. d.told = c.told
    BY <1>1, <1>7 DEF EventPlaces
  <2>2. NumbersOf(d) = NumbersOf(c)
    <3>1. ASSUME NEW n \in EventPlaces(d) PROVE d.events[n][2] \in NumbersOf(c)
      BY <1>2 DEF NumbersOf
    <3>2. ASSUME NEW n \in EventPlaces(c) PROVE c.events[n][2] \in NumbersOf(d)
      BY <1>3, <1>7 DEF NumbersOf
    <3>3. QED
      BY <3>1, <3>2 DEF NumbersOf
  <2>3. QED
    BY <1>4, <1>5, <2>1, <2>2 DEF Ordered, NoGap, NumbersOf
<1>8. CASE 1 \in EventPlaces(c)
  <2> DEFINE x == c.events[1][2]
  <2>1. d.told = x
    BY <1>1, <1>8 DEF EventPlaces
  <2>2. x \in c.told + 1 .. last
    BY <1>5, <1>8 DEF NumbersOf
  <2>3. \A n \in EventPlaces(c) : n # 1 => x < c.events[n][2]
    BY <1>3, <1>8 DEF Ordered, InOrder
  <2>4. x = c.told + 1
    <3>1. c.told + 1 \in NumbersOf(c)
      BY <1>5, <1>6, <2>2
    <3>2. PICK n \in EventPlaces(c) : c.events[n][2] = c.told + 1
      BY <3>1 DEF NumbersOf
    <3>3. CASE n = 1
      BY <3>2, <3>3
    <3>4. CASE n # 1
      <4>1. x < c.told + 1
        BY <2>3, <3>2, <3>4
      <4>2. QED
        BY <1>6, <2>2, <4>1
    <3>5. QED
      BY <3>3, <3>4
  <2>5. NumbersOf(d) = NumbersOf(c) \ {x}
    <3>1. ASSUME NEW n \in EventPlaces(d) PROVE d.events[n][2] \in NumbersOf(c) \ {x}
      <4> DEFINE m == n + 1
      <4>1. m \in EventPlaces(c) /\ m > 1 /\ d.events[n] = c.events[m]
        BY <1>2
      <4> HIDE DEF m
      <4>2. m \in Nat /\ m # 1
        BY <1>3, <4>1
      <4>3. x < c.events[m][2] /\ c.events[m][2] \in NumbersOf(c)
        BY <2>3, <4>1, <4>2 DEF NumbersOf
      <4>4. c.events[m][2] \in c.told + 1 .. last
        BY <1>5, <4>3
      <4>5. c.events[m][2] # x
        BY <1>6, <2>4, <4>3, <4>4
      <4>6. QED
        BY <4>1, <4>3, <4>5
    <3>2. ASSUME NEW n \in EventPlaces(c), c.events[n][2] # x PROVE c.events[n][2] \in NumbersOf(d)
      BY <1>3, <3>2 DEF NumbersOf
    <3>3. QED
      BY <3>1, <3>2 DEF NumbersOf
  <2>6. (c.told + 1 .. last) \ {c.told + 1} = c.told + 1 + 1 .. last
    BY <1>6
  <2>7. NumbersOf(d) = d.told + 1 .. last /\ last \in d.told .. d.sent
    BY <1>5, <1>6, <2>1, <2>2, <2>4, <2>5, <2>6
  <2>8. QED
    BY <1>4, <1>5, <2>7 DEF Ordered, NoGap, NumbersOf
<1>9. QED
  BY <1>7, <1>8

\* The overflow is told, with an empty queue.
LEMMA OrderedOverflow ==
  ASSUME NEW c \in ClientState, c.events = <<>>, NEW d, d.events = c.events,
         d.told = c.sent, d.sent = c.sent
  PROVE  Ordered(d)
<1>1. DOMAIN d.events = {}
  BY EmptySeq
<1>2. EventPlaces(d) = {} /\ d.told \in Nat
  BY <1>1 DEF EventPlaces, ClientState
<1>3. d.told + 1 .. d.told = {} /\ d.told \in d.told .. d.sent
  BY <1>2
<1>4. QED
  BY <1>2, <1>3 DEF Ordered, InOrder, NoGap

-------------------------------------------------------------------------------
\* A sequence is a function on an interval.
LEMMA IsSequence ==
  ASSUME NEW S, NEW n \in Nat, NEW t \in [1 .. n -> S]
  PROVE  t \in Seq(S) /\ Len(t) = n /\ DOMAIN t = 1 .. n
<1>1. t \in Seq(S)
  BY SeqDef
<1>2. QED
  BY <1>1, LenProperties

\* What is done to an observed property: it changes, it waits for a hook or a hook for
\* it, the client is told of it, the core has read it.
LEMMA BumpedIs ==
  ASSUME NEW q \in Prop, StampsOf(q), NEW r, r = Bumped(q)
  PROVE  /\ r \in Prop /\ StampsOf(r) /\ ~Ready(r) /\ Stale(r)
         /\ r.name = q.name /\ r.ret_ts = q.ret_ts /\ r.hook_ts = q.hook_ts
         /\ r.value_ts = q.value_ts /\ r.waiting_for_hook = q.waiting_for_hook
         /\ r.swallowed = q.swallowed
  BY DEF Prop, StampsOf, Bumped, Ready, Stale

\* It is marked as one that a hook waits for, if the user does not know it.
LEMMA WaitingIs ==
  ASSUME NEW q \in Prop, StampsOf(q), NEW r, r = Waiting(q)
  PROVE  /\ r \in Prop /\ StampsOf(r)
         /\ r.name = q.name /\ r.change_ts = q.change_ts /\ r.value_ts = q.value_ts
         /\ r.ret_ts = q.ret_ts /\ r.hook_ts = q.hook_ts /\ r.value = q.value
         /\ r.swallowed = q.swallowed
         /\ r.waiting_for_hook \/ r.ret_ts >= r.hook_ts
         /\ q.waiting_for_hook => r.waiting_for_hook
  BY DEF Prop, StampsOf, Waiting

\* A hook is started: its changes until now come before the hook.
LEMMA MarkedIs ==
  ASSUME NEW q \in Prop, StampsOf(q), NEW r, r = Marked(q)
  PROVE  /\ r \in Prop /\ StampsOf(r)
         /\ r.name = q.name /\ r.change_ts = q.change_ts /\ r.value_ts = q.value_ts
         /\ r.ret_ts = q.ret_ts /\ r.value = q.value /\ r.swallowed = q.swallowed
         /\ r.waiting_for_hook = q.waiting_for_hook
  BY DEF Prop, StampsOf, Marked

\* The user is told.
LEMMA ToldIs ==
  ASSUME NEW q \in Prop, StampsOf(q), Ready(q), NEW r, r = Told(q)
  PROVE  /\ r \in Prop /\ StampsOf(r) /\ ~Ready(r)
         /\ r.name = q.name /\ r.change_ts = q.change_ts /\ r.value_ts = q.value_ts
         /\ r.value = q.value /\ r.swallowed = q.swallowed /\ r.hook_ts = q.hook_ts
         /\ r.ret_ts = r.change_ts /\ r.ret_ts >= q.ret_ts
  BY DEF Prop, StampsOf, Ready, Told

\* A value is stored.  What a hook waits for is either new to the user or not waited
\* for any more: nothing stays marked for ever.
LEMMA StoredIs ==
  ASSUME NEW q \in Prop, StampsOf(q), Stale(q), NEW v \in Values, NEW b \in BOOLEAN,
         NEW r, r = Stored(q, v, b)
  PROVE  /\ r \in Prop /\ StampsOf(r) /\ ~Stale(r)
         /\ r.name = q.name /\ r.change_ts = q.change_ts /\ r.hook_ts = q.hook_ts
         /\ r.value = v /\ (r.swallowed <=> b) /\ r.ret_ts >= q.ret_ts
         /\ Ready(r) => NewToUser(q, v)
         /\ q.waiting_for_hook => NewToUser(q, v)
         /\ r.waiting_for_hook \/ r.ret_ts = r.change_ts \/ ~q.waiting_for_hook
<1> DEFINE new == [q EXCEPT !.value = v, !.value_ts = q.change_ts, !.swallowed = b]
           told == [new EXCEPT !.ret_ts = q.change_ts, !.waiting_for_hook = FALSE]
<1>1. CASE (q.value_ts # 0 /\ q.value = v) /\ q.ret_ts = q.value_ts
  <2>1. r = told
    BY <1>1 DEF Stored
  <2>2. /\ told.ret = q.ret /\ q.ret = {q.value} /\ told.value = v
    BY <1>1 DEF Prop, StampsOf
  <2>3. told \in Prop
    BY DEF Prop
  <2>4. /\ told.name = q.name /\ told.change_ts = q.change_ts /\ told.value_ts = q.change_ts
        /\ told.hook_ts = q.hook_ts /\ told.swallowed = b /\ told.ret_ts = q.change_ts
        /\ ~told.waiting_for_hook
    BY DEF Prop
  <2>5. QED
    BY <1>1, <2>1, <2>2, <2>3, <2>4 DEF Prop, StampsOf, Ready, Stale, NewToUser
<1>2. CASE ~((q.value_ts # 0 /\ q.value = v) /\ q.ret_ts = q.value_ts)
  <2>1. r = new
    BY <1>2 DEF Stored
  <2>2. /\ new \in Prop /\ new.name = q.name /\ new.change_ts = q.change_ts
        /\ new.value_ts = q.change_ts /\ new.hook_ts = q.hook_ts /\ new.swallowed = b
        /\ new.ret_ts = q.ret_ts /\ new.ret = q.ret /\ new.value = v
        /\ new.waiting_for_hook = q.waiting_for_hook
    BY DEF Prop
  <2>3. q.ret_ts < q.change_ts
    BY DEF Prop, StampsOf, Stale
  <2>4. NewToUser(q, v)
    BY <1>2 DEF NewToUser
  <2>5. QED
    BY <2>1, <2>2, <2>3, <2>4 DEF Prop, StampsOf, Ready, Stale
<1>3. QED
  BY <1>1, <1>2

\* A new one.
LEMMA NewPropIs ==
  ASSUME NEW p \in Props, value \in [Props -> Values], NEW q, q = NewProp(p)
  PROVE  q \in Prop /\ StampsOf(q) /\ ~Ready(q) /\ Stale(q) /\ q.ret_ts >= q.hook_ts
  BY DEF NewProp, Prop, StampsOf, Ready, Stale

-------------------------------------------------------------------------------
\* The core goes on with what it does: it may be woken, told that the properties of the
\* handle it reads for changed, and be in a hook or behind it.
CoreKept(k, l) ==
  /\ l.pc = k.pc /\ l.n = k.n /\ l.i = k.i /\ l.reads = k.reads
  /\ (k.woken => l.woken) /\ (k.props_changed => l.props_changed)
  /\ l.hook = "none" => k.hook = "none"

\* The core was woken, or its flags were set: that loses nothing.
LEMMA LinkedCore ==
  ASSUME NEW h, NEW c, NEW k, NEW l, NEW cs, NEW L, NEW s, NEW v,
         CoreKept(k, l), Linked(h, c, k, cs, L, s, v)
  PROVE  Linked(h, c, l, cs, L, s, v)
<1>1. ReadsOf(l, h) = ReadsOf(k, h)
  BY DEF ReadsOf, CoreKept
<1>2. Life(h, c, l, L, s) /\ SleepsJustly(h, c, l, L, s)
  BY <1>1 DEF Linked, Life, SleepsJustly, NothingNew
<1>3. HookInv(c, l) /\ StaleKnown(h, c, l, L)
  BY <1>1 DEF Linked, HookInv, StaleKnown, CoreKept
<1>4. PendingKnown(h, c, l, cs, L)
  BY DEF Linked, PendingKnown, CoreKept
<1>5. QED
  BY <1>2, <1>3, <1>4 DEF Linked

\* What the user does is about where he is.
LEMMA UserMoved ==
  ASSUME NEW h, NEW c, NEW d \in ClientState, NEW k, NEW cs, NEW L, NEW s, NEW v,
         Own(c), Linked(h, c, k, cs, L, s, v),
         SameEvents(c, d), SameProps(c, d), SameLife(c, d),
         d.user = "continue" => c.user = "continue",
         Life(h, d, k, L, s), SleepsJustly(h, d, k, L, s)
  PROVE  Own(d) /\ Linked(h, d, k, cs, L, s, v)
<1>1. Own(d)
  BY DEF Own, SameEvents, SameProps, SameLife, Fits, Cursor, Stamps, HookInOrder, ReadyAhead
<1>2. EventsInv(h, d, L)
  BY DEF Linked, EventsInv, SameEvents, InOrder, NoGap, EventPlaces
<1>3. HookInv(d, k)
  BY DEF Linked, HookInv, SameEvents, SameProps
<1>4. ValuesTrue(h, d, L, v) /\ StaleKnown(h, d, k, L) /\ PendingKnown(h, d, k, cs, L)
  BY DEF Linked, ValuesTrue, StaleKnown, PendingKnown, SameProps, SameLife
<1>5. QED
  BY <1>1, <1>2, <1>3, <1>4 DEF Linked

\* A user who does not fall asleep by the step sleeps as justly as before.
LEMMA StillDrowsy ==
  ASSUME NEW h, NEW c, NEW d, NEW k, NEW L, NEW s, SleepsJustly(h, c, k, L, s),
         SameEvents(c, d), SameProps(c, d), SameLife(c, d),
         Drowsy(d) => Drowsy(c) /\ d.need_wakeup = c.need_wakeup
  PROVE  SleepsJustly(h, d, k, L, s)
  BY DEF SleepsJustly, NothingNew, SameEvents, SameProps, SameLife, WaitsForProps

\* Who was roused is awake.
LEMMA RousedIsAwake ==
  ASSUME NEW h, NEW c \in ClientState, NEW d \in ClientState, NEW k, NEW L, NEW s,
         Roused(c, d), SameLife(c, d), SleepsJustly(h, c, k, L, s)
  PROVE  /\ d.need_wakeup
         /\ \A l : SleepsJustly(h, d, l, L, s)
<1>1. CASE c.need_wakeup
  <2>1. Drowsy(d) => Drowsy(c)
    BY <1>1 DEF Roused, SameUser, SameLife, Drowsy
  <2>2. QED
    BY <1>1, <2>1 DEF Roused, SameUser, SameLife, SleepsJustly
<1>2. CASE ~c.need_wakeup
  <2>1. ~Drowsy(d)
    BY <1>2 DEF Roused, Rouse, Drowsy
  <2>2. QED
    BY <1>2, <2>1 DEF Roused, SleepsJustly
<1>3. QED
  BY <1>1, <1>2

\* And is where it may be.
LEMMA RousedLives ==
  ASSUME NEW h, NEW c \in ClientState, NEW d \in ClientState, NEW k, NEW L, NEW s,
         Roused(c, d), SameLife(c, d), d.props = c.props, d.reserved <= c.reserved,
         Life(h, c, k, L, s), h \in L
  PROVE  /\ Life(h, d, k, L, s)
         /\ (d.user = "continue") = (c.user = "continue")
<1>1. /\ d.user = c.user \/ (c.user = "sleep" /\ d.user = "woken")
      /\ d.joiner = c.joiner \/ (c.joiner = "sleep" /\ d.joiner = "woken")
  BY DEF Roused, SameUser, Rouse
<1>2. d.user \notin Gone /\ ((d.user = "continue") = (c.user = "continue"))
  BY <1>1 DEF Life, Gone
<1>3. d.user = "remove" => d.reserved = 0
  BY <1>1 DEF Life, ClientState
<1>4. c.called => d.called
  BY DEF Roused, SameUser
<1>5. QED
  BY <1>1, <1>2, <1>3, <1>4 DEF Life, SameLife, ClientState

-------------------------------------------------------------------------------
\* An event is added to the queue of a handle.
LEMMA EventAdded ==
  ASSUME NEW h, NEW c, NEW d \in ClientState, NEW what \in Event,
         NEW k, NEW cs, NEW L, NEW s, NEW v,
         Own(c), Linked(h, c, k, cs, L, s, v), h \in L,
         d.events = Append(c.events, what), d.reserved <= c.reserved, Fits(d), Ordered(d),
         SameProps(c, d), SameLife(c, d), Roused(c, d),
         what[1] = "hook" => k.hook # "none"
  PROVE  Own(d) /\ Linked(h, d, k, cs, L, s, v)
<1>1. c \in ClientState /\ d.props = c.props
  BY DEF Own, SameProps
<1>2. /\ Life(h, d, k, L, s) /\ ((d.user = "continue") = (c.user = "continue"))
      /\ SleepsJustly(h, d, k, L, s)
  BY <1>1, RousedLives, RousedIsAwake DEF Linked
<1>3. Own(d)
  BY <1>2 DEF Own, SameProps, SameLife, Cursor, Stamps, HookInOrder, ReadyAhead
<1>4. HookInv(d, k)
  <2> SUFFICES ASSUME k.hook = "none", NEW n \in DOMAIN d.events PROVE d.events[n][1] # "hook"
    BY <1>2 DEF Linked, HookInv, SameProps
  <2>1. /\ DOMAIN d.events = 1 .. Len(c.events) + 1 /\ DOMAIN c.events = 1 .. Len(c.events)
        /\ \A i \in 1 .. Len(c.events) : d.events[i] = c.events[i]
        /\ d.events[Len(c.events) + 1] = what /\ Len(c.events) \in Nat
    BY <1>1, AppendIs, LenProperties DEF ClientState
  <2>2. CASE n = Len(c.events) + 1
    BY <2>1, <2>2
  <2>3. CASE n # Len(c.events) + 1
    <3>1. n \in DOMAIN c.events /\ d.events[n] = c.events[n]
      BY <2>1, <2>3
    <3>2. QED
      BY <3>1 DEF Linked, HookInv
  <2>4. QED
    BY <2>2, <2>3
<1>5. EventsInv(h, d, L)
  BY DEF EventsInv, Ordered
<1>6. ValuesTrue(h, d, L, v) /\ StaleKnown(h, d, k, L) /\ PendingKnown(h, d, k, cs, L)
  BY DEF Linked, ValuesTrue, StaleKnown, PendingKnown, SameProps, SameLife
<1>7. QED
  BY <1>2, <1>3, <1>4, <1>5, <1>6 DEF Linked

\* An event is lost, and the client will be told so, or it is the second "shutdown".
LEMMA EventLost ==
  ASSUME NEW h, NEW c, NEW d \in ClientState, NEW k, NEW cs, NEW L, NEW s, NEW v,
         Own(c), Linked(h, c, k, cs, L, s, v), h \in L,
         d.events = c.events, d.reserved = c.reserved, Ordered(d),
         d.choked => c.choked \/ c.reserved > 0 \/ c.events # <<>>,
         SameProps(c, d), SameLife(c, d), SameUser(c, d)
  PROVE  Own(d) /\ Linked(h, d, k, cs, L, s, v)
<1>1. Life(h, d, k, L, s)
  BY DEF Linked, Life, SameProps, SameLife, SameUser
<1>2. SleepsJustly(h, d, k, L, s)
  BY DEF Linked, SleepsJustly, NothingNew, Drowsy, WaitsForProps, SameProps, SameLife, SameUser
<1>3. Own(d)
  BY DEF Own, SameProps, SameLife, SameUser, Fits, Cursor, Stamps, HookInOrder, ReadyAhead
<1>4. HookInv(d, k) /\ EventsInv(h, d, L)
  BY DEF Linked, HookInv, EventsInv, Ordered, SameProps, SameUser
<1>5. ValuesTrue(h, d, L, v) /\ StaleKnown(h, d, k, L) /\ PendingKnown(h, d, k, cs, L)
  BY DEF Linked, ValuesTrue, StaleKnown, PendingKnown, SameProps, SameLife
<1>6. QED
  BY <1>1, <1>2, <1>3, <1>4, <1>5 DEF Linked

\* send_event(): the event is there, or the client is choked, or it is masked.  A client that
\* is choked has a full queue or replies to come: it will look at its queue again.
LEMMA SendEventIs ==
  ASSUME NEW c, Own(c), NEW what \in Event, NEW d, d = SendEvent(c, what)
  PROVE  /\ d \in ClientState /\ d.reserved = c.reserved /\ d.told = c.told /\ d.sent = c.sent
         /\ SameProps(c, d) /\ SameLife(c, d) /\ Fits(d)
         /\ \/ /\ d.events = c.events /\ SameUser(c, d) /\ (c.choked => d.choked)
               /\ d.choked => c.choked \/ c.reserved > 0 \/ c.events # <<>>
               /\ d.choked \/ Masked(c, what)
            \/ /\ d.events = Append(c.events, what) /\ d.choked = c.choked /\ ~c.choked
               /\ Roused(c, d) /\ ~Masked(c, what) /\ ~Fails(c, what)
<1>1. c \in ClientState /\ Fits(c)
  BY DEF Own
<1>2. CASE Masked(c, what)
  <2>1. d = c
    BY <1>2 DEF SendEvent
  <2>2. QED
    BY <1>1, <1>2, <2>1 DEF SameProps, SameLife, SameUser
<1>3. CASE ~Masked(c, what) /\ Fails(c, what)
  <2> DEFINE e == [c EXCEPT !.choked = TRUE]
  <2>1. d = e
    BY <1>3 DEF SendEvent
  <2>2. e \in ClientState /\ e.choked
    BY <1>1 DEF ClientState
  <2>3. /\ e.events = c.events /\ e.reserved = c.reserved /\ e.told = c.told /\ e.sent = c.sent
        /\ SameProps(c, e) /\ SameLife(c, e) /\ SameUser(c, e)
    BY <1>1 DEF ClientState, SameProps, SameLife, SameUser
  <2> HIDE DEF e
  <2>4. c.choked \/ c.reserved > 0 \/ c.events # <<>>
    <3>1. CASE c.choked
      BY <3>1
    <3>2. CASE ~HasRoom(c)
      <4>1. Len(c.events) \in Nat /\ c.reserved \in Nat /\ (Len(c.events) = 0 \/ c.events # <<>>)
        BY <1>1, LenProperties, EmptySeq DEF ClientState
      <4>2. ~(Len(c.events) + c.reserved < MaxEvents) /\ MaxEvents > 0 /\ MaxEvents \in Nat
        BY <3>2, ConstantsAssumption DEF HasRoom
      <4>3. QED
        BY <4>1, <4>2
    <3>3. QED
      BY <1>3, <3>1, <3>2 DEF Fails
  <2>5. QED
    BY <1>1, <2>1, <2>2, <2>3, <2>4 DEF Fits
<1>4. CASE ~Masked(c, what) /\ ~Fails(c, what)
  <2>1. d = AppendEvent(c, what) /\ HasRoom(c) /\ ~c.choked
    BY <1>4 DEF SendEvent, Fails
  <2>2. /\ d \in ClientState /\ d.events = Append(c.events, what)
        /\ Len(d.events) = Len(c.events) + 1
        /\ d.reserved = c.reserved /\ d.choked = c.choked /\ d.told = c.told /\ d.sent = c.sent
        /\ SameProps(c, d) /\ SameLife(c, d) /\ Roused(c, d)
    BY <1>1, <2>1, AppendEventIs
  <2>3. Fits(d)
    <3>1. Len(c.events) \in Nat /\ c.reserved \in Nat /\ MaxEvents \in Nat
      BY <1>1, LenProperties, ConstantsAssumption DEF ClientState
    <3>2. Len(c.events) + c.reserved < MaxEvents
      BY <2>1 DEF HasRoom
    <3>3. Len(c.events) + 1 + c.reserved <= MaxEvents
      BY <3>1, <3>2
    <3>4. QED
      BY <2>2, <3>3 DEF Fits
  <2>4. QED
    BY <1>4, <2>1, <2>2, <2>3
<1>5. QED
  BY <1>2, <1>3, <1>4

\* An event without a number is sent; one with a number; a reply.
LEMMA EventSent ==
  ASSUME NEW h, NEW c, NEW what \in Event, NEW k, NEW cs, NEW L, NEW s, NEW v,
         Own(c), Linked(h, c, k, cs, L, s, v), h \in L, what[1] # "event",
         what[1] = "hook" => k.hook # "none",
         NEW d, d = SendEvent(c, what)
  PROVE  /\ Own(d) /\ Linked(h, d, k, cs, L, s, v)
         /\ SameProps(c, d) /\ SameLife(c, d) /\ d.reserved = c.reserved
<1>1. /\ d \in ClientState /\ d.reserved = c.reserved /\ d.told = c.told /\ d.sent = c.sent
      /\ SameProps(c, d) /\ SameLife(c, d) /\ Fits(d)
      /\ \/ /\ d.events = c.events /\ SameUser(c, d) /\ (c.choked => d.choked)
            /\ d.choked => c.choked \/ c.reserved > 0 \/ c.events # <<>>
         \/ d.events = Append(c.events, what) /\ d.choked = c.choked /\ Roused(c, d)
  BY SendEventIs
<1>2. c \in ClientState /\ Ordered(c) /\ d.reserved <= c.reserved
  BY <1>1 DEF Own, Linked, EventsInv, Ordered, ClientState
<1>3. CASE d.events = Append(c.events, what) /\ d.choked = c.choked /\ Roused(c, d)
  <2>1. Ordered(d)
    BY <1>1, <1>2, <1>3, OrderedOther
  <2>2. QED
    BY <1>1, <1>2, <1>3, <2>1, EventAdded
<1>4. CASE /\ d.events = c.events /\ SameUser(c, d) /\ (c.choked => d.choked)
           /\ d.choked => c.choked \/ c.reserved > 0 \/ c.events # <<>>
  <2>1. Ordered(d)
    BY <1>1, <1>2, <1>4, OrderedSame
  <2>2. QED
    BY <1>1, <1>4, <2>1, EventLost
<1>5. QED
  BY <1>1, <1>3, <1>4

LEMMA NumberedSent ==
  ASSUME NEW h, NEW c, NEW k, NEW cs, NEW L, NEW s, NEW v,
         Own(c), Linked(h, c, k, cs, L, s, v), h \in L, NEW d, d = SendNumbered(c)
  PROVE  /\ Own(d) /\ Linked(h, d, k, cs, L, s, v)
         /\ SameProps(c, d) /\ SameLife(c, d) /\ d.reserved = c.reserved
<1> DEFINE what == <<"event", c.sent + 1>>
           e == SendEvent(c, what)
<1>1. c \in ClientState /\ Ordered(c)
  BY DEF Own, Linked, EventsInv, Ordered
<1>2. what \in Event /\ what[1] = "event"
  BY <1>1 DEF ClientState, Event, Kinds
<1>3. d = [e EXCEPT !.sent = @ + 1] /\ ~Masked(c, what)
  BY DEF SendNumbered, Masked
<1> HIDE DEF what
<1>4. /\ e \in ClientState /\ e.reserved = c.reserved /\ e.told = c.told /\ e.sent = c.sent
      /\ SameProps(c, e) /\ SameLife(c, e) /\ Fits(e)
      /\ \/ /\ e.events = c.events /\ SameUser(c, e) /\ (c.choked => e.choked) /\ e.choked
            /\ e.choked => c.choked \/ c.reserved > 0 \/ c.events # <<>>
         \/ /\ e.events = Append(c.events, what) /\ e.choked = c.choked /\ ~c.choked
            /\ Roused(c, e)
  BY <1>2, <1>3, SendEventIs
<1> HIDE DEF e
<1>5. /\ d \in ClientState /\ d.reserved = e.reserved /\ d.told = e.told /\ d.sent = e.sent + 1
      /\ d.events = e.events /\ d.choked = e.choked
      /\ SameProps(e, d) /\ SameLife(e, d) /\ SameUser(e, d)
  <2>1. e \in ClientState /\ e.sent + 1 \in Nat
    BY <1>4 DEF ClientState
  <2>2. d \in ClientState
    BY <1>3, <2>1 DEF ClientState
  <2>3. /\ d.reserved = e.reserved /\ d.told = e.told /\ d.sent = e.sent + 1
        /\ d.events = e.events /\ d.choked = e.choked
    BY <1>3, <2>1 DEF ClientState
  <2>4. SameProps(e, d) /\ SameLife(e, d) /\ SameUser(e, d)
    BY <1>3, <2>1 DEF ClientState, SameProps, SameLife, SameUser
  <2>5. QED
    BY <2>2, <2>3, <2>4
<1>6. /\ SameProps(c, d) /\ SameLife(c, d) /\ Fits(d) /\ d.reserved <= c.reserved
      /\ d.reserved = c.reserved /\ d.sent = c.sent + 1 /\ d.told = c.told
  BY <1>1, <1>4, <1>5 DEF SameProps, SameLife, Fits, ClientState
<1>7. CASE e.events = Append(c.events, what) /\ e.choked = c.choked /\ ~c.choked /\ Roused(c, e)
  <2>1. Ordered(d)
    BY <1>1, <1>5, <1>6, <1>7, OrderedNumbered DEF what
  <2>2. Roused(c, d) /\ d.events = Append(c.events, what)
    BY <1>5, <1>7 DEF Roused, SameUser
  <2>3. QED
    BY <1>2, <1>5, <1>6, <2>1, <2>2, EventAdded
<1>8. CASE /\ e.events = c.events /\ SameUser(c, e) /\ (c.choked => e.choked) /\ e.choked
           /\ e.choked => c.choked \/ c.reserved > 0 \/ c.events # <<>>
  <2>1. Ordered(d)
    BY <1>1, <1>5, <1>6, <1>8, OrderedChoked
  <2>2. SameUser(c, d)
    BY <1>5, <1>8 DEF SameUser
  <2>3. QED
    BY <1>5, <1>6, <1>8, <2>1, <2>2, EventLost
<1>9. QED
  BY <1>4, <1>7, <1>8

LEMMA ReplySent ==
  ASSUME NEW h, NEW c, NEW k, NEW cs, NEW L, NEW s, NEW v,
         Own(c), Linked(h, c, k, cs, L, s, v), h \in L, c.reserved > 0,
         NEW d, d = SendReply(c)
  PROVE  /\ Own(d) /\ Linked(h, d, k, cs, L, s, v)
         /\ SameProps(c, d) /\ SameLife(c, d) /\ d.reserved = c.reserved - 1
<1> DEFINE e == [c EXCEPT !.reserved = @ - 1]
           what == <<"reply", 0>>
<1>1. c \in ClientState /\ Ordered(c) /\ Fits(c)
  BY DEF Own, Linked, EventsInv, Ordered
<1>2. what \in Event /\ what[1] = "reply"
  BY DEF Event, Kinds
<1>3. /\ e \in ClientState /\ e.reserved = c.reserved - 1 /\ e.events = c.events
      /\ e.choked = c.choked /\ e.told = c.told /\ e.sent = c.sent
      /\ SameProps(c, e) /\ SameLife(c, e) /\ SameUser(c, e)
  <2>1. c.reserved - 1 \in Nat
    BY <1>1 DEF ClientState
  <2>2. e \in ClientState
    BY <1>1, <2>1 DEF ClientState
  <2>3. /\ e.reserved = c.reserved - 1 /\ e.events = c.events
        /\ e.choked = c.choked /\ e.told = c.told /\ e.sent = c.sent
    BY <1>1 DEF ClientState
  <2>4. SameProps(c, e) /\ SameLife(c, e) /\ SameUser(c, e)
    BY <1>1 DEF ClientState, SameProps, SameLife, SameUser
  <2>5. QED
    BY <2>2, <2>3, <2>4
<1>4. d = AppendEvent(e, what)
  BY DEF SendReply
<1> HIDE DEF e, what
<1>5. /\ d \in ClientState /\ d.events = Append(c.events, what)
      /\ Len(d.events) = Len(c.events) + 1
      /\ d.reserved = c.reserved - 1 /\ d.choked = c.choked /\ d.told = c.told /\ d.sent = c.sent
      /\ SameProps(e, d) /\ SameLife(e, d) /\ Roused(e, d)
  <2>1. e \in ClientState
    BY <1>3
  <2>2. /\ d \in ClientState /\ d.events = Append(e.events, what)
        /\ Len(d.events) = Len(e.events) + 1
        /\ d.reserved = e.reserved /\ d.choked = e.choked /\ d.told = e.told /\ d.sent = e.sent
        /\ SameProps(e, d) /\ SameLife(e, d) /\ Roused(e, d)
    BY <1>2, <1>4, <2>1, AppendEventIs
  <2>3. QED
    BY <1>3, <2>2
<1>6. SameProps(c, d) /\ SameLife(c, d) /\ Roused(c, d)
  BY <1>3, <1>5 DEF SameProps, SameLife, SameUser, Roused
<1>7. Ordered(d)
  BY <1>1, <1>2, <1>5, OrderedOther
<1>8. Fits(d) /\ d.reserved <= c.reserved
  <2>1. Len(c.events) \in Nat /\ c.reserved \in Nat /\ MaxEvents \in Nat
    BY <1>1, LenProperties, ConstantsAssumption DEF ClientState
  <2>2. Len(c.events) + c.reserved <= MaxEvents
    BY <1>1 DEF Fits
  <2>3. (Len(c.events) + 1) + (c.reserved - 1) <= MaxEvents /\ c.reserved - 1 <= c.reserved
    BY <2>1, <2>2
  <2>4. QED
    BY <1>5, <2>3 DEF Fits
<1>9. QED
  BY <1>2, <1>5, <1>6, <1>7, <1>8, EventAdded

-------------------------------------------------------------------------------
\* What the core, which reads a property of the handle, relies on.
SameReading(c, d) ==
  /\ d.destroying = c.destroying /\ DOMAIN d.props = DOMAIN c.props
  /\ \A i \in DOMAIN c.props : /\ d.props[i].name = c.props[i].name
                               /\ Stale(c.props[i]) => Stale(d.props[i])

\* A property changes: whether it is observed or not.
LEMMA NotifiedIs ==
  ASSUME NEW h, NEW c, NEW p, NEW k, NEW cs, NEW L, NEW s, NEW v, NEW w,
         Own(c), Linked(h, c, k, cs, L, s, v),
         \A q \in Props : q # p => w[q] = v[q],
         Observes(c, p) => k.woken \/ k.pc = "loop",
         NEW d, d = Notified(c, p)
  PROVE  /\ Own(d) /\ Linked(h, d, k, cs, L, s, w)
         /\ SameReading(c, d) /\ d.reserved = c.reserved
         /\ \A i \in DOMAIN c.props : c.props[i].name # p => d.props[i] = c.props[i]
<1>1. c \in ClientState /\ c.props \in Seq(Prop) /\ \A i \in DOMAIN c.props : c.props[i] \in Prop
  BY ElementOfSeq, LenProperties DEF Own, ClientState
<1>2. CASE ~Observes(c, p)
  <2>1. d = c
    BY <1>2 DEF Notified
  <2>2. \A i \in DOMAIN c.props : c.props[i].name # p /\ c.props[i].name \in Props
    BY <1>1, <1>2 DEF Observes, Prop
  <2>3. ValuesTrue(h, c, L, w)
    BY <2>2 DEF Linked, ValuesTrue
  <2>4. QED
    BY <2>1, <2>3 DEF Linked, SameReading
<1>3. CASE Observes(c, p)
  <2> DEFINE f == [i \in DOMAIN c.props |->
                     IF c.props[i].name = p THEN Bumped(c.props[i]) ELSE c.props[i]]
  <2>1. ASSUME NEW i \in DOMAIN c.props
        PROVE  /\ f[i] \in Prop /\ StampsOf(f[i])
               /\ Ready(f[i]) => Ready(c.props[i])
               /\ Stale(c.props[i]) => Stale(f[i])
               /\ f[i].name = c.props[i].name /\ f[i].ret_ts = c.props[i].ret_ts
               /\ f[i].hook_ts = c.props[i].hook_ts
               /\ f[i].waiting_for_hook = c.props[i].waiting_for_hook
               /\ c.props[i].name # p => f[i] = c.props[i]
               /\ c.props[i].name = p => Stale(f[i])
    <3>1. c.props[i] \in Prop /\ StampsOf(c.props[i])
      BY <1>1 DEF Own, Stamps
    <3>2. CASE c.props[i].name = p
      <4>1. f[i] = Bumped(c.props[i])
        BY <3>2
      <4> HIDE DEF f
      <4>2. QED
        BY <3>1, <3>2, <4>1, BumpedIs
    <3>3. CASE c.props[i].name # p
      <4>1. f[i] = c.props[i]
        BY <3>3
      <4> HIDE DEF f
      <4>2. QED
        BY <3>1, <3>3, <4>1
    <3>4. QED
      BY <3>2, <3>3
  <2>2. DOMAIN c.props = 1 .. Len(c.props) /\ Len(c.props) \in Nat
    BY <1>1, LenProperties
  <2>3. f \in [1 .. Len(c.props) -> Prop]
    BY <2>1, <2>2
  <2>4. f \in Seq(Prop) /\ Len(f) = Len(c.props) /\ DOMAIN f = DOMAIN c.props
    BY <2>2, <2>3, IsSequence
  <2>5. d = [c EXCEPT !.pending = TRUE, !.props = f]
    BY <1>3 DEF Notified
  <2> HIDE DEF f
  <2>6. d \in ClientState
    BY <1>1, <2>4, <2>5 DEF ClientState
  <2>7. /\ d.props = f /\ d.pending /\ d.cur = c.cur /\ d.new_events = c.new_events
        /\ d.hook_pending = c.hook_pending /\ d.orphaned = c.orphaned
        /\ SameEvents(c, d) /\ SameLife(c, d) /\ SameUser(c, d)
    BY <1>1, <2>5 DEF ClientState, SameEvents, SameLife, SameUser
  <2>8. Own(d)
    BY <2>1, <2>4, <2>6, <2>7
       DEF Own, Fits, Cursor, Stamps, HookInOrder, ReadyAhead, SameEvents, SameLife, SameUser
  <2>9. Life(h, d, k, L, s)
    <3>1. c.props = <<>> => f = <<>>
      BY <2>2, <2>4, EmptySeq
    <3>2. QED
      BY <2>7, <3>1 DEF Linked, Life, SameEvents, SameLife, SameUser
  <2>10. SleepsJustly(h, d, k, L, s)
    <3>1. WaitsForProps(c) => WaitsForProps(d)
      BY <2>1, <2>4, <2>7 DEF WaitsForProps
    <3>2. Drowsy(d) => Drowsy(c)
      BY <2>7 DEF Drowsy, SameUser, SameLife
    <3>3. \A i \in DOMAIN d.props : Ready(d.props[i]) => i \in DOMAIN c.props /\ Ready(c.props[i])
      BY <2>1, <2>4, <2>7
    <3>4. QED
      BY <2>7, <3>1, <3>2, <3>3 DEF Linked, SleepsJustly, NothingNew, SameEvents, SameLife, SameUser
  <2>11. EventsInv(h, d, L) /\ HookInv(d, k)
    BY <2>7 DEF Linked, EventsInv, HookInv, InOrder, NoGap, EventPlaces, SameEvents, SameUser
  <2>12. ValuesTrue(h, d, L, w)
    <3> SUFFICES ASSUME h \in L, NEW i \in DOMAIN c.props
                 PROVE  Stale(f[i]) \/ f[i].swallowed \/ f[i].value = w[f[i].name]
      BY <2>4, <2>7 DEF ValuesTrue
    <3>1. CASE c.props[i].name = p
      BY <2>1, <3>1
    <3>2. CASE c.props[i].name # p
      <4>1. f[i] = c.props[i] /\ c.props[i].name \in Props
        BY <1>1, <2>1, <3>2 DEF Prop
      <4>2. Stale(c.props[i]) \/ c.props[i].swallowed \/ c.props[i].value = v[c.props[i].name]
        BY DEF Linked, ValuesTrue
      <4>3. QED
        BY <3>2, <4>1, <4>2
    <3>3. QED
      BY <3>1, <3>2
  <2>13. StaleKnown(h, d, k, L) /\ PendingKnown(h, d, k, cs, L)
    BY <1>3, <2>7 DEF StaleKnown, PendingKnown
  <2>14. SameReading(c, d)
    BY <2>1, <2>4, <2>7 DEF SameReading, SameLife
  <2>15. QED
    BY <2>1, <2>7, <2>8, <2>9, <2>10, <2>11, <2>12, <2>13, <2>14 DEF Linked, SameEvents
<1>4. QED
  BY <1>2, <1>3

\* A property is observed: the core is woken to read it.
LEMMA ObservedIs ==
  ASSUME NEW h, NEW c, NEW p \in Props, NEW k, NEW cs, NEW L, NEW s, value \in [Props -> Values],
         Own(c), Linked(h, c, k, cs, L, s, value), k.woken, ~c.destroying,
         NEW d, d = Observed(c, p)
  PROVE  Own(d) /\ Linked(h, d, k, cs, L, s, value) /\ d.reserved = c.reserved
<1> DEFINE q == NewProp(p)
           f == Append(c.props, q)
<1>1. q \in Prop /\ StampsOf(q) /\ ~Ready(q) /\ Stale(q) /\ q.ret_ts >= q.hook_ts
  BY NewPropIs
<1>2. c \in ClientState /\ c.props \in Seq(Prop)
  BY DEF Own, ClientState
<1> HIDE DEF q
<1>3. /\ f \in Seq(Prop) /\ Len(f) = Len(c.props) + 1 /\ DOMAIN f = 1 .. Len(c.props) + 1
      /\ DOMAIN c.props = 1 .. Len(c.props) /\ Len(c.props) \in Nat
      /\ \A i \in 1 .. Len(c.props) : f[i] = c.props[i]
      /\ f[Len(c.props) + 1] = q
  BY <1>1, <1>2, AppendIs, LenProperties
<1>4. d = [c EXCEPT !.props = f, !.new_events = TRUE, !.cur = 1, !.pending = TRUE]
  BY DEF Observed, q
<1> HIDE DEF f
<1>5. ASSUME NEW i \in DOMAIN f
      PROVE  f[i] = q \/ (i \in DOMAIN c.props /\ f[i] = c.props[i])
  <2>1. CASE i = Len(c.props) + 1
    BY <1>3, <2>1
  <2>2. CASE i # Len(c.props) + 1
    <3>1. i \in 1 .. Len(c.props)
      BY <1>3, <2>2
    <3>2. QED
      BY <1>3, <3>1
  <2>3. QED
    BY <2>1, <2>2
<1>6. d \in ClientState
  <2>1. f \in Seq(Prop) /\ 1 \in Nat \ {0}
    BY <1>3
  <2>2. QED
    BY <1>2, <1>4, <2>1 DEF ClientState
<1>7. /\ d.props = f /\ d.pending /\ d.cur = 1 /\ d.new_events
      /\ d.hook_pending = c.hook_pending /\ d.orphaned = c.orphaned
      /\ SameEvents(c, d) /\ SameLife(c, d) /\ SameUser(c, d)
  BY <1>2, <1>4 DEF ClientState, SameEvents, SameLife, SameUser
<1>8. Own(d)
  <2>1. Cursor(d) /\ Fits(d) /\ ReadyAhead(d)
    BY <1>3, <1>7 DEF Own, Fits, Cursor, SameEvents, ReadyAhead
  <2>2. Stamps(d)
    BY <1>1, <1>5, <1>7 DEF Own, Stamps
  <2>3. HookInOrder(d)
    BY <1>1, <1>5, <1>7 DEF Own, HookInOrder, SameUser
  <2>4. QED
    BY <1>6, <2>1, <2>2, <2>3 DEF Own
<1>9. Life(h, d, k, L, s)
  BY <1>7 DEF Linked, Life, SameEvents, SameLife, SameUser
<1>10. SleepsJustly(h, d, k, L, s)
  <2>1. Drowsy(d) => Drowsy(c)
    BY <1>7 DEF Drowsy, SameUser, SameLife
  <2>2. QED
    BY <1>7, <2>1 DEF Linked, SleepsJustly, NothingNew, SameEvents, SameLife, SameUser
<1>11. EventsInv(h, d, L) /\ HookInv(d, k)
  BY <1>7 DEF Linked, EventsInv, HookInv, InOrder, NoGap, EventPlaces, SameEvents, SameUser
<1>12. ValuesTrue(h, d, L, value)
  BY <1>1, <1>5, <1>7 DEF Linked, ValuesTrue
<1>13. StaleKnown(h, d, k, L) /\ PendingKnown(h, d, k, cs, L)
  BY <1>7 DEF StaleKnown, PendingKnown
<1>14. QED
  BY <1>7, <1>8, <1>9, <1>10, <1>11, <1>12, <1>13 DEF Linked, SameEvents

\* A property is unobserved: if the core reads one of the handle, it is told; the cursor is
\* set back, so that no property that is ready is behind it.
LEMMA UnobservedIs ==
  ASSUME NEW h, NEW c, NEW n, NEW k, NEW cs, NEW L, NEW s, NEW v,
         Own(c), Linked(h, c, k, cs, L, s, v), n \in DOMAIN c.props,
         ReadsOf(k, h) => k.props_changed, ~c.destroying,
         NEW d, d = Unobserved(c, n)
  PROVE  Own(d) /\ Linked(h, d, k, cs, L, s, v) /\ d.reserved = c.reserved
<1> DEFINE f == RemoveAt(c.props, n)
           at(i) == IF i < n THEN i ELSE i + 1
<1>1. c \in ClientState /\ c.props \in Seq(Prop) /\ c.props[n] \in Prop
  BY ElementOfSeq, LenProperties DEF Own, ClientState
<1>2. /\ f \in Seq(Prop) /\ Len(f) = Len(c.props) - 1 /\ DOMAIN f = 1 .. Len(c.props) - 1
      /\ \A i \in 1 .. Len(c.props) - 1 : f[i] = c.props[at(i)]
  BY <1>1, RemoveAtIs
<1>3. DOMAIN c.props = 1 .. Len(c.props) /\ Len(c.props) \in Nat /\ n \in 1 .. Len(c.props)
  BY <1>1, LenProperties
<1>4. \A i \in DOMAIN f : at(i) \in DOMAIN c.props /\ f[i] = c.props[at(i)] /\ i >= 1
  BY <1>2, <1>3
<1>5. \A j \in DOMAIN c.props : j # n => \E i \in DOMAIN f : f[i] = c.props[j]
  <2> TAKE j \in DOMAIN c.props
  <2> HAVE j # n
  <2>1. CASE j < n
    <3>1. j \in DOMAIN f /\ at(j) = j
      BY <1>2, <1>3, <2>1
    <3>2. QED
      BY <1>4, <3>1
  <2>2. CASE ~(j < n)
    <3>1. j - 1 \in DOMAIN f /\ at(j - 1) = j
      BY <1>2, <1>3, <2>2
    <3>2. QED
      BY <1>4, <3>1
  <2>3. QED
    BY <2>1, <2>2
<1>6. d = [c EXCEPT !.props = f, !.cur = 1, !.orphaned = @ \/ c.props[n].waiting_for_hook]
  BY DEF Unobserved
<1> HIDE DEF f, at
<1>7. d \in ClientState
  <2>1. f \in Seq(Prop) /\ 1 \in Nat \ {0} /\ c.props[n].waiting_for_hook \in BOOLEAN
    BY <1>1, <1>2 DEF Prop
  <2>2. QED
    BY <1>1, <1>6, <2>1 DEF ClientState
<1>8. /\ d.props = f /\ d.pending = c.pending /\ d.cur = 1 /\ d.new_events = c.new_events
      /\ d.hook_pending = c.hook_pending
      /\ d.orphaned = (c.orphaned \/ c.props[n].waiting_for_hook)
      /\ SameEvents(c, d) /\ SameLife(c, d) /\ SameUser(c, d)
  BY <1>1, <1>6 DEF ClientState, SameEvents, SameLife, SameUser
<1>9. Own(d)
  <2>1. Cursor(d) /\ Fits(d) /\ ReadyAhead(d)
    <3>1. 1 <= Len(f) + 1
      BY <1>2, <1>3
    <3>2. QED
      BY <1>4, <1>8, <3>1 DEF Own, Fits, Cursor, SameEvents, ReadyAhead
  <2>2. Stamps(d)
    BY <1>4, <1>8 DEF Own, Stamps
  <2>3. HookInOrder(d)
    BY <1>4, <1>8 DEF Own, HookInOrder, SameUser
  <2>4. QED
    BY <1>7, <2>1, <2>2, <2>3 DEF Own
<1>10. Life(h, d, k, L, s)
  BY <1>8 DEF Linked, Life, SameEvents, SameLife, SameUser
<1>11. SleepsJustly(h, d, k, L, s)
  <2>1. Drowsy(d) => Drowsy(c)
    BY <1>8 DEF Drowsy, SameUser, SameLife
  <2>2. WaitsForProps(c) => d.orphaned \/ WaitsForProps(d)
    <3> SUFFICES ASSUME NEW j \in DOMAIN c.props, c.props[j].waiting_for_hook
                 PROVE  d.orphaned \/ WaitsForProps(d)
      BY DEF WaitsForProps
    <3>1. CASE j = n
      BY <1>8, <3>1
    <3>2. CASE j # n
      BY <1>5, <1>8, <3>2 DEF WaitsForProps
    <3>3. QED
      BY <3>1, <3>2
  <2>3. \A i \in DOMAIN d.props : Ready(d.props[i]) => \E j \in DOMAIN c.props : Ready(c.props[j])
    BY <1>4, <1>8
  <2>4. QED
    BY <1>8, <2>1, <2>2, <2>3 DEF Linked, SleepsJustly, NothingNew, SameEvents, SameLife, SameUser
<1>12. EventsInv(h, d, L) /\ HookInv(d, k)
  BY <1>8 DEF Linked, EventsInv, HookInv, InOrder, NoGap, EventPlaces, SameEvents, SameUser
<1>13. ValuesTrue(h, d, L, v)
  BY <1>4, <1>8 DEF Linked, ValuesTrue
<1>14. StaleKnown(h, d, k, L)
  BY <1>4, <1>8 DEF Linked, StaleKnown
<1>15. PendingKnown(h, d, k, cs, L)
  BY <1>8 DEF Linked, PendingKnown, SameLife
<1>16. QED
  BY <1>8, <1>9, <1>10, <1>11, <1>12, <1>13, <1>14, <1>15 DEF Linked, SameEvents

-------------------------------------------------------------------------------
\* mpv_wait_event(), in steps: the flags are set for a hook that comes next.
LEMMA FlagsAreSet ==
  ASSUME NEW h, NEW c, NEW k, NEW cs, NEW L, NEW s, NEW v,
         Own(c), Linked(h, c, k, cs, L, s, v), c.user = "check", ~c.destroying,
         NEW d, d = HookFlags(Enters(c))
  PROVE  /\ Own(d) /\ Linked(h, d, k, cs, L, s, v)
         /\ d.user = "check" /\ ~d.destroying /\ d.reserved = c.reserved
         /\ SameReading(c, d) /\ (Held(d) => d.hook_pending)
<1> DEFINE e == Enters(c)
<1>1. c \in ClientState /\ c.props \in Seq(Prop) /\ \A i \in DOMAIN c.props : c.props[i] \in Prop
  BY ElementOfSeq, LenProperties DEF Own, ClientState
<1>2. e \in ClientState
  <2> DEFINE b == c.timed \/ c.queued_wakeup
  <2>1. b \in BOOLEAN
    OBVIOUS
  <2>2. e = [c EXCEPT !.timed = b, !.orphaned = FALSE]
    BY <1>1 DEF ClientState, Enters
  <2> HIDE DEF b, e
  <2>3. QED
    BY <1>1, <2>1, <2>2 DEF ClientState
<1>3. /\ e.props = c.props /\ e.pending = c.pending /\ e.cur = c.cur
      /\ e.new_events = c.new_events /\ e.hook_pending = c.hook_pending
      /\ SameEvents(c, e) /\ SameLife(c, e) /\ SameUser(c, e)
  BY <1>1 DEF ClientState, SameEvents, SameLife, SameUser, Enters
<1>4. d = HookFlags(e)
  OBVIOUS
<1> HIDE DEF e
<1>5. Own(e)
  BY <1>2, <1>3
     DEF Own, Fits, Cursor, Stamps, HookInOrder, ReadyAhead, SameEvents, SameLife, SameUser
<1>6. Life(h, e, k, L, s)
  BY <1>3 DEF Linked, Life, SameEvents, SameLife, SameUser
<1>7. ~Drowsy(c) /\ ~Drowsy(e)
  BY <1>3 DEF Drowsy, SameUser
<1>8. EventsInv(h, e, L) /\ HookInv(e, k)
  BY <1>3 DEF Linked, EventsInv, HookInv, InOrder, NoGap, EventPlaces, SameEvents, SameUser
<1>9. ValuesTrue(h, e, L, v) /\ StaleKnown(h, e, k, L) /\ PendingKnown(h, e, k, cs, L)
  BY <1>3 DEF Linked, ValuesTrue, StaleKnown, PendingKnown, SameLife
<1>10. Linked(h, e, k, cs, L, s, v)
  BY <1>6, <1>7, <1>8, <1>9 DEF Linked, SleepsJustly
<1>11. CASE ~(Held(e) /\ ~e.hook_pending)
  <2>1. d = e
    BY <1>4, <1>11 DEF HookFlags
  <2>2. SameReading(c, d) /\ (Held(d) => d.hook_pending)
    BY <1>3, <1>11, <2>1 DEF SameReading, SameLife
  <2>3. QED
    BY <1>3, <1>5, <1>10, <2>1, <2>2 DEF SameEvents, SameLife, SameUser
<1>12. CASE Held(e) /\ ~e.hook_pending
  <2> DEFINE f == [i \in DOMAIN e.props |-> Waiting(e.props[i])]
  <2>1. ASSUME NEW i \in DOMAIN e.props
        PROVE  /\ f[i] \in Prop /\ StampsOf(f[i])
               /\ f[i].name = e.props[i].name /\ f[i].change_ts = e.props[i].change_ts
               /\ f[i].value_ts = e.props[i].value_ts /\ f[i].ret_ts = e.props[i].ret_ts
               /\ f[i].hook_ts = e.props[i].hook_ts /\ f[i].value = e.props[i].value
               /\ f[i].swallowed = e.props[i].swallowed
               /\ f[i].waiting_for_hook \/ f[i].ret_ts >= f[i].hook_ts
    <3>1. e.props[i] \in Prop /\ StampsOf(e.props[i])
      BY <1>1, <1>3, <1>5 DEF Own, Stamps
    <3>2. f[i] = Waiting(e.props[i])
      OBVIOUS
    <3> HIDE DEF f
    <3>3. QED
      BY <3>1, <3>2, WaitingIs
  <2>2. DOMAIN e.props = 1 .. Len(e.props) /\ Len(e.props) \in Nat
    BY <1>1, <1>3, LenProperties
  <2>3. f \in [1 .. Len(e.props) -> Prop]
    BY <2>1, <2>2
  <2>4. f \in Seq(Prop) /\ Len(f) = Len(e.props) /\ DOMAIN f = DOMAIN e.props
    BY <2>2, <2>3, IsSequence
  <2>5. d = [e EXCEPT !.hook_pending = TRUE, !.props = f]
    BY <1>4, <1>12 DEF HookFlags
  <2> HIDE DEF f
  <2>6. d \in ClientState
    BY <1>2, <2>4, <2>5 DEF ClientState
  <2>7. /\ d.props = f /\ d.pending = e.pending /\ d.cur = e.cur /\ d.new_events = e.new_events
        /\ d.hook_pending /\ SameEvents(e, d) /\ SameLife(e, d) /\ SameUser(e, d)
    BY <1>2, <2>5 DEF ClientState, SameEvents, SameLife, SameUser
  <2>8. Own(d)
    <3>1. Cursor(d) /\ Fits(d)
      BY <1>5, <2>4, <2>7 DEF Own, Fits, Cursor, SameEvents, SameLife
    <3>2. Stamps(d)
      BY <2>1, <2>4, <2>7 DEF Stamps
    <3>3. HookInOrder(d)
      BY <1>3, <2>1, <2>4, <2>7 DEF HookInOrder, SameUser
    <3>4. ReadyAhead(d)
      BY <1>5, <2>1, <2>4, <2>7 DEF Own, ReadyAhead, Ready
    <3>5. QED
      BY <2>6, <3>1, <3>2, <3>3, <3>4 DEF Own
  <2>9. Life(h, d, k, L, s)
    BY <1>3, <1>6, <2>7 DEF Life, SameEvents, SameLife, SameUser
  <2>10. SleepsJustly(h, d, k, L, s)
    BY <1>7, <2>7 DEF SleepsJustly, Drowsy, SameUser, SameLife
  <2>11. EventsInv(h, d, L)
    BY <1>8, <2>7 DEF EventsInv, InOrder, NoGap, EventPlaces, SameEvents
  <2>12. k.hook # "none"
    <3>1. e.events # <<>> /\ e.events \in Seq(Event) /\ e.events[1][1] = "hook"
      BY <1>2, <1>12, TailIs DEF Held, ClientState
    <3>2. 1 \in DOMAIN e.events
      BY <3>1, TailIs
    <3>3. QED
      BY <1>8, <3>1, <3>2 DEF HookInv
  <2>13. HookInv(d, k)
    BY <2>12 DEF HookInv
  <2>14. ValuesTrue(h, d, L, v) /\ StaleKnown(h, d, k, L)
    BY <1>9, <2>1, <2>4, <2>7 DEF ValuesTrue, StaleKnown, Stale
  <2>15. PendingKnown(h, d, k, cs, L)
    BY <1>9, <2>7 DEF PendingKnown, SameLife
  <2>16. SameReading(c, d)
    BY <1>3, <2>1, <2>4, <2>7 DEF SameReading, SameLife, Stale
  <2>17. QED
    BY <1>3, <2>7, <2>8, <2>9, <2>10, <2>11, <2>13, <2>14, <2>15, <2>16
       DEF Linked, SameEvents, SameLife, SameUser
<1>13. QED
  BY <1>11, <1>12

\* The client is told of an overflow, or of the event that comes next.
LEMMA OverflowTold ==
  ASSUME NEW h, NEW c, NEW k, NEW cs, NEW L, NEW s, NEW v,
         Own(c), Linked(h, c, k, cs, L, s, v), c.user = "check", ~c.destroying,
         Overflowed(c), NEW d, d = TakeOverflow(c)
  PROVE  /\ Own(d) /\ Linked(h, d, k, cs, L, s, v)
         /\ d.reserved = c.reserved /\ SameReading(c, d)
<1>1. c \in ClientState /\ c.events = <<>>
  BY DEF Own, Overflowed
<1>2. d \in ClientState
  BY <1>1 DEF TakeOverflow, Return, ClientState, UserPlaces
<1>3. /\ d.events = c.events /\ d.reserved = c.reserved /\ d.told = c.sent /\ d.sent = c.sent
      /\ d.user = "idle" /\ d.called /\ d.joiner = c.joiner
      /\ SameProps(c, d) /\ SameLife(c, d)
  BY <1>1 DEF TakeOverflow, Return, ClientState, SameProps, SameLife
<1>4. Own(d)
  BY <1>2, <1>3
     DEF Own, Fits, Cursor, Stamps, HookInOrder, ReadyAhead, SameProps, SameLife
<1>5. h \in L => Life(h, d, k, L, s)
  BY <1>3 DEF Linked, Life, SameProps, SameLife, Gone
<1>6. h \in L
  BY DEF Linked, Life, Gone
<1>7. SleepsJustly(h, d, k, L, s)
  BY <1>3 DEF SleepsJustly, Drowsy
<1>8. Ordered(d)
  BY <1>1, <1>3, OrderedOverflow
<1>9. HookInv(d, k) /\ EventsInv(h, d, L)
  BY <1>3, <1>8 DEF Linked, HookInv, EventsInv, Ordered, SameProps
<1>10. ValuesTrue(h, d, L, v) /\ StaleKnown(h, d, k, L) /\ PendingKnown(h, d, k, cs, L)
  BY <1>3 DEF Linked, ValuesTrue, StaleKnown, PendingKnown, SameProps, SameLife
<1>11. QED
  BY <1>3, <1>4, <1>5, <1>6, <1>7, <1>9, <1>10 DEF Linked, SameReading, SameProps, SameLife

\* An event is taken: a hook only if there is no property that it waits for.
LEMMA EventTaken ==
  ASSUME NEW h, NEW c, NEW k, NEW cs, NEW L, NEW s, NEW v,
         Own(c), Linked(h, c, k, cs, L, s, v), c.user = "check", ~c.destroying,
         c.events # <<>>, ~(Held(c) /\ WaitsForProps(c)), Held(c) => c.hook_pending,
         NEW d, d = TakeEvent(c)
  PROVE  /\ Own(d) /\ Linked(h, d, k, cs, L, s, v)
         /\ d.reserved = c.reserved /\ SameReading(c, d)
<1>1. c \in ClientState /\ c.events \in Seq(Event)
  BY DEF Own, ClientState
<1>2. /\ Tail(c.events) \in Seq(Event) /\ Len(Tail(c.events)) = Len(c.events) - 1
      /\ Head(c.events) = c.events[1] /\ c.events[1] \in Event
      /\ DOMAIN c.events = 1 .. Len(c.events) /\ Len(c.events) \in Nat /\ Len(c.events) > 0
      /\ DOMAIN Tail(c.events) = 1 .. Len(c.events) - 1
      /\ \A i \in 1 .. Len(c.events) - 1 : Tail(c.events)[i] = c.events[i + 1]
  BY <1>1, TailIs, LenProperties
<1>3. Reaction(Head(c.events)[1]) \in {"continue", "leave", "idle"}
  BY DEF Reaction
<1>4. (IF Head(c.events)[1] = "event" THEN Head(c.events)[2] ELSE c.told) \in Nat
  BY <1>1, <1>2 DEF Event, ClientState
<1> DEFINE t == IF Head(c.events)[1] = "event" THEN Head(c.events)[2] ELSE c.told
           r == Reaction(Head(c.events)[1])
           e == Return(c)
<1>5. /\ e \in ClientState /\ e.events = c.events /\ e.reserved = c.reserved
      /\ e.sent = c.sent /\ e.choked = c.choked /\ e.called /\ e.told = c.told
      /\ SameProps(c, e) /\ SameLife(c, e) /\ e.joiner = c.joiner
  <2>1. e = [c EXCEPT !.user = "idle", !.called = TRUE, !.queued_wakeup = FALSE]
    BY DEF Return
  <2> HIDE DEF e
  <2>2. e \in ClientState
    BY <1>1, <2>1 DEF ClientState, UserPlaces
  <2>3. QED
    BY <1>1, <2>1, <2>2 DEF ClientState, SameProps, SameLife
<1>6. d = [e EXCEPT !.events = Tail(@), !.user = r, !.hook_pending = @ /\ ~Held(c), !.told = t]
  BY <1>5 DEF TakeEvent
<1> HIDE DEF e, t, r
<1>7. r \in UserPlaces /\ t \in Nat /\ Tail(e.events) \in Seq(Event)
  BY <1>2, <1>3, <1>4, <1>5 DEF UserPlaces, t, r
<1>8. d \in ClientState
  <2> DEFINE b == e.hook_pending /\ ~Held(c)
             left == Tail(e.events)
  <2>1. /\ b \in BOOLEAN /\ left \in Seq(Event)
        /\ e \in ClientState /\ r \in UserPlaces /\ t \in Nat
    BY <1>5, <1>7
  <2>2. d = [e EXCEPT !.events = left, !.user = r, !.hook_pending = b, !.told = t]
    BY <1>5, <1>6 DEF ClientState
  <2> HIDE DEF b, left
  <2>3. QED
    BY <2>1, <2>2 DEF ClientState
<1>9. /\ d.events = Tail(c.events) /\ d.reserved = c.reserved /\ d.told = t
      /\ d.sent = c.sent /\ d.choked = c.choked /\ d.user = r /\ d.called /\ d.joiner = c.joiner
      /\ d.hook_pending = (c.hook_pending /\ ~Held(c))
      /\ d.props = c.props /\ d.cur = c.cur /\ d.new_events = c.new_events
      /\ d.pending = c.pending /\ SameLife(c, d)
  BY <1>5, <1>6 DEF ClientState, SameProps, SameLife
<1>10. Own(d)
  <2>1. Fits(d)
    <3>1. Len(c.events) + c.reserved <= MaxEvents /\ c.reserved \in Nat /\ MaxEvents \in Nat
      BY <1>1, ConstantsAssumption DEF Own, Fits, ClientState
    <3>2. (Len(c.events) - 1) + c.reserved <= MaxEvents
      BY <1>2, <3>1
    <3>3. QED
      BY <1>2, <1>9, <3>2 DEF Fits
  <2>2. Cursor(d) /\ Stamps(d) /\ ReadyAhead(d)
    BY <1>9 DEF Own, Cursor, Stamps, ReadyAhead, SameLife
  <2>3. d.user = "continue" => Held(c)
    BY <1>9 DEF r, Reaction, Held
  <2>4. HookInOrder(d)
    BY <1>9, <2>3 DEF Own, HookInOrder, WaitsForProps
  <2>5. QED
    BY <1>8, <2>1, <2>2, <2>4 DEF Own
<1>11. h \in L /\ d.user \in {"continue", "leave", "idle"}
  BY <1>3, <1>9 DEF Linked, Life, Gone, r
<1>12. Life(h, d, k, L, s)
  BY <1>9, <1>11 DEF Linked, Life, SameLife, Gone
<1>13. SleepsJustly(h, d, k, L, s)
  BY <1>9, <1>11 DEF SleepsJustly, Drowsy
<1>14. Ordered(d)
  BY <1>1, <1>9, <1>11, OrderedTaken DEF Linked, EventsInv, Ordered, t
<1>15. HookInv(d, k)
  <2> SUFFICES ASSUME k.hook = "none"
               PROVE  /\ ~d.hook_pending /\ d.user # "continue"
                      /\ \A n \in DOMAIN d.events : d.events[n][1] # "hook"
    BY DEF HookInv
  <2>1. ~c.hook_pending /\ \A n \in DOMAIN c.events : c.events[n][1] # "hook"
    BY DEF Linked, HookInv
  <2>2. 1 \in DOMAIN c.events /\ d.user # "continue"
    BY <1>2, <1>9, <2>1 DEF r, Reaction
  <2>3. ASSUME NEW n \in DOMAIN d.events PROVE d.events[n][1] # "hook"
    <3>1. n + 1 \in DOMAIN c.events /\ d.events[n] = c.events[n + 1]
      BY <1>2, <1>9
    <3>2. QED
      BY <2>1, <3>1
  <2>4. QED
    BY <1>9, <2>1, <2>2, <2>3
<1>16. ValuesTrue(h, d, L, v) /\ StaleKnown(h, d, k, L) /\ PendingKnown(h, d, k, cs, L)
  BY <1>9 DEF Linked, ValuesTrue, StaleKnown, PendingKnown, SameLife
<1>17. QED
  BY <1>9, <1>10, <1>12, <1>13, <1>14, <1>15, <1>16
     DEF Linked, EventsInv, Ordered, SameReading, SameLife

\* The least of a set of numbers.
LEMMA LeastIs ==
  ASSUME NEW T, T \subseteq Nat, T # {}
  PROVE  Least(T) \in T /\ \A j \in T : Least(T) <= j
<1> DEFINE R == OpToRel(<, Nat)
<1>1. IsWellFoundedOn(R, Nat)
  BY NatLessThanWellFounded
<1>2. \A y, x \in Nat : <<y, x>> \in R <=> y < x
  BY DEF OpToRel
<1> HIDE DEF R
<1>3. PICK x \in T : \A y \in T : ~(<<y, x>> \in R)
  BY <1>1, WFMin
<1>4. ASSUME NEW y \in T PROVE x <= y
  <2>1. x \in Nat /\ y \in Nat
    OBVIOUS
  <2>2. ~(<<y, x>> \in R)
    BY <1>3
  <2>3. ~(y < x)
    BY <1>2, <2>1, <2>2, Zenon
  <2>4. QED
    BY <2>1, <2>3
<1>5. QED
  BY <1>3, <1>4 DEF Least

\* The client is told of a property; or there is none to be told of, and he waits.
LEMMA PropertyTold ==
  ASSUME NEW h, NEW c, NEW k, NEW cs, NEW L, NEW s, NEW v,
         Own(c), Linked(h, c, k, cs, L, s, v), c.user = "check", ~c.destroying,
         Scan(c) # {}, NEW d, d = Return(ToldOf(c, Least(Scan(c))))
  PROVE  /\ Own(d) /\ Linked(h, d, k, cs, L, s, v)
         /\ d.reserved = c.reserved /\ SameReading(c, d)
<1> DEFINE n == Least(Scan(c))
           b == c.new_events /\ ~Wraps(c)
           f == [c.props EXCEPT ![n] = Told(c.props[n])]
<1>1. /\ c \in ClientState /\ c.props \in Seq(Prop)
      /\ \A i \in DOMAIN c.props : c.props[i] \in Prop /\ StampsOf(c.props[i])
      /\ DOMAIN c.props = 1 .. Len(c.props) /\ Len(c.props) \in Nat /\ c.cur \in Nat \ {0}
  BY ElementOfSeq, LenProperties DEF Own, ClientState, Stamps
<1>2. \A j \in Scan(c) : j \in DOMAIN c.props /\ j \in Nat /\ Ready(c.props[j])
  BY <1>1 DEF Scan, ReadyFrom
<1>3. n \in Scan(c) /\ \A j \in Scan(c) : n <= j
  BY <1>2, LeastIs
<1>4. n \in DOMAIN c.props /\ n \in Nat /\ Ready(c.props[n])
  BY <1>2, <1>3
<1>5. ASSUME NEW j \in DOMAIN c.props, j # n, Ready(c.props[j]), ~b
      PROVE  j >= n + 1
  <2>1. CASE Wraps(c)
    <3>1. j \in Scan(c)
      BY <1>1, <1>5, <2>1 DEF Scan, ReadyFrom
    <3>2. QED
      BY <1>1, <1>3, <1>4, <1>5, <3>1
  <2>2. CASE ~Wraps(c)
    <3>1. j >= c.cur
      BY <1>5, <2>2 DEF Own, ReadyAhead
    <3>2. j \in Scan(c)
      BY <1>1, <1>5, <2>2, <3>1 DEF Scan, ReadyFrom
    <3>3. QED
      BY <1>1, <1>3, <1>4, <1>5, <3>2
  <2>3. QED
    BY <2>1, <2>2
<1>6. d = [c EXCEPT !.props = f, !.cur = n + 1, !.new_events = b,
                    !.user = "idle", !.called = TRUE, !.queued_wakeup = FALSE]
  BY <1>1, <1>4 DEF ToldOf, Return, ClientState
<1> HIDE DEF n
<1>7. /\ f \in Seq(Prop) /\ Len(f) = Len(c.props) /\ DOMAIN f = DOMAIN c.props
      /\ f[n] = Told(c.props[n]) /\ \A i \in DOMAIN c.props : i # n => f[i] = c.props[i]
  <2>1. Told(c.props[n]) \in Prop
    BY <1>1, <1>4, ToldIs
  <2>2. f \in Seq(Prop) /\ Len(f) = Len(c.props)
    BY <1>1, <1>4, <2>1, ExceptSeq
  <2>3. QED
    BY <1>1, <1>4, <2>2
<1>8. ASSUME NEW i \in DOMAIN c.props
      PROVE  /\ f[i] \in Prop /\ StampsOf(f[i]) /\ (Ready(f[i]) => i # n /\ Ready(c.props[i]))
             /\ f[i].name = c.props[i].name /\ f[i].change_ts = c.props[i].change_ts
             /\ f[i].value_ts = c.props[i].value_ts /\ f[i].hook_ts = c.props[i].hook_ts
             /\ f[i].value = c.props[i].value /\ f[i].swallowed = c.props[i].swallowed
             /\ c.props[i].waiting_for_hook \/ c.props[i].ret_ts >= c.props[i].hook_ts
                  => f[i].waiting_for_hook \/ f[i].ret_ts >= f[i].hook_ts
  <2>1. CASE i = n
    <3>1. f[i] = Told(c.props[i]) /\ c.props[i] \in Prop /\ StampsOf(c.props[i])
          /\ Ready(c.props[i])
      BY <1>1, <1>4, <1>7, <2>1
    <3>2. /\ f[i] \in Prop /\ StampsOf(f[i]) /\ ~Ready(f[i])
          /\ f[i].name = c.props[i].name /\ f[i].change_ts = c.props[i].change_ts
          /\ f[i].value_ts = c.props[i].value_ts /\ f[i].hook_ts = c.props[i].hook_ts
          /\ f[i].value = c.props[i].value /\ f[i].swallowed = c.props[i].swallowed
          /\ f[i].ret_ts = f[i].change_ts
      BY <3>1, ToldIs
    <3>3. f[i].ret_ts >= f[i].hook_ts
      BY <3>2 DEF StampsOf, Prop
    <3>4. QED
      BY <3>2, <3>3
  <2>2. CASE i # n
    BY <1>1, <1>7, <2>2
  <2>3. QED
    BY <2>1, <2>2
<1>9. b \in BOOLEAN /\ n + 1 \in Nat \ {0} /\ n + 1 <= Len(f) + 1
  BY <1>1, <1>4, <1>7
<1> HIDE DEF b, f
<1>10. d \in ClientState
  <2> DEFINE m == n + 1
  <2>1. /\ c \in ClientState /\ f \in Seq(Prop) /\ b \in BOOLEAN /\ m \in Nat \ {0}
        /\ "idle" \in UserPlaces
    BY <1>1, <1>7, <1>9 DEF UserPlaces
  <2> DEFINE e == [c EXCEPT !.props = f, !.cur = m, !.new_events = b]
  <2>2. d = [e EXCEPT !.user = "idle", !.called = TRUE, !.queued_wakeup = FALSE]
    BY <1>6
  <2> HIDE DEF m
  <2>3. e \in ClientState
    BY <2>1 DEF ClientState
  <2> HIDE DEF e
  <2>4. QED
    BY <2>1, <2>2, <2>3 DEF ClientState
<1>11. /\ d.props = f /\ d.cur = n + 1 /\ d.new_events = b /\ d.user = "idle" /\ d.called
       /\ d.pending = c.pending /\ d.hook_pending = c.hook_pending
       /\ SameEvents(c, d) /\ SameLife(c, d) /\ d.joiner = c.joiner
  BY <1>1, <1>6 DEF ClientState, SameEvents, SameLife
<1>12. Own(d)
  <2>1. Cursor(d) /\ Fits(d)
    BY <1>9, <1>11 DEF Own, Fits, Cursor, SameEvents
  <2>2. Stamps(d)
    BY <1>7, <1>8, <1>11 DEF Stamps
  <2>3. HookInOrder(d)
    <3>1. \A i \in DOMAIN c.props : c.hook_pending =>
             c.props[i].waiting_for_hook \/ c.props[i].ret_ts >= c.props[i].hook_ts
      BY DEF Own, HookInOrder
    <3>2. QED
      BY <1>7, <1>8, <1>11, <3>1 DEF HookInOrder
  <2>4. ReadyAhead(d)
    BY <1>5, <1>7, <1>8, <1>11 DEF ReadyAhead
  <2>5. QED
    BY <1>10, <2>1, <2>2, <2>3, <2>4 DEF Own
<1>13. h \in L
  BY DEF Linked, Life, Gone
<1>14. Life(h, d, k, L, s) /\ SleepsJustly(h, d, k, L, s)
  BY <1>11, <1>13 DEF Linked, Life, SameLife, SameEvents, Gone, SleepsJustly, Drowsy
<1>15. EventsInv(h, d, L) /\ HookInv(d, k)
  BY <1>11 DEF Linked, EventsInv, HookInv, InOrder, NoGap, EventPlaces, SameEvents
<1>16. ValuesTrue(h, d, L, v) /\ StaleKnown(h, d, k, L)
  <2>1. \A i \in DOMAIN d.props : Stale(d.props[i]) = Stale(c.props[i])
    BY <1>7, <1>8, <1>11 DEF Stale
  <2>2. ValuesTrue(h, d, L, v)
    BY <1>7, <1>8, <1>11, <2>1 DEF Linked, ValuesTrue
  <2>3. StaleKnown(h, d, k, L)
    BY <1>7, <1>11, <2>1 DEF Linked, StaleKnown
  <2>4. QED
    BY <2>2, <2>3
<1>17. PendingKnown(h, d, k, cs, L)
  BY <1>11 DEF Linked, PendingKnown, SameLife
<1>18. SameReading(c, d)
  BY <1>7, <1>8, <1>11 DEF SameReading, SameLife, Stale
<1>19. QED
  BY <1>11, <1>12, <1>14, <1>15, <1>16, <1>17, <1>18 DEF Linked, SameEvents

LEMMA NothingTold ==
  ASSUME NEW h, NEW c, NEW k, NEW cs, NEW L, NEW s, NEW v,
         Own(c), Linked(h, c, k, cs, L, s, v), c.user = "check", ~c.destroying,
         ~Overflowed(c), c.events = <<>> \/ WaitsForProps(c),
         Scan(c) = {}, NEW d, d = [ToldNothing(c) EXCEPT !.user = "wait"]
  PROVE  /\ Own(d) /\ Linked(h, d, k, cs, L, s, v)
         /\ d.reserved = c.reserved /\ SameReading(c, d)
<1>1. /\ c \in ClientState /\ c.props \in Seq(Prop)
      /\ DOMAIN c.props = 1 .. Len(c.props) /\ Len(c.props) \in Nat /\ c.cur \in Nat \ {0}
  BY LenProperties DEF Own, ClientState
<1>2. ASSUME NEW j \in DOMAIN c.props PROVE ~Ready(c.props[j])
  <2>1. CASE Wraps(c)
    BY <1>1, <2>1 DEF Scan, ReadyFrom
  <2>2. CASE ~Wraps(c)
    <3>1. ReadyFrom(c, c.cur) = {}
      BY <2>2 DEF Scan
    <3>2. Ready(c.props[j]) => j >= c.cur
      BY <2>2, <3>1 DEF Wraps, Own, ReadyAhead
    <3>3. QED
      BY <1>1, <3>1, <3>2 DEF ReadyFrom
  <2>3. QED
    BY <2>1, <2>2
<1>3. d = [c EXCEPT !.cur = Len(c.props) + 1, !.new_events = FALSE, !.user = "wait"]
  BY <1>1 DEF ToldNothing, ClientState
<1>4. d \in ClientState
  <2>1. Len(c.props) + 1 \in Nat \ {0} /\ "wait" \in UserPlaces
    BY <1>1 DEF UserPlaces
  <2>2. QED
    BY <1>1, <1>3, <2>1 DEF ClientState
<1>5. /\ d.props = c.props /\ d.cur = Len(c.props) + 1 /\ ~d.new_events /\ d.user = "wait"
      /\ d.pending = c.pending /\ d.hook_pending = c.hook_pending /\ d.joiner = c.joiner
      /\ SameEvents(c, d) /\ SameLife(c, d)
  BY <1>1, <1>3 DEF ClientState, SameEvents, SameLife
<1>6. Own(d)
  <2>1. Cursor(d) /\ Fits(d) /\ Stamps(d)
    BY <1>1, <1>5 DEF Own, Fits, Cursor, SameEvents, Stamps
  <2>2. HookInOrder(d) /\ ReadyAhead(d)
    BY <1>2, <1>5 DEF Own, HookInOrder, ReadyAhead
  <2>3. QED
    BY <1>4, <2>1, <2>2 DEF Own
<1>7. h \in L
  BY DEF Linked, Life, Gone
<1>8. Life(h, d, k, L, s)
  BY <1>5, <1>7 DEF Linked, Life, SameLife, SameEvents, Gone
<1>9. SleepsJustly(h, d, k, L, s)
  BY <1>2, <1>5 DEF SleepsJustly, NothingNew, Drowsy, SameEvents, Overflowed, WaitsForProps
<1>10. EventsInv(h, d, L) /\ HookInv(d, k)
  BY <1>5 DEF Linked, EventsInv, HookInv, InOrder, NoGap, EventPlaces, SameEvents
<1>11. ValuesTrue(h, d, L, v) /\ StaleKnown(h, d, k, L) /\ PendingKnown(h, d, k, cs, L)
  BY <1>5 DEF Linked, ValuesTrue, StaleKnown, PendingKnown, SameLife
<1>12. QED
  BY <1>5, <1>6, <1>8, <1>9, <1>10, <1>11 DEF Linked, SameReading, SameEvents, SameLife

\* All properties are marked: a hook is started.
LEMMA AllMarkedIs ==
  ASSUME NEW h, NEW c, NEW k, NEW cs, NEW L, NEW s, NEW v,
         Own(c), Linked(h, c, k, cs, L, s, v), ~c.hook_pending, c.user # "continue",
         NEW d, d = AllMarked(c)
  PROVE  /\ Own(d) /\ Linked(h, d, k, cs, L, s, v)
         /\ d.reserved = c.reserved /\ SameReading(c, d)
<1> DEFINE f == [i \in DOMAIN c.props |-> Marked(c.props[i])]
<1>1. /\ c \in ClientState /\ c.props \in Seq(Prop)
      /\ \A i \in DOMAIN c.props : c.props[i] \in Prop /\ StampsOf(c.props[i])
      /\ DOMAIN c.props = 1 .. Len(c.props) /\ Len(c.props) \in Nat
  BY ElementOfSeq, LenProperties DEF Own, ClientState, Stamps
<1>2. ASSUME NEW i \in DOMAIN c.props
      PROVE  /\ f[i] \in Prop /\ StampsOf(f[i])
             /\ f[i].name = c.props[i].name /\ f[i].change_ts = c.props[i].change_ts
             /\ f[i].value_ts = c.props[i].value_ts /\ f[i].ret_ts = c.props[i].ret_ts
             /\ f[i].value = c.props[i].value /\ f[i].swallowed = c.props[i].swallowed
             /\ f[i].waiting_for_hook = c.props[i].waiting_for_hook
  <2>1. f[i] = Marked(c.props[i])
    OBVIOUS
  <2> HIDE DEF f
  <2>2. QED
    BY <1>1, <2>1, MarkedIs
<1>3. f \in [1 .. Len(c.props) -> Prop]
  BY <1>1, <1>2
<1>4. f \in Seq(Prop) /\ Len(f) = Len(c.props) /\ DOMAIN f = DOMAIN c.props
  BY <1>1, <1>3, IsSequence
<1>5. d = [c EXCEPT !.props = f]
  BY DEF AllMarked
<1> HIDE DEF f
<1>6. d \in ClientState
  BY <1>1, <1>4, <1>5 DEF ClientState
<1>7. /\ d.props = f /\ d.cur = c.cur /\ d.new_events = c.new_events /\ d.pending = c.pending
      /\ d.hook_pending = c.hook_pending /\ d.orphaned = c.orphaned
      /\ SameEvents(c, d) /\ SameLife(c, d) /\ SameUser(c, d)
  BY <1>1, <1>5 DEF ClientState, SameEvents, SameLife, SameUser
<1>8. Own(d)
  <2>1. Cursor(d) /\ Fits(d) /\ Stamps(d)
    BY <1>2, <1>4, <1>7 DEF Own, Fits, Cursor, SameEvents, SameLife, Stamps
  <2>2. HookInOrder(d)
    BY <1>7 DEF HookInOrder, SameUser
  <2>3. ReadyAhead(d)
    BY <1>2, <1>4, <1>7 DEF Own, ReadyAhead, Ready
  <2>4. QED
    BY <1>6, <2>1, <2>2, <2>3 DEF Own
<1>9. Life(h, d, k, L, s)
  <2>1. c.props = <<>> => f = <<>>
    BY <1>1, <1>4, EmptySeq
  <2>2. QED
    BY <1>7, <2>1 DEF Linked, Life, SameEvents, SameLife, SameUser
<1>10. SleepsJustly(h, d, k, L, s)
  <2>1. WaitsForProps(c) => WaitsForProps(d)
    BY <1>2, <1>4, <1>7 DEF WaitsForProps
  <2>2. Drowsy(d) => Drowsy(c)
    BY <1>7 DEF Drowsy, SameUser, SameLife
  <2>3. \A i \in DOMAIN d.props : Ready(d.props[i]) => i \in DOMAIN c.props /\ Ready(c.props[i])
    BY <1>2, <1>4, <1>7 DEF Ready
  <2>4. QED
    BY <1>7, <2>1, <2>2, <2>3 DEF Linked, SleepsJustly, NothingNew, SameEvents, SameLife, SameUser
<1>11. EventsInv(h, d, L) /\ HookInv(d, k)
  BY <1>7 DEF Linked, EventsInv, HookInv, InOrder, NoGap, EventPlaces, SameEvents, SameUser
<1>12. ValuesTrue(h, d, L, v) /\ StaleKnown(h, d, k, L)
  BY <1>2, <1>4, <1>7 DEF Linked, ValuesTrue, StaleKnown, Stale
<1>13. PendingKnown(h, d, k, cs, L)
  BY <1>7 DEF Linked, PendingKnown, SameLife
<1>14. SameReading(c, d)
  BY <1>2, <1>4, <1>7 DEF SameReading, SameLife, Stale
<1>15. QED
  BY <1>7, <1>8, <1>9, <1>10, <1>11, <1>12, <1>13, <1>14 DEF Linked, SameEvents

-------------------------------------------------------------------------------
\* A step of one handle, while the core goes on with what it does.
LEMMA OneHandle ==
  ASSUME Inv, NEW h \in Handles, NEW d, Only(h, d),
         UNCHANGED <<setup, clients, value>>,
         core' \in CoreState, CoreKept(core, core'), core'.read = core.read,
         core.raced => core'.raced,
         items' \in Seq(Handles \X {"get", "cmd"}), running' \in Seq(Handles),
         Own(d), Linked(h, d, core', clients, Listed, setup, value),
         Booked(h, d, items', running'),
         \A g \in Handles : g # h => Booked(g, client[g], items', running'),
         ReadsOf(core, h) => core'.props_changed \/ SameReading(client[h], d)
  PROVE  Inv'
<1>1. DOMAIN client = Handles /\ DOMAIN client' = Handles /\ client'[h] = d
      /\ \A g \in Handles : g # h => client'[g] = client[g]
  BY DEF Inv, Types, Only
<1>2. Listed' = Listed
  BY DEF Listed
<1>3. Types'
  BY <1>1 DEF Inv, Types, CoreKept
<1>4. ASSUME NEW g \in Handles
      PROVE  /\ Own(client'[g])
             /\ Linked(g, client'[g], core', clients', Listed', setup', value')
             /\ Booked(g, client'[g], items', running')
  <2>1. CASE g = h
    BY <1>1, <1>2, <2>1
  <2>2. CASE g # h
    <3>1. client'[g] = client[g]
      BY <1>1, <2>2
    <3>2. Linked(g, client[g], core, clients, Listed, setup, value)
      BY DEF Inv
    <3>3. Linked(g, client[g], core', clients, Listed, setup, value)
      BY <3>2, LinkedCore
    <3>4. QED
      BY <1>2, <2>2, <3>1, <3>3 DEF Inv
  <2>3. QED
    BY <2>1, <2>2
<1>5. ReadInv'
  <2> SUFFICES ASSUME core'.pc \in {"fetch", "store"}, ~core'.props_changed
               PROVE  /\ ~client'[core'.reads].destroying
                      /\ core'.i \in DOMAIN client'[core'.reads].props
                      /\ Stale(client'[core'.reads].props[core'.i])
                      /\ core'.pc = "store" => core'.raced \/ core'.read = value'[ReadProp']
    BY DEF ReadInv
  <2>1. /\ core.pc \in {"fetch", "store"} /\ ~core.props_changed
        /\ core'.reads = core.reads /\ core'.i = core.i /\ core'.pc = core.pc
    BY DEF CoreKept
  <2>2. /\ ~client[core.reads].destroying
        /\ core.i \in DOMAIN client[core.reads].props
        /\ Stale(client[core.reads].props[core.i])
        /\ core.pc = "store" => core.raced \/ core.read = value[ReadProp]
    BY <2>1 DEF Inv, ReadInv
  <2>3. core.reads \in Handles
    BY DEF Inv, Types, CoreState
  <2>4. ReadProp' = client'[core.reads].props[core.i].name
    BY <2>1 DEF ReadProp
  <2>5. CASE core.reads = h
    <3>1. SameReading(client[h], d)
      BY <2>1, <2>5 DEF ReadsOf
    <3>2. QED
      BY <1>1, <2>1, <2>2, <2>4, <2>5, <3>1 DEF SameReading, ReadProp
  <2>6. CASE core.reads # h
    <3>1. client'[core.reads] = client[core.reads]
      BY <1>1, <2>3, <2>6
    <3>2. QED
      BY <2>1, <2>2, <2>4, <3>1 DEF ReadProp
  <2>7. QED
    BY <2>5, <2>6
<1>6. QED
  BY <1>3, <1>4, <1>5 DEF Inv

\* And no request is made or answered.
LEMMA OneHandleQuiet ==
  ASSUME Inv, NEW h \in Handles, NEW d, Only(h, d),
         UNCHANGED <<setup, clients, value, items, running>>,
         core' \in CoreState, CoreKept(core, core'), core'.read = core.read,
         core.raced => core'.raced,
         Own(d), Linked(h, d, core', clients, Listed, setup, value),
         d.reserved = client[h].reserved,
         ReadsOf(core, h) => core'.props_changed \/ SameReading(client[h], d)
  PROVE  Inv'
<1>1. items' \in Seq(Handles \X {"get", "cmd"}) /\ running' \in Seq(Handles)
  BY DEF Inv, Types
<1>2. \A g \in Handles : Booked(g, client[g], items', running')
  BY DEF Inv
<1>3. Booked(h, d, items', running')
  BY <1>2 DEF Booked
<1>4. QED
  BY <1>1, <1>2, <1>3, OneHandle

LEMMA CoreUnchanged ==
  ASSUME Inv, UNCHANGED core
  PROVE  core' \in CoreState /\ CoreKept(core, core') /\ core'.read = core.read
         /\ (core.raced => core'.raced)
  BY DEF Inv, Types, CoreKept

\* And it is only about where the user is, or another thread.
LEMMA UserSteps ==
  ASSUME Inv, NEW h \in Handles, NEW d, Only(h, d),
         UNCHANGED <<setup, clients, value, items, running>>,
         core' \in CoreState, CoreKept(core, core'), core'.read = core.read,
         core.raced => core'.raced,
         d \in ClientState, SameEvents(client[h], d), SameProps(client[h], d),
         SameLife(client[h], d),
         d.user = "continue" => client[h].user = "continue",
         Life(h, d, core', Listed, setup), SleepsJustly(h, d, core', Listed, setup)
  PROVE  Inv'
<1>1. Own(client[h]) /\ Linked(h, client[h], core, clients, Listed, setup, value)
  BY DEF Inv
<1>2. Linked(h, client[h], core', clients, Listed, setup, value)
  BY <1>1, LinkedCore
<1>3. Own(d) /\ Linked(h, d, core', clients, Listed, setup, value)
  BY <1>1, <1>2, UserMoved
<1>4. d.reserved = client[h].reserved /\ SameReading(client[h], d)
  BY DEF SameEvents, SameReading, SameProps, SameLife
<1>5. QED
  BY <1>3, <1>4, OneHandleQuiet

-------------------------------------------------------------------------------
\* The user: one lemma for each action.
LEMMA CallWaitEventStep ==
  ASSUME Inv, NEW h \in Handles, CallWaitEvent(h)
  PROVE  Inv'
<1> DEFINE c == client[h]
           d == [c EXCEPT !.user = "check", !.timed = c.polls, !.called = FALSE]
<1>1. c \in ClientState /\ Life(h, c, core, Listed, setup)
  BY DEF Inv, Own, Linked
<1>2. c.user = "idle" /\ ~c.destroying /\ h \in Listed /\ Only(h, d) /\ Others
  BY DEF CallWaitEvent, Here
<1>3. d \in ClientState
  <2>1. "check" \in UserPlaces /\ c.polls \in BOOLEAN
    BY <1>1 DEF UserPlaces, ClientState
  <2>2. QED
    BY <1>1, <2>1 DEF ClientState
<1>4. /\ SameEvents(c, d) /\ SameProps(c, d) /\ SameLife(c, d)
      /\ d.user = "check" /\ d.joiner = c.joiner
  BY <1>1, <1>2 DEF ClientState, SameEvents, SameProps, SameLife
<1> HIDE DEF c, d
<1>5. Life(h, d, core, Listed, setup) /\ SleepsJustly(h, d, core, Listed, setup)
  BY <1>1, <1>2, <1>4
     DEF Life, SameEvents, SameProps, SameLife, Gone, SleepsJustly, Drowsy
<1>6. UNCHANGED core /\ UNCHANGED <<setup, clients, value, items, running>>
  BY <1>2 DEF Others
<1>7. QED
  BY <1>2, <1>3, <1>4, <1>5, <1>6, CoreUnchanged, UserSteps DEF c

\* One case for each of the things mpv_wait_event() may return.
LEMMA WaitEventStep ==
  ASSUME Inv, NEW h \in Handles, WaitEvent(h)
  PROVE  Inv'
<1> DEFINE b == client[h]
           e == Enters(b)
           c == HookFlags(e)
           takes == c.events # <<>> /\ ~(Held(c) /\ WaitsForProps(c))
<1>1. /\ b \in ClientState
      /\ Own(b) /\ Linked(h, b, core, clients, Listed, setup, value)
  BY DEF Inv, Own
<1>2. c.user = "check" /\ ~c.destroying /\ Others
  BY DEF WaitEvent
<1>3. \/ Overflowed(c) /\ Only(h, TakeOverflow(c))
      \/ ~Overflowed(c) /\ takes /\ Only(h, TakeEvent(c))
      \/ ~Overflowed(c) /\ ~takes /\ Scan(c) # {} /\ Only(h, Return(ToldOf(c, Least(Scan(c)))))
      \/ ~Overflowed(c) /\ ~takes /\ Scan(c) = {} /\ Only(h, [ToldNothing(c) EXCEPT !.user = "wait"])
  BY DEF WaitEvent
<1> HIDE DEF b
<1>4. b.user = "check" /\ ~b.destroying
  <2>1. /\ e.user = b.user /\ e.destroying = b.destroying
        /\ {"user", "destroying"} \subseteq DOMAIN e
    BY <1>1 DEF Enters, ClientState
  <2> HIDE DEF e
  <2>2. c.user = e.user /\ c.destroying = e.destroying
    BY <2>1 DEF HookFlags
  <2>3. QED
    BY <1>2, <2>1, <2>2
<1>5. /\ Own(c) /\ Linked(h, c, core, clients, Listed, setup, value)
      /\ c.user = "check" /\ ~c.destroying /\ c.reserved = b.reserved
      /\ SameReading(b, c) /\ (Held(c) => c.hook_pending)
  BY <1>1, <1>4, FlagsAreSet
<1> HIDE DEF c
<1>6. PICK d : /\ Only(h, d) /\ Own(d) /\ Linked(h, d, core, clients, Listed, setup, value)
               /\ d.reserved = c.reserved /\ SameReading(c, d)
  <2>1. CASE Overflowed(c) /\ Only(h, TakeOverflow(c))
    BY <1>5, <2>1, OverflowTold
  <2>2. CASE ~Overflowed(c) /\ takes /\ Only(h, TakeEvent(c))
    BY <1>5, <2>2, EventTaken
  <2>3. CASE ~Overflowed(c) /\ ~takes /\ Scan(c) # {} /\ Only(h, Return(ToldOf(c, Least(Scan(c)))))
    <3> DEFINE d == Return(ToldOf(c, Least(Scan(c))))
    <3>1. /\ Own(d) /\ Linked(h, d, core, clients, Listed, setup, value)
          /\ d.reserved = c.reserved /\ SameReading(c, d)
      BY <1>5, <2>3, PropertyTold
    <3>2. Only(h, d)
      BY <2>3
    <3> HIDE DEF d
    <3>3. QED
      BY <3>1, <3>2
  <2>4. CASE ~Overflowed(c) /\ ~takes /\ Scan(c) = {} /\ Only(h, [ToldNothing(c) EXCEPT !.user = "wait"])
    BY <1>5, <2>4, NothingTold
  <2>5. QED
    BY <1>3, <2>1, <2>2, <2>3, <2>4
<1>7. d.reserved = client[h].reserved /\ SameReading(client[h], d)
  BY <1>5, <1>6 DEF SameReading, b
<1>8. UNCHANGED core /\ UNCHANGED <<setup, clients, value, items, running>>
  BY <1>2 DEF Others
<1>9. Linked(h, d, core', clients, Listed, setup, value)
  BY <1>6, <1>8
<1>10. QED
  BY <1>6, <1>7, <1>8, <1>9, CoreUnchanged, OneHandleQuiet

LEMMA WaitWakeupStep ==
  ASSUME Inv, NEW h \in Handles, WaitWakeup(h)
  PROVE  Inv'
<1> DEFINE c == client[h]
<1>1. /\ c \in ClientState /\ Life(h, c, core, Listed, setup)
      /\ SleepsJustly(h, c, core, Listed, setup)
  BY DEF Inv, Own, Linked
<1>2. UNCHANGED core /\ UNCHANGED <<setup, clients, value, items, running>>
  BY DEF WaitWakeup, Others
<1>3. CASE c.user = "wait" /\ ~c.need_wakeup /\ Only(h, [c EXCEPT !.user = "sleep"])
  <2> DEFINE d == [c EXCEPT !.user = "sleep"]
  <2>1. d \in ClientState
    BY <1>1 DEF ClientState, UserPlaces
  <2>2. /\ SameEvents(c, d) /\ SameProps(c, d) /\ SameLife(c, d) /\ d.user = "sleep"
        /\ d.joiner = c.joiner /\ d.need_wakeup = c.need_wakeup
    BY <1>1 DEF ClientState, SameEvents, SameProps, SameLife
  <2>3. Only(h, d)
    BY <1>3
  <2> HIDE DEF c, d
  <2>4. Life(h, d, core, Listed, setup)
    BY <1>1, <1>3, <2>2 DEF Life, SameEvents, SameProps, SameLife, Gone
  <2>5. SleepsJustly(h, d, core, Listed, setup)
    BY <1>1, <1>3, <2>2, StillDrowsy DEF Drowsy
  <2>6. QED
    BY <1>2, <2>1, <2>2, <2>3, <2>4, <2>5, CoreUnchanged, UserSteps DEF c
<1>4. CASE c.user \in {"wait", "woken"} /\ Only(h, [c EXCEPT !.user = "check", !.need_wakeup = FALSE])
  <2> DEFINE d == [c EXCEPT !.user = "check", !.need_wakeup = FALSE]
  <2>1. d \in ClientState
    BY <1>1 DEF ClientState, UserPlaces
  <2>2. /\ SameEvents(c, d) /\ SameProps(c, d) /\ SameLife(c, d) /\ d.user = "check"
        /\ d.joiner = c.joiner
    BY <1>1 DEF ClientState, SameEvents, SameProps, SameLife
  <2>3. Only(h, d)
    BY <1>4
  <2> HIDE DEF c, d
  <2>4. Life(h, d, core, Listed, setup) /\ SleepsJustly(h, d, core, Listed, setup)
    BY <1>1, <1>4, <2>2
       DEF Life, SameEvents, SameProps, SameLife, Gone, SleepsJustly, Drowsy
  <2>5. QED
    BY <1>2, <2>1, <2>2, <2>3, <2>4, CoreUnchanged, UserSteps DEF c
<1>5. CASE c.joiner \in {"wait", "woken"} /\ \E x \in {"sleep", "check"}, b \in {c.need_wakeup, FALSE} :
              Only(h, [c EXCEPT !.joiner = x, !.need_wakeup = b])
  <2>1. PICK x \in {"sleep", "check"}, b \in {c.need_wakeup, FALSE} :
               Only(h, [c EXCEPT !.joiner = x, !.need_wakeup = b])
    BY <1>5
  <2> DEFINE d == [c EXCEPT !.joiner = x, !.need_wakeup = b]
  <2>2. d \in ClientState
    <3>1. x \in JoinerPlaces /\ b \in BOOLEAN
      BY <1>1 DEF ClientState, JoinerPlaces
    <3>2. QED
      BY <1>1, <3>1 DEF ClientState
  <2>3. /\ SameEvents(c, d) /\ SameProps(c, d) /\ SameLife(c, d) /\ d.user = c.user
        /\ d.joiner = x /\ d.called = c.called
    BY <1>1 DEF ClientState, SameEvents, SameProps, SameLife
  <2>4. Only(h, d)
    BY <2>1
  <2> HIDE DEF c, d
  <2>5. h \in setup.joining /\ h \in Listed /\ ~c.destroying
    BY <1>1, <1>5 DEF Life
  <2>6. Life(h, d, core, Listed, setup)
    BY <1>1, <2>3, <2>5 DEF Life, SameEvents, SameProps, SameLife
  <2>7. SleepsJustly(h, d, core, Listed, setup)
    BY <2>5 DEF SleepsJustly
  <2>8. QED
    BY <1>2, <2>2, <2>3, <2>4, <2>6, <2>7, CoreUnchanged, UserSteps DEF c
<1>6. QED
  <2>1. CASE c.joiner \in {"wait", "woken"} /\ c.joiner = "wait" /\ ~c.need_wakeup
             /\ Only(h, [c EXCEPT !.joiner = "sleep"])
    <3>1. [c EXCEPT !.joiner = "sleep"] = [c EXCEPT !.joiner = "sleep", !.need_wakeup = c.need_wakeup]
      BY <1>1 DEF ClientState
    <3>2. QED
      BY <1>5, <2>1, <3>1
  <2>2. CASE c.joiner \in {"wait", "woken"} /\ Only(h, [c EXCEPT !.joiner = "check", !.need_wakeup = FALSE])
    BY <1>5, <2>2
  <2>3. \/ c.user = "wait" /\ ~c.need_wakeup /\ Only(h, [c EXCEPT !.user = "sleep"])
        \/ c.user \in {"wait", "woken"} /\ Only(h, [c EXCEPT !.user = "check", !.need_wakeup = FALSE])
        \/ /\ c.joiner \in {"wait", "woken"} /\ c.joiner = "wait" /\ ~c.need_wakeup
           /\ Only(h, [c EXCEPT !.joiner = "sleep"])
        \/ c.joiner \in {"wait", "woken"} /\ Only(h, [c EXCEPT !.joiner = "check", !.need_wakeup = FALSE])
    BY DEF WaitWakeup
  <2>4. QED
    BY <1>3, <1>4, <2>1, <2>2, <2>3

LEMMA TimedOutStep ==
  ASSUME Inv, NEW h \in Handles, TimedOut(h)
  PROVE  Inv'
<1> DEFINE c == client[h]
           d == [c EXCEPT !.user = "idle", !.queued_wakeup = FALSE]
<1>1. /\ c \in ClientState /\ Life(h, c, core, Listed, setup)
      /\ SleepsJustly(h, c, core, Listed, setup)
  BY DEF Inv, Own, Linked
<1>2. c.user = "sleep" /\ c.timed /\ Only(h, d) /\ Others
  BY DEF TimedOut
<1>3. d \in ClientState
  BY <1>1 DEF ClientState, UserPlaces
<1>4. /\ SameEvents(c, d) /\ SameProps(c, d) /\ SameLife(c, d)
      /\ d.user = "idle" /\ d.joiner = c.joiner /\ d.need_wakeup = c.need_wakeup
  BY <1>1 DEF ClientState, SameEvents, SameProps, SameLife
<1> HIDE DEF c, d
<1>5. Life(h, d, core, Listed, setup)
  BY <1>1, <1>2, <1>4 DEF Life, SameEvents, SameProps, SameLife, Gone
<1>6. SleepsJustly(h, d, core, Listed, setup)
  BY <1>1, <1>2, <1>4, StillDrowsy DEF Drowsy
<1>7. UNCHANGED core /\ UNCHANGED <<setup, clients, value, items, running>>
  BY <1>2 DEF Others
<1>8. QED
  BY <1>2, <1>3, <1>4, <1>5, <1>6, <1>7, CoreUnchanged, UserSteps DEF c

LEMMA WakeupStep ==
  ASSUME Inv, NEW h \in Handles, Wakeup(h)
  PROVE  Inv'
<1> DEFINE c == client[h]
           e == [c EXCEPT !.queued_wakeup = TRUE]
           d == WakeupClient(e)
<1>1. /\ c \in ClientState /\ Life(h, c, core, Listed, setup)
  BY DEF Inv, Own, Linked
<1>2. /\ h \in Listed /\ ~c.destroying /\ h \in setup.joining /\ Only(h, d) /\ Others
  BY DEF Wakeup, Usable, Here
<1>3. e \in ClientState
  BY <1>1 DEF ClientState
<1>4. /\ SameEvents(c, e) /\ SameProps(c, e) /\ SameLife(c, e) /\ SameUser(c, e)
  BY <1>1 DEF ClientState, SameEvents, SameProps, SameLife, SameUser
<1> HIDE DEF c, e
<1>5. d \in ClientState /\ SameEvents(e, d) /\ SameProps(e, d) /\ SameLife(e, d) /\ Roused(e, d)
  BY <1>3, WakeupClientIs
<1> HIDE DEF d
<1>6. /\ SameEvents(c, d) /\ SameProps(c, d) /\ SameLife(c, d) /\ Roused(c, d)
  BY <1>4, <1>5 DEF SameEvents, SameProps, SameLife, SameUser, Roused
<1>7. d.props = c.props /\ d.reserved <= c.reserved
  BY <1>1, <1>6 DEF SameEvents, SameProps, ClientState
<1>8. Life(h, d, core, Listed, setup) /\ (d.user = "continue") = (c.user = "continue")
  <2>1. /\ c \in ClientState /\ d \in ClientState /\ Roused(c, d) /\ SameLife(c, d)
        /\ d.props = c.props /\ d.reserved <= c.reserved
        /\ Life(h, c, core, Listed, setup) /\ h \in Listed
    BY <1>1, <1>2, <1>5, <1>6, <1>7
  <2>2. QED
    BY <2>1, RousedLives
<1>9. SleepsJustly(h, d, core, Listed, setup)
  BY <1>2 DEF SleepsJustly
<1>10. UNCHANGED core /\ UNCHANGED <<setup, clients, value, items, running>>
  BY <1>2 DEF Others
<1>11. QED
  BY <1>2, <1>5, <1>6, <1>8, <1>9, <1>10, CoreUnchanged, UserSteps DEF c

LEMMA WaitAsyncRequestsStep ==
  ASSUME Inv, NEW h \in Handles, WaitAsyncRequests(h)
  PROVE  Inv'
<1> DEFINE c == client[h]
<1>1. c \in ClientState /\ Life(h, c, core, Listed, setup)
  BY DEF Inv, Own, Linked
<1>2. UNCHANGED core /\ UNCHANGED <<setup, clients, value, items, running>>
  BY DEF WaitAsyncRequests, Others
<1>3. CASE /\ \/ c.joiner = "idle" /\ Usable(h) /\ h \in setup.joining
              \/ c.joiner = "check"
           /\ \E x \in {"check", "wait", "idle"} : Only(h, [c EXCEPT !.joiner = x])
  <2>1. PICK x \in {"check", "wait", "idle"} : Only(h, [c EXCEPT !.joiner = x])
    BY <1>3
  <2>2. h \in setup.joining /\ h \in Listed /\ ~c.destroying
    BY <1>1, <1>3 DEF Life, Usable, Here
  <2> DEFINE d == [c EXCEPT !.joiner = x]
  <2>3. d \in ClientState
    <3>1. x \in JoinerPlaces
      BY DEF JoinerPlaces
    <3>2. QED
      BY <1>1, <3>1 DEF ClientState
  <2>4. /\ SameEvents(c, d) /\ SameProps(c, d) /\ SameLife(c, d) /\ d.user = c.user
        /\ d.joiner = x /\ d.called = c.called
    BY <1>1 DEF ClientState, SameEvents, SameProps, SameLife
  <2>5. Only(h, d)
    BY <2>1
  <2> HIDE DEF c, d
  <2>6. Life(h, d, core, Listed, setup) /\ SleepsJustly(h, d, core, Listed, setup)
    BY <1>1, <2>2, <2>4 DEF Life, SameEvents, SameProps, SameLife, SleepsJustly
  <2>7. QED
    BY <1>2, <2>3, <2>4, <2>5, <2>6, CoreUnchanged, UserSteps DEF c
<1>4. CASE /\ c.user = "check" /\ c.destroying
           /\ Only(h, [c EXCEPT !.user = IF Unserved(c) THEN "wait" ELSE "remove"])
  <2> DEFINE x == IF Unserved(c) THEN "wait" ELSE "remove"
             d == [c EXCEPT !.user = x]
  <2>1. x \in {"wait", "remove"} /\ x \in UserPlaces
    BY DEF UserPlaces
  <2>2. x = "remove" => c.reserved = 0 /\ ~ReadsOf(core, h)
    BY <1>1 DEF Unserved, ClientState, Life
  <2>3. Only(h, d)
    BY <1>4
  <2> HIDE DEF x
  <2>4. d \in ClientState
    BY <1>1, <2>1 DEF ClientState
  <2>5. /\ SameEvents(c, d) /\ SameProps(c, d) /\ SameLife(c, d) /\ d.user = x
        /\ d.joiner = c.joiner
    BY <1>1 DEF ClientState, SameEvents, SameProps, SameLife
  <2> HIDE DEF c, d
  <2>6. Life(h, d, core, Listed, setup)
    BY <1>1, <1>4, <2>1, <2>2, <2>5 DEF Life, SameEvents, SameProps, SameLife, Gone
  <2>7. SleepsJustly(h, d, core, Listed, setup)
    BY <1>4, <2>5 DEF SleepsJustly, SameLife
  <2>8. QED
    BY <1>2, <2>1, <2>3, <2>4, <2>5, <2>6, <2>7, CoreUnchanged, UserSteps DEF c
<1>5. QED
  BY <1>3, <1>4 DEF WaitAsyncRequests

\* What the user does with the core locked.
LEMMA WithCore ==
  ASSUME Inv, NEW h \in Handles, NEW x \in UserPlaces,
         \/ Only(h, [client[h] EXCEPT !.user = x])
         \/ Only(h, [client[h] EXCEPT !.user = x, !.terminate = TRUE]),
         UNCHANGED <<setup, clients, value, items, running>>,
         core' \in CoreState, CoreKept(core, core'), core'.read = core.read,
         core.raced => core'.raced,
         \/ client[h].user = "continue" /\ x = "idle"
         \/ client[h].user \in {"idle", "leave"} /\ x = "leave" /\ Usable(h)
         \/ client[h].user \in Gone /\ x \in Gone
  PROVE  Inv'
<1> DEFINE c == client[h]
<1>0. PICK d \in {[c EXCEPT !.user = x], [c EXCEPT !.user = x, !.terminate = TRUE]} : Only(h, d)
  OBVIOUS
<1>1. /\ c \in ClientState /\ Life(h, c, core, Listed, setup)
  BY DEF Inv, Own, Linked
<1>2. /\ d \in ClientState /\ SameEvents(c, d) /\ SameProps(c, d) /\ SameLife(c, d)
      /\ d.user = x /\ d.joiner = c.joiner /\ d.called = c.called
  <2>1. CASE d = [c EXCEPT !.user = x]
    <3>1. d \in ClientState
      BY <1>1, <2>1 DEF ClientState
    <3>2. QED
      BY <1>1, <2>1, <3>1 DEF ClientState, SameEvents, SameProps, SameLife
  <2>2. CASE d = [c EXCEPT !.user = x, !.terminate = TRUE]
    <3>1. d \in ClientState
      BY <1>1, <2>2 DEF ClientState
    <3>2. QED
      BY <1>1, <2>2, <3>1 DEF ClientState, SameEvents, SameProps, SameLife
  <2>3. QED
    BY <2>1, <2>2
<1>4. Usable(h) => h \in Listed /\ ~c.destroying
  BY DEF Usable, Here
<1>5. /\ \/ c.user = "continue" /\ x = "idle"
         \/ c.user \in {"idle", "leave"} /\ x = "leave" /\ Usable(h)
         \/ c.user \in Gone /\ x \in Gone
      /\ Only(h, d)
  BY <1>0
<1> HIDE DEF c
<1>6. ReadsOf(core', h) = ReadsOf(core, h)
  BY DEF ReadsOf, CoreKept
<1>7. Life(h, d, core', Listed, setup)
  BY <1>1, <1>2, <1>4, <1>5, <1>6 DEF Life, SameEvents, SameProps, SameLife, Gone
<1>8. SleepsJustly(h, d, core', Listed, setup)
  BY <1>1, <1>2, <1>5 DEF SleepsJustly, Drowsy, Life, Gone
<1>9. d.user = "continue" => c.user = "continue"
  BY <1>2, <1>5 DEF Gone
<1>10. QED
  BY <1>2, <1>5, <1>7, <1>8, <1>9, UserSteps DEF c

LEMMA HookContinueStep ==
  ASSUME Inv, NEW h \in Handles, HookContinue(h)
  PROVE  Inv'
<1>1. /\ client[h].user = "continue" /\ Only(h, [client[h] EXCEPT !.user = "idle"])
      /\ core' = WakeupCore([core EXCEPT !.hook = "over"])
      /\ UNCHANGED <<setup, clients, value, items, running>>
  BY DEF HookContinue
<1>2. /\ core' \in CoreState /\ CoreKept(core, core') /\ core'.read = core.read
      /\ core.raced => core'.raced
  BY <1>1 DEF Inv, Types, CoreState, CoreKept, WakeupCore
<1>3. "idle" \in UserPlaces
  BY DEF UserPlaces
<1>4. QED
  BY <1>1, <1>2, <1>3, WithCore

LEMMA QuitStep ==
  ASSUME Inv, NEW h \in Handles, Quit(h)
  PROVE  Inv'
<1>1. PICK x \in {"getthread", "stop"} :
        /\ client[h].user \in Gone /\ Only(h, [client[h] EXCEPT !.user = x])
        /\ core' = [core EXCEPT !.stop_play = TRUE] \/ core' = core
        /\ UNCHANGED <<setup, clients, value, items, running>>
  BY DEF Quit, Gone
<1>2. /\ core' \in CoreState /\ CoreKept(core, core') /\ core'.read = core.read
      /\ core.raced => core'.raced
  BY <1>1 DEF Inv, Types, CoreState, CoreKept
<1>3. x \in UserPlaces /\ x \in Gone
  BY DEF UserPlaces, Gone
<1>4. QED
  BY <1>1, <1>2, <1>3, WithCore

LEMMA StopCoreStep ==
  ASSUME Inv, NEW h \in Handles, StopCore(h)
  PROVE  Inv'
<1>1. /\ client[h].user \in Gone /\ Only(h, [client[h] EXCEPT !.user = "join"])
      /\ core' = WakeupCore(core)
      /\ UNCHANGED <<setup, clients, value, items, running>>
  BY DEF StopCore, Gone
<1>2. /\ core' \in CoreState /\ CoreKept(core, core') /\ core'.read = core.read
      /\ core.raced => core'.raced
  BY <1>1 DEF Inv, Types, CoreState, CoreKept, WakeupCore
<1>3. "join" \in UserPlaces /\ "join" \in Gone
  BY DEF UserPlaces, Gone
<1>4. QED
  BY <1>1, <1>2, <1>3, WithCore

LEMMA JoinStep ==
  ASSUME Inv, NEW h \in Handles, Join(h)
  PROVE  Inv'
<1>1. /\ client[h].user \in Gone /\ Only(h, [client[h] EXCEPT !.user = "gone"])
      /\ UNCHANGED core /\ UNCHANGED <<setup, clients, value, items, running>>
  BY DEF Join, Gone, Others
<1>2. /\ core' \in CoreState /\ CoreKept(core, core') /\ core'.read = core.read
      /\ core.raced => core'.raced
  BY <1>1, CoreUnchanged
<1>3. "gone" \in UserPlaces /\ "gone" \in Gone
  BY DEF UserPlaces, Gone
<1>4. QED
  BY <1>1, <1>2, <1>3, WithCore

-------------------------------------------------------------------------------
\* Properties are observed, requests are made.
LEMMA PropsChangedIs ==
  ASSUME Inv, NEW h \in Handles, NEW w \in BOOLEAN,
         core' = [core EXCEPT !.woken = w, !.props_changed = @ \/ Reads(h)],
         core.woken => w
  PROVE  /\ core' \in CoreState /\ CoreKept(core, core') /\ core'.read = core.read
         /\ core.raced => core'.raced
         /\ core'.woken = w /\ (ReadsOf(core, h) => core'.props_changed)
         /\ ReadsOf(core', h) = ReadsOf(core, h)
<1> DEFINE b == core.props_changed \/ Reads(h)
<1>1. core \in CoreState /\ b \in BOOLEAN
  BY DEF Inv, Types
<1>2. core' = [core EXCEPT !.woken = w, !.props_changed = b]
  BY <1>1 DEF CoreState
<1>3. (core.props_changed => b) /\ (ReadsOf(core, h) => b)
  BY DEF ReadsOf, Reads
<1> HIDE DEF b
<1>4. core' \in CoreState
  BY <1>1, <1>2 DEF CoreState
<1>5. /\ core'.woken = w /\ core'.props_changed = b /\ core'.read = core.read
      /\ core'.raced = core.raced /\ core'.pc = core.pc /\ core'.n = core.n /\ core'.i = core.i
      /\ core'.reads = core.reads /\ core'.hook = core.hook
  BY <1>1, <1>2 DEF CoreState
<1>6. QED
  BY <1>3, <1>4, <1>5 DEF CoreKept, ReadsOf

LEMMA ObservePropertyStep ==
  ASSUME Inv, NEW h \in Handles, NEW p \in setup.props, ObserveProperty(h, p)
  PROVE  Inv'
<1> DEFINE c == client[h]
           d == Observed(c, p)
<1>1. /\ Own(c) /\ Linked(h, c, core, clients, Listed, setup, value)
      /\ core \in CoreState /\ setup \in Setups /\ value \in [Props -> Values]
  BY DEF Inv, Types
<1>2. p \in Props
  BY <1>1, SetupsAssumption
<1>3. /\ ~c.destroying /\ Only(h, d) /\ core' = PropsChanged(h)
      /\ UNCHANGED <<setup, clients, value, items, running>>
  BY DEF ObserveProperty, Usable
<1>4. core' = [core EXCEPT !.woken = TRUE, !.props_changed = @ \/ Reads(h)]
  BY <1>1, <1>3 DEF PropsChanged, WakeupCore, CoreState
<1>5. /\ core' \in CoreState /\ CoreKept(core, core') /\ core'.read = core.read
      /\ core.raced => core'.raced
      /\ core'.woken /\ (ReadsOf(core, h) => core'.props_changed)
  BY <1>4, PropsChangedIs
<1>6. Linked(h, c, core', clients, Listed, setup, value)
  BY <1>1, <1>5, LinkedCore
<1> HIDE DEF c
<1>7. Own(d) /\ Linked(h, d, core', clients, Listed, setup, value) /\ d.reserved = c.reserved
  BY <1>1, <1>2, <1>3, <1>5, <1>6, ObservedIs
<1> HIDE DEF d
<1>8. QED
  BY <1>3, <1>5, <1>7, OneHandleQuiet DEF c

LEMMA UnobservePropertyStep ==
  ASSUME Inv, NEW h \in Handles, NEW p, UnobserveProperty(h, p)
  PROVE  Inv'
<1> DEFINE c == client[h]
<1>1. /\ Own(c) /\ Linked(h, c, core, clients, Listed, setup, value)
      /\ core \in CoreState
  BY DEF Inv, Types
<1>2. PICK n \in DOMAIN c.props : Only(h, Unobserved(c, n))
  BY DEF UnobserveProperty
<1>3. /\ ~c.destroying
      /\ core' = [core EXCEPT !.props_changed = @ \/ Reads(h)]
      /\ UNCHANGED <<setup, clients, value, items, running>>
  BY DEF UnobserveProperty, Usable
<1>4. core' = [core EXCEPT !.woken = core.woken, !.props_changed = @ \/ Reads(h)]
  BY <1>1, <1>3 DEF CoreState
<1>5. core.woken \in BOOLEAN
  BY <1>1 DEF CoreState
<1>6. /\ core' \in CoreState /\ CoreKept(core, core') /\ core'.read = core.read
      /\ core.raced => core'.raced
      /\ ReadsOf(core, h) => core'.props_changed
      /\ ReadsOf(core', h) = ReadsOf(core, h)
  BY <1>4, <1>5, PropsChangedIs
<1>7. Linked(h, c, core', clients, Listed, setup, value)
  BY <1>1, <1>6, LinkedCore
<1> DEFINE d == Unobserved(c, n)
<1> HIDE DEF c
<1>8. Own(d) /\ Linked(h, d, core', clients, Listed, setup, value) /\ d.reserved = c.reserved
  <2>1. /\ n \in DOMAIN c.props /\ (ReadsOf(core', h) => core'.props_changed)
        /\ Own(c) /\ ~c.destroying
    BY <1>1, <1>2, <1>3, <1>6
  <2>2. d = Unobserved(c, n)
    OBVIOUS
  <2> HIDE DEF d
  <2>3. QED
    BY <1>7, <2>1, <2>2, UnobservedIs
<1>9. Only(h, d)
  BY <1>2
<1> HIDE DEF d
<1>10. QED
  BY <1>3, <1>6, <1>8, <1>9, OneHandleQuiet DEF c

LEMMA RunAsyncStep ==
  ASSUME Inv, NEW h \in Handles, NEW what \in {"get", "cmd"}, RunAsync(h, what)
  PROVE  Inv'
<1> DEFINE c == client[h]
           d == Reserved(c)
           r == <<h, what>>
<1>1. /\ c \in ClientState /\ Own(c) /\ Linked(h, c, core, clients, Listed, setup, value)
      /\ items \in Seq(Handles \X {"get", "cmd"}) /\ running \in Seq(Handles)
      /\ \A g \in Handles : Booked(g, client[g], items, running)
  BY DEF Inv, Types, Own
<1>2. /\ ~c.destroying /\ h \in Listed /\ HasRoom(c) /\ Only(h, d)
      /\ items' = Append(items, r)
      /\ UNCHANGED <<setup, clients, core, running, value>>
  BY DEF RunAsync, Usable, Here, MayReserve
<1>3. d = [c EXCEPT !.reserved = @ + 1]
  BY DEF Reserved
<1>4. r \in Handles \X {"get", "cmd"} /\ \A g \in Handles : r \in Requests(g) <=> g = h
  BY DEF Requests
<1> HIDE DEF c, d, r
<1>5. c.reserved \in Nat /\ c.reserved + 1 \in Nat
  BY <1>1 DEF ClientState
<1>6. d \in ClientState
  BY <1>1, <1>3, <1>5 DEF ClientState
<1>7. /\ d.reserved = c.reserved + 1 /\ d.events = c.events /\ d.choked = c.choked
      /\ d.told = c.told /\ d.sent = c.sent
      /\ SameProps(c, d) /\ SameLife(c, d) /\ SameUser(c, d)
  BY <1>1, <1>3 DEF ClientState, SameProps, SameLife, SameUser
<1>8. Fits(d)
  <2>1. Len(c.events) \in Nat /\ MaxEvents \in Nat
    BY <1>1, LenProperties, ConstantsAssumption DEF ClientState
  <2>2. Len(c.events) + c.reserved < MaxEvents
    BY <1>2 DEF HasRoom
  <2>3. Len(c.events) + (c.reserved + 1) <= MaxEvents
    BY <1>5, <2>1, <2>2
  <2>4. QED
    BY <1>7, <2>3 DEF Fits
<1>9. Own(d)
  BY <1>1, <1>6, <1>7, <1>8
     DEF Own, Cursor, Stamps, HookInOrder, ReadyAhead, SameProps, SameLife, SameUser
<1>10. Linked(h, d, core, clients, Listed, setup, value)
  <2>1. Life(h, d, core, Listed, setup)
    BY <1>1, <1>2, <1>7 DEF Linked, Life, SameProps, SameLife, SameUser
  <2>2. d.reserved > 0
    BY <1>5, <1>7
  <2>3. SleepsJustly(h, d, core, Listed, setup)
    BY <1>1, <1>7, <2>2
       DEF Linked, SleepsJustly, NothingNew, Drowsy, WaitsForProps, SameProps, SameLife, SameUser
  <2>4. EventsInv(h, d, Listed) /\ HookInv(d, core)
    BY <1>1, <1>7 DEF Linked, EventsInv, HookInv, InOrder, NoGap, EventPlaces, SameProps, SameUser
  <2>5. /\ ValuesTrue(h, d, Listed, value) /\ StaleKnown(h, d, core, Listed)
        /\ PendingKnown(h, d, core, clients, Listed)
    BY <1>1, <1>7 DEF Linked, ValuesTrue, StaleKnown, PendingKnown, SameProps, SameLife
  <2>6. QED
    BY <2>1, <2>3, <2>4, <2>5 DEF Linked
<1>11. items' \in Seq(Handles \X {"get", "cmd"})
  BY <1>1, <1>2, <1>4, AppendIs
<1>12. ASSUME NEW g \in Handles
       PROVE  /\ Cardinality(Places(items', Requests(g))) =
                   Cardinality(Places(items, Requests(g))) + (IF g = h THEN 1 ELSE 0)
              /\ Cardinality(Places(items, Requests(g))) \in Nat
              /\ Cardinality(Places(running, {g})) \in Nat
  <2>1. Cardinality(Places(Append(items, r), Requests(g))) =
          Cardinality(Places(items, Requests(g))) + (IF r \in Requests(g) THEN 1 ELSE 0)
    BY <1>1, <1>4, PlacesOfAppend
  <2>2. Cardinality(Places(items, Requests(g))) \in Nat
    BY <1>1, PlacesAreFinite
  <2>3. Cardinality(Places(running, {g})) \in Nat
    BY <1>1, PlacesAreFinite
  <2>4. QED
    BY <1>2, <1>4, <2>1, <2>2, <2>3
<1>13. Booked(h, d, items', running')
  <2>1. c.reserved = Cardinality(Places(items, Requests(h))) + Cardinality(Places(running, {h}))
    BY <1>1 DEF Booked, c
  <2>2. QED
    BY <1>2, <1>7, <1>12, <2>1 DEF Booked
<1>14. ASSUME NEW g \in Handles, g # h PROVE Booked(g, client[g], items', running')
  <2> DEFINE x == Cardinality(Places(items, Requests(g)))
             y == Cardinality(Places(items', Requests(g)))
  <2>1. y = x + 0 /\ x \in Nat
    BY <1>12, <1>14
  <2> HIDE DEF x, y
  <2>2. y = x
    BY <2>1
  <2>3. Cardinality(Places(items', Requests(g))) = Cardinality(Places(items, Requests(g)))
    BY <2>2 DEF x, y
  <2>4. QED
    BY <1>1, <1>2, <2>3 DEF Booked
<1>15. running' \in Seq(Handles)
  BY <1>1, <1>2
<1>16. SameReading(c, d)
  BY <1>7 DEF SameReading, SameProps, SameLife
<1>17. Linked(h, d, core', clients, Listed, setup, value)
  BY <1>2, <1>10
<1>18. QED
  BY <1>2, <1>9, <1>11, <1>13, <1>14, <1>15, <1>16, <1>17, CoreUnchanged, OneHandle DEF c

\* A handle is destroyed.
LEMMA BeginDestroyStep ==
  ASSUME Inv, NEW h \in Handles, BeginDestroy(h)
  PROVE  Inv'
<1> DEFINE c == client[h]
           d == [c EXCEPT !.destroying = TRUE, !.props = <<>>, !.user = "check", !.timed = FALSE]
<1>1. /\ c \in ClientState /\ Own(c) /\ Linked(h, c, core, clients, Listed, setup, value)
      /\ core \in CoreState
  BY DEF Inv, Types, Own
<1>2. /\ h \in Listed /\ c.joiner = "idle" /\ Only(h, d)
      /\ core' = [core EXCEPT !.props_changed = @ \/ Reads(h)]
      /\ UNCHANGED <<setup, clients, value, items, running>>
  BY DEF BeginDestroy, Usable, Here
<1>3. core' = [core EXCEPT !.woken = core.woken, !.props_changed = @ \/ Reads(h)]
  BY <1>1, <1>2 DEF CoreState
<1>4. core.woken \in BOOLEAN
  BY <1>1 DEF CoreState
<1>5. /\ core' \in CoreState /\ CoreKept(core, core') /\ core'.read = core.read
      /\ core.raced => core'.raced
      /\ ReadsOf(core, h) => core'.props_changed
  BY <1>3, <1>4, PropsChangedIs
<1>6. Linked(h, c, core', clients, Listed, setup, value)
  BY <1>1, <1>5, LinkedCore
<1>7. d \in ClientState
  <2>1. <<>> \in Seq(Prop) /\ "check" \in UserPlaces
    BY DEF UserPlaces
  <2>2. QED
    BY <1>1, <2>1 DEF ClientState
<1>8. /\ d.destroying /\ d.props = <<>> /\ d.user = "check" /\ ~d.timed /\ d.joiner = c.joiner
      /\ d.async_counter = c.async_counter /\ d.hook_pending = c.hook_pending
      /\ SameEvents(c, d) /\ DOMAIN d.props = {}
  <2>1. DOMAIN d.props = DOMAIN <<>> /\ DOMAIN <<>> = {}
    BY <1>1 DEF ClientState
  <2>2. QED
    BY <1>1, <2>1 DEF ClientState, SameEvents
<1> HIDE DEF c, d
<1>9. Own(d)
  BY <1>1, <1>7, <1>8
     DEF Own, Fits, Cursor, Stamps, HookInOrder, ReadyAhead, SameEvents
<1>10. Life(h, d, core', Listed, setup) /\ SleepsJustly(h, d, core', Listed, setup)
  BY <1>2, <1>6, <1>8 DEF Linked, Life, SleepsJustly, SameEvents, Gone
<1>11. EventsInv(h, d, Listed) /\ HookInv(d, core')
  BY <1>6, <1>8 DEF Linked, EventsInv, HookInv, InOrder, NoGap, EventPlaces, SameEvents
<1>12. /\ ValuesTrue(h, d, Listed, value) /\ StaleKnown(h, d, core', Listed)
       /\ PendingKnown(h, d, core', clients, Listed)
  BY <1>8 DEF ValuesTrue, StaleKnown, PendingKnown
<1>13. Linked(h, d, core', clients, Listed, setup, value)
  BY <1>10, <1>11, <1>12 DEF Linked
<1>14. d.reserved = client[h].reserved
  BY <1>8 DEF SameEvents, c
<1>15. QED
  BY <1>2, <1>5, <1>9, <1>13, <1>14, OneHandleQuiet

\* It is removed from the list: there is no request for it, and no property is read, and the
\* others keep their order.
LEMMA RemoveClientStep ==
  ASSUME Inv, NEW h \in Handles, RemoveClient(h)
  PROVE  Inv'
<1>1. PICK n \in DOMAIN clients :
        /\ client[h].user = "remove" /\ clients[n] = h /\ clients' = RemoveAt(clients, n)
        /\ \E x \in {"quit", "gone"} : Only(h, [client[h] EXCEPT !.user = x, !.events = <<>>])
        /\ core' = ListChanged(core)
        /\ UNCHANGED <<setup, items, running, value>>
  BY DEF RemoveClient
<1>2. PICK x \in {"quit", "gone"} : Only(h, [client[h] EXCEPT !.user = x, !.events = <<>>])
  BY <1>1
<1> DEFINE c == client[h]
           d == [c EXCEPT !.user = x, !.events = <<>>]
<1>3. /\ c \in ClientState /\ Own(c) /\ Linked(h, c, core, clients, Listed, setup, value)
      /\ core \in CoreState /\ clients \in Seq(Handles) /\ IsInjective(clients)
      /\ DOMAIN client = Handles /\ (core.pc = "exit" => clients = <<>>)
  BY DEF Inv, Types, Own
<1>4. /\ core' \in CoreState /\ CoreKept(core, core') /\ core'.read = core.read
      /\ core'.raced = core.raced /\ core'.props_changed = core.props_changed /\ core'.woken
  BY <1>1, <1>3 DEF ListChanged, WakeupCore, CoreState, CoreKept
<1>5. client'[h] = d /\ DOMAIN client' = Handles /\ \A g \in Handles : g # h => client'[g] = client[g]
  BY <1>2, <1>3 DEF Only
<1>6. d \in ClientState
  <2>1. x \in UserPlaces /\ <<>> \in Seq(Event)
    BY DEF UserPlaces
  <2>2. QED
    BY <1>3, <2>1 DEF ClientState
<1>7. /\ d.events = <<>> /\ d.user = x /\ d.reserved = c.reserved /\ d.joiner = c.joiner
      /\ d.called = c.called /\ d.timed = c.timed
      /\ SameProps(c, d) /\ SameLife(c, d)
  BY <1>3 DEF ClientState, SameProps, SameLife
<1>8. c.user = "remove"
  BY <1>1
<1> HIDE DEF d
<1>9. /\ clients' \in Seq(Handles) /\ DOMAIN clients' = 1 .. Len(clients) - 1
      /\ DOMAIN clients = 1 .. Len(clients) /\ Len(clients) \in Nat /\ n \in 1 .. Len(clients)
      /\ \A i \in 1 .. Len(clients) - 1 : clients'[i] = clients[IF i < n THEN i ELSE i + 1]
  BY <1>1, <1>3, RemoveAtIs, LenProperties
<1>10. ASSUME NEW i \in DOMAIN clients'
       PROVE  /\ (IF i < n THEN i ELSE i + 1) \in DOMAIN clients
              /\ (IF i < n THEN i ELSE i + 1) # n
              /\ clients'[i] = clients[IF i < n THEN i ELSE i + 1]
  BY <1>9
<1>11. IsInjective(clients')
  <2> SUFFICES ASSUME NEW i \in DOMAIN clients', NEW j \in DOMAIN clients',
                      clients'[i] = clients'[j]
               PROVE  i = j
    BY DEF IsInjective
  <2>1. (IF i < n THEN i ELSE i + 1) = (IF j < n THEN j ELSE j + 1)
    BY <1>3, <1>10 DEF IsInjective
  <2>2. QED
    BY <1>9, <2>1
<1>12. Listed' = Listed \ {h} /\ h \in Listed
  <2>1. ASSUME NEW g \in Listed' PROVE g \in Listed /\ g # h
    <3>1. PICK i \in DOMAIN clients' : clients'[i] = g
      BY DEF Listed
    <3>2. clients[IF i < n THEN i ELSE i + 1] # h
      BY <1>1, <1>3, <1>10 DEF IsInjective
    <3>3. QED
      BY <1>10, <3>1, <3>2 DEF Listed
  <2>2. ASSUME NEW g \in Listed, g # h PROVE g \in Listed'
    <3>1. PICK i \in DOMAIN clients : clients[i] = g /\ i # n
      BY <1>1, <2>2 DEF Listed
    <3>2. CASE i < n
      <4>1. i \in DOMAIN clients' /\ clients'[i] = clients[i]
        BY <1>9, <3>1, <3>2
      <4>2. QED
        BY <3>1, <4>1 DEF Listed
    <3>3. CASE ~(i < n)
      <4>1. i - 1 \in DOMAIN clients' /\ ~(i - 1 < n) /\ (i - 1) + 1 = i
        BY <1>9, <3>1, <3>3
      <4>2. clients'[i - 1] = clients[i]
        BY <1>10, <4>1
      <4>3. QED
        BY <3>1, <4>1, <4>2 DEF Listed
    <3>4. QED
      BY <3>2, <3>3
  <2>3. QED
    BY <1>1, <2>1, <2>2 DEF Listed
<1>13. c.destroying /\ c.reserved = 0 /\ ~ReadsOf(core, h)
  BY <1>3, <1>8 DEF Linked, Life
<1>14. Own(d)
  <2>1. Fits(d)
    BY <1>7, <1>13, EmptySeq, ConstantsAssumption DEF Fits
  <2>2. x # "continue"
    OBVIOUS
  <2>3. QED
    BY <1>3, <1>6, <1>7, <2>1, <2>2
       DEF Own, Cursor, Stamps, HookInOrder, ReadyAhead, SameProps, SameLife
<1>15. Linked(h, d, core', clients', Listed', setup', value')
  <2>1. ~ReadsOf(core', h) /\ h \notin Listed'
    BY <1>4, <1>12, <1>13 DEF ReadsOf, CoreKept
  <2>2. Life(h, d, core', Listed', setup')
    BY <1>1, <1>3, <1>7, <1>12, <1>13, <2>1
       DEF Linked, Life, SameProps, SameLife, Gone
  <2>3. HookInv(d, core')
    <3>1. DOMAIN d.events = {} /\ x # "continue"
      BY <1>7, EmptySeq
    <3>2. QED
      BY <1>3, <1>4, <1>7, <3>1 DEF Linked, HookInv, SameProps, CoreKept
  <2>4. QED
    BY <2>1, <2>2, <2>3
       DEF Linked, SleepsJustly, EventsInv, ValuesTrue, StaleKnown, PendingKnown
<1>16. ASSUME NEW g \in Handles, g # h
       PROVE  Linked(g, client[g], core', clients', Listed', setup', value')
  <2> DEFINE e == client[g]
  <2>1. Linked(g, e, core, clients, Listed, setup, value)
    BY DEF Inv
  <2>2. Linked(g, e, core', clients, Listed, setup, value)
    BY <1>4, <2>1, LinkedCore
  <2> HIDE DEF e
  <2>3. g \in Listed' <=> g \in Listed
    BY <1>12, <1>16
  <2>4. setup' = setup /\ value' = value
    BY <1>1
  <2>5. Life(g, e, core', Listed', setup') /\ SleepsJustly(g, e, core', Listed', setup')
    BY <2>2, <2>3, <2>4 DEF Linked, Life, SleepsJustly
  <2>6. EventsInv(g, e, Listed') /\ HookInv(e, core')
    BY <2>2, <2>3 DEF Linked, EventsInv
  <2>7. ValuesTrue(g, e, Listed', value') /\ StaleKnown(g, e, core', Listed')
    BY <2>2, <2>3, <2>4 DEF Linked, ValuesTrue, StaleKnown
  <2>8. PendingKnown(g, e, core', clients', Listed')
    BY <1>4 DEF PendingKnown
  <2>9. QED
    BY <2>5, <2>6, <2>7, <2>8 DEF Linked, e
<1>17. \A g \in Handles : Booked(g, client'[g], items', running')
  <2>1. \A g \in Handles : Booked(g, client[g], items, running)
    BY DEF Inv
  <2>2. \A g \in Handles : client'[g].reserved = client[g].reserved
    BY <1>5, <1>7
  <2>3. QED
    BY <1>1, <2>1, <2>2 DEF Booked
<1>18. Types'
  <2>1. core'.pc # "exit"
    BY <1>3, <1>4, <1>9, EmptySeq DEF CoreKept
  <2>2. QED
    BY <1>1, <1>4, <1>5, <1>9, <1>11, <2>1 DEF Inv, Types
<1>19. ReadInv'
  <2> SUFFICES ASSUME core'.pc \in {"fetch", "store"}, ~core'.props_changed
               PROVE  /\ ~client'[core'.reads].destroying
                      /\ core'.i \in DOMAIN client'[core'.reads].props
                      /\ Stale(client'[core'.reads].props[core'.i])
                      /\ core'.pc = "store" => core'.raced \/ core'.read = value'[ReadProp']
    BY DEF ReadInv
  <2>1. /\ core.pc \in {"fetch", "store"} /\ ~core.props_changed
        /\ core'.reads = core.reads /\ core'.i = core.i /\ core'.pc = core.pc
    BY <1>4 DEF CoreKept
  <2>2. /\ ~client[core.reads].destroying
        /\ core.i \in DOMAIN client[core.reads].props
        /\ Stale(client[core.reads].props[core.i])
        /\ core.pc = "store" => core.raced \/ core.read = value[ReadProp]
    BY <2>1 DEF Inv, ReadInv
  <2>3. core.reads \in Handles /\ core.reads # h
    BY <1>3, <1>13, <2>1 DEF ReadsOf, CoreState
  <2>4. client'[core.reads] = client[core.reads]
    BY <1>5, <2>3
  <2>5. ReadProp' = client'[core.reads].props[core.i].name
    BY <2>1 DEF ReadProp
  <2>6. QED
    BY <1>1, <1>4, <2>1, <2>2, <2>4, <2>5 DEF ReadProp
<1>20. ASSUME NEW g \in Handles
       PROVE  /\ Own(client'[g])
              /\ Linked(g, client'[g], core', clients', Listed', setup', value')
  <2>1. CASE g = h
    BY <1>5, <1>14, <1>15, <2>1
  <2>2. CASE g # h
    BY <1>5, <1>16, <2>2 DEF Inv
  <2>3. QED
    BY <2>1, <2>2
<1>21. QED
  BY <1>17, <1>18, <1>19, <1>20 DEF Inv

-------------------------------------------------------------------------------
\* A step of the core, and of all handles.
LEMMA EveryHandle ==
  ASSUME Inv, DOMAIN client' = Handles, UNCHANGED <<setup, clients, items, running>>,
         value' \in [Props -> Values], core' \in CoreState,
         core'.pc = "exit" => clients = <<>>,
         \A h \in Handles : /\ Own(client'[h])
                            /\ Linked(h, client'[h], core', clients, Listed, setup, value')
                            /\ client'[h].reserved = client[h].reserved,
         ReadInv'
  PROVE  Inv'
<1>1. Listed' = Listed
  BY DEF Listed
<1>2. \A h \in Handles : Booked(h, client'[h], items', running')
  BY DEF Inv, Booked
<1>3. Types'
  BY DEF Inv, Types
<1>4. QED
  BY <1>1, <1>2, <1>3 DEF Inv

LEMMA NotReading ==
  ASSUME core'.pc \notin {"fetch", "store"}
  PROVE  ReadInv'
  BY DEF ReadInv

LEMMA BroadcastEventStep ==
  ASSUME Inv, BroadcastEvent
  PROVE  Inv'
<1>1. /\ core.pc = "loop"
      /\ client' = [h \in Handles |-> IF Here(h) THEN SendNumbered(client[h]) ELSE client[h]]
      /\ UNCHANGED <<setup, clients, core, items, running, value>>
  BY DEF BroadcastEvent
<1>2. ASSUME NEW h \in Handles
      PROVE  /\ Own(client'[h])
             /\ Linked(h, client'[h], core', clients, Listed, setup, value')
             /\ client'[h].reserved = client[h].reserved
  <2> DEFINE c == client[h]
             d == SendNumbered(c)
  <2>1. Own(c) /\ Linked(h, c, core, clients, Listed, setup, value)
    BY DEF Inv
  <2>2. CASE Here(h)
    <3>1. client'[h] = d /\ h \in Listed
      BY <1>1, <2>2 DEF Here
    <3> HIDE DEF c
    <3>2. Own(d) /\ Linked(h, d, core, clients, Listed, setup, value) /\ d.reserved = c.reserved
      BY <2>1, <3>1, NumberedSent
    <3> HIDE DEF d
    <3>3. QED
      BY <1>1, <3>1, <3>2 DEF c
  <2>3. CASE ~Here(h)
    BY <1>1, <2>1, <2>3
  <2>4. QED
    BY <2>2, <2>3
<1>3. ReadInv'
  BY <1>1, NotReading
<1>4. /\ value' \in [Props -> Values] /\ core' \in CoreState
      /\ core'.pc = "exit" => clients = <<>>
      /\ DOMAIN client' = Handles /\ UNCHANGED <<setup, clients, items, running>>
  BY <1>1 DEF Inv, Types
<1>5. QED
  BY <1>2, <1>3, <1>4, EveryHandle

\* A property changes; whoever makes it, the core is told, or will look anyway.
LEMMA PropertyNotified ==
  ASSUME Inv, NEW p \in Props, NEW x \in Values, Notifies(p),
         value' = [value EXCEPT ![p] = x],
         UNCHANGED <<setup, clients, items, running>>,
         core' \in CoreState, CoreKept(core, core'),
         AnyNotified(p) => core'.woken \/ core'.pc = "loop",
         ReadInv'
  PROVE  Inv'
<1>1. value' \in [Props -> Values] /\ \A q \in Props : q # p => value'[q] = value[q]
  BY DEF Inv, Types
<1>2. client' = [h \in Handles |-> IF Here(h) THEN Notified(client[h], p) ELSE client[h]]
  BY DEF Notifies
<1>3. ASSUME NEW h \in Handles
      PROVE  /\ Own(client'[h])
             /\ Linked(h, client'[h], core', clients, Listed, setup, value')
             /\ client'[h].reserved = client[h].reserved
  <2> DEFINE c == client[h]
             d == Notified(c, p)
  <2>1. Own(c) /\ Linked(h, c, core, clients, Listed, setup, value)
    BY DEF Inv
  <2>2. Linked(h, c, core', clients, Listed, setup, value)
    BY <2>1, LinkedCore
  <2>3. CASE Here(h)
    <3>1. client'[h] = d /\ h \in Listed
      BY <1>2, <2>3 DEF Here
    <3>2. Observes(c, p) => core'.woken \/ core'.pc = "loop"
      BY <3>1 DEF AnyNotified
    <3> HIDE DEF c
    <3>3. Own(d) /\ Linked(h, d, core', clients, Listed, setup, value') /\ d.reserved = c.reserved
      <4>1. Own(c) /\ d = Notified(c, p) /\ \A q \in Props : q # p => value'[q] = value[q]
        BY <1>1, <2>1
      <4> HIDE DEF d
      <4> DEFINE k == core'
                 w == value'
      <4>2. /\ Linked(h, c, k, clients, Listed, setup, value)
            /\ Observes(c, p) => k.woken \/ k.pc = "loop"
            /\ \A q \in Props : q # p => w[q] = value[q]
        BY <2>2, <3>2, <4>1
      <4> HIDE DEF k, w
      <4>3. Linked(h, d, k, clients, Listed, setup, w)
        BY <4>1, <4>2, NotifiedIs
      <4>4. Own(d)
        BY <4>1, <4>2, <4>3, NotifiedIs
      <4>5. d.reserved = c.reserved
        BY <4>1, <4>2, <4>3, NotifiedIs
      <4>6. QED
        BY <4>3, <4>4, <4>5 DEF k, w
    <3> HIDE DEF d
    <3>4. QED
      BY <3>1, <3>3 DEF c
  <2>4. CASE ~Here(h)
    <3>1. client'[h] = c /\ h \notin Listed
      BY <1>2, <2>4 DEF Here
    <3>2. Linked(h, c, core', clients, Listed, setup, value')
      BY <2>2, <3>1 DEF Linked, ValuesTrue
    <3>3. QED
      BY <2>1, <3>1, <3>2
  <2>5. QED
    BY <2>3, <2>4
<1>4. /\ core'.pc = "exit" => clients = <<>>
      /\ DOMAIN client' = Handles
  BY <1>2 DEF Inv, Types, CoreKept
<1>5. QED
  BY <1>1, <1>3, <1>4, EveryHandle

LEMMA PropertyChangeStep ==
  ASSUME Inv, NEW p \in setup.props, NEW x \in Values, PropertyChange(p, x)
  PROVE  Inv'
<1>1. /\ core.pc \in {"loop", "process"} /\ value' = [value EXCEPT ![p] = x] /\ Notifies(p)
      /\ core' = IF core.pc = "process" /\ AnyNotified(p) THEN WakeupCore(core) ELSE core
      /\ UNCHANGED <<setup, clients, items, running>>
  BY DEF PropertyChange
<1>2. p \in Props /\ core \in CoreState
  BY SetupsAssumption DEF Inv, Types
<1>3. /\ core' \in CoreState /\ CoreKept(core, core') /\ core'.pc = core.pc
      /\ AnyNotified(p) => core'.woken \/ core'.pc = "loop"
  <2>1. CASE core.pc = "process" /\ AnyNotified(p)
    <3>1. core' = WakeupCore(core)
      BY <1>1, <2>1
    <3>2. QED
      BY <1>2, <3>1 DEF WakeupCore, CoreState, CoreKept
  <2>2. CASE ~(core.pc = "process" /\ AnyNotified(p))
    <3>1. core' = core
      BY <1>1, <2>2
    <3>2. QED
      BY <1>1, <1>2, <2>2, <3>1 DEF CoreKept
  <2>3. QED
    BY <2>1, <2>2
<1>4. ReadInv'
  BY <1>1, <1>3, NotReading
<1>5. QED
  BY <1>1, <1>2, <1>3, <1>4, PropertyNotified

\* A change by another thread may be missed by a read: `raced` says so.
LEMMA BroadcastExternalStep ==
  ASSUME Inv, NEW p \in setup.props, NEW x \in Values, BroadcastExternal(p, x)
  PROVE  Inv'
<1> DEFINE b == core.raced \/ (core.pc = "store" /\ ~core.props_changed /\ p = ReadProp)
<1>1. /\ value' = [value EXCEPT ![p] = x] /\ Notifies(p)
      /\ core' = [WakeupCore(core) EXCEPT
                   !.raced = @ \/ (core.pc = "store" /\ ~core.props_changed /\ p = ReadProp)]
      /\ UNCHANGED <<setup, clients, items, running>>
  BY DEF BroadcastExternal
<1>2. p \in Props /\ core \in CoreState /\ value \in [Props -> Values]
  BY SetupsAssumption DEF Inv, Types
<1>3. core' = [core EXCEPT !.woken = TRUE, !.raced = b]
  BY <1>1, <1>2 DEF WakeupCore, CoreState
<1>4. /\ b \in BOOLEAN /\ (core.raced => b)
      /\ core.pc = "store" /\ ~core.props_changed /\ p = ReadProp => b
  OBVIOUS
<1> HIDE DEF b
<1>5. /\ core' \in CoreState /\ CoreKept(core, core') /\ core'.woken /\ core'.raced = b
      /\ core'.props_changed = core.props_changed /\ core'.read = core.read
  BY <1>2, <1>3, <1>4 DEF CoreState, CoreKept
<1>6. ReadInv'
  <2> SUFFICES ASSUME core'.pc \in {"fetch", "store"}, ~core'.props_changed
               PROVE  /\ ~client'[core'.reads].destroying
                      /\ core'.i \in DOMAIN client'[core'.reads].props
                      /\ Stale(client'[core'.reads].props[core'.i])
                      /\ core'.pc = "store" => core'.raced \/ core'.read = value'[ReadProp']
    BY DEF ReadInv
  <2> DEFINE h == core.reads
             c == client[h]
             d == client'[h]
  <2>1. /\ core.pc \in {"fetch", "store"} /\ ~core.props_changed
        /\ core'.reads = h /\ core'.i = core.i /\ core'.pc = core.pc
    BY <1>5 DEF CoreKept
  <2>2. /\ ~c.destroying /\ core.i \in DOMAIN c.props /\ Stale(c.props[core.i])
        /\ core.pc = "store" => core.raced \/ core.read = value[ReadProp]
    BY <2>1 DEF Inv, ReadInv
  <2>3. h \in Handles /\ Own(c) /\ Linked(h, c, core, clients, Listed, setup, value)
    BY <1>2 DEF Inv, CoreState
  <2>4. SameReading(c, d)
    <3>1. d = IF Here(h) THEN Notified(c, p) ELSE c
      BY <1>1, <2>3 DEF Notifies
    <3>2. Linked(h, c, core', clients, Listed, setup, value)
      BY <1>5, <2>3, LinkedCore
    <3>3. \A q \in Props : q # p => value'[q] = value[q]
      BY <1>1, <1>2
    <3> HIDE DEF h, c, d
    <3>4. SameReading(c, Notified(c, p))
      BY <1>5, <2>3, <3>2, <3>3, NotifiedIs
    <3>5. QED
      BY <3>1, <3>4 DEF SameReading
  <2>5. ReadProp' = d.props[core.i].name /\ ReadProp = c.props[core.i].name
    BY <2>1 DEF ReadProp
  <2>6. ReadProp' = ReadProp
    BY <2>2, <2>4, <2>5 DEF SameReading
  <2>7. core.pc = "store" => core'.raced \/ core'.read = value'[ReadProp']
    <3>1. CASE ReadProp = p
      BY <1>4, <1>5, <2>1, <3>1
    <3>2. CASE ReadProp # p
      <4>1. c.props[core.i] \in Prop
        BY <2>2, <2>3, ElementOfSeq, LenProperties DEF Own, ClientState
      <4>2. ReadProp \in Props
        BY <2>5, <4>1 DEF Prop
      <4>3. value'[ReadProp] = value[ReadProp]
        BY <1>1, <1>2, <3>2, <4>2
      <4>4. QED
        BY <1>4, <1>5, <2>1, <2>2, <2>6, <4>3
    <3>3. QED
      BY <3>1, <3>2
  <2>8. QED
    BY <2>1, <2>2, <2>4, <2>7 DEF SameReading
<1>7. QED
  BY <1>1, <1>2, <1>5, <1>6, PropertyNotified

-------------------------------------------------------------------------------
\* The play loop: hooks, and the end of the player.
LEMMA StartHookStep ==
  ASSUME Inv, StartHook
  PROVE  Inv'
<1>1. PICK h \in setup.hooking :
        /\ h \in Listed
        /\ \/ /\ Only(h, SendEvent(client[h], Hook))
              /\ core' = WakeupCore([core EXCEPT !.hook = "over"])
           \/ /\ Only(h, AllMarked(SendEvent(client[h], Hook)))
              /\ core' = [core EXCEPT !.hook = "active", !.mode = "hook"]
  BY DEF StartHook, Here
<1>2. core.hook = "none" /\ UNCHANGED <<setup, clients, value, items, running>>
  BY DEF StartHook
<1>3. h \in Handles /\ core \in CoreState /\ Hook \in Event /\ Hook[1] = "hook"
  <2>1. setup \in Setups /\ core \in CoreState
    BY DEF Inv, Types
  <2>2. QED
    BY <1>1, <2>1, SetupsAssumption DEF Hook, Event, Kinds
<1>4. /\ core' \in CoreState /\ CoreKept(core, core') /\ core'.read = core.read
      /\ (core.raced => core'.raced) /\ core'.hook # "none"
  <2>1. CASE core' = WakeupCore([core EXCEPT !.hook = "over"])
    BY <1>3, <2>1 DEF WakeupCore, CoreState, CoreKept
  <2>2. CASE core' = [core EXCEPT !.hook = "active", !.mode = "hook"]
    BY <1>3, <2>2 DEF CoreState, CoreKept
  <2>3. QED
    BY <1>1, <2>1, <2>2
<1> DEFINE c == client[h]
           e == SendEvent(c, Hook)
<1>5. Own(c) /\ Linked(h, c, core, clients, Listed, setup, value)
  BY <1>3 DEF Inv
<1>6. Linked(h, c, core', clients, Listed, setup, value)
  BY <1>4, <1>5, LinkedCore
<1> HIDE DEF c
<1>7. /\ Own(e) /\ Linked(h, e, core', clients, Listed, setup, value)
      /\ SameProps(c, e) /\ SameLife(c, e) /\ e.reserved = c.reserved
  <2>1. Own(c) /\ Hook[1] # "event" /\ h \in Listed
    BY <1>1, <1>3, <1>5
  <2>2. QED
    BY <1>3, <1>4, <1>6, <2>1, EventSent
<1>8. ~e.hook_pending /\ e.user # "continue"
  <2>1. ~c.hook_pending /\ c.user # "continue"
    BY <1>2, <1>5 DEF Linked, HookInv
  <2>2. SameUser(c, e) \/ Roused(c, e)
    BY <1>3, <1>5, SendEventIs
  <2>3. QED
    BY <1>7, <2>1, <2>2 DEF SameProps, SameUser, Roused, Rouse
<1> HIDE DEF e
<1>9. CASE Only(h, e)
  <2>1. SameReading(c, e)
    BY <1>7 DEF SameReading, SameProps, SameLife
  <2>2. QED
    BY <1>2, <1>3, <1>4, <1>7, <1>9, <2>1, OneHandleQuiet DEF c
<1>10. CASE Only(h, AllMarked(e))
  <2> DEFINE d == AllMarked(e)
  <2>1. /\ Own(d) /\ Linked(h, d, core', clients, Listed, setup, value)
        /\ d.reserved = e.reserved /\ SameReading(e, d)
    BY <1>7, <1>8, AllMarkedIs
  <2> HIDE DEF d
  <2>2. d.reserved = c.reserved /\ SameReading(c, d)
    BY <1>7, <2>1 DEF SameReading, SameProps, SameLife
  <2>3. Only(h, d)
    BY <1>10 DEF d
  <2>4. QED
    BY <1>2, <1>3, <1>4, <2>1, <2>2, <2>3, OneHandleQuiet DEF c
<1>11. QED
  BY <1>1, <1>9, <1>10 DEF c, e

\* The handles are as they were, and so is what the core knows of them.
LEMMA CoreAlone ==
  ASSUME Inv, UNCHANGED <<setup, client, clients, items, running, value>>,
         core' \in CoreState, core'.pc = "exit" => clients = <<>>,
         \A h \in Handles : Linked(h, client[h], core', clients, Listed, setup, value),
         ReadInv'
  PROVE  Inv'
<1>1. /\ value' \in [Props -> Values] /\ DOMAIN client' = Handles
      /\ UNCHANGED <<setup, clients, items, running>>
  BY DEF Inv, Types
<1>2. ASSUME NEW h \in Handles
      PROVE  /\ Own(client'[h])
             /\ Linked(h, client'[h], core', clients, Listed, setup, value')
             /\ client'[h].reserved = client[h].reserved
  BY DEF Inv
<1>3. QED
  BY <1>1, <1>2, EveryHandle

LEMMA EndHookStep ==
  ASSUME Inv, EndHook
  PROVE  Inv'
<1>1. /\ core.pc = "loop" /\ core' = [core EXCEPT !.hook = "over", !.mode = "play"]
      /\ UNCHANGED <<setup, client, clients, items, running, value>>
  BY DEF EndHook
<1>2. core \in CoreState
  BY DEF Inv, Types
<1>3. core' \in CoreState /\ CoreKept(core, core') /\ core'.pc = "loop"
  BY <1>1, <1>2 DEF CoreState, CoreKept
<1>4. \A h \in Handles : Linked(h, client[h], core', clients, Listed, setup, value)
  BY <1>3, LinkedCore DEF Inv
<1>5. ReadInv'
  BY <1>3, NotReading
<1>6. QED
  BY <1>1, <1>3, <1>4, <1>5, CoreAlone

LEMMA QuitPlayerStep ==
  ASSUME Inv, NEW h \in Handles, QuitPlayer(h)
  PROVE  Inv'
<1>1. /\ core.pc = "process" /\ Usable(h)
      /\ core' = WakeupCore([core EXCEPT !.stop_play = TRUE])
      /\ UNCHANGED <<setup, clients, value, items, running>>
      /\ \/ /\ client[h].user \in {"idle", "leave"}
            /\ Only(h, [client[h] EXCEPT !.user = "leave", !.terminate = TRUE])
         \/ UNCHANGED client
  BY DEF QuitPlayer
<1>2. /\ core' \in CoreState /\ CoreKept(core, core') /\ core'.read = core.read
      /\ core.raced => core'.raced
      /\ core'.pc = "process"
  BY <1>1 DEF Inv, Types, CoreState, CoreKept, WakeupCore
<1>3. CASE Only(h, [client[h] EXCEPT !.user = "leave", !.terminate = TRUE])
           /\ client[h].user \in {"idle", "leave"}
  <2>1. "leave" \in UserPlaces
    BY DEF UserPlaces
  <2>2. QED
    BY <1>1, <1>2, <1>3, <2>1, WithCore
<1>4. CASE UNCHANGED client
  <2>1. \A g \in Handles : Linked(g, client[g], core', clients, Listed, setup, value)
    BY <1>2, LinkedCore DEF Inv
  <2>2. ReadInv'
    BY <1>2, NotReading
  <2>3. QED
    BY <1>1, <1>2, <1>4, <2>1, <2>2, CoreAlone
<1>5. QED
  BY <1>1, <1>3, <1>4

\* The core goes to a place where it reads no property, from one where it read none.
CoreMoves(k, l) ==
  /\ k.pc \in {"loop", "send", "process"} /\ l.pc \in {"loop", "send", "process", "exit"}
  /\ l.hook = "none" => k.hook = "none"

LEMMA LinkedMoved ==
  ASSUME NEW h, NEW c, NEW k, NEW l, NEW cs, NEW L, NEW s, NEW v,
         CoreMoves(k, l), Linked(h, c, k, cs, L, s, v), PendingKnown(h, c, l, cs, L)
  PROVE  Linked(h, c, l, cs, L, s, v)
<1>1. ~ReadsOf(l, h) /\ ~ReadsOf(k, h)
  BY DEF ReadsOf, CoreMoves
<1>2. Life(h, c, l, L, s) /\ SleepsJustly(h, c, l, L, s)
  BY <1>1 DEF Linked, Life, SleepsJustly, NothingNew
<1>3. HookInv(c, l) /\ StaleKnown(h, c, l, L)
  BY <1>1 DEF Linked, HookInv, StaleKnown, CoreMoves
<1>4. QED
  BY <1>2, <1>3 DEF Linked

LEMMA SendChangesIs ==
  ASSUME NEW k \in CoreState, NEW l, l = SendChanges(k)
  PROVE  /\ l \in CoreState /\ l.pc = "send" /\ l.n = 1 /\ l.hook = k.hook
         /\ l.woken = k.woken
<1>1. l = [k EXCEPT !.pc = "send", !.n = 1] /\ 1 \in Nat \ {0}
  BY DEF SendChanges
<1>2. QED
  BY <1>1 DEF CoreState

LEMMA FromFirst ==
  ASSUME clients \in Seq(Handles)
  PROVE  From(clients, 1) = Listed
<1>1. \A m \in DOMAIN clients : m >= 1
  BY LenProperties
<1>2. QED
  BY <1>1 DEF From, Listed

LEMMA PlayLoopStep ==
  ASSUME Inv, PlayLoop
  PROVE  Inv'
<1>1. /\ core.pc = "loop" /\ core' = SendChanges(core)
      /\ UNCHANGED <<setup, client, clients, items, running, value>>
  BY DEF PlayLoop
<1>2. core \in CoreState /\ clients \in Seq(Handles)
  BY DEF Inv, Types
<1>3. /\ core' \in CoreState /\ core'.pc = "send" /\ core'.n = 1 /\ core'.hook = core.hook
  BY <1>1, <1>2, SendChangesIs
<1>4. ASSUME NEW h \in Handles
      PROVE  Linked(h, client[h], core', clients, Listed, setup, value)
  <2>1. PendingKnown(h, client[h], core', clients, Listed)
    BY <1>2, <1>3, FromFirst DEF PendingKnown
  <2>2. CoreMoves(core, core')
    BY <1>1, <1>3 DEF CoreMoves
  <2>3. QED
    BY <2>1, <2>2, LinkedMoved DEF Inv
<1>5. ReadInv'
  BY <1>3, NotReading
<1>6. QED
  BY <1>1, <1>3, <1>4, <1>5, CoreAlone

LEMMA ShutdownClientsStep ==
  ASSUME Inv, ShutdownClients
  PROVE  Inv'
<1>1. /\ core.pc = "loop" /\ UNCHANGED <<setup, clients, items, running, value>>
  BY DEF ShutdownClients
<1>2. /\ core \in CoreState /\ clients \in Seq(Handles) /\ value \in [Props -> Values]
      /\ DOMAIN client = Handles
  BY DEF Inv, Types
<1>3. CASE MayExit /\ core' = [core EXCEPT !.pc = "exit"] /\ UNCHANGED client
  <2>1. core' \in CoreState /\ core'.pc = "exit" /\ core'.hook = core.hook
    BY <1>2, <1>3 DEF CoreState
  <2>2. clients = <<>> /\ Listed = {}
    BY <1>3, EmptySeq DEF MayExit, Listed
  <2>3. ASSUME NEW h \in Handles
        PROVE  Linked(h, client[h], core', clients, Listed, setup, value)
    <3>1. PendingKnown(h, client[h], core', clients, Listed) /\ CoreMoves(core, core')
      BY <1>1, <2>1, <2>2 DEF PendingKnown, CoreMoves
    <3>2. QED
      BY <3>1, LinkedMoved DEF Inv
  <2>4. ReadInv'
    BY <2>1, NotReading
  <2>5. QED
    BY <1>1, <1>3, <2>1, <2>2, <2>3, <2>4, CoreAlone
<1>4. CASE core' = SendChanges([core EXCEPT !.mode = "shutdown"]) /\ client' = Sent("shutdown")
  <2> DEFINE k == [core EXCEPT !.mode = "shutdown"]
             what == <<"shutdown", 0>>
  <2>1. k \in CoreState /\ k.hook = core.hook
    BY <1>2 DEF CoreState
  <2>2. core' = SendChanges(k)
    BY <1>4
  <2> HIDE DEF k
  <2>3. core' \in CoreState /\ core'.pc = "send" /\ core'.n = 1 /\ core'.hook = core.hook
    BY <2>1, <2>2, SendChangesIs
  <2>4. CoreMoves(core, core')
    BY <1>1, <2>3 DEF CoreMoves
  <2>5. client' = [h \in Handles |-> IF Here(h) THEN SendEvent(client[h], what) ELSE client[h]]
    BY <1>4 DEF Sent
  <2>6. what \in Event /\ what[1] = "shutdown"
    BY DEF Event, Kinds
  <2> HIDE DEF what
  <2>7. ASSUME NEW h \in Handles
        PROVE  /\ Own(client'[h])
               /\ Linked(h, client'[h], core', clients, Listed, setup, value')
               /\ client'[h].reserved = client[h].reserved
    <3> DEFINE c == client[h]
               d == SendEvent(c, what)
    <3>1. Own(c) /\ Linked(h, c, core, clients, Listed, setup, value)
      BY DEF Inv
    <3>2. PendingKnown(h, c, core', clients, Listed)
      BY <1>2, <2>3, FromFirst DEF PendingKnown
    <3>3. Linked(h, c, core', clients, Listed, setup, value)
      BY <2>4, <3>1, <3>2, LinkedMoved
    <3>4. CASE h \in Listed
      <4>1. client'[h] = d
        BY <2>5, <3>4 DEF Here
      <4>2. Own(c) /\ what[1] # "event" /\ what[1] # "hook"
        BY <2>6, <3>1
      <4> HIDE DEF c
      <4>3. /\ Own(d) /\ Linked(h, d, core', clients, Listed, setup, value)
            /\ d.reserved = c.reserved
        BY <2>6, <3>3, <3>4, <4>2, EventSent
      <4> HIDE DEF d
      <4>4. QED
        BY <1>1, <4>1, <4>3 DEF c
    <3>5. CASE h \notin Listed
      <4>1. client'[h] = c
        BY <2>5, <3>5 DEF Here
      <4>2. QED
        BY <1>1, <3>1, <3>3, <4>1
    <3>6. QED
      BY <3>4, <3>5
  <2>8. ReadInv'
    BY <2>3, NotReading
  <2>9. DOMAIN client' = Handles /\ value' \in [Props -> Values] /\ core'.pc # "exit"
    BY <1>1, <1>2, <2>3, <2>5
  <2>10. QED
    BY <1>1, <2>3, <2>7, <2>8, <2>9, EveryHandle
<1>5. QED
  BY <1>3, <1>4 DEF ShutdownClients

LEMMA ReturnsFromProcessStep ==
  ASSUME Inv, ReturnsFromProcess
  PROVE  Inv'
<1>1. /\ core.pc = "process"
      /\ \E x \in {core.woken, FALSE}, y \in {core.patient, FALSE} :
           core' = [core EXCEPT !.pc = "loop", !.woken = x, !.patient = y]
      /\ UNCHANGED <<setup, client, clients, items, running, value>>
  <2>1. core \in CoreState
    BY DEF Inv, Types
  <2>2. core' \in {[core EXCEPT !.pc = "loop", !.woken = FALSE],
                   [core EXCEPT !.pc = "loop", !.patient = FALSE], [core EXCEPT !.pc = "loop"]}
    BY DEF ReturnsFromProcess
  <2>3. /\ [core EXCEPT !.pc = "loop", !.woken = FALSE] =
             [core EXCEPT !.pc = "loop", !.woken = FALSE, !.patient = core.patient]
        /\ [core EXCEPT !.pc = "loop", !.patient = FALSE] =
             [core EXCEPT !.pc = "loop", !.woken = core.woken, !.patient = FALSE]
        /\ [core EXCEPT !.pc = "loop"] =
             [core EXCEPT !.pc = "loop", !.woken = core.woken, !.patient = core.patient]
    BY <2>1 DEF CoreState
  <2>4. \E x \in {core.woken, FALSE}, y \in {core.patient, FALSE} :
           core' = [core EXCEPT !.pc = "loop", !.woken = x, !.patient = y]
    BY <2>2, <2>3
  <2>5. QED
    BY <2>4 DEF ReturnsFromProcess
<1>2. PICK x \in {core.woken, FALSE}, y \in {core.patient, FALSE} :
           core' = [core EXCEPT !.pc = "loop", !.woken = x, !.patient = y]
  BY <1>1
<1>3. core \in CoreState
  BY DEF Inv, Types
<1>4. x \in BOOLEAN /\ y \in BOOLEAN
  BY <1>2, <1>3 DEF CoreState
<1>5. core' \in CoreState /\ core'.pc = "loop" /\ core'.hook = core.hook
  BY <1>2, <1>3, <1>4 DEF CoreState
<1>6. ASSUME NEW h \in Handles
      PROVE  Linked(h, client[h], core', clients, Listed, setup, value)
  <2>1. PendingKnown(h, client[h], core', clients, Listed) /\ CoreMoves(core, core')
    BY <1>1, <1>5 DEF PendingKnown, CoreMoves
  <2>2. QED
    BY <2>1, LinkedMoved DEF Inv
<1>7. ReadInv'
  BY <1>5, NotReading
<1>8. QED
  BY <1>1, <1>5, <1>6, <1>7, CoreAlone

-------------------------------------------------------------------------------
\* The core reads properties.  What was read is the value, unless it changed since.
LEMMA ReadPropIs ==
  ASSUME Inv, core.pc \in {"fetch", "store"}, ~core.props_changed
  PROVE  /\ core.reads \in Handles /\ ~client[core.reads].destroying
         /\ core.i \in DOMAIN client[core.reads].props
         /\ client[core.reads].props[core.i] \in Prop
         /\ StampsOf(client[core.reads].props[core.i])
         /\ Stale(client[core.reads].props[core.i])
         /\ ReadProp \in Props /\ value[ReadProp] \in Values
<1>1. /\ ~client[core.reads].destroying /\ core.i \in DOMAIN client[core.reads].props
      /\ Stale(client[core.reads].props[core.i])
  BY DEF Inv, ReadInv
<1>2. core.reads \in Handles /\ value \in [Props -> Values]
  BY DEF Inv, Types, CoreState
<1>3. client[core.reads].props \in Seq(Prop) /\ Stamps(client[core.reads])
  BY <1>2 DEF Inv, Own, ClientState
<1>4. /\ client[core.reads].props[core.i] \in Prop
      /\ StampsOf(client[core.reads].props[core.i])
  BY <1>1, <1>3, ElementOfSeq, LenProperties DEF Stamps
<1>5. ReadProp \in Props
  BY <1>4 DEF ReadProp, Prop
<1>6. QED
  BY <1>1, <1>2, <1>4, <1>5

LEMMA GetPropertyStep ==
  ASSUME Inv, GetProperty
  PROVE  Inv'
<1> DEFINE x == IF core.props_changed THEN core.read ELSE value[ReadProp]
<1>1. /\ core.pc = "fetch" /\ core' = [core EXCEPT !.pc = "store", !.read = x]
      /\ UNCHANGED <<setup, client, clients, items, running, value>>
  BY DEF GetProperty, Inv, Types, CoreState
<1>2. core \in CoreState
  BY DEF Inv, Types
<1>3. x \in Values
  BY <1>1, <1>2, ReadPropIs DEF CoreState
<1>4. core.props_changed \/ x = value[ReadProp]
  OBVIOUS
<1> HIDE DEF x
<1>5. /\ core' \in CoreState /\ core'.pc = "store" /\ core'.read = x
      /\ core'.reads = core.reads /\ core'.n = core.n /\ core'.i = core.i
      /\ core'.woken = core.woken /\ core'.props_changed = core.props_changed
      /\ core'.hook = core.hook
  BY <1>1, <1>2, <1>3 DEF CoreState
<1>6. ASSUME NEW h \in Handles
      PROVE  Linked(h, client[h], core', clients, Listed, setup, value)
  <2>1. Linked(h, client[h], core, clients, Listed, setup, value)
    BY DEF Inv
  <2>2. ReadsOf(core', h) = ReadsOf(core, h)
    BY <1>1, <1>5 DEF ReadsOf
  <2>3. Life(h, client[h], core', Listed, setup) /\ SleepsJustly(h, client[h], core', Listed, setup)
    BY <2>1, <2>2 DEF Linked, Life, SleepsJustly, NothingNew
  <2>4. HookInv(client[h], core') /\ StaleKnown(h, client[h], core', Listed)
    BY <1>5, <2>1, <2>2 DEF Linked, HookInv, StaleKnown
  <2>5. PendingKnown(h, client[h], core', clients, Listed)
    BY <1>1, <1>5, <2>1 DEF Linked, PendingKnown
  <2>6. QED
    BY <2>1, <2>3, <2>4, <2>5 DEF Linked
<1>7. ReadInv'
  <2> SUFFICES ASSUME ~core.props_changed
               PROVE  /\ ~client'[core'.reads].destroying
                      /\ core'.i \in DOMAIN client'[core'.reads].props
                      /\ Stale(client'[core'.reads].props[core'.i])
                      /\ core'.read = value'[ReadProp']
    BY <1>5 DEF ReadInv
  <2>1. ReadProp' = ReadProp
    BY <1>1, <1>5 DEF ReadProp
  <2>2. QED
    BY <1>1, <1>4, <1>5, <2>1, ReadPropIs
<1>8. QED
  BY <1>1, <1>5, <1>6, <1>7, CoreAlone

\* No property of the handle is read, before or after.
LEMMA LinkedElsewhere ==
  ASSUME NEW h, NEW c, NEW k, NEW l, NEW cs, NEW L, NEW s, NEW v,
         ~ReadsOf(k, h), ~ReadsOf(l, h), l.hook = k.hook,
         Linked(h, c, k, cs, L, s, v), PendingKnown(h, c, l, cs, L)
  PROVE  Linked(h, c, l, cs, L, s, v)
<1>1. Life(h, c, l, L, s) /\ SleepsJustly(h, c, l, L, s)
  BY DEF Linked, Life, SleepsJustly, NothingNew
<1>2. HookInv(c, l) /\ StaleKnown(h, c, l, L)
  BY DEF Linked, HookInv, StaleKnown
<1>3. QED
  BY <1>1, <1>2 DEF Linked

\* The core comes to the handle later, in this round or the next one.
StillToCome(h, c, k, cs, L) ==
  h \in L /\ c.pending /\ ~c.destroying => k.woken \/ h \in From(cs, k.n + 1)

\* A handle for which properties are read, without what the core will do next.
Serving(h, c, d, i, k, l, L, s, v) ==
  /\ Own(d) /\ ~c.destroying /\ ~d.destroying /\ h \in L
  /\ SameEvents(c, d) /\ SameUser(c, d) /\ d.polls = c.polls
  /\ HookInv(d, k) /\ ValuesTrue(h, d, L, v) /\ ReadsOf(l, h) /\ SleepsJustly(h, d, l, L, s)
  /\ \A j \in DOMAIN d.props : Stale(d.props[j]) => d.pending \/ i <= j

\* Only the number of requests of the core changes.
SetAsync(c, d, n) ==
  /\ SameEvents(c, d) /\ SameProps(c, d) /\ SameUser(c, d)
  /\ d.destroying = c.destroying /\ d.polls = c.polls /\ d.timed = c.timed
  /\ d.async_counter = n

LEMMA AsyncIs ==
  ASSUME NEW c, Own(c), NEW n \in {0, 1}, NEW d, d = [c EXCEPT !.async_counter = n]
  PROVE  Own(d) /\ SetAsync(c, d, n)
<1>1. c \in ClientState
  BY DEF Own
<1>2. d \in ClientState
  BY <1>1 DEF ClientState
<1>3. SetAsync(c, d, n)
  BY <1>1 DEF ClientState, SetAsync, SameEvents, SameProps, SameUser
<1>4. QED
  BY <1>2, <1>3 DEF Own, Fits, Cursor, Stamps, HookInOrder, ReadyAhead, SetAsync,
                    SameEvents, SameProps, SameUser

\* A property is to be read next.
LEMMA ReadsOn ==
  ASSUME NEW h, NEW b, NEW c, NEW d, NEW i, NEW k, NEW l, NEW m, NEW cs, NEW L, NEW s, NEW v,
         NEW r, Linked(h, b, r, cs, L, s, v),
         Serving(h, b, c, i, k, l, L, s, v), SetAsync(c, d, 1), Own(d),
         StillToCome(h, c, k, cs, L),
         m.pc = "fetch", m.reads = h, m.hook = k.hook, m.n = k.n, m.woken = k.woken,
         \A j \in DOMAIN c.props : i <= j /\ Stale(c.props[j]) => m.i <= j
  PROVE  Linked(h, d, m, cs, L, s, v)
<1>1. ReadsOf(m, h) /\ ReadsOf(l, h)
  BY DEF ReadsOf, Serving
<1>2. Life(h, d, m, L, s)
  BY <1>1 DEF Linked, Life, Serving, SetAsync, SameEvents, SameUser, SameProps
<1>3. SleepsJustly(h, d, m, L, s)
  BY <1>1 DEF SleepsJustly, NothingNew, Drowsy, WaitsForProps, Serving, SetAsync,
              SameEvents, SameUser, SameProps
<1>4. EventsInv(h, d, L) /\ HookInv(d, m)
  BY DEF Linked, EventsInv, HookInv, InOrder, NoGap, EventPlaces, Serving, SetAsync,
         SameEvents, SameUser, SameProps
<1>5. ValuesTrue(h, d, L, v)
  BY DEF ValuesTrue, Serving, SetAsync, SameProps
<1>6. StaleKnown(h, d, m, L)
  BY <1>1 DEF StaleKnown, Serving, SetAsync, SameProps
<1>7. PendingKnown(h, d, m, cs, L)
  BY DEF PendingKnown, StillToCome, SetAsync, SameProps
<1>8. QED
  BY <1>2, <1>3, <1>4, <1>5, <1>6, <1>7 DEF Linked

\* There is none, and the client is woken if it has something to be told.
LEMMA ReadsNoMore ==
  ASSUME NEW h, NEW b, NEW c, NEW e, NEW d, NEW i, NEW k, NEW l, NEW m, NEW cs, NEW L, NEW s,
         NEW v, NEW r, Linked(h, b, r, cs, L, s, v),
         Serving(h, b, c, i, k, l, L, s, v), SetAsync(c, e, 0), Own(e), d = Finished(e),
         StillToCome(h, c, k, cs, L),
         m.pc = "send", m.hook = k.hook, m.n = k.n + 1, m.woken = k.woken,
         \A j \in DOMAIN c.props : i <= j => ~Stale(c.props[j])
  PROVE  Own(d) /\ Linked(h, d, m, cs, L, s, v) /\ d.reserved = b.reserved
<1>1. ~ReadsOf(m, h) /\ ReadsOf(l, h)
  BY DEF ReadsOf, Serving
<1>2. e \in ClientState /\ ~e.destroying
  BY DEF Own, Serving, SetAsync
<1>3. Life(h, e, m, L, s)
  BY <1>1 DEF Linked, Life, Serving, SetAsync, SameEvents, SameUser, SameProps
<1>4. SleepsJustly(h, e, l, L, s)
  BY <1>1 DEF SleepsJustly, NothingNew, Drowsy, WaitsForProps, Serving, SetAsync,
              SameEvents, SameUser, SameProps
<1>5. EventsInv(h, e, L) /\ HookInv(e, m)
  BY DEF Linked, EventsInv, HookInv, InOrder, NoGap, EventPlaces, Serving, SetAsync,
         SameEvents, SameUser, SameProps
<1>6. ValuesTrue(h, e, L, v)
  BY DEF ValuesTrue, Serving, SetAsync, SameProps
<1>7. StaleKnown(h, e, m, L)
  BY DEF StaleKnown, Serving, SetAsync, SameProps
<1>8. PendingKnown(h, e, m, cs, L)
  BY DEF PendingKnown, StillToCome, SetAsync, SameProps
<1>9. h \in L /\ e.reserved = b.reserved
  BY DEF Serving, SetAsync, SameEvents
<1>10. CASE ~e.new_events
  <2>1. d = e
    BY <1>2, <1>10 DEF Finished
  <2>2. SleepsJustly(h, e, m, L, s)
    BY <1>4, <1>10 DEF SleepsJustly, NothingNew
  <2>3. QED
    BY <1>3, <1>5, <1>6, <1>7, <1>8, <1>9, <2>1, <2>2 DEF Linked
<1>11. CASE e.new_events
  <2>1. d = WakeupClient(e)
    BY <1>11 DEF Finished
  <2>2. /\ d \in ClientState /\ SameEvents(e, d) /\ SameProps(e, d) /\ SameLife(e, d)
        /\ Roused(e, d)
    BY <1>2, <2>1, WakeupClientIs
  <2>3. SleepsJustly(h, d, m, L, s)
    BY <1>2, <1>4, <2>2, RousedIsAwake
  <2>4. Life(h, d, m, L, s) /\ (d.user = "continue") = (e.user = "continue")
    <3>1. d.props = e.props /\ d.reserved <= e.reserved
      BY <1>2, <2>2 DEF SameProps, SameEvents, ClientState
    <3>2. QED
      BY <1>2, <1>3, <1>9, <2>2, <3>1, RousedLives
  <2>5. Own(d)
    BY <2>2, <2>4
       DEF Own, Fits, Cursor, Stamps, HookInOrder, ReadyAhead, SameEvents, SameProps, SameLife
  <2>6. EventsInv(h, d, L) /\ HookInv(d, m)
    BY <1>5, <2>2, <2>4
       DEF EventsInv, HookInv, InOrder, NoGap, EventPlaces, SameEvents, SameProps
  <2>7. ValuesTrue(h, d, L, v) /\ StaleKnown(h, d, m, L) /\ PendingKnown(h, d, m, cs, L)
    BY <1>6, <1>7, <1>8, <2>2 DEF ValuesTrue, StaleKnown, PendingKnown, SameProps, SameLife
  <2>8. QED
    BY <1>9, <2>2, <2>3, <2>4, <2>5, <2>6, <2>7 DEF Linked, SameEvents
<1>12. QED
  BY <1>10, <1>11

\* The core goes on with one handle: those around it.
LEMMA ServesOne ==
  ASSUME Inv, NEW h \in Handles, NEW d, Only(h, d),
         UNCHANGED <<setup, clients, items, running, value>>,
         core' \in CoreState, core'.pc # "exit", core'.hook = core.hook,
         Own(d), Linked(h, d, core', clients, Listed, setup, value),
         d.reserved = client[h].reserved,
         \A g \in Handles : g # h => /\ ~ReadsOf(core, g) /\ ~ReadsOf(core', g)
                                     /\ PendingKnown(g, client[g], core', clients, Listed),
         ReadInv'
  PROVE  Inv'
<1>1. DOMAIN client' = Handles /\ client'[h] = d
      /\ \A g \in Handles : g # h => client'[g] = client[g]
  BY DEF Inv, Types, Only
<1>2. ASSUME NEW g \in Handles
      PROVE  /\ Own(client'[g])
             /\ Linked(g, client'[g], core', clients, Listed, setup, value')
             /\ client'[g].reserved = client[g].reserved
  <2>1. CASE g = h
    BY <1>1, <2>1
  <2>2. CASE g # h
    <3>1. client'[g] = client[g] /\ value' = value
      BY <1>1, <2>2
    <3>2. Own(client[g]) /\ Linked(g, client[g], core, clients, Listed, setup, value)
      BY DEF Inv
    <3>3. Linked(g, client[g], core', clients, Listed, setup, value)
      BY <2>2, <3>2, LinkedElsewhere
    <3>4. QED
      BY <3>1, <3>2, <3>3
  <2>3. QED
    BY <2>1, <2>2
<1>3. value' \in [Props -> Values]
  BY DEF Inv, Types
<1>4. QED
  BY <1>1, <1>2, <1>3, EveryHandle

\* The next property, or the next handle.
LEMMA ReadNextStep ==
  ASSUME Inv, NEW h \in Handles, NEW c, NEW i \in Nat \ {0}, NEW k \in CoreState, NEW l,
         Serving(h, client[h], c, i, k, l, Listed, setup, value),
         k.hook = core.hook, ~k.props_changed,
         StillToCome(h, c, k, clients, Listed),
         \A g \in Handles : g # h => /\ ~ReadsOf(core, g)
                                     /\ StillToCome(g, client[g], k, clients, Listed),
         ReadNext(h, c, i, k),
         UNCHANGED <<setup, clients, items, running, value>>
  PROVE  Inv'
<1>1. /\ Own(c) /\ ~c.destroying /\ c.reserved = client[h].reserved
      /\ Linked(h, client[h], core, clients, Listed, setup, value)
  BY DEF Serving, SameEvents, Inv
<1>2. DOMAIN c.props = 1 .. Len(c.props) /\ Len(c.props) \in Nat
  BY <1>1, LenProperties DEF Own, ClientState
<1>3. \A j \in DOMAIN c.props : i <= j /\ Stale(c.props[j]) => j \in StaleFrom(c, i)
  BY <1>2 DEF StaleFrom
<1>4. CASE StaleFrom(c, i) # {}
  <2> DEFINE d == [c EXCEPT !.async_counter = 1]
             j == Least(StaleFrom(c, i))
  <2>1. StaleFrom(c, i) \subseteq Nat /\ StaleFrom(c, i) \subseteq i .. Len(c.props)
    BY <1>2 DEF StaleFrom
  <2>2. j \in StaleFrom(c, i) /\ \A n \in StaleFrom(c, i) : j <= n
    BY <1>4, <2>1, LeastIs
  <2> HIDE DEF j
  <2>3. j \in DOMAIN c.props /\ Stale(c.props[j]) /\ j \in Nat \ {0}
    BY <1>2, <2>2 DEF StaleFrom
  <2>4. Only(h, d) /\ core' = [k EXCEPT !.pc = "fetch", !.i = j, !.reads = h, !.raced = FALSE]
    BY <1>4 DEF ReadNext, j
  <2>5. /\ core' \in CoreState /\ core'.pc = "fetch" /\ core'.i = j /\ core'.reads = h
        /\ core'.hook = k.hook /\ core'.n = k.n /\ core'.woken = k.woken
        /\ core'.props_changed = k.props_changed
    BY <2>3, <2>4 DEF CoreState
  <2>6. Own(d) /\ SetAsync(c, d, 1)
    BY <1>1, AsyncIs
  <2> HIDE DEF d
  <2>7. Linked(h, d, core', clients, Listed, setup, value)
    <3>1. \A n \in DOMAIN c.props : i <= n /\ Stale(c.props[n]) => core'.i <= n
      BY <1>3, <2>2, <2>5
    <3>2. QED
      BY <1>1, <2>5, <2>6, <3>1, ReadsOn
  <2>8. d.reserved = client[h].reserved
    BY <1>1, <2>6 DEF SetAsync, SameEvents
  <2>9. ASSUME NEW g \in Handles, g # h
        PROVE  /\ ~ReadsOf(core, g) /\ ~ReadsOf(core', g)
               /\ PendingKnown(g, client[g], core', clients, Listed)
    BY <2>5, <2>9 DEF ReadsOf, PendingKnown, StillToCome
  <2>10. ReadInv'
    <3>1. client'[h] = d
      BY <2>4 DEF Only, Inv, Types
    <3>2. QED
      BY <1>1, <2>3, <2>5, <2>6, <3>1 DEF ReadInv, SetAsync, SameProps
  <2>11. QED
    BY <2>4, <2>5, <2>6, <2>7, <2>8, <2>9, <2>10, ServesOne
<1>5. CASE StaleFrom(c, i) = {}
  <2> DEFINE e == [c EXCEPT !.async_counter = 0]
             d == Finished(e)
  <2>1. Only(h, d) /\ core' = [k EXCEPT !.pc = "send", !.n = @ + 1, !.raced = FALSE]
    BY <1>5 DEF ReadNext
  <2>2. /\ core' \in CoreState /\ core'.pc = "send"
        /\ core'.hook = k.hook /\ core'.n = k.n + 1 /\ core'.woken = k.woken
    <3>1. k.n + 1 \in Nat \ {0}
      BY DEF CoreState
    <3>2. QED
      BY <2>1, <3>1 DEF CoreState
  <2>3. Own(e) /\ SetAsync(c, e, 0)
    BY <1>1, AsyncIs
  <2> HIDE DEF e
  <2>4. \A n \in DOMAIN c.props : i <= n => ~Stale(c.props[n])
    BY <1>3, <1>5
  <2>5. d = Finished(e)
    OBVIOUS
  <2> HIDE DEF d
  <2>6. /\ Own(d) /\ Linked(h, d, core', clients, Listed, setup, value)
        /\ d.reserved = client[h].reserved
    BY <1>1, <2>2, <2>3, <2>4, <2>5, ReadsNoMore
  <2>7. ASSUME NEW g \in Handles, g # h
        PROVE  /\ ~ReadsOf(core, g) /\ ~ReadsOf(core', g)
               /\ PendingKnown(g, client[g], core', clients, Listed)
    BY <2>2, <2>7 DEF ReadsOf, PendingKnown, StillToCome
  <2>8. ReadInv'
    BY <2>2, NotReading
  <2>9. QED
    BY <2>1, <2>2, <2>6, <2>7, <2>8, ServesOne
<1>6. QED
  BY <1>4, <1>5

-------------------------------------------------------------------------------
\* The core looks for the next handle that has properties to be read.
LEMMA SendPropertyChangesStep ==
  ASSUME Inv, SendPropertyChanges
  PROVE  Inv'
<1>1. /\ core.pc = "send" /\ core \in CoreState /\ clients \in Seq(Handles)
      /\ IsInjective(clients) /\ UNCHANGED <<setup, clients, items, running, value>>
  BY DEF SendPropertyChanges, Inv, Types
<1>2. DOMAIN clients = 1 .. Len(clients) /\ Len(clients) \in Nat /\ core.n \in Nat \ {0}
  BY <1>1, LenProperties DEF CoreState
<1>3. ASSUME NEW g \in Handles, g \in Listed, client[g].pending, ~client[g].destroying, ~core.woken
      PROVE  \E m \in NextClient(core.n) : clients[m] = g
  <2>1. g \in From(clients, core.n)
    BY <1>1, <1>3 DEF Inv, Linked, PendingKnown
  <2>2. PICK m \in DOMAIN clients : m >= core.n /\ clients[m] = g
    BY <2>1 DEF From
  <2>3. QED
    BY <1>2, <1>3, <2>2 DEF NextClient
<1>4. CASE /\ UNCHANGED client
           /\ \/ core' = WakeupCore(ToProcess)
              \/ core' = ToProcess /\ NextClient(core.n) = {}
  <2>1. /\ core' \in CoreState /\ core'.pc = "process" /\ core'.hook = core.hook
        /\ core.woken => core'.woken
        /\ core'.woken \/ NextClient(core.n) = {}
    <3>1. ToProcess \in CoreState /\ ToProcess.pc = "process" /\ ToProcess.hook = core.hook
          /\ ToProcess.woken = core.woken
      <4> DEFINE j == 1
                 f == FALSE
                 k == [core EXCEPT !.pc = "process", !.n = j]
      <4>1. j \in Nat \ {0} /\ f \in BOOLEAN
        OBVIOUS
      <4>2. ToProcess = [k EXCEPT !.i = j, !.list_changed = f]
        BY <1>1 DEF ToProcess, CoreState
      <4> HIDE DEF j, f
      <4>3. k \in CoreState /\ k.pc = "process" /\ k.hook = core.hook /\ k.woken = core.woken
        BY <1>1, <4>1 DEF CoreState
      <4> HIDE DEF k
      <4>4. QED
        BY <4>1, <4>2, <4>3 DEF CoreState
    <3>2. CASE core' = ToProcess /\ NextClient(core.n) = {}
      BY <3>1, <3>2
    <3>3. CASE core' = WakeupCore(ToProcess)
      <4> DEFINE k == ToProcess
      <4>1. k \in CoreState /\ k.pc = "process" /\ k.hook = core.hook
        BY <3>1
      <4>2. core' = [k EXCEPT !.woken = TRUE]
        BY <3>3 DEF WakeupCore
      <4> HIDE DEF k
      <4>3. QED
        BY <4>1, <4>2 DEF CoreState
    <3>4. QED
      BY <1>4, <3>2, <3>3
  <2>2. ASSUME NEW g \in Handles
        PROVE  Linked(g, client[g], core', clients, Listed, setup, value)
    <3>1. PendingKnown(g, client[g], core', clients, Listed)
      BY <1>3, <2>1 DEF PendingKnown
    <3>2. CoreMoves(core, core')
      BY <1>1, <2>1 DEF CoreMoves
    <3>3. QED
      BY <3>1, <3>2, LinkedMoved DEF Inv
  <2>3. ReadInv'
    BY <2>1, NotReading
  <2>4. QED
    BY <1>1, <1>4, <2>1, <2>2, <2>3, CoreAlone
<1>5. CASE /\ NextClient(core.n) # {}
           /\ LET n == Least(NextClient(core.n))
                  h == clients[n]
              IN ReadNext(h, [client[h] EXCEPT !.pending = FALSE], 1,
                          [core EXCEPT !.n = n, !.props_changed = FALSE,
                                       !.list_changed = @ /\ core.n > 1])
  <2> DEFINE n == Least(NextClient(core.n))
             h == clients[n]
             c == [client[h] EXCEPT !.pending = FALSE]
             y == core.list_changed /\ core.n > 1
             k == [core EXCEPT !.n = n, !.props_changed = FALSE, !.list_changed = y]
             l == [core EXCEPT !.pc = "fetch", !.reads = h]
  <2>1. ReadNext(h, c, 1, k)
    BY <1>1, <1>5 DEF CoreState
  <2>2. NextClient(core.n) \subseteq Nat
    BY <1>2 DEF NextClient
  <2>3. n \in NextClient(core.n) /\ \A m \in NextClient(core.n) : n <= m
    BY <1>5, <2>2, LeastIs
  <2> HIDE DEF n
  <2>4. /\ n \in Nat \ {0} /\ n \in DOMAIN clients /\ h \in Handles /\ h \in Listed
        /\ ~client[h].destroying
    <3>1. n \in core.n .. Len(clients) /\ ~client[h].destroying
      BY <2>3 DEF NextClient
    <3>2. n \in Nat \ {0} /\ n \in DOMAIN clients
      BY <1>2, <3>1
    <3>3. QED
      BY <1>1, <3>1, <3>2, ElementOfSeq DEF Listed
  <2>5. y \in BOOLEAN
    OBVIOUS
  <2> HIDE DEF y
  <2>6. /\ k \in CoreState /\ k.hook = core.hook /\ k.n = n /\ k.woken = core.woken
        /\ ~k.props_changed
    BY <1>1, <2>4, <2>5 DEF CoreState
  <2>7. ReadsOf(l, h)
    BY <1>1, <2>4 DEF ReadsOf, CoreState
  <2>8. ASSUME NEW g \in Handles, g # h
        PROVE  ~ReadsOf(core, g) /\ StillToCome(g, client[g], k, clients, Listed)
    <3> SUFFICES ASSUME g \in Listed, client[g].pending, ~client[g].destroying, ~core.woken
                 PROVE  g \in From(clients, n + 1)
      BY <1>1, <2>6 DEF ReadsOf, StillToCome
    <3>1. PICK m \in NextClient(core.n) : clients[m] = g
      BY <1>3
    <3>2. n <= m /\ m \in DOMAIN clients /\ m # n
      BY <1>2, <2>3, <2>8, <3>1 DEF NextClient
    <3>3. m >= n + 1
      BY <1>2, <2>4, <3>2
    <3>4. QED
      BY <3>1, <3>2, <3>3 DEF From
  <2> DEFINE b == client[h]
  <2>9. Own(b) /\ Linked(h, b, core, clients, Listed, setup, value)
    BY <2>4 DEF Inv
  <2>10. /\ c \in ClientState /\ ~c.pending
         /\ c.props = b.props /\ c.cur = b.cur /\ c.new_events = b.new_events
         /\ c.hook_pending = b.hook_pending /\ c.orphaned = b.orphaned
         /\ SameEvents(b, c) /\ SameUser(b, c) /\ SameLife(b, c)
    BY <2>9 DEF Own, ClientState, SameEvents, SameUser, SameLife
  <2> HIDE DEF b, c, k, l, h
  <2>11. Serving(h, b, c, 1, k, l, Listed, setup, value)
    <3>1. Own(c)
      BY <2>9, <2>10 DEF Own, Fits, Cursor, Stamps, HookInOrder, ReadyAhead,
                         SameEvents, SameUser, SameLife
    <3>2. HookInv(c, k) /\ ValuesTrue(h, c, Listed, value)
      BY <2>6, <2>9, <2>10 DEF Linked, HookInv, ValuesTrue, SameEvents, SameUser
    <3>3. SleepsJustly(h, c, l, Listed, setup)
      BY <2>7, <2>9, <2>10
         DEF Linked, SleepsJustly, NothingNew, Drowsy, WaitsForProps, SameEvents, SameUser, SameLife
    <3>4. \A j \in DOMAIN c.props : 1 <= j
      BY <3>1, LenProperties DEF Own, ClientState
    <3>5. ~b.destroying /\ ~c.destroying /\ c.polls = b.polls
      BY <2>4, <2>10 DEF SameLife, b
    <3>6. QED
      BY <2>4, <2>7, <2>10, <3>1, <3>2, <3>3, <3>4, <3>5 DEF Serving
  <2>12. StillToCome(h, c, k, clients, Listed)
    BY <2>10 DEF StillToCome
  <2>13. Serving(h, client[h], c, 1, k, l, Listed, setup, value)
    BY <2>11 DEF b
  <2>14. h \in Handles /\ k \in CoreState /\ 1 \in Nat \ {0} /\ k.hook = core.hook /\ ~k.props_changed
    BY <2>4, <2>6
  <2>15. QED
    BY <1>1, <2>1, <2>8, <2>12, <2>13, <2>14, ReadNextStep
<1>6. QED
  BY <1>4, <1>5 DEF SendPropertyChanges

\* What was read is put with the property; or the handle is left to be looked at again.
Filled(b, i, x, raced) ==
  [b EXCEPT !.props[i] = Stored(@, x, raced), !.new_events = @ \/ NewToUser(b.props[i], x)]
LeftAgain(c) == [c EXCEPT !.async_counter = 0, !.pending = TRUE]

LEMMA ValueStored ==
  ASSUME NEW h, NEW b, NEW k, NEW cs, NEW L, NEW s, NEW v, Own(b), Linked(h, b, k, cs, L, s, v),
         ReadsOf(k, h), ~b.destroying, ~k.props_changed, k.i \in DOMAIN b.props, k.i \in Nat \ {0},
         Stale(b.props[k.i]), NEW x \in Values, NEW raced \in BOOLEAN,
         raced \/ x = v[b.props[k.i].name],
         NEW c, c = Filled(b, k.i, x, raced)
  PROVE  Serving(h, b, c, k.i + 1, k, k, L, s, v) /\ c.pending = b.pending
<1> DEFINE i == k.i
           q == b.props[i]
           r == Stored(q, x, raced)
           f == [b.props EXCEPT ![i] = r]
           y == b.new_events \/ NewToUser(q, x)
<1>1. /\ b \in ClientState /\ b.props \in Seq(Prop)
      /\ \A j \in DOMAIN b.props : b.props[j] \in Prop /\ StampsOf(b.props[j])
      /\ DOMAIN b.props = 1 .. Len(b.props) /\ Len(b.props) \in Nat /\ b.new_events \in BOOLEAN
  BY ElementOfSeq, LenProperties DEF Own, ClientState, Stamps
<1>2. q \in Prop /\ StampsOf(q) /\ Stale(q)
  BY <1>1
<1>3. /\ r \in Prop /\ StampsOf(r) /\ ~Stale(r)
      /\ r.name = q.name /\ r.change_ts = q.change_ts /\ r.hook_ts = q.hook_ts
      /\ r.value = x /\ (r.swallowed <=> raced) /\ r.ret_ts >= q.ret_ts
      /\ Ready(r) => NewToUser(q, x)
      /\ q.waiting_for_hook => NewToUser(q, x)
      /\ r.waiting_for_hook \/ r.ret_ts = r.change_ts \/ ~q.waiting_for_hook
  BY <1>2, StoredIs
<1>4. c = [b EXCEPT !.props = f, !.new_events = y]
  BY <1>1 DEF Filled, ClientState
<1>5. /\ f \in Seq(Prop) /\ Len(f) = Len(b.props) /\ DOMAIN f = DOMAIN b.props
      /\ f[i] = r /\ \A j \in DOMAIN b.props : j # i => f[j] = b.props[j]
  <2>1. f \in Seq(Prop) /\ Len(f) = Len(b.props)
    BY <1>1, <1>3, ExceptSeq
  <2>2. QED
    BY <1>1, <2>1
<1>6. y \in BOOLEAN /\ (b.new_events => y) /\ (NewToUser(q, x) => y)
  OBVIOUS
<1> HIDE DEF y, f, r
<1>7. c \in ClientState
  BY <1>1, <1>4, <1>5, <1>6 DEF ClientState
<1>8. /\ c.props = f /\ c.new_events = y /\ c.cur = b.cur /\ c.pending = b.pending
      /\ c.hook_pending = b.hook_pending /\ c.orphaned = b.orphaned
      /\ SameEvents(b, c) /\ SameUser(b, c) /\ SameLife(b, c)
  BY <1>1, <1>4 DEF ClientState, SameEvents, SameUser, SameLife
<1>9. ASSUME NEW j \in DOMAIN b.props
      PROVE  /\ StampsOf(f[j]) /\ f[j].name = b.props[j].name
             /\ f[j].hook_ts = b.props[j].hook_ts
             /\ Ready(f[j]) => Ready(b.props[j]) \/ y
             /\ Stale(f[j]) => Stale(b.props[j]) /\ j # i
             /\ b.props[j].waiting_for_hook => f[j].waiting_for_hook \/ y
             /\ b.props[j].ret_ts >= b.props[j].hook_ts => f[j].ret_ts >= f[j].hook_ts
             /\ b.props[j].waiting_for_hook \/ b.props[j].ret_ts >= b.props[j].hook_ts
                  => f[j].waiting_for_hook \/ f[j].ret_ts >= f[j].hook_ts
  <2>1. CASE j = i
    <3>1. f[j] = r /\ b.props[j] = q
      BY <1>5, <2>1
    <3>2. q.ret_ts >= q.hook_ts => r.ret_ts >= r.hook_ts
      BY <1>2, <1>3 DEF Prop
    <3>3. r.ret_ts = r.change_ts => r.ret_ts >= r.hook_ts
      BY <1>3 DEF StampsOf, Prop
    <3> HIDE DEF q
    <3>4. QED
      BY <1>3, <1>6, <3>1, <3>2, <3>3
  <2>2. CASE j # i
    BY <1>1, <1>5, <2>2
  <2>3. QED
    BY <2>1, <2>2
<1>10. Own(c)
  <2>1. Fits(c) /\ Cursor(c)
    BY <1>5, <1>8 DEF Own, Fits, Cursor, SameEvents, SameLife
  <2>2. Stamps(c)
    BY <1>5, <1>8, <1>9 DEF Stamps
  <2>3. HookInOrder(c)
    BY <1>5, <1>8, <1>9 DEF Own, HookInOrder, SameUser
  <2>4. ReadyAhead(c)
    BY <1>5, <1>6, <1>8, <1>9 DEF Own, ReadyAhead
  <2>5. QED
    BY <1>7, <2>1, <2>2, <2>3, <2>4 DEF Own
<1>11. HookInv(c, k)
  BY <1>8 DEF Linked, HookInv, SameEvents, SameUser
<1>12. ValuesTrue(h, c, L, v)
  <2> SUFFICES ASSUME h \in L, NEW j \in DOMAIN f
               PROVE  Stale(f[j]) \/ f[j].swallowed \/ f[j].value = v[f[j].name]
    BY <1>8 DEF ValuesTrue
  <2>1. CASE j = i
    BY <1>3, <1>5, <2>1
  <2>2. CASE j # i
    BY <1>5, <2>2 DEF Linked, ValuesTrue
  <2>3. QED
    BY <2>1, <2>2
<1>13. SleepsJustly(h, c, k, L, s)
  <2> SUFFICES ASSUME h \in L, h \notin s.joining, Drowsy(c)
               PROVE  ~c.need_wakeup /\ NothingNew(h, c, k)
    BY DEF SleepsJustly
  <2>1. ~b.need_wakeup /\ NothingNew(h, b, k)
    BY <1>8 DEF Linked, SleepsJustly, Drowsy, SameUser, SameLife
  <2>2. \A j \in DOMAIN c.props : Ready(c.props[j]) => c.new_events
    BY <1>5, <1>6, <1>8, <1>9, <2>1 DEF NothingNew
  <2>3. c.choked => c.reserved > 0 \/ c.events # <<>>
    BY <1>8, <2>1 DEF NothingNew, SameEvents
  <2>4. c.events = <<>> \/ c.orphaned \/ c.new_events \/ WaitsForProps(c)
    BY <1>5, <1>6, <1>8, <1>9, <2>1 DEF NothingNew, SameEvents, WaitsForProps
  <2>5. QED
    BY <1>8, <2>1, <2>2, <2>3, <2>4 DEF NothingNew, SameUser
<1>14. h \in L
  BY DEF Linked, Life
<1>15. \A j \in DOMAIN c.props : Stale(c.props[j]) => c.pending \/ i + 1 <= j
  <2> SUFFICES ASSUME NEW j \in DOMAIN b.props, Stale(f[j]), ~b.pending
               PROVE  i + 1 <= j
    BY <1>5, <1>8
  <2>1. Stale(b.props[j]) /\ j # i
    BY <1>9
  <2>2. i <= j
    BY <1>14, <2>1 DEF Linked, StaleKnown
  <2>3. QED
    BY <1>1, <2>1, <2>2
<1>16. ~c.destroying /\ c.polls = b.polls
  BY <1>8 DEF SameLife
<1>17. QED
  BY <1>8, <1>10, <1>11, <1>12, <1>13, <1>14, <1>15, <1>16 DEF Serving

\* The list of properties changed meanwhile: the handle is looked at again.
LEMMA ReadAgain ==
  ASSUME NEW h, NEW c, NEW e, NEW d, NEW k, NEW m, NEW cs, NEW L, NEW s, NEW v,
         Own(c), Linked(h, c, k, cs, L, s, v), ReadsOf(k, h),
         e = LeftAgain(c), d = Finished(e),
         m.pc = "send", m.hook = k.hook, m.woken
  PROVE  Own(d) /\ Linked(h, d, m, cs, L, s, v) /\ d.reserved = c.reserved
<1>1. c \in ClientState
  BY DEF Own
<1>2. e \in ClientState
  BY <1>1 DEF ClientState, LeftAgain
<1>3. /\ e.props = c.props /\ e.cur = c.cur /\ e.new_events = c.new_events
      /\ e.hook_pending = c.hook_pending /\ e.orphaned = c.orphaned /\ e.pending
      /\ e.async_counter = 0 /\ e.destroying = c.destroying /\ e.polls = c.polls
      /\ e.timed = c.timed /\ SameEvents(c, e) /\ SameUser(c, e)
  BY <1>1 DEF ClientState, LeftAgain, SameEvents, SameUser
<1>4. h \in L /\ ~ReadsOf(m, h)
  BY DEF Linked, Life, ReadsOf
<1>5. Own(e)
  BY <1>2, <1>3 DEF Own, Fits, Cursor, Stamps, HookInOrder, ReadyAhead, SameEvents, SameUser
<1>6. Linked(h, e, m, cs, L, s, v)
  <2>1. Life(h, e, m, L, s)
    BY <1>3, <1>4 DEF Linked, Life, SameEvents, SameUser
  <2>2. SleepsJustly(h, e, m, L, s)
    BY <1>3 DEF Linked, SleepsJustly, NothingNew, Drowsy, WaitsForProps, SameEvents, SameUser
  <2>3. EventsInv(h, e, L) /\ HookInv(e, m)
    BY <1>3 DEF Linked, EventsInv, HookInv, InOrder, NoGap, EventPlaces, SameEvents, SameUser
  <2>4. ValuesTrue(h, e, L, v) /\ StaleKnown(h, e, m, L) /\ PendingKnown(h, e, m, cs, L)
    BY <1>3 DEF Linked, ValuesTrue, StaleKnown, PendingKnown
  <2>5. QED
    BY <2>1, <2>2, <2>3, <2>4 DEF Linked
<1>7. CASE d = e
  BY <1>3, <1>5, <1>6, <1>7 DEF SameEvents
<1>8. CASE d = WakeupClient(e)
  <2>1. /\ d \in ClientState /\ SameEvents(e, d) /\ SameProps(e, d) /\ SameLife(e, d)
        /\ Roused(e, d)
    BY <1>2, <1>8, WakeupClientIs
  <2>2. SleepsJustly(h, e, m, L, s) /\ Life(h, e, m, L, s)
    BY <1>6 DEF Linked
  <2>3. SleepsJustly(h, d, m, L, s)
    BY <1>2, <2>1, <2>2, RousedIsAwake
  <2>4. Life(h, d, m, L, s) /\ (d.user = "continue") = (e.user = "continue")
    <3>1. d.props = e.props /\ d.reserved <= e.reserved
      BY <1>2, <2>1 DEF SameProps, SameEvents, ClientState
    <3>2. /\ e \in ClientState /\ d \in ClientState /\ Roused(e, d) /\ SameLife(e, d)
          /\ Life(h, e, m, L, s) /\ h \in L
      BY <1>2, <1>4, <2>1, <2>2
    <3>3. QED
      BY <3>1, <3>2, RousedLives
  <2>5. Own(d)
    BY <1>5, <2>1, <2>4
       DEF Own, Fits, Cursor, Stamps, HookInOrder, ReadyAhead, SameEvents, SameProps, SameLife
  <2>6. EventsInv(h, d, L) /\ HookInv(d, m)
    BY <1>6, <2>1, <2>4
       DEF Linked, EventsInv, HookInv, InOrder, NoGap, EventPlaces, SameEvents, SameProps
  <2>7. ValuesTrue(h, d, L, v) /\ StaleKnown(h, d, m, L) /\ PendingKnown(h, d, m, cs, L)
    <3>1. d.props = e.props /\ d.pending = e.pending /\ d.destroying = e.destroying
      BY <2>1 DEF SameProps, SameLife
    <3>2. ValuesTrue(h, e, L, v) /\ StaleKnown(h, e, m, L) /\ PendingKnown(h, e, m, cs, L)
      BY <1>6 DEF Linked
    <3>3. QED
      BY <3>1, <3>2 DEF ValuesTrue, StaleKnown, PendingKnown
  <2>8. QED
    BY <1>3, <2>1, <2>3, <2>4, <2>5, <2>6, <2>7 DEF Linked, SameEvents
<1>9. QED
  BY <1>7, <1>8 DEF Finished

LEMMA StorePropertyStep ==
  ASSUME Inv, StoreProperty
  PROVE  Inv'
<1> DEFINE h == core.reads
           b == client[h]
<1>1. /\ core.pc = "store" /\ core \in CoreState
      /\ UNCHANGED <<setup, clients, items, running, value>>
  BY DEF StoreProperty, Inv, Types
<1>2. /\ h \in Handles /\ Own(b) /\ Linked(h, b, core, clients, Listed, setup, value)
      /\ ReadsOf(core, h) /\ core.i \in Nat \ {0}
  BY <1>1 DEF Inv, CoreState, ReadsOf
<1>3. ASSUME NEW g \in Handles, g # h
      PROVE  ~ReadsOf(core, g) /\ StillToCome(g, client[g], core, clients, Listed)
  <2>1. PendingKnown(g, client[g], core, clients, Listed)
    BY DEF Inv, Linked
  <2>2. QED
    BY <1>1, <1>3, <2>1 DEF ReadsOf, PendingKnown, StillToCome
<1>4. CASE core.props_changed \/ b.destroying
  <2> DEFINE e == LeftAgain(b)
             d == Finished(e)
             k == [core EXCEPT !.pc = "send", !.n = @ + 1]
  <2>1. Only(h, d) /\ core' = WakeupCore(k)
    BY <1>4 DEF StoreProperty, LeftAgain
  <2>2. core' \in CoreState /\ core'.pc = "send" /\ core'.hook = core.hook /\ core'.woken
    <3>1. core.n + 1 \in Nat \ {0}
      BY <1>1 DEF CoreState
    <3>2. k \in CoreState /\ k.pc = "send" /\ k.hook = core.hook
      BY <1>1, <3>1 DEF CoreState
    <3> HIDE DEF k
    <3>3. QED
      BY <2>1, <3>2 DEF WakeupCore, CoreState
  <2>3. e = LeftAgain(b) /\ d = Finished(e)
    OBVIOUS
  <2> HIDE DEF b, d, e, h
  <2>4. /\ Own(b) /\ Linked(h, b, core, clients, Listed, setup, value) /\ ReadsOf(core, h)
        /\ core'.pc = "send" /\ core'.hook = core.hook /\ core'.woken
    BY <1>2, <2>2
  <2>5. /\ Own(d) /\ Linked(h, d, core', clients, Listed, setup, value)
        /\ d.reserved = b.reserved
    BY <2>3, <2>4, ReadAgain
  <2>6. ASSUME NEW g \in Handles, g # h
        PROVE  /\ ~ReadsOf(core, g) /\ ~ReadsOf(core', g)
               /\ PendingKnown(g, client[g], core', clients, Listed)
    BY <1>3, <2>2, <2>6 DEF ReadsOf, PendingKnown
  <2>7. ReadInv'
    BY <2>2, NotReading
  <2>8. QED
    BY <1>1, <1>2, <2>1, <2>2, <2>5, <2>6, <2>7, ServesOne DEF b
<1>5. CASE ~core.props_changed /\ ~b.destroying
  <2> DEFINE c == Filled(b, core.i, core.read, core.raced)
  <2>1. ReadNext(h, c, core.i + 1, core)
    BY <1>5 DEF StoreProperty, Filled
  <2>2. core.i \in DOMAIN b.props /\ Stale(b.props[core.i])
    BY <1>1, <1>5, ReadPropIs
  <2>3. core.raced \/ core.read = value[b.props[core.i].name]
    BY <1>1, <1>5 DEF Inv, ReadInv, ReadProp
  <2>4. core.read \in Values /\ core.raced \in BOOLEAN /\ core.i + 1 \in Nat \ {0}
    BY <1>1 DEF CoreState
  <2>5. c = Filled(b, core.i, core.read, core.raced)
    OBVIOUS
  <2>6. ~core.props_changed /\ ~b.destroying
    BY <1>5
  <2> HIDE DEF b, c, h
  <2>7. Serving(h, b, c, core.i + 1, core, core, Listed, setup, value) /\ c.pending = b.pending
    <3>1. /\ Own(b) /\ Linked(h, b, core, clients, Listed, setup, value)
          /\ ReadsOf(core, h) /\ ~b.destroying /\ ~core.props_changed
          /\ core.i \in DOMAIN b.props /\ core.i \in Nat \ {0} /\ Stale(b.props[core.i])
          /\ core.read \in Values /\ core.raced \in BOOLEAN
          /\ core.raced \/ core.read = value[b.props[core.i].name]
      BY <1>2, <2>2, <2>3, <2>4, <2>6
    <3>2. QED
      BY <2>5, <3>1, ValueStored
  <2>8. StillToCome(h, c, core, clients, Listed)
    BY <1>1, <1>2, <2>6, <2>7 DEF Linked, PendingKnown, StillToCome
  <2>9. Serving(h, client[h], c, core.i + 1, core, core, Listed, setup, value)
    BY <2>7 DEF b
  <2>10. QED
    BY <1>1, <1>2, <1>3, <2>1, <2>4, <2>6, <2>8, <2>9, ReadNextStep
<1>6. QED
  BY <1>4, <1>5

-------------------------------------------------------------------------------
\* Requests: the first of the queue is answered, or given to a thread.
LEMMA FirstRequest ==
  ASSUME Inv, items # <<>>, NEW g \in Handles
  PROVE  /\ Head(items)[1] \in Handles
         /\ Tail(items) \in Seq(Handles \X {"get", "cmd"})
         /\ Cardinality(Places(items, Requests(g))) \in Nat
         /\ Cardinality(Places(Tail(items), Requests(g))) \in Nat
         /\ Cardinality(Places(running, {g})) \in Nat
         /\ Cardinality(Places(Tail(items), Requests(g))) =
              Cardinality(Places(items, Requests(g))) - (IF g = Head(items)[1] THEN 1 ELSE 0)
<1>1. items \in Seq(Handles \X {"get", "cmd"}) /\ running \in Seq(Handles)
  BY DEF Inv, Types
<1>2. /\ Tail(items) \in Seq(Handles \X {"get", "cmd"}) /\ Len(items) > 0
      /\ Head(items) = items[1] /\ items[1] \in Handles \X {"get", "cmd"}
      /\ DOMAIN items = 1 .. Len(items) /\ DOMAIN Tail(items) = 1 .. Len(items) - 1
      /\ \A i \in 1 .. Len(items) - 1 : Tail(items)[i] = items[i + 1]
  BY <1>1, TailIs
<1>3. Head(items)[1] \in Handles /\ (items[1] \in Requests(g) <=> g = Head(items)[1])
  BY <1>2 DEF Requests
<1>4. 1 \in DOMAIN items /\ \A i \in 1 .. Len(items) - 1 : ~(i < 1)
  BY <1>1, <1>2, LenProperties
<1>5. \A i \in 1 .. Len(items) - 1 : Tail(items)[i] = items[IF i < 1 THEN i ELSE i + 1]
  BY <1>2, <1>4
<1>6. Cardinality(Places(Tail(items), Requests(g))) =
        Cardinality(Places(items, Requests(g))) - (IF items[1] \in Requests(g) THEN 1 ELSE 0)
  <2> DEFINE S == Handles \X {"get", "cmd"}
             T == Requests(g)
             t == Tail(items)
  <2>1. /\ items \in Seq(S) /\ 1 \in DOMAIN items /\ t \in Seq(S)
        /\ DOMAIN t = 1 .. Len(items) - 1
        /\ \A i \in 1 .. Len(items) - 1 : t[i] = items[IF i < 1 THEN i ELSE i + 1]
    BY <1>1, <1>2, <1>4, <1>5
  <2> HIDE DEF S, T, t
  <2>2. Cardinality(Places(t, T)) = Cardinality(Places(items, T)) - (IF items[1] \in T THEN 1 ELSE 0)
    BY <2>1, PlacesOfRemoved
  <2>3. QED
    BY <2>2 DEF T, t
<1>7. Cardinality(Places(items, Requests(g))) \in Nat
  BY <1>1, PlacesAreFinite
<1>8. Cardinality(Places(Tail(items), Requests(g))) \in Nat
  BY <1>2, PlacesAreFinite
<1>9. Cardinality(Places(running, {g})) \in Nat
  BY <1>1, PlacesAreFinite
<1>10. QED
  BY <1>2, <1>3, <1>6, <1>7, <1>8, <1>9

\* A reply is sent, and the request that it is for is not there any more.
LEMMA Answered ==
  ASSUME Inv, NEW h \in Handles, Only(h, SendReply(client[h])),
         UNCHANGED <<setup, clients, value>>,
         core' \in CoreState, CoreKept(core, core'), core'.read = core.read,
         core.raced => core'.raced,
         items' \in Seq(Handles \X {"get", "cmd"}), running' \in Seq(Handles),
         \A g \in Handles :
           Cardinality(Places(items', Requests(g))) + Cardinality(Places(running', {g})) =
             (Cardinality(Places(items, Requests(g))) + Cardinality(Places(running, {g})))
               - (IF g = h THEN 1 ELSE 0),
         \A g \in Handles :
           /\ Cardinality(Places(items, Requests(g))) + Cardinality(Places(running, {g})) \in Nat
           /\ Cardinality(Places(items', Requests(g))) + Cardinality(Places(running', {g})) \in Nat
  PROVE  Inv'
<1> DEFINE c == client[h]
           d == SendReply(c)
           Owed(g) == Cardinality(Places(items, Requests(g))) + Cardinality(Places(running, {g}))
           Left(g) == Cardinality(Places(items', Requests(g))) + Cardinality(Places(running', {g}))
<1>1. \A g \in Handles : /\ client[g].reserved = Owed(g) /\ Owed(g) \in Nat /\ Left(g) \in Nat
                         /\ Left(g) = Owed(g) - (IF g = h THEN 1 ELSE 0)
  BY DEF Inv, Booked
<1>2. /\ \A g \in Handles : Left(g) = client[g].reserved => Booked(g, client[g], items', running')
      /\ Left(h) = d.reserved => Booked(h, d, items', running')
  BY DEF Booked
<1>3. /\ Own(c) /\ Linked(h, c, core, clients, Listed, setup, value)
      /\ c.reserved = Owed(h)
  BY <1>1 DEF Inv
<1> HIDE DEF Owed, Left
<1>4. c.reserved > 0
  BY <1>1
<1>5. h \in Listed
  BY <1>3, <1>4 DEF Linked, Life
<1>6. Linked(h, c, core', clients, Listed, setup, value)
  BY <1>3, LinkedCore
<1>7. d = SendReply(c) /\ Only(h, d)
  OBVIOUS
<1> HIDE DEF c, d
<1>8. /\ Own(d) /\ Linked(h, d, core', clients, Listed, setup, value)
      /\ SameProps(c, d) /\ SameLife(c, d) /\ d.reserved = c.reserved - 1
  <2>1. /\ Own(c) /\ Linked(h, c, core', clients, Listed, setup, value) /\ h \in Listed
        /\ c.reserved > 0 /\ d = SendReply(c)
    BY <1>3, <1>4, <1>5, <1>6, <1>7
  <2>2. QED
    BY <2>1, ReplySent
<1>9. Booked(h, d, items', running')
  <2>1. Left(h) = c.reserved - 1
    BY <1>1, <1>3
  <2>2. QED
    BY <1>2, <1>8, <2>1
<1>10. ASSUME NEW g \in Handles, g # h PROVE Booked(g, client[g], items', running')
  <2>1. Left(g) = client[g].reserved
    BY <1>1, <1>10
  <2>2. QED
    BY <1>2, <2>1
<1>11. SameReading(c, d)
  BY <1>8 DEF SameReading, SameProps, SameLife
<1>12. QED
  BY <1>7, <1>8, <1>9, <1>10, <1>11, OneHandle DEF c

LEMMA RunItemStep ==
  ASSUME Inv, RunItem
  PROVE  Inv'
<1> DEFINE h == Head(items)[1]
<1>1. /\ items # <<>> /\ items' = Tail(items)
      /\ UNCHANGED <<setup, clients, core, value>>
  BY DEF RunItem
<1>2. \A g \in Handles :
         /\ h \in Handles
         /\ items' \in Seq(Handles \X {"get", "cmd"})
         /\ Cardinality(Places(items, Requests(g))) \in Nat
         /\ Cardinality(Places(items', Requests(g))) \in Nat
         /\ Cardinality(Places(running, {g})) \in Nat
         /\ Cardinality(Places(items', Requests(g))) =
              Cardinality(Places(items, Requests(g))) - (IF g = h THEN 1 ELSE 0)
  BY <1>1, FirstRequest
<1>3. h \in Handles /\ items' \in Seq(Handles \X {"get", "cmd"}) /\ running \in Seq(Handles)
  BY <1>2, ConstantsAssumption DEF Inv, Types
<1> HIDE DEF h
<1>4. CASE Only(h, SendReply(client[h])) /\ UNCHANGED running
  <2>1. ASSUME NEW g \in Handles
        PROVE  /\ Cardinality(Places(items', Requests(g))) + Cardinality(Places(running', {g})) =
                    (Cardinality(Places(items, Requests(g))) + Cardinality(Places(running, {g})))
                      - (IF g = h THEN 1 ELSE 0)
               /\ Cardinality(Places(items, Requests(g))) + Cardinality(Places(running, {g})) \in Nat
               /\ Cardinality(Places(items', Requests(g))) + Cardinality(Places(running', {g})) \in Nat
    <3> DEFINE x == Cardinality(Places(items, Requests(g)))
               y == Cardinality(Places(items', Requests(g)))
               z == Cardinality(Places(running, {g}))
    <3>1. x \in Nat /\ y \in Nat /\ z \in Nat /\ y = x - (IF g = h THEN 1 ELSE 0)
      BY <1>2
    <3>2. Cardinality(Places(running', {g})) = z
      BY <1>4
    <3> HIDE DEF x, y, z
    <3>3. y + z = (x + z) - (IF g = h THEN 1 ELSE 0) /\ x + z \in Nat /\ y + z \in Nat
      BY <3>1
    <3>4. QED
      BY <3>2, <3>3 DEF x, y, z
  <2>2. running' \in Seq(Handles) /\ UNCHANGED <<setup, clients, value>>
    BY <1>1, <1>3, <1>4
  <2>3. QED
    BY <1>1, <1>3, <1>4, <2>1, <2>2, CoreUnchanged, Answered
<1>5. CASE running' = Append(running, h) /\ UNCHANGED client
  <2>1. ASSUME NEW g \in Handles PROVE Booked(g, client[g], items', running')
    <3> DEFINE x == Cardinality(Places(items, Requests(g)))
               y == Cardinality(Places(items', Requests(g)))
               z == Cardinality(Places(running, {g}))
               t == Cardinality(Places(running', {g}))
    <3>1. x \in Nat /\ y \in Nat /\ z \in Nat /\ y = x - (IF g = h THEN 1 ELSE 0)
      BY <1>2
    <3>2. t = z + (IF g = h THEN 1 ELSE 0)
      <4>1. Cardinality(Places(Append(running, h), {g})) =
              Cardinality(Places(running, {g})) + (IF h \in {g} THEN 1 ELSE 0)
        BY <1>3, PlacesOfAppend
      <4>2. h \in {g} <=> g = h
        OBVIOUS
      <4>3. QED
        BY <1>5, <4>1, <4>2
    <3>3. client[g].reserved = x + z
      BY DEF Inv, Booked
    <3>4. client[g].reserved = y + t => Booked(g, client[g], items', running')
      BY DEF Booked
    <3> HIDE DEF x, y, z, t
    <3>5. y + t = x + z
      BY <3>1, <3>2
    <3>6. QED
      BY <3>3, <3>4, <3>5
  <2>2. running' \in Seq(Handles)
    BY <1>3, <1>5, AppendIs
  <2>3. Listed' = Listed
    BY <1>1 DEF Listed
  <2>4. Types'
    BY <1>1, <1>3, <1>5, <2>2 DEF Inv, Types
  <2>5. ReadInv'
    BY <1>1, <1>5 DEF Inv, ReadInv, ReadProp
  <2>6. QED
    BY <1>1, <1>5, <2>1, <2>3, <2>4, <2>5 DEF Inv
<1>6. QED
  BY <1>4, <1>5 DEF RunItem, h

LEMMA CompleteStep ==
  ASSUME Inv, NEW n \in DOMAIN running, Complete(n)
  PROVE  Inv'
<1> DEFINE h == running[n]
<1>1. /\ items \in Seq(Handles \X {"get", "cmd"}) /\ running \in Seq(Handles)
      /\ core \in CoreState
  BY DEF Inv, Types
<1>2. /\ Only(h, SendReply(client[h])) /\ running' = RemoveAt(running, n)
      /\ core' = core \/ core' = WakeupCore(core)
      /\ UNCHANGED <<setup, clients, items, value>>
  BY DEF Complete
<1>3. h \in Handles
  BY <1>1, ElementOfSeq, LenProperties
<1>4. /\ RemoveAt(running, n) \in Seq(Handles)
      /\ DOMAIN RemoveAt(running, n) = 1 .. Len(running) - 1
      /\ \A i \in 1 .. Len(running) - 1 :
            RemoveAt(running, n)[i] = running[IF i < n THEN i ELSE i + 1]
  BY <1>1, RemoveAtIs
<1>5. ASSUME NEW g \in Handles
      PROVE  /\ Cardinality(Places(items', Requests(g))) + Cardinality(Places(running', {g})) =
                  (Cardinality(Places(items, Requests(g))) + Cardinality(Places(running, {g})))
                    - (IF g = h THEN 1 ELSE 0)
             /\ Cardinality(Places(items, Requests(g))) + Cardinality(Places(running, {g})) \in Nat
             /\ Cardinality(Places(items', Requests(g))) + Cardinality(Places(running', {g})) \in Nat
  <2> DEFINE x == Cardinality(Places(items, Requests(g)))
             z == Cardinality(Places(running, {g}))
             t == Cardinality(Places(running', {g}))
  <2>1. Cardinality(Places(RemoveAt(running, n), {g})) =
          Cardinality(Places(running, {g})) - (IF running[n] \in {g} THEN 1 ELSE 0)
    BY <1>1, <1>4, PlacesOfRemoved
  <2>2. running[n] \in {g} <=> g = h
    OBVIOUS
  <2>3. x \in Nat
    BY <1>1, PlacesAreFinite
  <2>4. z \in Nat
    BY <1>1, PlacesAreFinite
  <2>5. t \in Nat
    BY <1>2, <1>4, PlacesAreFinite
  <2>6. t = z - (IF g = h THEN 1 ELSE 0)
    BY <1>2, <2>1, <2>2
  <2>7. Cardinality(Places(items', Requests(g))) = x
    BY <1>2
  <2> HIDE DEF x, z, t, h
  <2>8. x + t = (x + z) - (IF g = h THEN 1 ELSE 0) /\ x + z \in Nat /\ x + t \in Nat
    BY <2>3, <2>4, <2>5, <2>6
  <2>9. QED
    BY <2>7, <2>8 DEF x, z, t
<1>6. /\ core' \in CoreState /\ CoreKept(core, core') /\ core'.read = core.read
      /\ (core.raced => core'.raced)
  BY <1>1, <1>2 DEF WakeupCore, CoreState, CoreKept
<1>7. items' \in Seq(Handles \X {"get", "cmd"}) /\ running' \in Seq(Handles)
  BY <1>1, <1>2, <1>4
<1> HIDE DEF h
<1>8. QED
  BY <1>2, <1>3, <1>5, <1>6, <1>7, Answered

-------------------------------------------------------------------------------
\* At first nothing was sent and nothing is observed.
LEMMA AtFirst ==
  ASSUME NEW s \in SUBSET Handles, NEW h \in Handles,
         NEW c, c = [events |-> <<>>, reserved |-> 0, async_counter |-> 0, choked |-> FALSE,
                     destroying |-> FALSE, need_wakeup |-> FALSE, queued_wakeup |-> FALSE,
                     hook_pending |-> FALSE, masked |-> FALSE, props |-> <<>>, pending |-> FALSE,
                     new_events |-> FALSE, cur |-> 1,
                     user |-> "idle", polls |-> h \in s, timed |-> FALSE, called |-> TRUE,
                     joiner |-> "idle", terminate |-> FALSE, told |-> 0, sent |-> 0, orphaned |-> FALSE],
         NEW k, k.pc = "loop", NEW cs, NEW L, NEW t, NEW v
  PROVE  Own(c) /\ Linked(h, c, k, cs, L, t, v) /\ c.reserved = 0
<1>1. <<>> \in Seq(Event) /\ <<>> \in Seq(Prop) /\ Len(<<>>) = 0 /\ DOMAIN <<>> = {}
  BY EmptySeq
<1>2. c \in ClientState
  <2> DEFINE x == <<>>
             b == h \in s
             n == 0
             m == 1
             f == FALSE
             y == TRUE
             z == "idle"
  <2>1. /\ c = [events |-> x, reserved |-> n, async_counter |-> n, choked |-> f,
                destroying |-> f, need_wakeup |-> f, queued_wakeup |-> f,
                hook_pending |-> f, masked |-> f, props |-> x, pending |-> f,
                new_events |-> f, cur |-> m,
                user |-> z, polls |-> b, timed |-> f, called |-> y,
                joiner |-> z, terminate |-> f, told |-> n, sent |-> n, orphaned |-> f]
        /\ x \in Seq(Event) /\ x \in Seq(Prop) /\ b \in BOOLEAN /\ f \in BOOLEAN /\ y \in BOOLEAN
        /\ n \in Nat /\ n \in {0, 1} /\ m \in Nat \ {0} /\ z \in UserPlaces /\ z \in JoinerPlaces
    BY <1>1 DEF UserPlaces, JoinerPlaces
  <2> HIDE DEF x, b, n, m, f, y, z
  <2>2. QED
    BY <2>1 DEF ClientState
<1>3. /\ c.events = <<>> /\ c.props = <<>> /\ c.reserved = 0 /\ c.cur = 1 /\ c.told = 0
      /\ c.sent = 0 /\ c.async_counter = 0 /\ ~c.destroying /\ ~c.hook_pending
      /\ c.user = "idle" /\ c.joiner = "idle" /\ c.called /\ ~c.pending
  OBVIOUS
<1>4. Own(c)
  BY <1>1, <1>2, <1>3, ConstantsAssumption
     DEF Own, Fits, Cursor, Stamps, HookInOrder, ReadyAhead
<1>5. Life(h, c, k, L, t) /\ SleepsJustly(h, c, k, L, t) /\ PendingKnown(h, c, k, cs, L)
  BY <1>3 DEF Life, SleepsJustly, Drowsy, PendingKnown, ReadsOf, Gone
<1>6. HookInv(c, k) /\ ValuesTrue(h, c, L, v) /\ StaleKnown(h, c, k, L)
  BY <1>1, <1>3 DEF HookInv, ValuesTrue, StaleKnown
<1>7. EventsInv(h, c, L)
  <2>1. EventPlaces(c) = {}
    BY <1>1, <1>3 DEF EventPlaces
  <2>2. 0 + 1 .. 0 = {} /\ 0 \in 0 .. 0
    OBVIOUS
  <2>3. QED
    BY <1>3, <2>1, <2>2 DEF EventsInv, InOrder, NoGap
<1>8. QED
  BY <1>3, <1>4, <1>5, <1>6, <1>7 DEF Linked

LEMMA InitInv ==
  ASSUME Init
  PROVE  Inv
<1>1. /\ setup \in Setups /\ clients = setup.clients /\ items = <<>> /\ running = <<>>
      /\ setup.polling \subseteq Handles /\ clients \in Seq(Handles) /\ IsInjective(clients)
  BY SetupsAssumption DEF Init
<1>2. core \in CoreState /\ core.pc = "loop"
  <2> DEFINE g == CHOOSE h \in Handles : TRUE
             x == CHOOSE v \in Values : TRUE
             m == 1
             f == FALSE
             y == TRUE
  <2>1. g \in Handles /\ x \in Values
    BY ConstantsAssumption
  <2>2. /\ core = [pc |-> "loop", mode |-> "play", woken |-> f, stop_play |-> f,
                   patient |-> y, list_changed |-> f, n |-> m, i |-> m,
                   reads |-> g, props_changed |-> f, read |-> x, raced |-> f, hook |-> "none"]
        /\ f \in BOOLEAN /\ y \in BOOLEAN /\ m \in Nat \ {0}
    BY DEF Init
  <2> HIDE DEF g, x, m, f, y
  <2>3. QED
    BY <2>1, <2>2 DEF CoreState
<1>3. value \in [Props -> Values]
  BY ConstantsAssumption DEF Init
<1>4. DOMAIN client = Handles
  BY DEF Init
<1>5. Types
  <2>1. items \in Seq(Handles \X {"get", "cmd"}) /\ running \in Seq(Handles)
    BY <1>1, EmptySeq
  <2>2. QED
    BY <1>1, <1>2, <1>3, <1>4, <2>1 DEF Types
<1>6. ASSUME NEW h \in Handles
      PROVE  /\ Own(client[h]) /\ Linked(h, client[h], core, clients, Listed, setup, value)
             /\ Booked(h, client[h], items, running)
  <2> DEFINE c == client[h]
             s == setup.polling
  <2>1. c = [events |-> <<>>, reserved |-> 0, async_counter |-> 0, choked |-> FALSE,
             destroying |-> FALSE, need_wakeup |-> FALSE, queued_wakeup |-> FALSE,
             hook_pending |-> FALSE, masked |-> FALSE, props |-> <<>>, pending |-> FALSE,
             new_events |-> FALSE, cur |-> 1,
             user |-> "idle", polls |-> h \in s, timed |-> FALSE, called |-> TRUE,
             joiner |-> "idle", terminate |-> FALSE, told |-> 0, sent |-> 0, orphaned |-> FALSE]
    BY DEF Init
  <2>2. s \in SUBSET Handles
    BY <1>1
  <2> HIDE DEF c, s
  <2>3. Own(c) /\ Linked(h, c, core, clients, Listed, setup, value) /\ c.reserved = 0
    BY <1>2, <2>1, <2>2, AtFirst
  <2>4. Places(items, Requests(h)) = {} /\ Places(running, {h}) = {}
    BY <1>1, EmptySeq DEF Places
  <2>5. Booked(h, c, items, running)
    BY <2>3, <2>4, FS_EmptySet DEF Booked
  <2>6. QED
    BY <2>3, <2>5 DEF c
<1>7. ReadInv
  BY <1>2 DEF ReadInv
<1>8. QED
  BY <1>5, <1>6, <1>7 DEF Inv

\* Nothing happens.
LEMMA StutterStep ==
  ASSUME Inv, UNCHANGED vars
  PROVE  Inv'
<1>1. /\ UNCHANGED <<setup, client, clients, core, items, running, value>>
  BY DEF vars
<1>2. Listed' = Listed /\ Types'
  BY <1>1 DEF Inv, Types, Listed
<1>3. ReadInv'
  BY <1>1 DEF Inv, ReadInv, ReadProp
<1>4. QED
  BY <1>1, <1>2, <1>3 DEF Inv

LEMMA CallsStep ==
  ASSUME Inv, NEW h \in Handles, Calls(h)
  PROVE  Inv'
<1>1. CASE CallWaitEvent(h)
  BY <1>1, CallWaitEventStep
<1>2. CASE WaitEvent(h)
  BY <1>2, WaitEventStep
<1>3. CASE WaitWakeup(h)
  BY <1>3, WaitWakeupStep
<1>4. CASE TimedOut(h)
  BY <1>4, TimedOutStep
<1>5. CASE WaitAsyncRequests(h)
  BY <1>5, WaitAsyncRequestsStep
<1>6. CASE HookContinue(h)
  BY <1>6, HookContinueStep
<1>7. CASE QuitPlayer(h)
  BY <1>7, QuitPlayerStep
<1>8. CASE BeginDestroy(h)
  BY <1>8, BeginDestroyStep
<1>9. CASE RemoveClient(h)
  BY <1>9, RemoveClientStep
<1>10. CASE Quit(h)
  BY <1>10, QuitStep
<1>11. CASE StopCore(h)
  BY <1>11, StopCoreStep
<1>12. CASE Join(h)
  BY <1>12, JoinStep
<1>13. QED
  BY <1>1, <1>2, <1>3, <1>4, <1>5, <1>6, <1>7, <1>8, <1>9, <1>10, <1>11, <1>12 DEF Calls

LEMMA AsksStep ==
  ASSUME Inv, NEW h \in Handles, Asks(h)
  PROVE  Inv'
<1>1. CASE \E p \in setup.props : ObserveProperty(h, p)
  BY <1>1, ObservePropertyStep
<1>2. CASE \E p \in setup.props : UnobserveProperty(h, p)
  BY <1>2, UnobservePropertyStep
<1>3. CASE \E what \in {"get", "cmd"} : RunAsync(h, what)
  BY <1>3, RunAsyncStep
<1>4. CASE Wakeup(h)
  BY <1>4, WakeupStep
<1>5. QED
  BY <1>1, <1>2, <1>3, <1>4 DEF Asks

LEMMA PlaysStep ==
  ASSUME Inv, Plays
  PROVE  Inv'
<1>1. CASE StartHook
  BY <1>1, StartHookStep
<1>2. CASE EndHook
  BY <1>2, EndHookStep
<1>3. CASE PlayLoop
  BY <1>3, PlayLoopStep
<1>4. CASE ShutdownClients
  BY <1>4, ShutdownClientsStep
<1>5. CASE SendPropertyChanges
  BY <1>5, SendPropertyChangesStep
<1>6. CASE GetProperty
  BY <1>6, GetPropertyStep
<1>7. CASE StoreProperty
  BY <1>7, StorePropertyStep
<1>8. CASE RunItem
  BY <1>8, RunItemStep
<1>9. CASE ReturnsFromProcess
  BY <1>9, ReturnsFromProcessStep
<1>10. QED
  BY <1>1, <1>2, <1>3, <1>4, <1>5, <1>6, <1>7, <1>8, <1>9 DEF Plays

\* Every action, by its lemma.
LEMMA NextInv ==
  ASSUME Inv, [Next]_vars
  PROVE  Inv'
<1>1. CASE \E h \in Handles : Calls(h)
  BY <1>1, CallsStep
<1>2. CASE \E h \in Handles : Asks(h)
  BY <1>2, AsksStep
<1>3. CASE BroadcastEvent
  BY <1>3, BroadcastEventStep
<1>4. CASE \E p \in setup.props, v \in Values : PropertyChange(p, v)
  BY <1>4, PropertyChangeStep
<1>5. CASE \E p \in setup.props, v \in Values : BroadcastExternal(p, v)
  BY <1>5, BroadcastExternalStep
<1>6. CASE Plays
  BY <1>6, PlaysStep
<1>7. CASE \E n \in DOMAIN running : Complete(n)
  BY <1>7, CompleteStep
<1>8. CASE UNCHANGED vars
  BY <1>8, StutterStep
<1>9. QED
  BY <1>1, <1>2, <1>3, <1>4, <1>5, <1>6, <1>7, <1>8 DEF Next, Changes

-------------------------------------------------------------------------------
\* In every state: the handles are what they should be by themselves, and with the core and
\* the requests around them.
THEOREM ClientInvariant == Spec => []Inv
<1>1. Init => Inv
  BY InitInv
<1>2. Inv /\ [Next]_vars => Inv'
  BY NextInv
<1>3. QED
  BY <1>1, <1>2, PTL DEF Spec

\* What follows from it.
LEMMA InvTypeOK ==
  ASSUME Inv
  PROVE  TypeOK
<1>1. /\ clients \in Seq(Handles) /\ IsInjective(clients) /\ core \in CoreState
      /\ items \in Seq(Handles \X {"get", "cmd"}) /\ running \in Seq(Handles)
  BY DEF Inv, Types
<1>2. ASSUME NEW h \in Handles
      PROVE  LET c == client[h]
             IN /\ \A n \in DOMAIN c.events : c.events[n][1] \in Kinds /\ c.events[n][2] \in Nat
                /\ c.reserved \in Nat /\ c.async_counter \in {0, 1}
                /\ \A i \in DOMAIN c.props :
                     LET q == c.props[i]
                     IN /\ q.name \in Props /\ q.value \in Values /\ q.ret \subseteq Values
                        /\ {q.change_ts, q.value_ts, q.ret_ts} \subseteq Nat
                        /\ q.ret_ts <= q.change_ts /\ q.value_ts <= q.change_ts
                /\ ~c.destroying => c.cur \in 1 .. Len(c.props) + 1
                /\ c.user \in UserPlaces /\ c.joiner \in JoinerPlaces
  <2> DEFINE c == client[h]
  <2>1. c \in ClientState /\ Cursor(c) /\ Stamps(c)
    BY DEF Inv, Own
  <2> HIDE DEF c
  <2>2. /\ c.events \in Seq(Event) /\ c.reserved \in Nat /\ c.async_counter \in {0, 1}
        /\ c.props \in Seq(Prop) /\ c.cur \in Nat \ {0} /\ c.user \in UserPlaces
        /\ c.joiner \in JoinerPlaces
    BY <2>1 DEF ClientState
  <2>3. \A n \in DOMAIN c.events : c.events[n][1] \in Kinds /\ c.events[n][2] \in Nat
    BY <2>2, ElementOfSeq, LenProperties DEF Event
  <2>4. ASSUME NEW i \in DOMAIN c.props
        PROVE  LET q == c.props[i]
               IN /\ q.name \in Props /\ q.value \in Values /\ q.ret \subseteq Values
                  /\ {q.change_ts, q.value_ts, q.ret_ts} \subseteq Nat
                  /\ q.ret_ts <= q.change_ts /\ q.value_ts <= q.change_ts
    <3>1. c.props[i] \in Prop /\ StampsOf(c.props[i])
      BY <2>1, <2>2, ElementOfSeq, LenProperties DEF Stamps
    <3>2. QED
      BY <3>1 DEF Prop, StampsOf
  <2>5. ~c.destroying => c.cur \in 1 .. Len(c.props) + 1
    <3>1. Len(c.props) \in Nat
      BY <2>2, LenProperties
    <3>2. QED
      BY <2>1, <2>2, <3>1 DEF Cursor
  <2>6. QED
    BY <2>2, <2>3, <2>4, <2>5 DEF c
<1>3. \A n \in DOMAIN items : items[n] \in Handles \X {"get", "cmd"}
  BY <1>1, ElementOfSeq, LenProperties
<1>4. QED
  BY <1>1, <1>2, <1>3 DEF TypeOK, CoreState, UserPlaces, JoinerPlaces

\* The fields hold what they can hold, and a property is never newer for the user than for
\* the core, and never newer for the core than it is (struct observe_property).
THEOREM ClientTypeOK == Spec => []TypeOK
  BY ClientInvariant, InvTypeOK, PTL

\* A request that is counted keeps the handle in the list (Life, Booked).
LEMMA InvHandlesOutliveUse ==
  ASSUME Inv
  PROVE  HandlesOutliveUse
<1>1. items \in Seq(Handles \X {"get", "cmd"}) /\ running \in Seq(Handles) /\ core \in CoreState
  BY DEF Inv, Types
<1>2. ASSUME NEW h \in Handles
      PROVE  /\ Places(items, Requests(h)) # {} \/ Places(running, {h}) # {} => h \in Listed
             /\ ReadsOf(core, h) => h \in Listed
             /\ h \notin Listed => client[h].async_counter = 0 /\ client[h].reserved = 0
  <2> DEFINE c == client[h]
             x == Cardinality(Places(items, Requests(h)))
             y == Cardinality(Places(running, {h}))
  <2>1. Life(h, c, core, Listed, setup) /\ Booked(h, c, items, running)
    BY DEF Inv, Linked
  <2>2. x \in Nat /\ (x = 0 <=> Places(items, Requests(h)) = {})
    <3>1. IsFiniteSet(Places(items, Requests(h))) /\ Cardinality(Places(items, Requests(h))) \in Nat
      BY <1>1, PlacesAreFinite
    <3>2. QED
      BY <3>1, FS_EmptySet
  <2>3. y \in Nat /\ (y = 0 <=> Places(running, {h}) = {})
    <3>1. IsFiniteSet(Places(running, {h})) /\ Cardinality(Places(running, {h})) \in Nat
      BY <1>1, PlacesAreFinite
    <3>2. QED
      BY <3>1, FS_EmptySet
  <2>4. c.reserved = x + y
    BY <2>1 DEF Booked
  <2> HIDE DEF c, x, y
  <2>5. c.reserved = 0 => x = 0 /\ y = 0
    BY <2>2, <2>3, <2>4
  <2>6. QED
    BY <2>1, <2>2, <2>3, <2>5 DEF Life, c
<1>3. \A n \in DOMAIN items : items[n][1] \in Listed
  <2> SUFFICES ASSUME NEW n \in DOMAIN items PROVE items[n][1] \in Listed
    OBVIOUS
  <2>1. items[n] \in Handles \X {"get", "cmd"}
    BY <1>1, ElementOfSeq, LenProperties
  <2>2. items[n][1] \in Handles /\ n \in Places(items, Requests(items[n][1]))
    BY <2>1 DEF Places, Requests
  <2>3. QED
    BY <1>2, <2>2
<1>4. \A n \in DOMAIN running : running[n] \in Listed
  <2> SUFFICES ASSUME NEW n \in DOMAIN running PROVE running[n] \in Listed
    OBVIOUS
  <2>1. running[n] \in Handles /\ n \in Places(running, {running[n]})
    BY <1>1, ElementOfSeq, LenProperties DEF Places
  <2>2. QED
    BY <1>2, <2>1
<1>5. core.pc \in {"fetch", "store"} => core.reads \in Listed
  BY <1>1, <1>2 DEF ReadsOf, CoreState
<1>6. QED
  BY <1>2, <1>3, <1>4, <1>5 DEF HandlesOutliveUse

\* A handle that is freed is used by nobody: mp_destroy_client() waits for every reply, and
\* for the core thread, which reads properties for it.
THEOREM HandlesOutlive == Spec => []HandlesOutliveUse
  BY ClientInvariant, InvHandlesOutliveUse, PTL

\* The counters of places are those of Booked.
LEMMA OutstandingIs ==
  ASSUME Inv, NEW h \in Handles
  PROVE  client[h].reserved = Outstanding(h)
<1>1. items \in Seq(Handles \X {"get", "cmd"}) /\ Booked(h, client[h], items, running)
  BY DEF Inv, Types
<1>2. Places(items, Requests(h)) = {n \in DOMAIN items : items[n][1] = h}
  <2>1. ASSUME NEW n \in DOMAIN items
        PROVE  items[n] \in Requests(h) <=> items[n][1] = h
    <3>1. items[n] \in Handles \X {"get", "cmd"}
      BY <1>1, ElementOfSeq, LenProperties
    <3>2. QED
      BY <3>1 DEF Requests
  <2>2. QED
    BY <2>1 DEF Places
<1>3. Places(running, {h}) = {n \in DOMAIN running : running[n] = h}
  BY DEF Places
<1>4. QED
  BY <1>1, <1>2, <1>3 DEF Booked, Outstanding

\* Whoever sleeps when the core does has seen what there is.
LEMMA InvSleepersAreCurrent ==
  ASSUME Inv
  PROVE  SleepersAreCurrent
<1> SUFFICES ASSUME AtRest, NEW h \in Listed \ setup.joining, Sleeps(client[h])
             PROVE  LET c == client[h]
                    IN /\ c.orphaned \/ (c.events = <<>> /\ ~c.choked)
                       /\ \A i \in DOMAIN c.props :
                            LET q == c.props[i]
                            IN /\ q.ret_ts = q.change_ts
                               /\ q.swallowed \/ q.ret = {value[q.name]}
  BY DEF SleepersAreCurrent
<1> DEFINE c == client[h]
<1>1. h \in Handles
  <2>1. clients \in Seq(Handles)
    BY DEF Inv, Types
  <2>2. QED
    BY <2>1, ElementOfSeq, LenProperties DEF Listed
<1>2. Own(c) /\ Linked(h, c, core, clients, Listed, setup, value)
  BY <1>1 DEF Inv
<1>3. c.reserved = 0
  <2>1. Places(items, Requests(h)) = {} /\ Places(running, {h}) = {}
    BY EmptySeq DEF AtRest, Places
  <2>2. Booked(h, c, items, running)
    BY <1>1 DEF Inv
  <2>3. QED
    BY <2>1, <2>2, FS_EmptySet DEF Booked
<1> HIDE DEF c
<1>4. ~c.destroying /\ Drowsy(c)
  BY DEF Sleeps, Drowsy, c
<1>5. NothingNew(h, c, core) /\ ~ReadsOf(core, h)
  BY <1>2, <1>4 DEF Linked, SleepsJustly, AtRest, ReadsOf
<1>6. ~c.pending
  BY <1>2, <1>4 DEF Linked, PendingKnown, AtRest
<1>7. ~c.new_events
  BY <1>5, <1>6 DEF NothingNew
<1>8. ASSUME NEW i \in DOMAIN c.props
      PROVE  /\ c.props[i].ret_ts = c.props[i].change_ts /\ ~c.props[i].waiting_for_hook
             /\ c.props[i].swallowed \/ c.props[i].ret = {value[c.props[i].name]}
  <2> DEFINE q == c.props[i]
  <2>1. q \in Prop /\ StampsOf(q)
    BY <1>2, ElementOfSeq, LenProperties DEF Own, ClientState, Stamps
  <2>2. ~Stale(q)
    BY <1>2, <1>5, <1>6 DEF Linked, StaleKnown
  <2>3. ~Ready(q)
    BY <1>5, <1>7 DEF NothingNew
  <2>4. q.swallowed \/ q.value = value[q.name]
    BY <1>2, <2>2 DEF Linked, ValuesTrue
  <2> HIDE DEF q
  <2>5. q.ret_ts = q.value_ts /\ q.value_ts = q.change_ts /\ q.value_ts # 0
    BY <2>1, <2>2, <2>3 DEF Stale, Ready, StampsOf, Prop
  <2>6. QED
    BY <2>1, <2>4, <2>5 DEF StampsOf, q
<1>9. ~WaitsForProps(c)
  BY <1>8 DEF WaitsForProps
<1>10. c.orphaned \/ (c.events = <<>> /\ ~c.choked)
  BY <1>2, <1>3, <1>5, <1>7, <1>9 DEF NothingNew
<1>11. QED
  BY <1>8, <1>10 DEF c

\* The three parts of ClientsMissNothing.
LEMMA InvMissNothing ==
  ASSUME Inv
  PROVE  ClientsMissNothing
<1>1. Listed \subseteq Handles
  <2>1. clients \in Seq(Handles)
    BY DEF Inv, Types
  <2>2. QED
    BY <2>1, ElementOfSeq, LenProperties DEF Listed
<1>2. NothingLostUntold
  BY <1>1, OutstandingIs DEF NothingLostUntold, Inv, Own, Fits, Linked, EventsInv
<1>3. HooksComeAfterChanges
  BY <1>1 DEF HooksComeAfterChanges, Inv, Own, HookInOrder
<1>4. QED
  BY <1>2, <1>3, InvSleepersAreCurrent DEF ClientsMissNothing

\* No event is lost without a word, every reply has its place, whoever sleeps has seen
\* everything there is, and a hook comes after the changes from before it.
THEOREM NothingMissed == Spec => []ClientsMissNothing
  BY ClientInvariant, InvMissNothing, PTL
================================================================================
