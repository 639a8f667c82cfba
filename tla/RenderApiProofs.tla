-------------------------- MODULE RenderApiProofs ---------------------------
(***************************************************************************)
(* Theorems about RenderApi for any number of images, redraws and          *)
(* screenshots, with and without MPV_RENDER_PARAM_ADVANCED_CONTROL.        *)
(*                                                                         *)
(* The context is freed safely because the life of everybody who uses it   *)
(* lies within that of the VO (VoInv, ChainInv), ctx->in_use says when     *)
(* that ends (ContextInv), and dr_in_flight counts the images: those that  *)
(* somebody holds (HolderInv says who), and those the render thread has    *)
(* yet to free (FlightInv).  With none in flight, not even a screenshot    *)
(* has anything left to hand to the dispatch queue.                        *)
(***************************************************************************)
EXTENDS RenderApi, FunctionTheorems, FiniteSetTheorems, TLAPS

(* Where the threads are.  The VO has the context from preinit() to        *)
(* uninit(); the core waits for it while it is made and destroyed.         *)
Drawing == {"loop", "frame", "drawn", "flip", "swap", "control"}

VoPlaces ==
  /\ corePc \in {"run", "chain"} => voPc \in {"none"} \cup (Drawing \ {"control"})
  /\ corePc = "create" => voPc \in {"preinit", "failed"} \cup (Drawing \ {"control"})
  /\ corePc = "control" => voPc \in Drawing
  /\ corePc = "vo" =>
       IF stopVo THEN voPc \in (Drawing \ {"control"}) \cup {"uninit", "interrupt", "done"}
                 ELSE voPc = "none"

VoInv ==
  /\ VoPlaces
  /\ stopVo => corePc = "vo"
  /\ current # None => voPc \in Drawing
  /\ ctx.next # None => voPc \in {"drawn", "flip"}
  /\ "vo" \in waking => voPc \in Drawing \cup {"uninit"}

(* The decoder and what it has queued live within the chain, which lives   *)
(* within the VO.                                                          *)
ChainInv ==
  /\ decPc # "idle" \/ queued # <<>> => corePc \in {"run", "control", "chain"} /\ voPc \in Drawing
  /\ decPc # "idle" => counts.images # None
  /\ "decoder" \in waking => decPc # "idle"
  /\ "core" \in waking => corePc = "chain" /\ voPc \in Drawing

(* The context is in use, is visible, and is being freed.                  *)
ContextInv ==
  /\ ctx.inUse <=> voPc \in Drawing \cup {"uninit"}
  /\ ctx.locked <=> voPc = "interrupt"
  /\ ctx.set <=> renderPc \in {"idle", "update", "render", "present"}
  /\ renderPc \in {"barrier", "rest", "freed", "aborted"} => ~ctx.inUse
  /\ renderPc \in {"rest", "freed", "aborted"} => ~ctx.locked

(* Who holds a reference to an image, and who says so.                     *)
HeldBy(h, i) == h \in images.refs[i]
HolderInv ==
  \A i \in Images :
    /\ HeldBy("decoder", i) <=> decPc = "decoded" /\ i = counts.images
    /\ HeldBy("queue", i) <=> \E k \in 1 .. Len(queued) : queued[k] = i
    /\ HeldBy("vo", i) <=> i = current
    /\ HeldBy("next", i) <=> i = ctx.next
    /\ HeldBy("cur", i) <=> i = ctx.cur
    /\ HeldBy("render", i) => renderPc = "render"
    /\ HeldBy("shot", i) => shotPc = "write"

OnceInv ==
  /\ \A i, j \in Images : HeldBy("render", i) /\ HeldBy("render", j) => i = j
  /\ \A i, j \in Images : HeldBy("shot", i) /\ HeldBy("shot", j) => i = j
  /\ \A k, l \in 1 .. Len(queued) : queued[k] = queued[l] => k = l
  /\ \A k \in 1 .. Len(queued) : /\ queued[k] <= counts.images
                                 /\ decPc # "idle" => queued[k] < counts.images
  /\ current # None => /\ \A k \in 1 .. Len(queued) : queued[k] # current
                       /\ decPc # "idle" => current < counts.images

(* Images that were not yet made.                                          *)
FreshInv ==
  \A i \in Images : i > counts.images \/ (i = counts.images /\ decPc = "request")
                      => images.refs[i] = {}

(* A request waits for its answer, and is the only one of its kind.        *)
ItemInv ==
  \A k \in 1 .. Len(images.items) :
    /\ images.items[k] = "image" => decPc = "request"
    /\ images.items[k] = "screenshot" => voPc = "control"
    /\ images.items[k] # "free" =>
         \A l \in 1 .. Len(images.items) : images.items[l] = images.items[k] => l = k

(* dr_in_flight: every image that is used, or is to be freed.              *)
Live(d) == {i \in Images : d.refs[i] # {}}
Frees(d) == {k \in 1 .. Len(d.items) : d.items[k] = "free"}
Balanced(d) ==
  /\ advanced => d.inFlight = Cardinality(Live(d)) + Cardinality(Frees(d))
  /\ ~advanced => d.inFlight = 0 /\ d.items = <<>>
FlightInv ==
  /\ Balanced(images)
  /\ images.inFlight <= counts.images
  /\ decPc = "request" => images.inFlight < counts.images
  /\ ~advanced => decPc # "request" /\ corePc # "control"

FreedInv ==
  renderPc \in {"freed", "aborted"} =>
    /\ images.items = <<>> /\ ctx.cur = None
    /\ renderPc = "freed" /\ advanced => \A i \in Images : images.refs[i] = {}

RenderInv == /\ TypeOK /\ VoInv /\ ChainInv /\ ContextInv /\ HolderInv /\ OnceInv /\ FreshInv
             /\ ItemInv /\ FlightInv /\ FreedInv /\ ApplicationIsTold
-----------------------------------------------------------------------------
(* References come and go.                                                 *)

LEMMA ImageTypes ==
  ASSUME images \in ImageState, counts \in Counts
  PROVE  /\ images.refs \in [Images -> SUBSET Holders]
         /\ images.inFlight \in 0 .. MaxImages /\ images.inFlight \in Nat
         /\ images.items \in Seq({"image", "free", "screenshot"})
         /\ counts.images \in 0 .. MaxImages /\ counts.images \in Nat
         /\ counts.draws \in 0 .. MaxDraws /\ counts.shots \in 0 .. MaxShots
  BY ConstantsAssumption DEF ImageState, Counts

LEMMA ContextTypes ==
  ASSUME ctx \in ContextState
  PROVE  /\ ctx.set \in BOOLEAN /\ ctx.inUse \in BOOLEAN /\ ctx.locked \in BOOLEAN
         /\ ctx.redrawing \in BOOLEAN /\ ctx.overwrites = FALSE
         /\ ctx.next \in Images \cup {None} /\ ctx.cur \in Images \cup {None}
  BY DEF ContextState

LEMMA NoneIsNoImage == None \notin Images /\ Images \subseteq Nat
  BY ConstantsAssumption DEF None, Images

IsHeld(d, i, h, e) ==
  /\ e \in ImageState /\ e.inFlight = d.inFlight /\ e.items = d.items
  /\ \A j \in Images : e.refs[j] = IF j = i THEN d.refs[j] \cup {h} ELSE d.refs[j]

WasLast(d, i, h) == i # None /\ d.refs[i] \subseteq {h} /\ advanced
IsDropped(d, i, h, e) ==
  /\ e \in ImageState /\ e.inFlight = d.inFlight
  /\ WasLast(d, i, h) => e.items = Append(d.items, "free")
  /\ ~WasLast(d, i, h) => e.items = d.items
  /\ \A j \in Images : e.refs[j] = IF j = i THEN d.refs[j] \ {h} ELSE d.refs[j]

LEMMA HoldIs ==
  ASSUME NEW d \in ImageState, NEW i \in Images \cup {None}, NEW h \in Holders
  PROVE  IsHeld(d, i, h, Hold(d, i, h))
<1>1. CASE i = None
  BY <1>1, NoneIsNoImage DEF Hold, IsHeld
<1>2. CASE i # None
  <2>1. i \in Images
    BY <1>2
  <2>2. Hold(d, i, h) = [d EXCEPT !.refs[i] = @ \cup {h}]
    BY <1>2 DEF Hold
  <2>3. [d.refs EXCEPT ![i] = @ \cup {h}] \in [Images -> SUBSET Holders]
    BY <2>1 DEF ImageState
  <2>4. /\ Hold(d, i, h) \in ImageState
        /\ Hold(d, i, h).inFlight = d.inFlight /\ Hold(d, i, h).items = d.items
        /\ Hold(d, i, h).refs = [d.refs EXCEPT ![i] = @ \cup {h}]
    BY <2>2, <2>3 DEF ImageState
  <2>5. QED
    BY <2>1, <2>4 DEF ImageState, IsHeld
<1>3. QED
  BY <1>1, <1>2

LEMMA DropIs ==
  ASSUME NEW d \in ImageState, NEW i \in Images \cup {None}, NEW h \in Holders
  PROVE  IsDropped(d, i, h, Drop(d, i, h))
<1>1. CASE i = None
  BY <1>1, NoneIsNoImage DEF Drop, WasLast, IsDropped
<1>2. CASE i # None
  <2> DEFINE e == [d EXCEPT !.refs[i] = @ \ {h}]
  <2>1. i \in Images
    BY <1>2
  <2>2. /\ e \in ImageState /\ e.inFlight = d.inFlight /\ e.items = d.items
        /\ \A j \in Images : e.refs[j] = IF j = i THEN d.refs[j] \ {h} ELSE d.refs[j]
    BY <2>1 DEF ImageState
  <2>3. Drop(d, i, h) = IF e.refs[i] = {} /\ advanced
                          THEN [e EXCEPT !.items = Append(@, "free")] ELSE e
    BY <1>2 DEF Drop
  <2>4. e.refs[i] = {} <=> d.refs[i] \subseteq {h}
    BY <2>1, <2>2
  <2> HIDE DEF e
  <2>5. CASE e.refs[i] = {} /\ advanced
    <3>1. Drop(d, i, h) = [e EXCEPT !.items = Append(@, "free")]
      BY <2>3, <2>5
    <3>2. Append(e.items, "free") \in Seq({"image", "free", "screenshot"})
      BY <2>2 DEF ImageState
    <3>3. QED
      BY <1>2, <2>2, <2>4, <2>5, <3>1, <3>2 DEF ImageState, WasLast, IsDropped
  <2>6. CASE ~(e.refs[i] = {} /\ advanced)
    BY <1>2, <2>2, <2>3, <2>4, <2>6 DEF WasLast, IsDropped
  <2>7. QED
    BY <2>5, <2>6
<1>3. QED
  BY <1>1, <1>2

(* dr_in_flight is right if it was, as long as nobody takes a reference to *)
(* an image that nobody holds.                                             *)
LEMMA LiveAndFreesAreFinite ==
  ASSUME NEW d \in ImageState
  PROVE  /\ IsFiniteSet(Live(d)) /\ IsFiniteSet(Frees(d))
         /\ Cardinality(Live(d)) \in Nat /\ Cardinality(Frees(d)) \in Nat
<1>1. IsFiniteSet(Images)
  BY ConstantsAssumption, FS_Interval DEF Images
<1>2. Len(d.items) \in Nat
  BY DEF ImageState
<1>3. IsFiniteSet(1 .. Len(d.items))
  BY <1>2, FS_Interval
<1>4. Live(d) \in SUBSET Images /\ Frees(d) \in SUBSET (1 .. Len(d.items))
  BY DEF Live, Frees
<1>5. IsFiniteSet(Live(d)) /\ IsFiniteSet(Frees(d))
  BY <1>1, <1>3, <1>4, FS_Subset
<1>6. QED
  BY <1>5, FS_CardinalityType

LEMMA AppendFrees ==
  ASSUME NEW d \in ImageState, NEW e \in ImageState, NEW x,
         e.items = Append(d.items, x), x \in {"image", "free", "screenshot"}
  PROVE  Cardinality(Frees(e)) = Cardinality(Frees(d)) + (IF x = "free" THEN 1 ELSE 0)
<1> DEFINE n == Len(d.items) + 1
<1>1. Len(d.items) \in Nat /\ Len(e.items) = n
  BY DEF ImageState
<1>2. \A k \in 1 .. n : e.items[k] = IF k = n THEN x ELSE d.items[k]
  BY <1>1 DEF ImageState
<1>3. n \notin Frees(d)
  BY <1>1 DEF Frees
<1>4. CASE x = "free"
  <2>1. Frees(e) = Frees(d) \cup {n}
    BY <1>1, <1>2, <1>4 DEF Frees
  <2>2. QED
    BY <1>3, <1>4, <2>1, LiveAndFreesAreFinite, FS_AddElement
<1>5. CASE x # "free"
  <2>1. Frees(e) = Frees(d)
    BY <1>1, <1>2, <1>5 DEF Frees
  <2>2. QED
    BY <1>5, <2>1, LiveAndFreesAreFinite
<1>6. QED
  BY <1>4, <1>5

LEMMA TailFrees ==
  ASSUME NEW d \in ImageState, NEW e \in ImageState,
         d.items # <<>>, e.items = Tail(d.items)
  PROVE  Cardinality(Frees(d)) =
           Cardinality(Frees(e)) + (IF Head(d.items) = "free" THEN 1 ELSE 0)
<1> DEFINE n == Len(d.items)
           R == Frees(d) \ {1}
           f == [k \in Frees(e) |-> k + 1]
<1>1. n \in Nat \ {0} /\ Len(e.items) = n - 1 /\ Head(d.items) = d.items[1]
  BY DEF ImageState
<1>2. \A k \in 1 .. n - 1 : e.items[k] = d.items[k + 1]
  BY <1>1 DEF ImageState
<1>3. Frees(e) = {k \in 1 .. n - 1 : d.items[k + 1] = "free"}
  BY <1>1, <1>2 DEF Frees
<1>4. R = {k \in 2 .. n : d.items[k] = "free"}
  BY <1>1 DEF Frees
<1>5. f \in Bijection(Frees(e), R)
  <2>1. f \in [Frees(e) -> R]
    BY <1>1, <1>3, <1>4
  <2>2. \A k, l \in Frees(e) : f[k] = f[l] => k = l
    BY <1>1, <1>3
  <2>3. \A l \in R : \E k \in Frees(e) : f[k] = l
    <3> SUFFICES ASSUME NEW l \in R PROVE \E k \in Frees(e) : f[k] = l
      OBVIOUS
    <3>1. l - 1 \in Frees(e) /\ (l - 1) + 1 = l
      BY <1>1, <1>3, <1>4
    <3>2. f[l - 1] = l
      BY <3>1
    <3>3. QED
      BY <3>1, <3>2
  <2>4. QED
    BY <2>1, <2>2, <2>3, Fun_IsBij
<1>6. Cardinality(R) = Cardinality(Frees(e))
  BY <1>5, LiveAndFreesAreFinite, FS_Bijection, Fun_ExistsBij
<1>7. Cardinality(R) = IF 1 \in Frees(d) THEN Cardinality(Frees(d)) - 1 ELSE Cardinality(Frees(d))
  BY LiveAndFreesAreFinite, FS_RemoveElement
<1>8. 1 \in Frees(d) <=> Head(d.items) = "free"
  BY <1>1 DEF Frees
<1>9. QED
  BY <1>6, <1>7, <1>8, LiveAndFreesAreFinite

LEMMA HoldBalanced ==
  ASSUME NEW d \in ImageState, NEW i \in Images \cup {None}, NEW h \in Holders,
         Balanced(d), advanced \in BOOLEAN, i # None => d.refs[i] # {}
  PROVE  Balanced(Hold(d, i, h))
<1> DEFINE e == Hold(d, i, h)
<1>a. IsHeld(d, i, h, e)
  BY HoldIs
<1> SUFFICES Balanced(e)
  OBVIOUS
<1> HIDE DEF e
<1>0. /\ e.inFlight = d.inFlight /\ e.items = d.items
      /\ \A j \in Images : e.refs[j] = IF j = i THEN d.refs[j] \cup {h} ELSE d.refs[j]
  BY <1>a DEF IsHeld
<1>1. \A j \in Images : e.refs[j] = {} <=> d.refs[j] = {}
  BY <1>0, NoneIsNoImage
<1>2. Live(e) = Live(d) /\ Frees(e) = Frees(d)
  BY <1>0, <1>1 DEF Live, Frees
<1>3. QED
  BY <1>0, <1>2 DEF Balanced

LEMMA DropBalanced ==
  ASSUME NEW d \in ImageState, NEW i \in Images \cup {None}, NEW h \in Holders,
         Balanced(d), advanced \in BOOLEAN, i # None => d.refs[i] # {}
  PROVE  Balanced(Drop(d, i, h))
<1> DEFINE e == Drop(d, i, h)
<1>0. IsDropped(d, i, h, e)
  BY DropIs
<1> SUFFICES Balanced(e)
  OBVIOUS
<1> HIDE DEF e
<1>b. e \in ImageState /\ e.inFlight = d.inFlight
  BY <1>0 DEF IsDropped
<1>c. \A j \in Images : e.refs[j] = IF j = i THEN d.refs[j] \ {h} ELSE d.refs[j]
  BY <1>0 DEF IsDropped
<1>1. CASE ~advanced
  BY <1>0, <1>1, <1>b DEF Balanced, WasLast, IsDropped
<1>2. CASE advanced /\ i # None /\ d.refs[i] \subseteq {h}
  <2>1. i \in Images /\ i \in Live(d)
    BY <1>2 DEF Live
  <2>2. Live(e) = Live(d) \ {i}
    BY <1>c, <1>2, <2>1 DEF Live
  <2>3. e.items = Append(d.items, "free")
    BY <1>0, <1>2 DEF WasLast, IsDropped
  <2>4. Cardinality(Frees(e)) = Cardinality(Frees(d)) + 1
    BY <1>b, <2>3, AppendFrees
  <2>5. IsFiniteSet(Live(d)) /\ Cardinality(Live(d)) \in Nat /\ Cardinality(Frees(d)) \in Nat
    BY LiveAndFreesAreFinite
  <2>6. Cardinality(Live(e)) = Cardinality(Live(d)) - 1
    BY <2>1, <2>2, <2>5, FS_RemoveElement
  <2>7. QED
    BY <1>b, <1>2, <2>4, <2>5, <2>6 DEF Balanced
<1>3. CASE advanced /\ (i = None \/ ~(d.refs[i] \subseteq {h}))
  <2>1. e.items = d.items
    BY <1>0, <1>3 DEF WasLast, IsDropped
  <2>2. ASSUME NEW j \in Images PROVE e.refs[j] = {} <=> d.refs[j] = {}
    <3>1. CASE j = i
      BY <1>c, <1>3, <3>1, NoneIsNoImage
    <3>2. CASE j # i
      BY <1>c, <3>2
    <3>3. QED
      BY <3>1, <3>2
  <2>3. Live(e) = Live(d)
    BY <2>2 DEF Live
  <2>4. QED
    BY <1>b, <1>3, <2>1, <2>3 DEF Balanced, Frees
<1>4. QED
  BY <1>1, <1>2, <1>3

(* A step made of such moves: nothing but images that are to be freed gets *)
(* into the dispatch queue.                                                *)
Moved(d, e) ==
  /\ e \in ImageState /\ e.inFlight = d.inFlight
  /\ Balanced(d) => Balanced(e)
  /\ \A i \in Images : d.refs[i] = {} => e.refs[i] = {}
  /\ Len(d.items) <= Len(e.items)
  /\ \A k \in 1 .. Len(d.items) : e.items[k] = d.items[k]
  /\ \A k \in 1 .. Len(e.items) : k > Len(d.items) => e.items[k] = "free"
  /\ ~advanced => e.items = d.items
  /\ Len(e.items) = Len(d.items) => e.items = d.items

LEMMA HoldMoves ==
  ASSUME NEW d \in ImageState, NEW i \in Images \cup {None}, NEW h \in Holders,
         advanced \in BOOLEAN, i # None => d.refs[i] # {}
  PROVE  Moved(d, Hold(d, i, h))
<1> DEFINE e == Hold(d, i, h)
<1>1. IsHeld(d, i, h, e)
  BY HoldIs
<1>2. Balanced(d) => Balanced(e)
  BY HoldBalanced
<1> SUFFICES Moved(d, e)
  OBVIOUS
<1> HIDE DEF e
<1> USE DEF IsHeld
<1>3. \A j \in Images : d.refs[j] = {} => e.refs[j] = {}
  BY <1>1, NoneIsNoImage
<1>4. Len(d.items) \in Nat
  BY DEF ImageState
<1>5. QED
  BY <1>1, <1>2, <1>3, <1>4 DEF Moved

LEMMA DropMoves ==
  ASSUME NEW d \in ImageState, NEW i \in Images \cup {None}, NEW h \in Holders,
         advanced \in BOOLEAN, i # None => d.refs[i] # {}
  PROVE  Moved(d, Drop(d, i, h))
<1> DEFINE e == Drop(d, i, h)
<1>1. IsDropped(d, i, h, e)
  BY DropIs
<1>2. Balanced(d) => Balanced(e)
  BY DropBalanced
<1> SUFFICES Moved(d, e)
  OBVIOUS
<1> HIDE DEF e
<1>a. e \in ImageState /\ e.inFlight = d.inFlight
  BY <1>1 DEF IsDropped
<1>3. \A j \in Images : d.refs[j] = {} => e.refs[j] = {}
  BY <1>1 DEF IsDropped
<1>4. Len(d.items) \in Nat
  BY DEF ImageState
<1>5. CASE e.items = d.items
  BY <1>a, <1>2, <1>3, <1>4, <1>5 DEF Moved
<1>6. CASE advanced /\ e.items = Append(d.items, "free")
  <2>1. Len(e.items) = Len(d.items) + 1
    BY <1>6 DEF ImageState
  <2>2. \A k \in 1 .. Len(e.items) : e.items[k] = IF k = Len(d.items) + 1 THEN "free" ELSE d.items[k]
    BY <1>4, <1>6, <2>1 DEF ImageState
  <2>3. /\ \A k \in 1 .. Len(d.items) : e.items[k] = d.items[k]
        /\ \A k \in 1 .. Len(e.items) : k > Len(d.items) => e.items[k] = "free"
        /\ Len(d.items) <= Len(e.items) /\ Len(e.items) # Len(d.items)
    BY <1>4, <2>1, <2>2
  <2>4. QED
    BY <1>a, <1>2, <1>3, <1>6, <2>3 DEF Moved
<1>7. QED
  BY <1>1, <1>5, <1>6 DEF WasLast, IsDropped

LEMMA MovesAdd ==
  ASSUME NEW c \in ImageState, NEW d \in ImageState, NEW e, Moved(c, d), Moved(d, e)
  PROVE  Moved(c, e)
<1>1. Len(c.items) \in Nat /\ Len(d.items) \in Nat /\ e \in ImageState /\ Len(e.items) \in Nat
  BY DEF ImageState, Moved
<1>2. QED
  BY <1>1 DEF Moved

LEMMA HeldMembers ==
  ASSUME NEW d \in ImageState, NEW i \in Images \cup {None}, NEW h \in Holders
  PROVE  /\ Hold(d, i, h) \in ImageState
         /\ \A g \in Holders, j \in Images :
              g \in Hold(d, i, h).refs[j] <=> g \in d.refs[j] \/ (j = i /\ g = h)
<1>1. IsHeld(d, i, h, Hold(d, i, h))
  BY HoldIs
<1>2. QED
  BY <1>1 DEF IsHeld

LEMMA DroppedMembers ==
  ASSUME NEW d \in ImageState, NEW i \in Images \cup {None}, NEW h \in Holders
  PROVE  /\ Drop(d, i, h) \in ImageState
         /\ \A g \in Holders, j \in Images :
              g \in Drop(d, i, h).refs[j] <=> g \in d.refs[j] /\ ~(j = i /\ g = h)
<1>1. IsDropped(d, i, h, Drop(d, i, h))
  BY DropIs
<1>2. QED
  BY <1>1 DEF IsDropped

(* One such move, ready to be used.                                        *)
With(d, i, h, e) ==
  /\ Moved(d, e) /\ e \in ImageState
  /\ \A g \in Holders, j \in Images : g \in e.refs[j] <=> g \in d.refs[j] \/ (j = i /\ g = h)

Without(d, i, h, e) ==
  /\ Moved(d, e) /\ e \in ImageState
  /\ \A g \in Holders, j \in Images : g \in e.refs[j] <=> g \in d.refs[j] /\ ~(j = i /\ g = h)

LEMMA HoldStep ==
  ASSUME NEW d \in ImageState, NEW i \in Images \cup {None}, NEW h \in Holders,
         advanced \in BOOLEAN, i # None => d.refs[i] # {}
  PROVE  With(d, i, h, Hold(d, i, h))
<1>1. Moved(d, Hold(d, i, h))
  BY HoldMoves
<1>2. QED
  BY <1>1, HeldMembers DEF With

LEMMA DropStep ==
  ASSUME NEW d \in ImageState, NEW i \in Images \cup {None}, NEW h \in Holders,
         advanced \in BOOLEAN, i # None => d.refs[i] # {}
  PROVE  Without(d, i, h, Drop(d, i, h))
<1>1. Moved(d, Drop(d, i, h))
  BY DropMoves
<1>2. QED
  BY <1>1, DroppedMembers DEF Without

(* What such a step keeps.                                                 *)
LEMMA MovedKeeps ==
  ASSUME TypeOK, ItemInv, FlightInv, FreshInv, Moved(images, images'),
         UNCHANGED <<advanced, corePc>>, counts'.images = counts.images,
         decPc = "request" <=> decPc' = "request",
         voPc = "control" => voPc' = "control"
  PROVE  ItemInv' /\ FlightInv' /\ FreshInv'
<1>1. images \in ImageState /\ images' \in ImageState
  BY DEF TypeOK, Moved
<1>2. Len(images.items) \in Nat /\ Len(images'.items) \in Nat
  BY <1>1 DEF ImageState
<1>3. ItemInv'
  <2>1. \A k \in 1 .. Len(images'.items) :
           images'.items[k] # "free" => k \in 1 .. Len(images.items) /\ images'.items[k] = images.items[k]
    BY <1>2 DEF Moved
  <2>2. QED
    BY <2>1 DEF ItemInv
<1>4. FreshInv'
  BY DEF FreshInv, Moved
<1>5. FlightInv'
  <2>1. Balanced(images')
    BY DEF FlightInv, Moved
  <2>2. Balanced(images)'
    BY <2>1 DEF Balanced, Live, Frees
  <2>3. QED
    BY <2>2 DEF FlightInv, Moved
<1>6. QED
  BY <1>3, <1>4, <1>5

LEMMA NothingRequested ==
  ASSUME TypeOK, Moved(images, images'), ~Requested(images')
  PROVE  images'.items = images.items
<1>1. images \in ImageState /\ images' \in ImageState
  BY DEF TypeOK, Moved
<1>2. Len(images.items) \in Nat /\ Len(images'.items) \in Nat
  BY <1>1 DEF ImageState
<1>3. QED
  BY <1>2 DEF Moved, Requested

(* ctx->next_frame becomes ctx->cur_frame.                                 *)
MadeCur(d, e) ==
  /\ Moved(d, e) /\ e \in ImageState
  /\ \A j \in Images :
       /\ "cur" \in e.refs[j] <=> j = ctx.next \/ ("cur" \in d.refs[j] /\ j # ctx.cur)
       /\ "next" \in e.refs[j] <=> "next" \in d.refs[j] /\ j # ctx.next
       /\ \A g \in {"decoder", "queue", "vo", "render", "shot"} : g \in e.refs[j] <=> g \in d.refs[j]

LEMMA MakeCurStep ==
  ASSUME NEW d \in ImageState, ctx \in ContextState, advanced \in BOOLEAN,
         ctx.cur # None => "cur" \in d.refs[ctx.cur],
         ctx.next # None => "next" \in d.refs[ctx.next]
  PROVE  MadeCur(d, MakeCur(d))
<1> DEFINE a == Drop(d, ctx.cur, "cur")
           b == Hold(a, ctx.next, "cur")
           e == Drop(b, ctx.next, "next")
<1>1. /\ ctx.cur \in Images \cup {None} /\ ctx.next \in Images \cup {None}
      /\ "cur" \in Holders /\ "next" \in Holders
  BY ContextTypes DEF Holders
<1>2. MakeCur(d) = e
  BY DEF MakeCur
<1>3. Without(d, ctx.cur, "cur", a)
  BY <1>1, DropStep
<1> HIDE DEF a
<1>4. a \in ImageState /\ (ctx.next # None => a.refs[ctx.next] # {})
  BY <1>1, <1>3 DEF Without
<1>5. With(a, ctx.next, "cur", b)
  BY <1>1, <1>4, HoldStep
<1> HIDE DEF b
<1>6. b \in ImageState /\ (ctx.next # None => b.refs[ctx.next] # {})
  BY <1>1, <1>5 DEF With
<1>7. Without(b, ctx.next, "next", e)
  BY <1>1, <1>6, DropStep
<1> HIDE DEF e
<1>8. Moved(d, b)
  BY <1>3, <1>4, <1>5, MovesAdd DEF With, Without
<1>9. Moved(d, e)
  BY <1>6, <1>7, <1>8, MovesAdd DEF Without
<1>10. MadeCur(d, e)
  BY <1>1, <1>3, <1>5, <1>7, <1>9 DEF MadeCur, With, Without, Holders
<1>11. QED
  BY <1>2, <1>10

(* The queue before the VO without its first frame.                        *)
LEMMA TailOfQueue ==
  ASSUME queued \in Seq(Images), queued # <<>>, queued' = Tail(queued), OnceInv
  PROVE  /\ queued' \in Seq(Images) /\ Head(queued) = queued[1] /\ Head(queued) \in Images
         /\ \A j \in Images : (\E k \in 1 .. Len(queued') : queued'[k] = j)
                             <=> (\E k \in 1 .. Len(queued) : queued[k] = j) /\ j # Head(queued)
         /\ \A k, l \in 1 .. Len(queued') : queued'[k] = queued'[l] => k = l
         /\ \A k \in 1 .. Len(queued') : /\ queued'[k] <= counts.images
                                         /\ decPc # "idle" => queued'[k] < counts.images
                                         /\ queued'[k] # Head(queued)
                                         /\ \E l \in 1 .. Len(queued) : queued'[k] = queued[l]
<1>1. /\ queued' \in Seq(Images) /\ Len(queued) \in Nat \ {0}
      /\ Len(queued') = Len(queued) - 1 /\ Head(queued) = queued[1] /\ queued[1] \in Images
      /\ \A k \in 1 .. Len(queued') : queued'[k] = queued[k + 1]
  OBVIOUS
<1>2. \A k \in 1 .. Len(queued') : k + 1 \in 2 .. Len(queued)
  BY <1>1
<1>3. \A k \in 2 .. Len(queued) : k - 1 \in 1 .. Len(queued') /\ (k - 1) + 1 = k
  BY <1>1
<1>4. \A k \in 2 .. Len(queued) : queued'[k - 1] = queued[k]
  BY <1>1, <1>3
<1>5. \A k, l \in 1 .. Len(queued') : queued'[k] = queued'[l] => k = l
  BY <1>1, <1>2 DEF OnceInv
<1>6. \A k \in 1 .. Len(queued') : /\ queued'[k] <= counts.images
                                   /\ decPc # "idle" => queued'[k] < counts.images
                                   /\ queued'[k] # Head(queued)
                                   /\ \E l \in 1 .. Len(queued) : queued'[k] = queued[l]
  BY <1>1, <1>2 DEF OnceInv
<1>7. ASSUME NEW j \in Images
      PROVE  (\E k \in 1 .. Len(queued') : queued'[k] = j)
               <=> (\E k \in 1 .. Len(queued) : queued[k] = j) /\ j # Head(queued)
  <2>1. ASSUME NEW k \in 1 .. Len(queued), queued[k] = j, j # Head(queued)
        PROVE  \E l \in 1 .. Len(queued') : queued'[l] = j
    <3>1. k \in 2 .. Len(queued)
      BY <1>1, <2>1
    <3>2. QED
      BY <1>3, <1>4, <2>1, <3>1
  <2>2. QED
    BY <1>1, <1>2, <1>6, <2>1
<1>8. QED
  BY <1>1, <1>5, <1>6, <1>7

-----------------------------------------------------------------------------
(* Steps that touch no image.                                              *)

LEMMA ImagesKept ==
  ASSUME RenderInv,
         UNCHANGED <<advanced, images, current, queued, decPc, shotPc>>,
         counts'.images = counts.images, ctx'.next = ctx.next, ctx'.cur = ctx.cur,
         renderPc = "render" => renderPc' = "render",
         voPc = "control" => voPc' = "control",
         corePc' = "control" => corePc = "control" \/ advanced
  PROVE  HolderInv' /\ OnceInv' /\ FreshInv' /\ ItemInv' /\ FlightInv'
<1> USE DEF RenderInv
<1>1. HolderInv' /\ OnceInv'
  BY DEF HolderInv, OnceInv, HeldBy
<1>2. FreshInv' /\ ItemInv'
  BY DEF FreshInv, ItemInv
<1>3. Balanced(images)'
  BY DEF FlightInv, Balanced, Live, Frees
<1>4. FlightInv'
  BY <1>3 DEF FlightInv
<1>5. QED
  BY <1>1, <1>2, <1>4

LEMMA UpdateKeeps ==
  ASSUME RenderInv, NEW t, Update(t)
  PROVE  RenderInv'
<1> USE DEF RenderInv
<1>1. TypeOK'
  BY DEF renderVars, voVars, coreVars, Update, TypeOK
<1>2. VoInv'
  BY DEF renderVars, voVars, coreVars, Update, VoInv, VoPlaces, Drawing
<1>3. ChainInv'
  BY DEF renderVars, voVars, coreVars, Update, ChainInv, Drawing
<1>4. ContextInv'
  BY DEF renderVars, voVars, coreVars, Update, ContextInv, Drawing
<1>5. HolderInv' /\ OnceInv' /\ FreshInv' /\ ItemInv' /\ FlightInv'
  BY ImagesKept DEF renderVars, voVars, coreVars, Update
<1>6. FreedInv'
  BY DEF renderVars, voVars, coreVars, Update, FreedInv
<1>7. ApplicationIsTold'
  BY DEF renderVars, voVars, coreVars, Update, ApplicationIsTold
<1>8. QED
  BY <1>1, <1>2, <1>3, <1>4, <1>5, <1>6, <1>7

LEMMA PreinitKeeps ==
  ASSUME RenderInv, Preinit
  PROVE  RenderInv'
<1> USE DEF RenderInv
<1>a. /\ voPc = "preinit" /\ ctx' \in ContextState
      /\ ctx'.set = ctx.set /\ ctx'.locked = ctx.locked /\ ctx'.next = ctx.next
      /\ ctx'.cur = ctx.cur
      /\ \/ voPc' = "loop" /\ ctx'.inUse = TRUE /\ ctx.set = TRUE
         \/ voPc' = "failed" /\ ctx'.inUse = ctx.inUse
  BY ContextTypes DEF Preinit, TypeOK, ContextState
<1>b. UNCHANGED <<VoFrame, images, interrupted, told, current, queued, waking, counts>>
  BY DEF Preinit
<1>1. TypeOK'
  BY <1>a, <1>b, ContextTypes DEF VoFrame, FlipFrame, coreVars, TypeOK
<1>2. VoInv'
  BY <1>a, <1>b, ContextTypes
  DEF VoFrame, FlipFrame, coreVars, TypeOK, VoInv, VoPlaces, Drawing
<1>3. ChainInv'
  BY <1>a, <1>b, ContextTypes
  DEF VoFrame, FlipFrame, coreVars, TypeOK, ChainInv, Drawing
<1>4. ContextInv'
  BY <1>a, <1>b, ContextTypes
  DEF VoFrame, FlipFrame, coreVars, TypeOK, ContextInv, Drawing
<1>5. HolderInv' /\ OnceInv' /\ FreshInv' /\ ItemInv' /\ FlightInv'
  BY <1>a, <1>b, ContextTypes, ImagesKept DEF VoFrame, FlipFrame, coreVars, TypeOK
<1>6. FreedInv'
  BY <1>a, <1>b, ContextTypes DEF VoFrame, FlipFrame, coreVars, TypeOK, FreedInv
<1>7. ApplicationIsTold'
  BY <1>a, <1>b, ContextTypes
  DEF VoFrame, FlipFrame, coreVars, TypeOK, ApplicationIsTold
<1>8. QED
  BY <1>1, <1>2, <1>3, <1>4, <1>5, <1>6, <1>7

LEMMA FlipPageKeeps ==
  ASSUME RenderInv, FlipPage
  PROVE  RenderInv'
<1> USE DEF RenderInv
<1>1. TypeOK'
  BY DEF coreVars, Free, FlipFrame, VoFrame, FlipPage, TypeOK
<1>2. VoInv'
  BY DEF coreVars, Free, FlipFrame, VoFrame, FlipPage, VoInv, VoPlaces, Drawing
<1>3. ChainInv'
  BY DEF coreVars, Free, FlipFrame, VoFrame, FlipPage, ChainInv, Drawing
<1>4. ContextInv'
  BY DEF coreVars, Free, FlipFrame, VoFrame, FlipPage, ContextInv, Drawing
<1>5. HolderInv' /\ OnceInv' /\ FreshInv' /\ ItemInv' /\ FlightInv'
  BY ImagesKept DEF coreVars, Free, FlipFrame, VoFrame, FlipPage
<1>6. FreedInv'
  BY DEF coreVars, Free, FlipFrame, VoFrame, FlipPage, FreedInv
<1>7. ApplicationIsTold'
  BY DEF coreVars, Free, FlipFrame, VoFrame, FlipPage, ApplicationIsTold
<1>8. QED
  BY <1>1, <1>2, <1>3, <1>4, <1>5, <1>6, <1>7

LEMMA PresentedKeeps ==
  ASSUME RenderInv, Presented
  PROVE  RenderInv'
<1> USE DEF RenderInv
<1>1. TypeOK'
  BY DEF coreVars, FlipFrame, Present, Presented, TypeOK
<1>2. VoInv'
  BY DEF coreVars, FlipFrame, Present, Presented, VoInv, VoPlaces, Drawing
<1>3. ChainInv'
  BY DEF coreVars, FlipFrame, Present, Presented, ChainInv, Drawing
<1>4. ContextInv'
  BY DEF coreVars, FlipFrame, Present, Presented, ContextInv, Drawing
<1>5. HolderInv' /\ OnceInv' /\ FreshInv' /\ ItemInv' /\ FlightInv'
  BY ImagesKept DEF coreVars, FlipFrame, Present, Presented
<1>6. FreedInv'
  BY DEF coreVars, FlipFrame, Present, Presented, FreedInv
<1>7. ApplicationIsTold'
  BY DEF coreVars, FlipFrame, Present, Presented, ApplicationIsTold
<1>8. QED
  BY <1>1, <1>2, <1>3, <1>4, <1>5, <1>6, <1>7

LEMMA SwappedKeeps ==
  ASSUME RenderInv, Swapped
  PROVE  RenderInv'
<1> USE DEF RenderInv
<1>1. TypeOK'
  BY DEF coreVars, FlipFrame, VoFrame, Swapped, TypeOK
<1>2. VoInv'
  BY DEF coreVars, FlipFrame, VoFrame, Swapped, VoInv, VoPlaces, Drawing
<1>3. ChainInv'
  BY DEF coreVars, FlipFrame, VoFrame, Swapped, ChainInv, Drawing
<1>4. ContextInv'
  BY DEF coreVars, FlipFrame, VoFrame, Swapped, ContextInv, Drawing
<1>5. HolderInv' /\ OnceInv' /\ FreshInv' /\ ItemInv' /\ FlightInv'
  BY ImagesKept DEF coreVars, FlipFrame, VoFrame, Swapped
<1>6. FreedInv'
  BY DEF coreVars, FlipFrame, VoFrame, Swapped, FreedInv
<1>7. ApplicationIsTold'
  BY DEF coreVars, FlipFrame, VoFrame, Swapped, ApplicationIsTold
<1>8. QED
  BY <1>1, <1>2, <1>3, <1>4, <1>5, <1>6, <1>7

LEMMA UninitInterruptKeeps ==
  ASSUME RenderInv, UninitInterrupt
  PROVE  RenderInv'
<1> USE DEF RenderInv
<1>a. /\ ctx' \in ContextState /\ ctx'.next = ctx.next /\ ctx'.cur = ctx.cur
      /\ ctx'.locked = FALSE /\ ctx'.inUse = ctx.inUse /\ ctx'.set = ctx.set
  BY DEF coreVars, FlipFrame, VoFrame, Interrupt, UninitInterrupt, TypeOK, ContextState
<1>1. TypeOK'
  BY <1>a DEF coreVars, FlipFrame, VoFrame, Interrupt, UninitInterrupt, TypeOK
<1>2. VoInv'
  BY <1>a
  DEF coreVars, FlipFrame, VoFrame, Interrupt, UninitInterrupt, VoInv, VoPlaces, Drawing
<1>3. ChainInv'
  BY <1>a
  DEF coreVars, FlipFrame, VoFrame, Interrupt, UninitInterrupt, ChainInv, Drawing
<1>4. ContextInv'
  BY <1>a
  DEF coreVars, FlipFrame, VoFrame, Interrupt, UninitInterrupt, ContextInv, Drawing
<1>5. HolderInv' /\ OnceInv' /\ FreshInv' /\ ItemInv' /\ FlightInv'
  BY <1>a, ImagesKept DEF coreVars, FlipFrame, VoFrame, Interrupt, UninitInterrupt
<1>6. FreedInv'
  BY <1>a DEF coreVars, FlipFrame, VoFrame, Interrupt, UninitInterrupt, FreedInv
<1>7. ApplicationIsTold'
  BY <1>a
  DEF coreVars, FlipFrame, VoFrame, Interrupt, UninitInterrupt, ApplicationIsTold
<1>8. QED
  BY <1>1, <1>2, <1>3, <1>4, <1>5, <1>6, <1>7

LEMMA CreateVoKeeps ==
  ASSUME RenderInv, CreateVo
  PROVE  RenderInv'
<1> USE DEF RenderInv
<1>1. TypeOK'
  BY DEF renderVars, CoreFrame, CreateVo, TypeOK
<1>2. VoInv'
  BY DEF renderVars, CoreFrame, CreateVo, VoInv, VoPlaces, Drawing
<1>3. ChainInv'
  BY DEF renderVars, CoreFrame, CreateVo, ChainInv, Drawing
<1>4. ContextInv'
  BY DEF renderVars, CoreFrame, CreateVo, ContextInv, Drawing
<1>5. HolderInv' /\ OnceInv' /\ FreshInv' /\ ItemInv' /\ FlightInv'
  BY ImagesKept DEF renderVars, CoreFrame, CreateVo
<1>6. FreedInv'
  BY DEF renderVars, CoreFrame, CreateVo, FreedInv
<1>7. ApplicationIsTold'
  BY DEF renderVars, CoreFrame, CreateVo, ApplicationIsTold
<1>8. QED
  BY <1>1, <1>2, <1>3, <1>4, <1>5, <1>6, <1>7

LEMMA VoCreatedKeeps ==
  ASSUME RenderInv, VoCreated
  PROVE  RenderInv'
<1> USE DEF RenderInv
<1>1. TypeOK'
  BY DEF renderVars, CoreFrame, VoCreated, TypeOK
<1>2. VoInv'
  BY DEF renderVars, CoreFrame, VoCreated, VoInv, VoPlaces, Drawing
<1>3. ChainInv'
  BY DEF renderVars, CoreFrame, VoCreated, ChainInv, Drawing
<1>4. ContextInv'
  BY DEF renderVars, CoreFrame, VoCreated, ContextInv, Drawing
<1>5. HolderInv' /\ OnceInv' /\ FreshInv' /\ ItemInv' /\ FlightInv'
  BY ImagesKept DEF renderVars, CoreFrame, VoCreated
<1>6. FreedInv'
  BY DEF renderVars, CoreFrame, VoCreated, FreedInv
<1>7. ApplicationIsTold'
  BY DEF renderVars, CoreFrame, VoCreated, ApplicationIsTold
<1>8. QED
  BY <1>1, <1>2, <1>3, <1>4, <1>5, <1>6, <1>7

LEMMA UninitVideoOutKeeps ==
  ASSUME RenderInv, UninitVideoOut
  PROVE  RenderInv'
<1> USE DEF RenderInv
<1>1. TypeOK'
  <2>1. advanced' \in BOOLEAN /\ interrupted' \in BOOLEAN /\ told' \in BOOLEAN
    BY DEF renderVars, voVars, CoreFrame, UninitVideoOut, TypeOK
  <2>2. wants' \in BOOLEAN /\ stopVo' \in BOOLEAN /\ kill' \in BOOLEAN
    BY DEF renderVars, voVars, CoreFrame, UninitVideoOut, TypeOK
  <2>3. QED
    BY <2>1, <2>2 DEF renderVars, voVars, CoreFrame, UninitVideoOut, TypeOK
<1>2. VoInv'
  BY DEF renderVars, voVars, CoreFrame, UninitVideoOut, VoInv, VoPlaces, Drawing
<1>3. ChainInv'
  BY DEF renderVars, voVars, CoreFrame, UninitVideoOut, ChainInv, Drawing
<1>4. ContextInv'
  BY DEF renderVars, voVars, CoreFrame, UninitVideoOut, ContextInv, Drawing
<1>5. HolderInv' /\ OnceInv' /\ FreshInv' /\ ItemInv' /\ FlightInv'
  BY ImagesKept DEF renderVars, voVars, CoreFrame, UninitVideoOut
<1>6. FreedInv'
  BY DEF renderVars, voVars, CoreFrame, UninitVideoOut, FreedInv
<1>7. ApplicationIsTold'
  BY DEF renderVars, voVars, CoreFrame, UninitVideoOut, ApplicationIsTold
<1>8. QED
  BY <1>1, <1>2, <1>3, <1>4, <1>5, <1>6, <1>7

LEMMA DestroyVoKeeps ==
  ASSUME RenderInv, DestroyVo
  PROVE  RenderInv'
<1> USE DEF RenderInv
<1>1. TypeOK'
  BY DEF renderVars, voVars, Free, CoreFrame, DestroyVo, TypeOK
<1>2. VoInv'
  BY DEF renderVars, voVars, Free, CoreFrame, DestroyVo, VoInv, VoPlaces, Drawing
<1>3. ChainInv'
  BY DEF renderVars, voVars, Free, CoreFrame, DestroyVo, ChainInv, Drawing
<1>4. ContextInv'
  BY DEF renderVars, voVars, Free, CoreFrame, DestroyVo, ContextInv, Drawing
<1>5. HolderInv' /\ OnceInv' /\ FreshInv' /\ ItemInv' /\ FlightInv'
  BY ImagesKept DEF renderVars, voVars, Free, CoreFrame, DestroyVo
<1>6. FreedInv'
  BY DEF renderVars, voVars, Free, CoreFrame, DestroyVo, FreedInv
<1>7. ApplicationIsTold'
  BY DEF renderVars, voVars, Free, CoreFrame, DestroyVo, ApplicationIsTold
<1>8. QED
  BY <1>1, <1>2, <1>3, <1>4, <1>5, <1>6, <1>7

LEMMA VoDestroyedKeeps ==
  ASSUME RenderInv, VoDestroyed
  PROVE  RenderInv'
<1> USE DEF RenderInv
<1>1. TypeOK'
  <2>1. advanced' \in BOOLEAN /\ interrupted' \in BOOLEAN /\ told' \in BOOLEAN
    BY DEF renderVars, CoreFrame, VoDestroyed, TypeOK
  <2>2. wants' \in BOOLEAN /\ stopVo' \in BOOLEAN /\ kill' \in BOOLEAN
    BY DEF renderVars, CoreFrame, VoDestroyed, TypeOK
  <2>3. QED
    BY <2>1, <2>2 DEF renderVars, CoreFrame, VoDestroyed, TypeOK
<1>2. VoInv'
  BY DEF renderVars, CoreFrame, VoDestroyed, VoInv, VoPlaces, Drawing
<1>3. ChainInv'
  BY DEF renderVars, CoreFrame, VoDestroyed, ChainInv, Drawing
<1>4. ContextInv'
  BY DEF renderVars, CoreFrame, VoDestroyed, ContextInv, Drawing
<1>5. HolderInv' /\ OnceInv' /\ FreshInv' /\ ItemInv' /\ FlightInv'
  BY ImagesKept DEF renderVars, CoreFrame, VoDestroyed
<1>6. FreedInv'
  BY DEF renderVars, CoreFrame, VoDestroyed, FreedInv
<1>7. ApplicationIsTold'
  BY DEF renderVars, CoreFrame, VoDestroyed, ApplicationIsTold
<1>8. QED
  BY <1>1, <1>2, <1>3, <1>4, <1>5, <1>6, <1>7

LEMMA ScreenshotGetKeeps ==
  ASSUME RenderInv, ScreenshotGet
  PROVE  RenderInv'
<1> USE DEF RenderInv
<1>a. counts' \in Counts /\ counts'.images = counts.images
  BY ConstantsAssumption DEF renderVars, voVars, ScreenshotGet, TypeOK, Counts
<1>1. TypeOK'
  BY <1>a DEF renderVars, voVars, ScreenshotGet, TypeOK
<1>2. VoInv'
  BY <1>a DEF renderVars, voVars, ScreenshotGet, VoInv, VoPlaces, Drawing
<1>3. ChainInv'
  BY <1>a DEF renderVars, voVars, ScreenshotGet, ChainInv, Drawing
<1>4. ContextInv'
  BY <1>a DEF renderVars, voVars, ScreenshotGet, ContextInv, Drawing
<1>5. HolderInv' /\ OnceInv' /\ FreshInv' /\ ItemInv' /\ FlightInv'
  BY <1>a, ImagesKept DEF renderVars, voVars, ScreenshotGet
<1>6. FreedInv'
  BY <1>a DEF renderVars, voVars, ScreenshotGet, FreedInv
<1>7. ApplicationIsTold'
  BY <1>a DEF renderVars, voVars, ScreenshotGet, ApplicationIsTold
<1>8. QED
  BY <1>1, <1>2, <1>3, <1>4, <1>5, <1>6, <1>7

LEMMA CallUpdateKeeps ==
  ASSUME RenderInv, CallUpdate
  PROVE  RenderInv'
<1> USE DEF RenderInv
<1>1. TypeOK'
  <2>1. advanced' \in BOOLEAN /\ interrupted' \in BOOLEAN /\ told' \in BOOLEAN
    BY DEF RenderThreadFrame, RenderFrame, CallUpdate, TypeOK
  <2>2. wants' \in BOOLEAN /\ stopVo' \in BOOLEAN /\ kill' \in BOOLEAN
    BY DEF RenderThreadFrame, RenderFrame, CallUpdate, TypeOK
  <2>3. QED
    BY <2>1, <2>2 DEF RenderThreadFrame, RenderFrame, CallUpdate, TypeOK
<1>2. VoInv'
  BY DEF RenderThreadFrame, RenderFrame, CallUpdate, VoInv, VoPlaces, Drawing
<1>3. ChainInv'
  BY DEF RenderThreadFrame, RenderFrame, CallUpdate, ChainInv, Drawing
<1>4. ContextInv'
  BY DEF RenderThreadFrame, RenderFrame, CallUpdate, ContextInv, Drawing
<1>5. HolderInv' /\ OnceInv' /\ FreshInv' /\ ItemInv' /\ FlightInv'
  BY ImagesKept DEF RenderThreadFrame, RenderFrame, CallUpdate
<1>6. FreedInv'
  BY DEF RenderThreadFrame, RenderFrame, CallUpdate, FreedInv
<1>7. ApplicationIsTold'
  BY DEF RenderThreadFrame, RenderFrame, CallUpdate, ApplicationIsTold
<1>8. QED
  BY <1>1, <1>2, <1>3, <1>4, <1>5, <1>6, <1>7

LEMMA UpdateReturnsKeeps ==
  ASSUME RenderInv, UpdateReturns
  PROVE  RenderInv'
<1> USE DEF RenderInv
<1>1. TypeOK'
  <2>1. advanced' \in BOOLEAN /\ interrupted' \in BOOLEAN /\ told' \in BOOLEAN
    BY DEF RenderThreadFrame, RenderFrame, UpdateReturns, TypeOK
  <2>2. wants' \in BOOLEAN /\ stopVo' \in BOOLEAN /\ kill' \in BOOLEAN
    BY DEF RenderThreadFrame, RenderFrame, UpdateReturns, TypeOK
  <2>3. QED
    BY <2>1, <2>2 DEF RenderThreadFrame, RenderFrame, UpdateReturns, TypeOK
<1>2. VoInv'
  BY DEF RenderThreadFrame, RenderFrame, UpdateReturns, VoInv, VoPlaces, Drawing
<1>3. ChainInv'
  BY DEF RenderThreadFrame, RenderFrame, UpdateReturns, ChainInv, Drawing
<1>4. ContextInv'
  BY DEF RenderThreadFrame, RenderFrame, UpdateReturns, ContextInv, Drawing
<1>5. HolderInv' /\ OnceInv' /\ FreshInv' /\ ItemInv' /\ FlightInv'
  BY ImagesKept DEF RenderThreadFrame, RenderFrame, UpdateReturns
<1>6. FreedInv'
  BY DEF RenderThreadFrame, RenderFrame, UpdateReturns, FreedInv
<1>7. ApplicationIsTold'
  BY DEF RenderThreadFrame, RenderFrame, UpdateReturns, ApplicationIsTold
<1>8. QED
  BY <1>1, <1>2, <1>3, <1>4, <1>5, <1>6, <1>7

LEMMA RenderReturnsKeeps ==
  ASSUME RenderInv, RenderReturns
  PROVE  RenderInv'
<1> USE DEF RenderInv
<1>1. TypeOK'
  BY DEF RenderThreadFrame, RenderFrame, RenderReturns, TypeOK
<1>2. VoInv'
  BY DEF RenderThreadFrame, RenderFrame, RenderReturns, VoInv, VoPlaces, Drawing
<1>3. ChainInv'
  BY DEF RenderThreadFrame, RenderFrame, RenderReturns, ChainInv, Drawing
<1>4. ContextInv'
  BY DEF RenderThreadFrame, RenderFrame, RenderReturns, ContextInv, Drawing
<1>5. HolderInv' /\ OnceInv' /\ FreshInv' /\ ItemInv' /\ FlightInv'
  BY ImagesKept DEF RenderThreadFrame, RenderFrame, RenderReturns
<1>6. FreedInv'
  BY DEF RenderThreadFrame, RenderFrame, RenderReturns, FreedInv
<1>7. ApplicationIsTold'
  BY DEF RenderThreadFrame, RenderFrame, RenderReturns, ApplicationIsTold
<1>8. QED
  BY <1>1, <1>2, <1>3, <1>4, <1>5, <1>6, <1>7

LEMMA FreeContextKeeps ==
  ASSUME RenderInv, FreeContext
  PROVE  RenderInv'
<1> USE DEF RenderInv
<1>a. /\ ctx' \in ContextState /\ ctx'.next = ctx.next /\ ctx'.cur = ctx.cur
      /\ ctx'.set = FALSE /\ ctx'.inUse = ctx.inUse /\ ctx'.locked = ctx.locked
  BY DEF RenderThreadFrame, RenderFrame, FreeContext, TypeOK, ContextState
<1>1. TypeOK'
  BY <1>a DEF RenderThreadFrame, RenderFrame, FreeContext, TypeOK
<1>2. VoInv'
  BY <1>a DEF RenderThreadFrame, RenderFrame, FreeContext, VoInv, VoPlaces, Drawing
<1>3. ChainInv'
  BY <1>a DEF RenderThreadFrame, RenderFrame, FreeContext, ChainInv, Drawing
<1>4. ContextInv'
  BY <1>a DEF RenderThreadFrame, RenderFrame, FreeContext, ContextInv, Drawing
<1>5. HolderInv' /\ OnceInv' /\ FreshInv' /\ ItemInv' /\ FlightInv'
  BY <1>a, ImagesKept DEF RenderThreadFrame, RenderFrame, FreeContext
<1>6. FreedInv'
  BY <1>a DEF RenderThreadFrame, RenderFrame, FreeContext, FreedInv
<1>7. ApplicationIsTold'
  BY <1>a DEF RenderThreadFrame, RenderFrame, FreeContext, ApplicationIsTold
<1>8. QED
  BY <1>1, <1>2, <1>3, <1>4, <1>5, <1>6, <1>7

LEMMA KillVideoKeeps ==
  ASSUME RenderInv, KillVideo
  PROVE  RenderInv'
<1> USE DEF RenderInv
<1>1. TypeOK'
  BY DEF voVars, KillVideo, TypeOK
<1>2. VoInv'
  BY DEF voVars, KillVideo, VoInv, VoPlaces, Drawing
<1>3. ChainInv'
  BY DEF voVars, KillVideo, ChainInv, Drawing
<1>4. ContextInv'
  BY DEF voVars, KillVideo, ContextInv, Drawing
<1>5. HolderInv' /\ OnceInv' /\ FreshInv' /\ ItemInv' /\ FlightInv'
  BY ImagesKept DEF voVars, KillVideo
<1>6. FreedInv'
  BY DEF voVars, KillVideo, FreedInv
<1>7. ApplicationIsTold'
  BY DEF voVars, KillVideo, ApplicationIsTold
<1>8. QED
  BY <1>1, <1>2, <1>3, <1>4, <1>5, <1>6, <1>7

LEMMA ServeKeeps ==
  ASSUME RenderInv, Serve
  PROVE  RenderInv'
<1> USE DEF RenderInv
<1>1. TypeOK'
  <2>1. advanced' \in BOOLEAN /\ interrupted' \in BOOLEAN /\ told' \in BOOLEAN
    BY DEF RenderThreadFrame, RenderFrame, Served, Serve, TypeOK
  <2>2. wants' \in BOOLEAN /\ stopVo' \in BOOLEAN /\ kill' \in BOOLEAN
    BY DEF RenderThreadFrame, RenderFrame, Served, Serve, TypeOK
  <2>3. QED
    BY <2>1, <2>2 DEF RenderThreadFrame, RenderFrame, Served, Serve, TypeOK
<1>2. VoInv'
  BY DEF RenderThreadFrame, RenderFrame, Served, Serve, VoInv, VoPlaces, Drawing
<1>3. ChainInv'
  BY DEF RenderThreadFrame, RenderFrame, Served, Serve, ChainInv, Drawing
<1>4. ContextInv'
  BY DEF RenderThreadFrame, RenderFrame, Served, Serve, ContextInv, Drawing
<1>5. HolderInv' /\ OnceInv' /\ FreshInv' /\ ItemInv' /\ FlightInv'
  BY ImagesKept DEF RenderThreadFrame, RenderFrame, Served, Serve
<1>6. FreedInv'
  BY DEF RenderThreadFrame, RenderFrame, Served, Serve, FreedInv
<1>7. ApplicationIsTold'
  BY DEF RenderThreadFrame, RenderFrame, Served, Serve, ApplicationIsTold
<1>8. QED
  BY <1>1, <1>2, <1>3, <1>4, <1>5, <1>6, <1>7

LEMMA BarrierKeeps ==
  ASSUME RenderInv, Barrier
  PROVE  RenderInv'
<1> USE DEF RenderInv
<1>1. TypeOK'
  BY DEF RenderThreadFrame, RenderFrame, Barrier, TypeOK
<1>2. VoInv'
  BY DEF RenderThreadFrame, RenderFrame, Barrier, VoInv, VoPlaces, Drawing
<1>3. ChainInv'
  BY DEF RenderThreadFrame, RenderFrame, Barrier, ChainInv, Drawing
<1>4. ContextInv'
  BY DEF RenderThreadFrame, RenderFrame, Barrier, ContextInv, Drawing
<1>5. HolderInv' /\ OnceInv' /\ FreshInv' /\ ItemInv' /\ FlightInv'
  BY ImagesKept DEF RenderThreadFrame, RenderFrame, Barrier
<1>6. FreedInv'
  BY DEF RenderThreadFrame, RenderFrame, Barrier, FreedInv
<1>7. ApplicationIsTold'
  BY DEF RenderThreadFrame, RenderFrame, Barrier, ApplicationIsTold
<1>8. QED
  BY <1>1, <1>2, <1>3, <1>4, <1>5, <1>6, <1>7

-----------------------------------------------------------------------------
(* Steps that move images between their holders.                           *)

LEMMA LeaveLoopKeeps ==
  ASSUME RenderInv, LeaveLoop
  PROVE  RenderInv'
<1> USE DEF RenderInv
<1> USE DEF LeaveLoop, VoFrame, FlipFrame, coreVars, Free
<1>1. /\ images \in ImageState /\ advanced \in BOOLEAN /\ "vo" \in Holders
      /\ current \in Images \cup {None} /\ images' = Drop(images, current, "vo")
  BY DEF TypeOK, Drops, Holders
<1>2. current # None => images.refs[current] # {}
  BY <1>1 DEF HolderInv, HeldBy
<1>3. Moved(images, images')
  BY <1>1, <1>2, DropMoves
<1>4. /\ images' \in ImageState
      /\ \A g \in Holders, j \in Images :
           g \in images'.refs[j] <=> g \in images.refs[j] /\ ~(j = current /\ g = "vo")
  BY <1>1, DroppedMembers
<1>5. TypeOK'
  <2>1. waking' \subseteq {"vo", "core", "decoder", "shot"}
    BY DEF Drops, TypeOK
  <2>2. QED
    BY <1>4, <2>1 DEF TypeOK
<1>6. VoInv'
  BY DEF VoInv, VoPlaces, Drawing, Drops
<1>7. ChainInv'
  BY DEF ChainInv, Drawing, Drops, VoInv, VoPlaces
<1>8. ContextInv'
  BY DEF ContextInv, Drawing
<1>9. HolderInv'
  BY <1>4, NoneIsNoImage DEF HolderInv, HeldBy, Holders
<1>10. OnceInv'
  BY <1>4 DEF OnceInv, HeldBy, Holders
<1>11. ItemInv' /\ FlightInv' /\ FreshInv'
  BY <1>3, MovedKeeps
<1>12. FreedInv'
  BY <1>4, ContextInv DEF FreedInv, ContextInv, Drawing
<1>13. ApplicationIsTold'
  BY <1>3, NothingRequested DEF ApplicationIsTold, Drops
<1>14. QED
  BY <1>5, <1>6, <1>7, <1>8, <1>9, <1>10, <1>11, <1>12, <1>13

LEMMA UninitKeeps ==
  ASSUME RenderInv, Uninit
  PROVE  RenderInv'
<1> USE DEF RenderInv
<1> USE DEF Uninit, VoFrame, FlipFrame, coreVars, Free
<1>1. /\ images \in ImageState /\ advanced \in BOOLEAN /\ "cur" \in Holders
      /\ ctx.cur \in Images \cup {None} /\ images' = Drop(images, ctx.cur, "cur")
  BY ContextTypes DEF TypeOK, DropsLocked, Holders
<1>2. ctx.cur # None => images.refs[ctx.cur] # {}
  BY <1>1 DEF HolderInv, HeldBy
<1>3. Moved(images, images')
  BY <1>1, <1>2, DropMoves
<1>4. /\ images' \in ImageState
      /\ \A g \in Holders, j \in Images :
           g \in images'.refs[j] <=> g \in images.refs[j] /\ ~(j = ctx.cur /\ g = "cur")
  BY <1>1, DroppedMembers
<1>a. /\ ctx' \in ContextState /\ ctx'.cur = None /\ ctx'.inUse = FALSE /\ ctx'.locked = TRUE
      /\ ctx'.set = ctx.set /\ ctx'.next = ctx.next
  BY DEF TypeOK, ContextState
<1>5. TypeOK'
  <2>1. told' \in BOOLEAN
    BY DEF DropsLocked, TypeOK
  <2>2. QED
    BY <1>4, <1>a, <2>1 DEF TypeOK
<1>6. VoInv'
  BY <1>a DEF VoInv, VoPlaces, Drawing
<1>7. ChainInv'
  BY DEF ChainInv, Drawing, VoInv, VoPlaces
<1>8. ContextInv'
  BY <1>a DEF ContextInv, Drawing
<1>9. HolderInv'
  BY <1>4, <1>a, NoneIsNoImage DEF HolderInv, HeldBy, Holders
<1>10. OnceInv'
  BY <1>4 DEF OnceInv, HeldBy, Holders
<1>11. ItemInv' /\ FlightInv' /\ FreshInv'
  BY <1>3, MovedKeeps
<1>12. FreedInv'
  BY <1>4, ContextInv DEF FreedInv, ContextInv, Drawing
<1>13. ApplicationIsTold'
  <2>1. told \/ told' => told' = TRUE
    BY DEF DropsLocked, TypeOK
  <2>2. Requested(images') => told'
    BY DEF DropsLocked
  <2>3. QED
    BY <1>3, <1>a, <2>1, <2>2, NothingRequested DEF ApplicationIsTold
<1>14. QED
  BY <1>5, <1>6, <1>7, <1>8, <1>9, <1>10, <1>11, <1>12, <1>13

LEMMA NextFrameKeeps ==
  ASSUME RenderInv, NextFrame
  PROVE  RenderInv'
<1> USE DEF RenderInv
<1> USE DEF NextFrame, VoFrame, FlipFrame, coreVars, Free
<1> DEFINE q == Head(queued)
           a == Hold(images, q, "vo")
           b == Drop(a, q, "queue")
<1>q. /\ queued' \in Seq(Images) /\ q \in Images /\ q = queued[1] /\ Len(queued) \in Nat \ {0}
      /\ \A j \in Images : (\E k \in 1 .. Len(queued') : queued'[k] = j)
                          <=> (\E k \in 1 .. Len(queued) : queued[k] = j) /\ j # q
      /\ \A k, l \in 1 .. Len(queued') : queued'[k] = queued'[l] => k = l
      /\ \A k \in 1 .. Len(queued') : /\ queued'[k] <= counts.images
                                      /\ decPc # "idle" => queued'[k] < counts.images
                                      /\ queued'[k] # q
  BY TailOfQueue DEF TypeOK
<1>1. /\ images \in ImageState /\ advanced \in BOOLEAN
      /\ "vo" \in Holders /\ "queue" \in Holders
      /\ current \in Images \cup {None} /\ q \in Images \cup {None} /\ q # current
      /\ images' = Drop(b, current, "vo")
  BY <1>q, NoneIsNoImage DEF TypeOK, Drops, Holders, OnceInv
<1> HIDE DEF q
<1>h. HeldBy("queue", q) /\ (current # None => HeldBy("vo", current))
  BY <1>q, <1>1 DEF HolderInv
<1>2. With(images, q, "vo", a)
  <2>1. images.refs[q] # {}
    BY <1>h DEF HeldBy
  <2>2. QED
    BY <1>1, <2>1, HoldStep
<1> HIDE DEF a
<1>3. a \in ImageState /\ a.refs[q] # {}
  BY <1>1, <1>2, <1>q DEF With
<1>4. Without(a, q, "queue", b)
  BY <1>1, <1>3, DropStep
<1> HIDE DEF b
<1>5. b \in ImageState /\ (current # None => b.refs[current] # {})
  BY <1>1, <1>2, <1>4, <1>h DEF HeldBy, With, Without
<1>6. Without(b, current, "vo", images')
  BY <1>1, <1>5, DropStep
<1>7. images' \in ImageState
  BY <1>6 DEF Without
<1>8. Moved(images, images')
  <2>1. Moved(images, b)
    BY <1>1, <1>2, <1>3, <1>4, MovesAdd DEF With, Without
  <2>2. QED
    BY <1>1, <1>5, <1>6, <2>1, MovesAdd DEF Without
<1>9. \A j \in Images :
        /\ HeldBy("vo", j)' <=> j = q
        /\ HeldBy("queue", j)' <=> HeldBy("queue", j) /\ j # q
        /\ \A g \in {"decoder", "next", "cur", "render", "shot"} : HeldBy(g, j)' <=> HeldBy(g, j)
  <2> TAKE j \in Images
  <2>1. HeldBy("vo", j) <=> j = current
    BY DEF HolderInv
  <2>2. QED
    BY <1>1, <1>2, <1>4, <1>6, <2>1 DEF HeldBy, Holders, With, Without
<1>10. TypeOK'
  <2>1. waking' \subseteq {"vo", "core", "decoder", "shot"}
    BY DEF Drops, TypeOK
  <2>2. current' \in Images \cup {None}
    BY <1>q DEF q
  <2>3. QED
    BY <1>q, <1>7, <2>1, <2>2 DEF TypeOK
<1>11. VoInv'
  BY DEF VoInv, VoPlaces, Drawing, Drops
<1>12. ChainInv'
  BY DEF ChainInv, Drawing, Drops, VoInv, VoPlaces
<1>13. ContextInv'
  BY DEF ContextInv, Drawing
<1>14. HolderInv'
  <2> SUFFICES ASSUME NEW j \in Images
               PROVE  /\ HeldBy("decoder", j)' <=> decPc' = "decoded" /\ j = counts'.images
                      /\ HeldBy("queue", j)' <=> \E k \in 1 .. Len(queued') : queued'[k] = j
                      /\ HeldBy("vo", j)' <=> j = current'
                      /\ HeldBy("next", j)' <=> j = ctx'.next
                      /\ HeldBy("cur", j)' <=> j = ctx'.cur
                      /\ HeldBy("render", j)' => renderPc' = "render"
                      /\ HeldBy("shot", j)' => shotPc' = "write"
    BY DEF HolderInv
  <2>1. HeldBy("queue", j)' <=> \E k \in 1 .. Len(queued') : queued'[k] = j
    BY <1>q, <1>9 DEF HolderInv
  <2>2. HeldBy("vo", j)' <=> j = current'
    BY <1>9 DEF q
  <2>3. QED
    BY <1>9, <2>1, <2>2 DEF HolderInv
<1>15. OnceInv'
  <2>1. \A i, j \in Images : HeldBy("render", i)' /\ HeldBy("render", j)' => i = j
    BY <1>9 DEF OnceInv
  <2>2. \A i, j \in Images : HeldBy("shot", i)' /\ HeldBy("shot", j)' => i = j
    BY <1>9 DEF OnceInv
  <2>3. decPc' # "idle" => current' < counts'.images
    BY <1>q DEF OnceInv, q
  <2>4. QED
    BY <1>q, <2>1, <2>2, <2>3 DEF OnceInv, q
<1>16. ItemInv' /\ FlightInv' /\ FreshInv'
  BY <1>8, MovedKeeps
<1>17. FreedInv'
  BY DEF FreedInv, ContextInv, Drawing
<1>18. ApplicationIsTold'
  BY <1>8, NothingRequested DEF ApplicationIsTold, Drops
<1>19. QED
  BY <1>10, <1>11, <1>12, <1>13, <1>14, <1>15, <1>16, <1>17, <1>18

LEMMA DrawFrameKeeps ==
  ASSUME RenderInv, DrawFrame
  PROVE  RenderInv'
<1> USE DEF RenderInv
<1> USE DEF DrawFrame, VoFrame, FlipFrame, coreVars, Free
<1>1. /\ images \in ImageState /\ advanced \in BOOLEAN /\ "next" \in Holders
      /\ current \in Images \cup {None} /\ current \in Images
      /\ images' = Hold(images, current, "next")
  BY DEF TypeOK, Holders
<1>2. images.refs[current] # {} /\ ctx.next = None
  BY <1>1 DEF HolderInv, HeldBy, VoInv
<1>3. With(images, current, "next", images')
  BY <1>1, <1>2, HoldStep
<1>a. /\ ctx' \in ContextState /\ ctx'.next = current /\ ctx'.cur = ctx.cur
      /\ ctx'.inUse = ctx.inUse /\ ctx'.locked = ctx.locked /\ ctx'.set = ctx.set
  <2>1. Overwrites = FALSE
    BY <1>2, ContextTypes DEF Overwrites, TypeOK
  <2>2. PICK r \in BOOLEAN : ctx' = [ctx EXCEPT !.next = current, !.redrawing = r,
                                                !.overwrites = FALSE]
    BY <2>1
  <2>3. QED
    BY <1>1, <2>2 DEF TypeOK, ContextState
<1>b. counts' \in Counts /\ counts'.images = counts.images
  BY ConstantsAssumption DEF TypeOK, Counts
<1>4. TypeOK'
  <2>1. waking' \subseteq {"vo", "core", "decoder", "shot"}
    BY DEF Wakes, TypeOK
  <2>2. QED
    BY <1>3, <1>a, <1>b, <2>1 DEF TypeOK, With
<1>5. VoInv'
  BY <1>a DEF VoInv, VoPlaces, Drawing, Wakes
<1>6. ChainInv'
  BY <1>b DEF ChainInv, Drawing, Wakes, VoInv, VoPlaces
<1>7. ContextInv'
  BY <1>a DEF ContextInv, Drawing
<1>8. HolderInv'
  BY <1>2, <1>3, <1>a, <1>b, NoneIsNoImage DEF HolderInv, HeldBy, Holders, With
<1>9. OnceInv'
  BY <1>3, <1>b DEF OnceInv, HeldBy, Holders, With
<1>10. ItemInv' /\ FlightInv' /\ FreshInv'
  BY <1>3, <1>b, MovedKeeps DEF With
<1>11. FreedInv'
  BY DEF FreedInv, ContextInv, Drawing
<1>12. ApplicationIsTold'
  BY DEF ApplicationIsTold, Wakes
<1>13. QED
  BY <1>4, <1>5, <1>6, <1>7, <1>8, <1>9, <1>10, <1>11, <1>12

LEMMA GiveUpKeeps ==
  ASSUME RenderInv, GiveUp
  PROVE  RenderInv'
<1> USE DEF RenderInv
<1> USE DEF GiveUp, FlipFrame, coreVars
<1>1. images \in ImageState /\ ctx \in ContextState /\ advanced \in BOOLEAN
  BY DEF TypeOK
<1>2. MadeCur(images, images')
  BY <1>1, ContextTypes, MakeCurStep DEF HolderInv, HeldBy, DropsLocked
<1>a. /\ ctx' \in ContextState /\ ctx'.next = None /\ ctx'.cur = ctx.next
      /\ ctx'.inUse = ctx.inUse /\ ctx'.locked = ctx.locked /\ ctx'.set = ctx.set
  BY <1>1 DEF ContextState, Taken
<1>3. TypeOK'
  <2>1. told' \in BOOLEAN /\ waitPresent' \in {0, 1}
    BY DEF DropsLocked, Present, TypeOK
  <2>2. QED
    BY <1>2, <1>a, <2>1 DEF TypeOK, MadeCur
<1>4. VoInv'
  BY <1>a DEF VoInv, VoPlaces, Drawing
<1>5. ChainInv'
  BY DEF ChainInv, Drawing
<1>6. ContextInv'
  BY <1>a DEF ContextInv, Drawing
<1>7. HolderInv'
  BY <1>2, <1>a, NoneIsNoImage DEF HolderInv, HeldBy, MadeCur
<1>8. OnceInv'
  BY <1>2 DEF OnceInv, HeldBy, MadeCur
<1>9. ItemInv' /\ FlightInv' /\ FreshInv'
  BY <1>2, MovedKeeps DEF MadeCur
<1>10. FreedInv'
  BY DEF FreedInv, ContextInv, Drawing
<1>11. ApplicationIsTold'
  <2>1. (told => told') /\ (Requested(images') => told')
    BY DEF DropsLocked
  <2>2. QED
    BY <1>2, <1>a, <2>1, NothingRequested DEF ApplicationIsTold, MadeCur
<1>12. QED
  BY <1>3, <1>4, <1>5, <1>6, <1>7, <1>8, <1>9, <1>10, <1>11

LEMMA QueueFrameKeeps ==
  ASSUME RenderInv, QueueFrame
  PROVE  RenderInv'
<1> USE DEF RenderInv
<1> USE DEF QueueFrame, renderVars, coreVars, Free
<1> DEFINE n == counts.images
           a == Hold(images, n, "queue")
<1>1. /\ images \in ImageState /\ advanced \in BOOLEAN /\ n \in Images /\ n \in Images \cup {None}
      /\ "decoder" \in Holders /\ "queue" \in Holders /\ images' = Drop(a, n, "decoder")
  BY ImageTypes DEF TypeOK, Holders, ChainInv, Images, None
<1>2. "decoder" \in images.refs[n]
  BY <1>1 DEF HolderInv, HeldBy
<1>3. With(images, n, "queue", a) /\ a.items = images.items
  BY <1>1, <1>2, HoldStep, HoldIs DEF IsHeld
<1> HIDE DEF a
<1>4. a \in ImageState /\ "queue" \in a.refs[n] /\ "decoder" \in a.refs[n]
  BY <1>1, <1>2, <1>3 DEF With
<1>5. Without(a, n, "decoder", images')
  BY <1>1, <1>4, DropStep
<1>6. images'.items = images.items
  <2>1. IsDropped(a, n, "decoder", images')
    BY <1>1, <1>4, DropIs
  <2>2. ~WasLast(a, n, "decoder")
    BY <1>4 DEF WasLast
  <2>3. QED
    BY <1>3, <2>1, <2>2 DEF IsDropped
<1>7. Moved(images, images')
  BY <1>1, <1>3, <1>4, <1>5, MovesAdd DEF With, Without
<1>8. \A j \in Images :
        /\ ~HeldBy("decoder", j)'
        /\ HeldBy("queue", j)' <=> HeldBy("queue", j) \/ j = n
        /\ \A g \in {"vo", "next", "cur", "render", "shot"} : HeldBy(g, j)' <=> HeldBy(g, j)
  <2> TAKE j \in Images
  <2>1. HeldBy("decoder", j) <=> j = n
    BY DEF HolderInv
  <2>2. QED
    BY <1>1, <1>3, <1>5, <2>1 DEF HeldBy, Holders, With, Without
<1> HIDE DEF n
<1>q. /\ queued' \in Seq(Images) /\ Len(queued) \in Nat /\ Len(queued') = Len(queued) + 1
      /\ \A k \in 1 .. Len(queued) : queued'[k] = queued[k] /\ queued'[k] \in Images
      /\ queued'[Len(queued) + 1] = n
  <2>1. queued \in Seq(Images) /\ queued' = Append(queued, n)
    BY DEF TypeOK, n
  <2>2. QED
    BY <1>1, <2>1
<1>9. TypeOK'
  BY <1>q, <1>5 DEF TypeOK, Without
<1>10. VoInv'
  BY DEF VoInv, VoPlaces, Drawing
<1>11. ChainInv'
  BY DEF ChainInv, Drawing
<1>12. ContextInv'
  BY DEF ContextInv, Drawing
<1>13. HolderInv'
  <2> SUFFICES ASSUME NEW j \in Images
               PROVE  HeldBy("queue", j)' <=> \E k \in 1 .. Len(queued') : queued'[k] = j
    BY <1>8 DEF HolderInv
  <2>1. HeldBy("queue", j) <=> \E k \in 1 .. Len(queued) : queued[k] = j
    BY DEF HolderInv
  <2>2. QED
    BY <1>8, <1>q, <2>1
<1>14. OnceInv'
  <2>1. \A k \in 1 .. Len(queued) : queued[k] < n /\ queued[k] <= n /\ queued[k] # n
    <3>1. n \in Nat /\ \A k \in 1 .. Len(queued) : queued[k] \in Nat
      BY <1>q, <1>1, NoneIsNoImage
    <3>2. \A k \in 1 .. Len(queued) : queued[k] < n
      BY DEF OnceInv, n
    <3>3. QED
      BY <3>1, <3>2
  <2>2. \A k, l \in 1 .. Len(queued') : queued'[k] = queued'[l] => k = l
    BY <1>q, <2>1 DEF OnceInv
  <2>3. \A k \in 1 .. Len(queued') : queued'[k] <= n
    BY <1>q, <1>1, <2>1, NoneIsNoImage
  <2>4. current # None => \A k \in 1 .. Len(queued') : queued'[k] # current
    BY <1>q, <1>1, NoneIsNoImage DEF OnceInv, n, TypeOK
  <2>5. QED
    BY <1>8, <2>2, <2>3, <2>4 DEF OnceInv, n
<1>15. ItemInv' /\ FlightInv' /\ FreshInv'
  BY <1>7, MovedKeeps
<1>16. FreedInv'
  BY DEF FreedInv, ContextInv, ChainInv, Drawing
<1>17. ApplicationIsTold'
  BY <1>6 DEF ApplicationIsTold
<1>18. QED
  BY <1>9, <1>10, <1>11, <1>12, <1>13, <1>14, <1>15, <1>16, <1>17

LEMMA FreeChainKeeps ==
  ASSUME RenderInv, FreeChain
  PROVE  RenderInv'
<1> USE DEF RenderInv
<1> USE DEF FreeChain, CoreFrame, renderVars, coreVars, Free
<1> DEFINE q == Head(queued)
<1>q. /\ queued' \in Seq(Images) /\ q \in Images /\ q = queued[1]
      /\ \A j \in Images : (\E k \in 1 .. Len(queued') : queued'[k] = j)
                          <=> (\E k \in 1 .. Len(queued) : queued[k] = j) /\ j # q
      /\ \A k, l \in 1 .. Len(queued') : queued'[k] = queued'[l] => k = l
      /\ \A k \in 1 .. Len(queued') : /\ queued'[k] <= counts.images
                                      /\ \E l \in 1 .. Len(queued) : queued'[k] = queued[l]
  BY TailOfQueue DEF TypeOK
<1>0. 1 \in 1 .. Len(queued)
  <2>1. queued \in Seq(Images) /\ queued # <<>>
    BY DEF TypeOK
  <2>2. QED
    BY <2>1
<1>1. /\ images \in ImageState /\ advanced \in BOOLEAN /\ "queue" \in Holders
      /\ q \in Images \cup {None} /\ images' = Drop(images, q, "queue")
  BY <1>q DEF TypeOK, Drops, Holders
<1> HIDE DEF q
<1>2. images.refs[q] # {}
  BY <1>0, <1>q DEF HolderInv, HeldBy
<1>3. Without(images, q, "queue", images')
  BY <1>1, <1>2, DropStep
<1>4. TypeOK'
  <2>1. waking' \subseteq {"vo", "core", "decoder", "shot"}
    BY DEF Drops, TypeOK
  <2>2. QED
    BY <1>q, <1>3, <2>1 DEF TypeOK, Without
<1>5. VoInv'
  BY DEF VoInv, VoPlaces, Drawing, Drops
<1>6. ChainInv'
  BY DEF ChainInv, Drawing, Drops
<1>7. ContextInv'
  BY DEF ContextInv, Drawing
<1>8. HolderInv'
  BY <1>q, <1>3 DEF HolderInv, HeldBy, Holders, Without
<1>9. OnceInv'
  BY <1>q, <1>3 DEF OnceInv, HeldBy, Holders, Without
<1>10. ItemInv' /\ FlightInv' /\ FreshInv'
  BY <1>3, MovedKeeps DEF Without
<1>11. FreedInv'
  BY DEF FreedInv, ContextInv, ChainInv, Drawing
<1>12. ApplicationIsTold'
  BY <1>3, NothingRequested DEF ApplicationIsTold, Drops, Without
<1>13. QED
  BY <1>4, <1>5, <1>6, <1>7, <1>8, <1>9, <1>10, <1>11, <1>12

LEMMA CurrentFrameKeeps ==
  ASSUME RenderInv, CurrentFrame
  PROVE  RenderInv'
<1> USE DEF RenderInv
<1> USE DEF CurrentFrame, renderVars, voVars, coreVars
<1>1. /\ images \in ImageState /\ advanced \in BOOLEAN /\ "shot" \in Holders
      /\ current \in Images \cup {None} /\ current \in Images
      /\ images' = Hold(images, current, "shot")
  BY DEF TypeOK, Holders
<1>2. images.refs[current] # {}
  BY <1>1 DEF HolderInv, HeldBy
<1>3. With(images, current, "shot", images') /\ images'.items = images.items
  BY <1>1, <1>2, HoldStep, HoldIs DEF IsHeld
<1>b. counts' \in Counts /\ counts'.images = counts.images
  BY ConstantsAssumption DEF TypeOK, Counts
<1>4. TypeOK'
  BY <1>3, <1>b DEF TypeOK, With
<1>5. VoInv'
  BY DEF VoInv, VoPlaces, Drawing
<1>6. ChainInv'
  BY <1>b DEF ChainInv, Drawing
<1>7. ContextInv'
  BY DEF ContextInv, Drawing
<1>8. HolderInv'
  BY <1>3, <1>b DEF HolderInv, HeldBy, Holders, With
<1>9. OnceInv'
  <2>1. \A j \in Images : ~HeldBy("shot", j)
    BY DEF HolderInv
  <2>2. \A j \in Images : HeldBy("shot", j)' => j = current
    BY <1>3, <2>1 DEF HeldBy, Holders, With
  <2>3. QED
    BY <1>3, <1>b, <2>2 DEF OnceInv, HeldBy, Holders, With
<1>10. ItemInv' /\ FlightInv' /\ FreshInv'
  BY <1>3, <1>b, MovedKeeps DEF With
<1>11. FreedInv'
  BY DEF FreedInv, ContextInv, VoInv, Drawing
<1>12. ApplicationIsTold'
  BY <1>3 DEF ApplicationIsTold
<1>13. QED
  BY <1>4, <1>5, <1>6, <1>7, <1>8, <1>9, <1>10, <1>11, <1>12

LEMMA ShotWrittenKeeps ==
  ASSUME RenderInv, ShotWritten, renderPc # "aborted"
  PROVE  RenderInv'
<1> USE DEF RenderInv
<1> USE DEF ShotWritten, renderVars, voVars, coreVars, Free
<1>i. PICK i \in Images : "shot" \in images.refs[i] /\ Drops("shot", Drop(images, i, "shot"))
  OBVIOUS
<1>1. /\ images \in ImageState /\ advanced \in BOOLEAN /\ "shot" \in Holders
      /\ i \in Images \cup {None} /\ images' = Drop(images, i, "shot")
  BY <1>i DEF TypeOK, Drops, Holders
<1>2. Without(images, i, "shot", images')
  BY <1>1, <1>i, DropStep
<1>w. waking' = IF Requested(images') THEN waking \cup {"shot"} ELSE waking
  BY <1>i DEF Drops
<1>3. TypeOK'
  <2>1. waking' \subseteq {"vo", "core", "decoder", "shot"}
    BY <1>w DEF TypeOK
  <2>2. QED
    BY <1>2, <2>1 DEF TypeOK, Without
<1>4. VoInv'
  BY <1>w DEF VoInv, VoPlaces, Drawing
<1>5. ChainInv'
  BY <1>w DEF ChainInv, Drawing
<1>6. ContextInv'
  BY DEF ContextInv, Drawing
<1>7. HolderInv'
  <2>1. \A j \in Images : ~HeldBy("shot", j)'
    BY <1>1, <1>2, <1>i DEF OnceInv, HeldBy, Without
  <2>2. QED
    BY <1>2, <2>1 DEF HolderInv, HeldBy, Holders, Without
<1>8. OnceInv'
  BY <1>2 DEF OnceInv, HeldBy, Holders, Without
<1>9. ItemInv' /\ FlightInv' /\ FreshInv'
  BY <1>2, MovedKeeps DEF Without
<1>10. FreedInv'
  <2> SUFFICES ASSUME renderPc = "freed" PROVE FreedInv'
    BY DEF FreedInv
  <2>1. ~advanced
    BY <1>i DEF FreedInv
  <2>2. images'.items = images.items
    BY <1>2, <2>1 DEF Without, Moved
  <2>3. QED
    BY <2>1, <2>2 DEF FreedInv
<1>11. ApplicationIsTold'
  BY <1>2, <1>w, NothingRequested DEF ApplicationIsTold, Without
<1>12. QED
  BY <1>3, <1>4, <1>5, <1>6, <1>7, <1>8, <1>9, <1>10, <1>11

LEMMA RenderKeeps ==
  ASSUME RenderInv, Render
  PROVE  RenderInv'
<1> USE DEF RenderInv
<1> USE DEF Render, RenderFrame, RenderThreadFrame
<1>1. /\ images \in ImageState /\ ctx \in ContextState /\ advanced \in BOOLEAN
      /\ "render" \in Holders /\ "cur" \in Holders /\ "next" \in Holders
      /\ ctx.cur \in Images \cup {None} /\ ctx.next \in Images \cup {None}
  BY ContextTypes DEF TypeOK, Holders
<1>2. \A j \in Images : /\ HeldBy("cur", j) <=> j = ctx.cur
                        /\ HeldBy("next", j) <=> j = ctx.next
                        /\ ~HeldBy("render", j)
  BY DEF HolderInv
<1>3. /\ Moved(images, images')
      /\ \A j \in Images : /\ HeldBy("cur", j)' <=> j = ctx'.cur
                           /\ HeldBy("next", j)' <=> j = ctx'.next
                           /\ \A g \in {"decoder", "queue", "vo", "shot"} : HeldBy(g, j)' <=> HeldBy(g, j)
      /\ \A i, j \in Images : HeldBy("render", i)' /\ HeldBy("render", j)' => i = j
      /\ ctx' \in ContextState /\ ctx'.next = None
      /\ ctx'.inUse = ctx.inUse /\ ctx'.locked = ctx.locked /\ ctx'.set = ctx.set
      /\ (told => told') /\ (Requested(images') => told') /\ told' \in BOOLEAN
  <2>1. CASE ctx.next # None
    <3> DEFINE a == Hold(images, ctx.next, "render")
    <3>1. images' = MakeCur(a) /\ ctx' = Taken
      BY <2>1 DEF DropsLocked
    <3>2. With(images, ctx.next, "render", a)
      BY <1>1, <1>2, HoldStep DEF HeldBy
    <3> HIDE DEF a
    <3>3. /\ a \in ImageState
          /\ ctx.cur # None => "cur" \in a.refs[ctx.cur]
          /\ ctx.next # None => "next" \in a.refs[ctx.next]
      BY <1>1, <1>2, <3>2 DEF With, HeldBy
    <3>4. MadeCur(a, images')
      BY <1>1, <3>1, <3>3, MakeCurStep
    <3>5. Moved(images, images')
      BY <1>1, <3>2, <3>3, <3>4, MovesAdd DEF With, MadeCur
    <3>6. /\ ctx' \in ContextState /\ ctx'.next = None /\ ctx'.cur = ctx.next
          /\ ctx'.inUse = ctx.inUse /\ ctx'.locked = ctx.locked /\ ctx'.set = ctx.set
      BY <1>1, <3>1 DEF ContextState, Taken
    <3>7. ASSUME NEW j \in Images
          PROVE  /\ HeldBy("cur", j)' <=> j = ctx'.cur
                 /\ HeldBy("next", j)' <=> j = ctx'.next
                 /\ HeldBy("render", j)' <=> j = ctx.next
                 /\ \A g \in {"decoder", "queue", "vo", "shot"} : HeldBy(g, j)' <=> HeldBy(g, j)
      BY <1>2, <3>2, <3>4, <3>6, NoneIsNoImage DEF HeldBy, Holders, With, MadeCur
    <3>8. (told => told') /\ (Requested(images') => told') /\ told' \in BOOLEAN
      BY <2>1 DEF DropsLocked, TypeOK
    <3>9. QED
      BY <3>5, <3>6, <3>7, <3>8
  <2>2. CASE ctx.next = None
    <3>1. images' = Hold(images, ctx.cur, "render") /\ UNCHANGED ctx
      BY <2>2 DEF DropsLocked
    <3>2. With(images, ctx.cur, "render", images')
      BY <1>1, <1>2, <3>1, HoldStep DEF HeldBy
    <3>3. ASSUME NEW j \in Images
          PROVE  /\ HeldBy("cur", j)' <=> j = ctx'.cur
                 /\ HeldBy("next", j)' <=> j = ctx'.next
                 /\ HeldBy("render", j)' <=> j = ctx.cur
                 /\ \A g \in {"decoder", "queue", "vo", "shot"} : HeldBy(g, j)' <=> HeldBy(g, j)
      BY <1>2, <3>1, <3>2, NoneIsNoImage DEF HeldBy, Holders, With
    <3>4. (told => told') /\ (Requested(images') => told') /\ told' \in BOOLEAN
      BY <2>2 DEF DropsLocked, TypeOK
    <3>5. QED
      BY <1>1, <2>2, <3>1, <3>2, <3>3, <3>4 DEF With
  <2>3. QED
    BY <2>1, <2>2
<1>4. TypeOK'
  <2>1. images' \in ImageState /\ wants' = FALSE /\ waitPresent' \in {0, 1}
    BY <1>3 DEF Moved
  <2>2. advanced' \in BOOLEAN /\ interrupted' \in BOOLEAN /\ told' \in BOOLEAN
    BY <1>3 DEF TypeOK
  <2>3. wants' \in BOOLEAN /\ stopVo' \in BOOLEAN /\ kill' \in BOOLEAN
    BY <2>1 DEF TypeOK
  <2>4. ctx' \in ContextState
    BY <1>3
  <2>5. QED
    BY <2>1, <2>2, <2>3, <2>4 DEF TypeOK
<1>5. VoInv'
  BY <1>3 DEF VoInv, VoPlaces, Drawing
<1>6. ChainInv'
  BY DEF ChainInv, Drawing
<1>7. ContextInv'
  BY <1>3 DEF ContextInv, Drawing
<1>8. HolderInv'
  BY <1>3 DEF HolderInv, HeldBy
<1>9. OnceInv'
  BY <1>3 DEF OnceInv, HeldBy
<1>10. ItemInv' /\ FlightInv' /\ FreshInv'
  BY <1>3, MovedKeeps
<1>11. FreedInv'
  BY DEF FreedInv
<1>12. ApplicationIsTold'
  BY <1>3, NothingRequested DEF ApplicationIsTold
<1>13. QED
  BY <1>4, <1>5, <1>6, <1>7, <1>8, <1>9, <1>10, <1>11, <1>12

LEMMA RenderedKeeps ==
  ASSUME RenderInv, Rendered
  PROVE  RenderInv'
<1> USE DEF RenderInv
<1> USE DEF Rendered, RenderFrame, RenderThreadFrame
<1>1. images \in ImageState /\ advanced \in BOOLEAN /\ "render" \in Holders
  BY DEF TypeOK, Holders
<1>2. /\ Moved(images, images')
      /\ \A j \in Images :
           /\ ~HeldBy("render", j)'
           /\ \A g \in {"decoder", "queue", "vo", "next", "cur", "shot"} : HeldBy(g, j)' <=> HeldBy(g, j)
      /\ (told => told') /\ (Requested(images') => told') /\ told' \in BOOLEAN
  <2>1. CASE \E i \in Images : "render" \in images.refs[i]
    <3>1. PICK i \in Images : /\ "render" \in images.refs[i]
                              /\ DropsLocked(Drop(images, i, "render"))
      BY <2>1
    <3>2. Without(images, i, "render", images')
      BY <1>1, <3>1, DropStep DEF DropsLocked
    <3>3. \A j \in Images : "render" \in images.refs[j] => j = i
      BY <3>1 DEF OnceInv, HeldBy
    <3>4. QED
      BY <3>1, <3>2, <3>3 DEF Without, HeldBy, Holders, DropsLocked, TypeOK
  <2>2. CASE ~\E i \in Images : "render" \in images.refs[i]
    <3>1. UNCHANGED <<images, told>>
      BY <2>2
    <3>2. Moved(images, images) /\ ~Requested(images)
      <4>1. Len(images.items) \in Nat
        BY <1>1 DEF ImageState
      <4>2. QED
        BY <1>1, <4>1 DEF Moved, Requested
    <3>3. QED
      BY <2>2, <3>1, <3>2 DEF HeldBy, Requested, TypeOK
  <2>3. QED
    BY <2>1, <2>2
<1>3. TypeOK'
  BY <1>2 DEF TypeOK, Moved
<1>4. VoInv'
  BY DEF VoInv, VoPlaces, Drawing
<1>5. ChainInv'
  BY DEF ChainInv, Drawing
<1>6. ContextInv'
  BY DEF ContextInv, Drawing
<1>7. HolderInv'
  BY <1>2 DEF HolderInv, HeldBy
<1>8. OnceInv'
  BY <1>2 DEF OnceInv, HeldBy
<1>9. ItemInv' /\ FlightInv' /\ FreshInv'
  BY <1>2, MovedKeeps
<1>10. FreedInv'
  BY DEF FreedInv
<1>11. ApplicationIsTold'
  BY <1>2, NothingRequested DEF ApplicationIsTold
<1>12. QED
  BY <1>3, <1>4, <1>5, <1>6, <1>7, <1>8, <1>9, <1>10, <1>11

-----------------------------------------------------------------------------
(* The dispatch queue: requests come in, and the render thread serves it.  *)

LEMMA ControlKeeps ==
  ASSUME RenderInv, Control
  PROVE  RenderInv'
<1> USE DEF RenderInv
<1> USE DEF Control, VoFrame, FlipFrame, coreVars, Free
<1>1. /\ images \in ImageState /\ advanced \in BOOLEAN /\ Len(images.items) \in Nat
      /\ advanced
  BY DEF TypeOK, ImageState, FlightInv
<1>2. /\ images' \in ImageState /\ images'.refs = images.refs /\ images'.inFlight = images.inFlight
      /\ images'.items = Append(images.items, "screenshot")
  <2>1. Append(images.items, "screenshot") \in Seq({"image", "free", "screenshot"})
    BY <1>1 DEF ImageState
  <2>2. QED
    BY <1>1, <2>1 DEF ImageState
<1>3. /\ Len(images'.items) = Len(images.items) + 1
      /\ \A k \in 1 .. Len(images'.items) :
           images'.items[k] = IF k = Len(images.items) + 1 THEN "screenshot" ELSE images.items[k]
  BY <1>1, <1>2 DEF ImageState
<1>4. TypeOK'
  <2>1. waking' \subseteq {"vo", "core", "decoder", "shot"}
    BY DEF Wakes, TypeOK
  <2>2. QED
    BY <1>2, <2>1 DEF TypeOK
<1>5. VoInv'
  BY DEF VoInv, VoPlaces, Drawing, Wakes
<1>6. ChainInv'
  BY DEF ChainInv, Drawing, Wakes
<1>7. ContextInv'
  BY DEF ContextInv, Drawing
<1>8. HolderInv'
  BY <1>2 DEF HolderInv, HeldBy
<1>9. OnceInv' /\ FreshInv'
  BY <1>2 DEF OnceInv, FreshInv, HeldBy
<1>10. ItemInv'
  <2>1. \A k \in 1 .. Len(images.items) : images.items[k] # "screenshot"
    BY DEF ItemInv
  <2>2. \A k \in 1 .. Len(images'.items) : k # Len(images.items) + 1 => k \in 1 .. Len(images.items)
    BY <1>1, <1>3
  <2>3. QED
    BY <1>3, <2>1, <2>2 DEF ItemInv
<1>11. FlightInv'
  <2>1. Cardinality(Frees(images')) = Cardinality(Frees(images))
    <3>1. Cardinality(Frees(images')) =
           Cardinality(Frees(images)) + (IF "screenshot" = "free" THEN 1 ELSE 0)
      BY <1>1, <1>2, AppendFrees
    <3>2. QED
      BY <1>1, <3>1, LiveAndFreesAreFinite
  <2>2. Live(images') = Live(images)
    BY <1>2 DEF Live
  <2>3. Balanced(images')
    BY <1>1, <1>2, <2>1, <2>2 DEF FlightInv, Balanced
  <2>4. Balanced(images)'
    BY <2>3 DEF Balanced, Live, Frees
  <2>5. QED
    BY <1>2, <2>4 DEF FlightInv
<1>12. FreedInv'
  BY DEF FreedInv, ContextInv, Drawing
<1>13. ApplicationIsTold'
  BY DEF ApplicationIsTold, Wakes
<1>14. QED
  BY <1>4, <1>5, <1>6, <1>7, <1>8, <1>9, <1>10, <1>11, <1>12, <1>13

LEMMA GetImageKeeps ==
  ASSUME RenderInv, GetImage
  PROVE  RenderInv'
<1> USE DEF RenderInv
<1> USE DEF GetImage, renderVars, voVars, coreVars, Free
<1> DEFINE n == counts.images + 1
<1>1. /\ images \in ImageState /\ advanced \in BOOLEAN /\ Len(images.items) \in Nat
      /\ counts \in Counts /\ counts.images \in Nat /\ n \in Images /\ "decoder" \in Holders
      /\ images.inFlight \in Nat
  BY ImageTypes, ConstantsAssumption DEF TypeOK, ImageState, Images, Holders
<1>2. counts' \in Counts /\ counts'.images = n
  BY <1>1, ConstantsAssumption DEF Counts, Images
<1>3. images.refs[n] = {} /\ \A i \in Images : i = n => i > counts.images
  BY <1>1 DEF FreshInv
<1>4. voPc \in Drawing
  BY DEF VoInv, VoPlaces, Drawing
<1>5. /\ images' \in ImageState /\ waking' \subseteq {"vo", "core", "decoder", "shot"}
      /\ decPc' \in {"request", "decoded"}
      /\ "vo" \in waking' => "vo" \in waking
      /\ "core" \in waking' => "core" \in waking
      /\ waking \subseteq waking'
      /\ \A j \in Images :
           /\ HeldBy("decoder", j)' <=> decPc' = "decoded" /\ j = n
           /\ \A g \in Holders \ {"decoder"} : HeldBy(g, j)' <=> HeldBy(g, j)
           /\ j > n \/ (j = n /\ decPc' = "request") => images'.refs[j] = {}
      /\ ItemInv' /\ Balanced(images)'
      /\ images'.inFlight = images.inFlight
      /\ ~advanced => decPc' # "request"
      /\ images'.items # images.items => "decoder" \in waking'
  <2>1. CASE advanced
    <3>1. /\ images' = [images EXCEPT !.items = Append(@, "image")]
          /\ waking' = waking \cup {"decoder"} /\ decPc' = "request"
      BY <2>1 DEF Wakes
    <3>2. /\ images' \in ImageState /\ images'.refs = images.refs
          /\ images'.inFlight = images.inFlight /\ images'.items = Append(images.items, "image")
      <4>1. Append(images.items, "image") \in Seq({"image", "free", "screenshot"})
        BY <1>1 DEF ImageState
      <4>2. QED
        BY <1>1, <3>1, <4>1 DEF ImageState
    <3>3. /\ Len(images'.items) = Len(images.items) + 1
          /\ \A k \in 1 .. Len(images'.items) :
               images'.items[k] = IF k = Len(images.items) + 1 THEN "image" ELSE images.items[k]
      BY <1>1, <3>2 DEF ImageState
    <3>4. ItemInv'
      <4>1. \A k \in 1 .. Len(images.items) : images.items[k] # "image"
        BY DEF ItemInv
      <4>2. \A k \in 1 .. Len(images'.items) : k # Len(images.items) + 1 => k \in 1 .. Len(images.items)
        BY <1>1, <3>3
      <4>3. QED
        BY <3>1, <3>3, <4>1, <4>2 DEF ItemInv
    <3>5. Balanced(images)'
      <4>1. Cardinality(Frees(images')) = Cardinality(Frees(images))
        <5>1. Cardinality(Frees(images')) =
               Cardinality(Frees(images)) + (IF "image" = "free" THEN 1 ELSE 0)
          BY <1>1, <3>2, AppendFrees
        <5>2. QED
          BY <1>1, <5>1, LiveAndFreesAreFinite
      <4>2. Live(images') = Live(images)
        BY <3>2 DEF Live
      <4>3. Balanced(images')
        BY <2>1, <3>2, <4>1, <4>2 DEF FlightInv, Balanced
      <4>4. QED
        BY <4>3 DEF Balanced, Live, Frees
    <3>6. \A j \in Images : /\ ~HeldBy("decoder", j)'
                            /\ \A g \in Holders \ {"decoder"} : HeldBy(g, j)' <=> HeldBy(g, j)
                            /\ j > n \/ j = n => images'.refs[j] = {}
      <4>1. \A j \in Images : ~HeldBy("decoder", j)
        BY DEF HolderInv
      <4>2. \A j \in Images : j > n \/ j = n => images.refs[j] = {}
        BY <1>1, NoneIsNoImage DEF FreshInv
      <4>3. QED
        BY <3>2, <4>1, <4>2 DEF HeldBy
    <3>7. waking' \subseteq {"vo", "core", "decoder", "shot"}
      BY <3>1 DEF TypeOK
    <3>8. QED
      BY <2>1, <3>1, <3>2, <3>4, <3>5, <3>6, <3>7
  <2>2. CASE ~advanced
    <3>1. images' = Hold(images, n, "decoder") /\ decPc' = "decoded" /\ UNCHANGED waking
      BY <2>2
    <3>2. IsHeld(images, n, "decoder", images')
      BY <1>1, <3>1, HoldIs
    <3>3. ItemInv' /\ Balanced(images)'
      BY <2>2, <3>2 DEF ItemInv, Balanced, FlightInv, IsHeld
    <3>4. \A j \in Images : /\ HeldBy("decoder", j)' <=> j = n
                            /\ \A g \in Holders \ {"decoder"} : HeldBy(g, j)' <=> HeldBy(g, j)
      <4>1. \A j \in Images : ~HeldBy("decoder", j)
        BY DEF HolderInv
      <4>2. QED
        BY <3>2, <4>1 DEF HeldBy, IsHeld
    <3>5. \A j \in Images : j > n => images'.refs[j] = {}
      <4>1. \A j \in Images : j > n => j # n /\ j > counts.images
        BY <1>1, NoneIsNoImage
      <4>2. QED
        BY <3>2, <4>1 DEF FreshInv, IsHeld
    <3>6. QED
      BY <3>1, <3>2, <3>3, <3>4, <3>5 DEF IsHeld, TypeOK
  <2>3. QED
    BY <2>1, <2>2
<1> HIDE DEF n
<1>6. TypeOK'
  BY <1>2, <1>5 DEF TypeOK
<1>7. VoInv'
  BY <1>5 DEF VoInv, VoPlaces, Drawing
<1>8. ChainInv'
  BY <1>1, <1>2, <1>4, <1>5, NoneIsNoImage DEF ChainInv, Drawing
<1>9. ContextInv'
  BY DEF ContextInv, Drawing
<1>10. HolderInv'
  BY <1>2, <1>5 DEF HolderInv, Holders
<1>11. OnceInv'
  <2>1. \A i, j \in Images : HeldBy("render", i)' /\ HeldBy("render", j)' => i = j
    BY <1>5 DEF OnceInv, Holders
  <2>2. \A i, j \in Images : HeldBy("shot", i)' /\ HeldBy("shot", j)' => i = j
    BY <1>5 DEF OnceInv, Holders
  <2>3. \A k \in 1 .. Len(queued) : queued[k] < n /\ queued[k] <= n
    <3>1. \A k \in 1 .. Len(queued) : queued[k] <= counts.images /\ queued[k] \in Nat
      BY NoneIsNoImage DEF OnceInv, TypeOK
    <3>2. QED
      BY <1>1, <3>1 DEF n
  <2>4. current # None => current < n
    <3> SUFFICES ASSUME current # None PROVE current < n
      OBVIOUS
    <3>1. current \in Images /\ current \in Nat /\ images.refs[current] # {}
      BY NoneIsNoImage DEF TypeOK, HolderInv, HeldBy
    <3>2. current <= counts.images
      BY <1>1, <3>1 DEF FreshInv
    <3>3. QED
      BY <1>1, <3>1, <3>2 DEF n
  <2>5. QED
    BY <1>2, <2>1, <2>2, <2>3, <2>4 DEF OnceInv
<1>12. FreshInv'
  BY <1>2, <1>5 DEF FreshInv
<1>13. FlightInv'
  <2>1. images.inFlight <= counts.images
    BY DEF FlightInv
  <2>2. images'.inFlight < n /\ images'.inFlight <= n
    BY <1>1, <1>5, <2>1 DEF n
  <2>3. QED
    BY <1>2, <1>5, <2>2 DEF FlightInv
<1>14. FreedInv'
  BY <1>4 DEF FreedInv, ContextInv, Drawing
<1>15. ApplicationIsTold'
  BY <1>5 DEF ApplicationIsTold
<1>16. QED
  BY <1>5, <1>6, <1>7, <1>8, <1>9, <1>10, <1>11, <1>12, <1>13, <1>14, <1>15

LEMMA RunItemKeeps ==
  ASSUME RenderInv, RunItem
  PROVE  RenderInv'
<1> USE DEF RenderInv
<1>r. /\ renderPc \in {"update", "serve", "rest"} /\ images.items # <<>>
      /\ UNCHANGED <<advanced, current, queued, stopVo, kill, shotPc, waking, counts,
                     ctx, interrupted, told, wants, renderPc, waitPresent>>
  BY DEF RunItem, RenderThreadFrame, renderVars, Processing
<1> DEFINE n == counts.images
           m == Len(images.items)
           item == Head(images.items)
           d == [images EXCEPT !.items = Tail(@)]
<1>1. /\ images \in ImageState /\ advanced \in BOOLEAN /\ m \in Nat \ {0}
      /\ n \in Nat /\ n \in 0 .. MaxImages /\ images.inFlight \in Nat
      /\ item = images.items[1] /\ "decoder" \in Holders
  BY <1>r, ImageTypes, ConstantsAssumption DEF TypeOK, Holders
<1>2. advanced
  BY <1>1, <1>r DEF FlightInv, Balanced
<1>3. /\ d \in ImageState /\ d.refs = images.refs /\ d.inFlight = images.inFlight
      /\ d.items = Tail(images.items)
  <2>1. Tail(images.items) \in Seq({"image", "free", "screenshot"})
    BY <1>1, <1>r DEF ImageState
  <2>2. QED
    BY <1>1, <2>1 DEF ImageState
<1>4. Len(d.items) = m - 1 /\ \A k \in 1 .. m - 1 : d.items[k] = images.items[k + 1]
  BY <1>1, <1>3, <1>r DEF ImageState
<1>5. \A k \in 1 .. m - 1 : k + 1 \in 1 .. m /\ k + 1 # 1 /\ k + 1 \in 2 .. m
  BY <1>1
<1>6. \A k \in 1 .. m - 1 : item # "free" => d.items[k] # item
  <2> SUFFICES ASSUME NEW k \in 1 .. m - 1, item # "free", d.items[k] = item
               PROVE  FALSE
    OBVIOUS
  <2>1. 1 \in 1 .. m /\ images.items[k + 1] = images.items[1]
    BY <1>1, <1>4
  <2>2. k + 1 = 1
    BY <1>1, <1>5, <2>1 DEF ItemInv
  <2>3. QED
    BY <1>5, <2>2
<1>7. \A k, l \in 1 .. m - 1 : d.items[k] # "free" /\ d.items[l] = d.items[k] => l = k
  <2> SUFFICES ASSUME NEW k \in 1 .. m - 1, NEW l \in 1 .. m - 1,
                      d.items[k] # "free", d.items[l] = d.items[k]
               PROVE  l = k
    OBVIOUS
  <2>1. l + 1 = k + 1
    BY <1>4, <1>5 DEF ItemInv
  <2>2. QED
    BY <2>1
<1>8. Cardinality(Frees(images)) =
        Cardinality(Frees(d)) + (IF item = "free" THEN 1 ELSE 0)
  BY <1>1, <1>3, <1>r, TailFrees
<1>9. /\ images.inFlight = Cardinality(Live(images)) + Cardinality(Frees(images))
      /\ Live(d) = Live(images) /\ IsFiniteSet(Live(images)) /\ Cardinality(Live(images)) \in Nat
      /\ Cardinality(Frees(d)) \in Nat /\ Cardinality(Frees(images)) \in Nat
  BY <1>1, <1>2, <1>3, LiveAndFreesAreFinite DEF FlightInv, Balanced, Live
<1>10. item \in {"image", "free", "screenshot"}
  BY <1>1, <1>r DEF ImageState
<1> HIDE DEF d, m
<1>11. CASE item = "image"
  <2>1. decPc = "request"
    BY <1>1, <1>11 DEF ItemInv, m
  <2>2. n \in Images /\ n \in Images \cup {None} /\ images.refs[n] = {} /\ images.inFlight < n
    BY <1>1, <2>1, NoneIsNoImage DEF ChainInv, FreshInv, FlightInv, Images, None
  <2> DEFINE e == Hold(d, n, "decoder")
  <2>3. IsHeld(d, n, "decoder", e)
    BY <1>1, <1>3, <2>2, HoldIs
  <2>4. images' = [e EXCEPT !.inFlight = @ + 1] /\ decPc' = "decoded" /\ UNCHANGED <<voPc, corePc>>
    BY <1>11 DEF d, RunItem
  <2> HIDE DEF e
  <2>5. /\ images' \in ImageState /\ images'.inFlight = images.inFlight + 1
        /\ images'.items = d.items /\ images'.refs = e.refs
    <3>1. e \in ImageState /\ e.inFlight = images.inFlight /\ e.items = d.items
      BY <1>3, <2>3 DEF IsHeld
    <3>2. images.inFlight + 1 \in 0 .. MaxImages
      BY <1>1, <2>2, ConstantsAssumption
    <3>3. QED
      BY <2>4, <3>1, <3>2 DEF ImageState
  <2>6. \A j \in Images : images'.refs[j] = IF j = n THEN images.refs[j] \cup {"decoder"} ELSE images.refs[j]
    BY <1>3, <2>3, <2>5 DEF IsHeld
  <2>7. \A j \in Images : /\ HeldBy("decoder", j)' <=> j = n
                          /\ \A g \in Holders \ {"decoder"} : HeldBy(g, j)' <=> HeldBy(g, j)
    <3>1. \A j \in Images : ~HeldBy("decoder", j)
      BY <2>1 DEF HolderInv
    <3>2. QED
      BY <2>6, <3>1 DEF HeldBy
  <2> HIDE DEF n
  <2>8. TypeOK'
    BY <1>r, <2>4, <2>5 DEF TypeOK
  <2>9. VoInv' /\ ContextInv' /\ FreedInv'
    BY <1>r, <2>4 DEF VoInv, VoPlaces, ContextInv, FreedInv, Drawing
  <2>10. ChainInv'
    BY <1>r, <2>1, <2>4 DEF ChainInv, Drawing
  <2>11. HolderInv'
    BY <1>r, <2>4, <2>7 DEF HolderInv, Holders, n
  <2>12. OnceInv'
    BY <1>r, <2>1, <2>4, <2>7 DEF OnceInv, Holders
  <2>13. FreshInv'
    <3>1. \A j \in Images : j > n => j # n
      BY <1>1, NoneIsNoImage
    <3>2. QED
      BY <1>r, <2>4, <2>6, <3>1 DEF FreshInv, n
  <2>14. ItemInv'
    <3>1. \A k \in 1 .. m - 1 : d.items[k] # "image"
      BY <1>6, <1>11
    <3>2. \A k \in 1 .. m - 1 : d.items[k] = "screenshot" => voPc' = "control"
      BY <1>4, <1>5, <2>4 DEF ItemInv, m
    <3>3. QED
      BY <1>4, <1>7, <2>4, <2>5, <3>1, <3>2 DEF ItemInv
  <2>15. FlightInv'
    <3>1. Live(images') = Live(images) \cup {n} /\ n \notin Live(images)
      BY <2>2, <2>6 DEF Live
    <3>2. Cardinality(Live(images')) = Cardinality(Live(images)) + 1
      BY <1>9, <3>1, FS_AddElement
    <3>3. Frees(images') = Frees(d)
      BY <2>5 DEF Frees
    <3>4. images'.inFlight = Cardinality(Live(images')) + Cardinality(Frees(images'))
      BY <1>8, <1>9, <1>11, <2>5, <3>2, <3>3
    <3>5. Balanced(images)'
      BY <1>r, <1>2, <3>4 DEF Balanced, Live, Frees
    <3>6. images'.inFlight <= counts'.images
      BY <1>r, <1>1, <2>2, <2>5, NoneIsNoImage DEF n
    <3>7. QED
      BY <1>r, <1>2, <2>4, <3>5, <3>6 DEF FlightInv
  <2>16. ApplicationIsTold'
    BY <1>r DEF ApplicationIsTold
  <2>17. QED
    BY <2>8, <2>9, <2>10, <2>11, <2>12, <2>13, <2>14, <2>15, <2>16
<1>12. CASE item # "image"
  <2>1. /\ images' = IF item = "free" THEN [d EXCEPT !.inFlight = @ - 1] ELSE d
        /\ decPc' = decPc
        /\ voPc' = (IF item = "screenshot" THEN "loop" ELSE voPc)
        /\ corePc' = (IF item = "screenshot" THEN "run" ELSE corePc)
    BY <1>10, <1>12 DEF d, RunItem
  <2>2. item = "free" => images.inFlight - 1 \in 0 .. MaxImages
    <3>1. images.inFlight \in 0 .. MaxImages
      BY ImageTypes DEF TypeOK
    <3>2. QED
      BY <1>8, <1>9, <3>1, ConstantsAssumption
  <2>3. /\ images' \in ImageState /\ images'.refs = images.refs /\ images'.items = d.items
        /\ images'.inFlight = IF item = "free" THEN images.inFlight - 1 ELSE images.inFlight
    BY <1>3, <2>1, <2>2 DEF ImageState
  <2>4. item = "screenshot" => voPc = "control"
    BY <1>1 DEF ItemInv, m
  <2> HIDE DEF n
  <2>5. \/ voPc' = voPc /\ corePc' = corePc
        \/ voPc = "control" /\ voPc' = "loop" /\ corePc' = "run"
    <3>1. CASE item = "screenshot"
      BY <2>1, <2>4, <3>1
    <3>2. CASE item # "screenshot"
      <4>1. voPc' = voPc
        BY <2>1, <3>2
      <4>2. corePc' = corePc
        BY <2>1, <3>2
      <4>3. QED
        BY <4>1, <4>2
    <3>3. QED
      BY <3>1, <3>2
  <2>6. TypeOK'
    BY <1>r, <2>1, <2>3, <2>5 DEF TypeOK
  <2>7. VoInv'
    BY <1>r, <2>5 DEF VoInv, VoPlaces, Drawing
  <2>8. ChainInv'
    BY <1>r, <2>1, <2>5 DEF ChainInv, VoInv, VoPlaces, Drawing
  <2>9. ContextInv' /\ FreedInv'
    BY <1>r, <2>5 DEF ContextInv, FreedInv, Drawing
  <2>10. HolderInv' /\ OnceInv' /\ FreshInv'
    BY <1>r, <2>1, <2>3 DEF HolderInv, OnceInv, FreshInv, HeldBy
  <2>11. ItemInv'
    <3>1. \A k \in 1 .. m - 1 : d.items[k] = "image" => decPc = "request"
      BY <1>4, <1>5 DEF ItemInv, m
    <3>2. \A k \in 1 .. m - 1 : d.items[k] = "screenshot" => voPc' = "control"
      BY <1>4, <1>5, <1>6, <2>1 DEF ItemInv, m
    <3>3. QED
      BY <1>4, <1>7, <2>1, <2>3, <3>1, <3>2 DEF ItemInv
  <2>12. FlightInv'
    <3>1. Live(images') = Live(images) /\ Frees(images') = Frees(d)
      BY <2>3 DEF Live, Frees
    <3>2. images'.inFlight = Cardinality(Live(images')) + Cardinality(Frees(images'))
      BY <1>1, <1>8, <1>9, <2>3, <3>1
    <3>3. Balanced(images)'
      BY <1>r, <1>2, <3>2 DEF Balanced, Live, Frees
    <3>4. images'.inFlight <= images.inFlight
      BY <1>1, <2>3
    <3>5. images'.inFlight \in Nat
      BY <1>1, <2>3, <2>2
    <3>6. images'.inFlight <= counts.images /\ (decPc = "request" => images'.inFlight < counts.images)
      BY <1>1, <3>4, <3>5 DEF FlightInv, n
    <3>7. QED
      BY <1>r, <1>2, <2>1, <3>3, <3>6 DEF FlightInv
  <2>13. ApplicationIsTold'
    BY <1>r DEF ApplicationIsTold
  <2>14. QED
    BY <2>6, <2>7, <2>8, <2>9, <2>10, <2>11, <2>12, <2>13
<1>13. QED
  BY <1>11, <1>12

(* The end: no image may be left but one of a software screenshot.         *)
LEMMA DestroyedKeeps ==
  ASSUME RenderInv, Destroyed
  PROVE  RenderInv'
<1> USE DEF RenderInv
<1> USE DEF Destroyed, RenderFrame, RenderThreadFrame
<1>1. /\ images \in ImageState /\ ctx \in ContextState /\ advanced \in BOOLEAN
      /\ ctx.cur \in Images \cup {None} /\ images.inFlight \in Nat
      /\ images.inFlight \in 0 .. MaxImages
  BY ImageTypes, ContextTypes DEF TypeOK
<1>2. /\ ctx' \in ContextState /\ ctx'.cur = None /\ ctx'.next = ctx.next /\ ctx.next = None
      /\ ctx'.inUse = ctx.inUse /\ ctx'.locked = ctx.locked /\ ctx'.set = ctx.set
  BY <1>1 DEF ContextState, ContextInv, VoInv, Drawing
<1>3. /\ images' \in ImageState /\ images'.items = <<>> /\ images'.inFlight <= images.inFlight
      /\ \A j \in Images : images'.refs[j] = IF j = ctx.cur THEN images.refs[j] \ {"cur"} ELSE images.refs[j]
      /\ Balanced(images)'
  <2>1. CASE ctx.cur = None
    <3>1. images' = images
      BY <2>1 DEF DropDirectly
    <3>2. QED
      <4>1. Balanced(images)'
        BY <3>1 DEF FlightInv, Balanced, Live, Frees
      <4>2. \A j \in Images : j # ctx.cur
        BY <2>1, NoneIsNoImage
      <4>3. images'.inFlight <= images.inFlight
        BY <1>1, <3>1
      <4>4. QED
        BY <1>1, <3>1, <4>1, <4>2, <4>3
  <2>2. CASE ctx.cur # None
    <3> DEFINE e == [images EXCEPT !.refs[ctx.cur] = @ \ {"cur"}]
    <3>1. ctx.cur \in Images /\ "cur" \in images.refs[ctx.cur]
      BY <1>1, <2>2 DEF HolderInv, HeldBy
    <3>2. /\ e \in ImageState /\ e.items = images.items /\ e.inFlight = images.inFlight
          /\ \A j \in Images : e.refs[j] = IF j = ctx.cur THEN images.refs[j] \ {"cur"} ELSE images.refs[j]
      BY <1>1, <3>1 DEF ImageState
    <3>3. images' = IF e.refs[ctx.cur] = {} /\ advanced THEN [e EXCEPT !.inFlight = @ - 1] ELSE e
      BY <2>2 DEF DropDirectly
    <3> HIDE DEF e
    <3>4. /\ IsFiniteSet(Live(images)) /\ Cardinality(Live(images)) \in Nat
          /\ Cardinality(Frees(images)) \in Nat /\ ctx.cur \in Live(images)
      BY <1>1, <3>1, LiveAndFreesAreFinite DEF Live
    <3>5. CASE e.refs[ctx.cur] = {} /\ advanced
      <4>1. Live(e) = Live(images) \ {ctx.cur}
        BY <3>1, <3>2, <3>5 DEF Live
      <4>2. Cardinality(Live(e)) = Cardinality(Live(images)) - 1
        BY <3>4, <4>1, FS_RemoveElement
      <4>3. Cardinality(Live(images)) # 0
        BY <3>4, FS_EmptySet
      <4>4. images.inFlight = Cardinality(Live(images)) + Cardinality(Frees(images))
        BY <3>5 DEF FlightInv, Balanced
      <4>5. images.inFlight - 1 \in 0 .. MaxImages
        BY <1>1, <3>4, <4>3, <4>4, ConstantsAssumption
      <4>6. /\ images' \in ImageState /\ images'.refs = e.refs /\ images'.items = e.items
            /\ images'.inFlight = images.inFlight - 1
        BY <3>2, <3>3, <3>5, <4>5 DEF ImageState
      <4>7. Live(images') = Live(e) /\ Frees(images') = Frees(images)
        BY <3>2, <4>6 DEF Live, Frees
      <4>8. images'.inFlight = Cardinality(Live(images')) + Cardinality(Frees(images'))
        BY <3>4, <4>2, <4>4, <4>6, <4>7
      <4>9. Balanced(images)'
        BY <3>5, <4>8 DEF Balanced, Live, Frees
      <4>10. QED
        <5>1. images'.items = <<>> /\ images'.inFlight <= images.inFlight
          BY <1>1, <3>2, <4>6
        <5>2. QED
          BY <3>2, <4>6, <4>9, <5>1
    <3>6. CASE ~(e.refs[ctx.cur] = {} /\ advanced)
      <4>1. images' = e
        BY <3>3, <3>6
      <4>2. advanced => \A j \in Images : e.refs[j] = {} <=> images.refs[j] = {}
        BY <3>1, <3>2, <3>6
      <4>3. Frees(images') = Frees(images) /\ (advanced => Live(images') = Live(images))
        BY <3>2, <4>1, <4>2 DEF Live, Frees
      <4>4. Balanced(images')
        BY <3>2, <4>1, <4>3 DEF FlightInv, Balanced
      <4>5. Balanced(images)'
        BY <4>4 DEF Balanced, Live, Frees
      <4>6. QED
        <5>1. images'.items = <<>> /\ images'.inFlight <= images.inFlight
          BY <1>1, <3>2, <4>1
        <5>2. QED
          BY <3>2, <4>1, <4>5, <5>1
    <3>7. QED
      BY <3>5, <3>6
  <2>3. QED
    BY <2>1, <2>2
<1>4. TypeOK'
  BY <1>2, <1>3 DEF TypeOK
<1>5. VoInv' /\ ChainInv'
  BY <1>2 DEF VoInv, VoPlaces, ChainInv, Drawing
<1>6. ContextInv'
  BY <1>2 DEF ContextInv, Drawing
<1>7. HolderInv'
  <2>1. \A j \in Images :
           /\ ~HeldBy("cur", j)'
           /\ \A g \in {"decoder", "queue", "vo", "next", "render", "shot"} :
                HeldBy(g, j)' <=> HeldBy(g, j)
    <3>1. \A j \in Images : HeldBy("cur", j) => j = ctx.cur
      BY DEF HolderInv
    <3>2. QED
      BY <1>3, <3>1 DEF HeldBy
  <2>2. QED
    BY <1>2, <2>1, NoneIsNoImage DEF HolderInv
<1>8. OnceInv' /\ FreshInv'
  BY <1>3 DEF OnceInv, FreshInv, HeldBy
<1>9. ItemInv'
  BY <1>3 DEF ItemInv
<1>10. FlightInv'
  <2>1. images'.inFlight \in Nat /\ counts.images \in Nat
    BY <1>3, ImageTypes DEF ImageState, TypeOK
  <2>2. images'.inFlight <= counts.images /\ (decPc = "request" => images'.inFlight < counts.images)
    BY <1>1, <1>3, <2>1 DEF FlightInv
  <2>3. QED
    BY <1>3, <2>2 DEF FlightInv
<1>11. FreedInv'
  <2>1. ASSUME images'.inFlight = 0, advanced
        PROVE  \A i \in Images : images'.refs[i] = {}
    <3>1. images'.inFlight = Cardinality(Live(images')) + Cardinality(Frees(images'))
      BY <1>3, <2>1 DEF Balanced, Live, Frees
    <3>2. /\ IsFiniteSet(Live(images')) /\ Cardinality(Live(images')) \in Nat
          /\ Cardinality(Frees(images')) \in Nat
      BY <1>3, LiveAndFreesAreFinite
    <3>3. Live(images') = {}
      BY <2>1, <3>1, <3>2, FS_EmptySet
    <3>4. QED
      BY <3>3 DEF Live
  <2>2. renderPc' = "freed" => images'.inFlight = 0
    OBVIOUS
  <2>3. QED
    BY <1>2, <1>3, <2>1, <2>2 DEF FreedInv
<1>12. ApplicationIsTold'
  BY <1>2, <1>3 DEF ApplicationIsTold
<1>13. QED
  BY <1>4, <1>5, <1>6, <1>7, <1>8, <1>9, <1>10, <1>11, <1>12

-----------------------------------------------------------------------------
(* The invariant.                                                          *)

LEMMA RenderInit ==
  ASSUME Init
  PROVE  RenderInv
<1> USE DEF Init
<1>1. 0 \in 0 .. MaxImages /\ 0 \in 0 .. MaxDraws /\ 0 \in 0 .. MaxShots
  BY ConstantsAssumption
<1>2. images \in ImageState /\ ctx \in ContextState /\ counts \in Counts
  BY <1>1 DEF ImageState, ContextState, Counts, Images, None
<1>3. TypeOK
  <2>1. advanced \in BOOLEAN
    BY ConstantsAssumption
  <2>2. /\ interrupted \in BOOLEAN /\ told \in BOOLEAN /\ wants \in BOOLEAN
        /\ stopVo \in BOOLEAN /\ kill \in BOOLEAN
    OBVIOUS
  <2>3. QED
    BY <1>2, <2>1, <2>2 DEF TypeOK
<1>4. VoInv /\ ChainInv /\ ContextInv
  BY DEF VoInv, VoPlaces, ChainInv, ContextInv, Drawing, None
<1>5. HolderInv /\ OnceInv /\ FreshInv
  BY NoneIsNoImage DEF HolderInv, OnceInv, FreshInv, HeldBy, None
<1>6. ItemInv
  BY DEF ItemInv
<1>7. FlightInv
  <2>1. Live(images) = {} /\ Frees(images) = {}
    BY DEF Live, Frees
  <2>2. Balanced(images)
    <3>1. Cardinality(Live(images)) = 0 /\ Cardinality(Frees(images)) = 0
      BY <2>1, FS_EmptySet
    <3>2. images.inFlight = 0 /\ images.items = <<>>
      OBVIOUS
    <3>3. QED
      BY <3>1, <3>2 DEF Balanced
  <2>3. QED
    BY <2>2 DEF FlightInv
<1>8. FreedInv /\ ApplicationIsTold
  BY DEF FreedInv, ApplicationIsTold, None
<1>9. QED
  BY <1>3, <1>4, <1>5, <1>6, <1>7, <1>8 DEF RenderInv

LEMMA RenderStutters ==
  ASSUME RenderInv, UNCHANGED vars
  PROVE  RenderInv'
<1> USE DEF vars, renderVars, voVars, coreVars, RenderInv
<1>1. TypeOK' /\ VoInv' /\ ChainInv' /\ ContextInv'
  BY DEF TypeOK, VoInv, VoPlaces, ChainInv, ContextInv
<1>2. HolderInv' /\ OnceInv' /\ FreshInv' /\ ItemInv'
  BY DEF HolderInv, OnceInv, FreshInv, ItemInv, HeldBy
<1>3. FlightInv' /\ FreedInv' /\ ApplicationIsTold'
  BY DEF FlightInv, Balanced, Live, Frees, FreedInv, ApplicationIsTold
<1>4. QED
  BY <1>1, <1>2, <1>3

LEMMA RenderNext ==
  ASSUME RenderInv, [Next]_vars
  PROVE  RenderInv'
<1>1. CASE renderPc # "aborted" /\ Vo
  BY <1>1, PreinitKeeps, NextFrameKeeps, DrawFrameKeeps, FlipPageKeeps, PresentedKeeps,
     GiveUpKeeps, SwappedKeeps, ControlKeeps, LeaveLoopKeeps, UninitKeeps,
     UninitInterruptKeeps, UpdateKeeps
  DEF Vo
<1>2. CASE renderPc # "aborted" /\ Decoder
  BY <1>2, QueueFrameKeeps, UpdateKeeps DEF Decoder
<1>3. CASE renderPc # "aborted" /\ Core
  BY <1>3, VoCreatedKeeps, UninitVideoOutKeeps, FreeChainKeeps, DestroyVoKeeps,
     VoDestroyedKeeps, UpdateKeeps
  DEF Core
<1>4. CASE renderPc # "aborted" /\ Shot
  BY <1>4, ShotWrittenKeeps, UpdateKeeps DEF Shot
<1>5. CASE renderPc # "aborted" /\ RenderThread
  BY <1>5, RunItemKeeps, UpdateReturnsKeeps, RenderedKeeps, RenderReturnsKeeps,
     KillVideoKeeps, ServeKeeps, BarrierKeeps, DestroyedKeeps
  DEF RenderThread
<1>6. CASE renderPc # "aborted" /\ Environment
  BY <1>6, DrawFrameKeeps, CallUpdateKeeps, RenderKeeps, FreeContextKeeps, CreateVoKeeps,
     UninitVideoOutKeeps, GetImageKeeps, ScreenshotGetKeeps, CurrentFrameKeeps
  DEF Environment
<1>7. CASE Aborted \/ UNCHANGED vars
  BY <1>7, RenderStutters DEF Aborted
<1>8. QED
  BY <1>1, <1>2, <1>3, <1>4, <1>5, <1>6, <1>7 DEF Next

(* The inductive invariant of the render context: who holds which image,   *)
(* how many are in flight, and who may still come to ctx->lock.            *)
THEOREM RenderInvariant == Spec => []RenderInv
  BY RenderInit, RenderNext, PTL DEF Spec

(* Types; draw_frame() never offers a frame on top of another, and         *)
(* dr_in_flight does not underflow in dr_thread_free().                    *)
THEOREM RenderTypeOK == Spec => []TypeOK
<1>1. RenderInv => TypeOK
  BY DEF RenderInv
<1>2. QED
  BY <1>1, RenderInvariant, PTL

(* "All references must have been freed on destruction" but for that of a  *)
(* software screenshot, and mpv_render_context_free() returns when nobody  *)
(* is left who comes back to the context.                                  *)
THEOREM ContextIsSafe == Spec => []ContextOutlivesUse
<1>1. ASSUME RenderInv PROVE ContextOutlivesUse
  <2> USE <1>1 DEF RenderInv
  <2>1. renderPc \in {"freed", "aborted"} =>
           /\ ~ctx.inUse /\ ~ctx.locked
           /\ voPc \in {"none", "preinit", "failed", "done"} /\ voPc \notin Drawing
    BY DEF ContextInv, TypeOK, Drawing
  <2>2. renderPc \in {"freed", "aborted"} =>
           /\ decPc = "idle" /\ queued = <<>> /\ current = None
           /\ ctx.next = None /\ ctx.cur = None /\ images.items = <<>>
           /\ waking \subseteq {"shot"}
    BY <2>1 DEF ChainInv, VoInv, FreedInv, TypeOK, Drawing
  <2>3. ReferencesAreFreed
    <3> SUFFICES ASSUME renderPc = "aborted", NEW i \in Images
                 PROVE  images.refs[i] \subseteq {"shot"}
      BY DEF ReferencesAreFreed
    <3>1. images.refs[i] \subseteq Holders
      BY DEF TypeOK, ImageState
    <3>2. i # None
      BY NoneIsNoImage
    <3>3. Len(queued) = 0
      BY <2>2
    <3>4. \A h \in {"decoder", "queue", "vo", "next", "cur", "render"} : h \notin images.refs[i]
      BY <2>2, <3>2, <3>3 DEF HolderInv, HeldBy
    <3>5. QED
      BY <3>1, <3>4 DEF Holders
  <2>4. QED
    BY <2>1, <2>2, <2>3 DEF ContextOutlivesUse
<1>2. QED
  BY <1>1, RenderInvariant, PTL

(* A frame that waits, and a request that the application has to serve,    *)
(* are never slept over: it was told, or will be.                          *)
THEOREM ApplicationAlwaysTold == Spec => []ApplicationIsTold
<1>1. RenderInv => ApplicationIsTold
  BY DEF RenderInv
<1>2. QED
  BY <1>1, RenderInvariant, PTL
=============================================================================
