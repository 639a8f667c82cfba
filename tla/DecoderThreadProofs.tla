------------------------ MODULE DecoderThreadProofs ------------------------
EXTENDS DecoderThread, FiniteSetTheorems, SequenceTheorems, TLAPS
(***************************************************************************)
(* Proofs about DecoderThread: for every stream, segmentation, codec delay *)
(* and queue size, no wakeup is lost between the decoder thread and the    *)
(* player, and the player gets every frame of the position once, in their  *)
(* order, and then the EOF.                                                *)
(*                                                                         *)
(* The invariant has three parts.  GraphInv: a filter of the thread's      *)
(* graph that is neither pending nor notified has nothing to do (Quiet),   *)
(* and what process() callbacks need of the pins and of the codec so that  *)
(* this stays true (PinsInv, CodecInv).  RunnerInv and CoreInv: a          *)
(* notification is followed by a wakeup of the thread it is for.  SeekInv  *)
(* and FlowInv: except while a seek is under way, what is on the pins and  *)
(* in the queues, read from the player to the demuxer, are the packets of  *)
(* the position one after the other, up to the one the demuxer gives next. *)
(*                                                                         *)
(* The lemmas go from the pins, over process() of each filter, which says  *)
(* that the filter is quiet or pending again, that others are pending if   *)
(* they have something new (Looks) and that nothing in the graph is lost   *)
(* (Keeps, Adds, Shifts), to one lemma for each action.                    *)
(***************************************************************************)

Pin == [requested : BOOLEAN, data : Data \cup {None}]
Segment == {NoSegment} \cup {SegmentOf[i] : i \in 1 .. NumPackets}
GraphState ==
  [pending : SUBSET Filters, pin : [Conns -> Pin],
   packet : Data \cup {None}, newSegment : Packets \cup {None}, segment : Segment,
   codec : [buffer : Seq(Packets), draining : BOOLEAN],
   eofReturned : BOOLEAN, packetsSent : BOOLEAN, demuxEof : BOOLEAN]
RunnerState == [async : SUBSET Filters, sent : BOOLEAN, interrupt : BOOLEAN]
QueueState == [active : BOOLEAN, reading : BOOLEAN, frames : Seq(Data)]
DemuxState ==
  [position : Positions, avail : 0 .. NumPackets, read : 0 .. NumPackets, eof : BOOLEAN,
   reading : BOOLEAN, blocked : BOOLEAN, needWakeup : BOOLEAN]
CoreState ==
  [requested : BOOLEAN, data : Data \cup {None}, pending : BOOLEAN,
   async : BOOLEAN, sent : BOOLEAN, woken : BOOLEAN]

Types ==
  /\ graph \in GraphState /\ runner \in RunnerState
  /\ dispatch \in [interrupted : BOOLEAN, terminate : BOOLEAN]
  /\ decPc \in {"run", "interrupt", "next", "process", "exit", "enter", "wait", "done"}
  /\ queue \in QueueState /\ core \in CoreState
  /\ demux \in DemuxState /\ demux.read <= demux.avail
  /\ demux.eof => demux.avail = NumPackets
  /\ corePc \in {"idle", "flush", "process", "check", "sleep", "ended", "reset",
                 "lock", "locking", "resume", "unblock", "join", "gone"}
  /\ op \in {"reset", "control", "destroy"}
  /\ got \in Seq(Data)
  /\ calls \in [seeks : Positions, controls : 0 .. MaxControls]
  /\ demux.position = calls.seeks

(* A pin is asked for data or has some.                                    *)
PinsInv(g) == \A c \in Conns : ~(NeedsData(g, c) /\ HasData(g, c))

(* The codec: what is in it was sent since it was drained last; behind an  *)
(* EOF it is asked for nothing; and a segment waits for the EOF that was   *)
(* sent to drain the one before it.                                        *)
IsEmpty(g, c) == ~NeedsData(g, c) /\ ~HasData(g, c)
CodecInv(g) ==
  /\ Len(g.codec.buffer) <= Delay + 1
  /\ g.codec.draining => g.packetsSent /\ IsEmpty(g, "toCodec")
  /\ ~g.packetsSent => g.codec.buffer = <<>>
  /\ g.eofReturned /\ g.packetsSent => g.codec.buffer # <<>>
  /\ g.pin["fromCodec"].data = EOF => IsEmpty(g, "toCodec") /\ ~g.packetsSent
  /\ g.newSegment # None =>
       /\ g.packet = None
       /\ g.pin["toCodec"].data = EOF \/ g.codec.draining \/ g.pin["fromCodec"].data = EOF

(* A filter that is not going to be processed has nothing to do.           *)
LavcQuiet(g) ==
  NeedsData(g, "fromCodec") =>
    NeedsData(g, "toCodec") /\ ~g.codec.draining /\ ~CodecHasFrame(g)
DecodeQuiet(g) ==
  /\ NeedsData(g, "toCodec") => g.packet = None /\ NeedsData(g, "packets")
  /\ NeedsData(g, "frames") => NeedsData(g, "fromCodec")
DemuxQuiet(g, d) ==
  NeedsData(g, "packets") =>
    d.blocked \/ (d.read = d.avail /\ d.needWakeup /\ (d.eof => g.demuxEof))
QueueQuiet(g, q) == q.reading /\ ~IsFull(q.frames) => NeedsData(g, "frames")

Quiet(g, notified, q, d) ==
  /\ "lavc" \in notified \/ LavcQuiet(g)
  /\ "decode" \in notified \/ DecodeQuiet(g)
  /\ "demux" \in notified \/ DemuxQuiet(g, d)
  /\ "queue" \in notified \/ QueueQuiet(g, q)

GraphInv(g, async, q, d) == PinsInv(g) /\ CodecInv(g) /\ Quiet(g, g.pending \cup async, q, d)

(* No wakeup of the thread is lost.                                        *)
RunnerInv ==
  /\ runner.async # {} => runner.sent
  /\ runner.sent => dispatch.interrupted \/ decPc \in {"run", "done"}
  /\ decPc = "exit" => dispatch.interrupted
  /\ decPc \in {"enter", "wait"} => dispatch.interrupted \/ graph.pending = {}

(* No wakeup of the player is lost.                                        *)
Unlocked == corePc \in {"idle", "flush", "process", "check", "sleep"}
CoreInv ==
  /\ core.requested => core.data = None
  /\ core.async => core.sent
  /\ corePc \in {"process", "check", "sleep"} /\ core.sent => core.woken
  /\ core.requested /\ ~core.pending /\ ~core.async /\ queue.active =>
       queue.reading /\ queue.frames = <<>>
  /\ corePc \in {"flush", "process", "check", "sleep"} /\ core.data = None => core.requested
  /\ corePc \in {"check", "sleep"} => ~core.pending
  /\ corePc = "sleep" => core.data = None

(* A seek: the graph is stale from the seek of the demuxer to the reset    *)
(* with the lock held, the queue inactive from its reset to its resuming,  *)
(* and the demuxer blocked all the time.                                   *)
Locking == corePc \in {"lock", "locking"} /\ op = "reset"
Stale == corePc = "reset" \/ Locking
SeekInv ==
  /\ queue.active <=> ~(Locking \/ corePc = "resume")
  /\ demux.blocked <=> Stale \/ corePc \in {"resume", "unblock"}
  /\ Stale => demux.read = 0 /\ got = <<>>
  /\ ~queue.active =>
       ~queue.reading /\ queue.frames = <<>> /\ core.data = None /\ ~core.requested
  /\ Unlocked \/ corePc \in {"resume", "unblock"} => Len(got) <= NumPackets

(* What is between the demuxer and the player: from downstream to          *)
(* upstream the packets of the position in their order, the EOF last.      *)
Item(p, i) == IF i <= NumPackets THEN Packet(p, i) ELSE EOF
One(x) == IF x = None THEN 0 ELSE 1
Real(g, x) == IF x = None \/ (x = EOF /\ g.newSegment # None) THEN 0 ELSE 1
Held(g) == IF g.codec.draining /\ g.newSegment = None THEN 1 ELSE 0
IsItem(x, p, i) == x # None => x = Item(p, i)
AreItems(s, p, n) == \A j \in DOMAIN s : s[j] = Item(p, n + j)

ToFrames(g, n) == n + One(g.pin["frames"].data)
ToFromCodec(g, n) == ToFrames(g, n) + Real(g, g.pin["fromCodec"].data)
ToBuffer(g, n) == ToFromCodec(g, n) + Len(g.codec.buffer)
ToHeld(g, n) == ToBuffer(g, n) + Held(g)
ToToCodec(g, n) == ToHeld(g, n) + Real(g, g.pin["toCodec"].data)
ToPacket(g, n) == ToToCodec(g, n) + One(g.packet) + One(g.newSegment)
ToPackets(g, n) == ToPacket(g, n) + One(g.pin["packets"].data)

Holds(g, p, n) ==
  /\ IsItem(g.pin["frames"].data, p, ToFrames(g, n))
  /\ Real(g, g.pin["fromCodec"].data) = 1 =>
       g.pin["fromCodec"].data = Item(p, ToFromCodec(g, n))
  /\ AreItems(g.codec.buffer, p, ToFromCodec(g, n))
  /\ Held(g) = 1 => ToHeld(g, n) = NumPackets + 1
  /\ Real(g, g.pin["toCodec"].data) = 1 =>
       g.pin["toCodec"].data = Item(p, ToToCodec(g, n))
  /\ IsItem(g.packet, p, ToPacket(g, n))
  /\ IsItem(g.newSegment, p, ToPacket(g, n))
  /\ IsItem(g.pin["packets"].data, p, ToPackets(g, n))

Read(g, d) == d.read + (IF g.demuxEof THEN 1 ELSE 0)
ToCore(s, x) == Len(s) + One(x)
ToQueue(s, x, q) == ToCore(s, x) + Len(q.frames)
Flow(g, s, x, q, d) ==
  /\ AreItems(s, d.position, 0)
  /\ IsItem(x, d.position, ToCore(s, x))
  /\ AreItems(q.frames, d.position, ToCore(s, x))
  /\ Holds(g, d.position, ToQueue(s, x, q))
  /\ ToPackets(g, ToQueue(s, x, q)) = Read(g, d)
  /\ g.demuxEof => d.eof /\ d.read = NumPackets
  /\ ~q.reading => IsEmpty(g, "frames")
FlowInv == ~Stale => Flow(graph, got, core.data, queue, demux)

Inv ==
  /\ Types
  /\ GraphInv(graph, runner.async, queue, demux)
  /\ RunnerInv /\ CoreInv /\ SeekInv /\ FlowInv

-------------------------------------------------------------------------------
\* The constants.
LEMMA Sizes == /\ NumPackets \in Nat /\ Delay \in Nat /\ MaxFrames \in Nat \ {0}
               /\ MaxSeeks \in Nat /\ MaxControls \in Nat
  BY ConstantsAssumption

\* Packets, the EOF and no frame at all are different things.
LEMMA Kinds ==
  /\ None # EOF /\ None \notin Data /\ None \notin Packets /\ EOF \notin Packets
  /\ Packets \subseteq Data /\ EOF \in Data
  /\ \A p \in Positions, i \in 1 .. NumPackets : Packet(p, i) \in Packets
<1>1. \A p, i : Packet(p, i) # None /\ Packet(p, i) # EOF
  BY DEF Packet, None, EOF
<1>2. None # EOF
  BY DEF None, EOF
<1>3. QED
  BY <1>1, <1>2 DEF Data, Packets

\* A pin is its request and its data.
LEMMA PinEquals ==
  ASSUME NEW r \in Pin, NEW s \in Pin, r.requested = s.requested, r.data = s.data
  PROVE  r = s
<1>1. r = [requested |-> r.requested, data |-> r.data]
  BY DEF Pin
<1>2. s = [requested |-> s.requested, data |-> s.data]
  BY DEF Pin
<1>3. QED
  BY <1>1, <1>2

\* What the three operations on a pin do to the graph.
SameRest(g, h) ==
  /\ h.packet = g.packet /\ h.newSegment = g.newSegment /\ h.segment = g.segment
  /\ h.codec = g.codec /\ h.eofReturned = g.eofReturned /\ h.packetsSent = g.packetsSent
  /\ h.demuxEof = g.demuxEof
PinBecomes(g, h, c, requested, data) ==
  /\ h \in GraphState /\ SameRest(g, h)
  /\ \A k \in Conns \ {c} : h.pin[k] = g.pin[k]
  /\ h.pin[c] \in Pin /\ h.pin[c].requested = requested /\ h.pin[c].data = data

\* The effect of setting one pin.
LEMMA PinIsSet ==
  ASSUME NEW g \in GraphState, NEW c \in Conns, NEW r \in Pin, NEW h \in GraphState,
         h.pin = [g.pin EXCEPT ![c] = r], SameRest(g, h)
  PROVE  PinBecomes(g, h, c, r.requested, r.data)
<1>1. g.pin \in [Conns -> Pin]
  BY DEF GraphState
<1>2. h.pin[c] = r /\ \A k \in Conns \ {c} : h.pin[k] = g.pin[k]
  BY <1>1
<1>3. QED
  BY <1>2 DEF PinBecomes

\* The ends of a connection are filters.
LEMMA FilterOf == \A c \in Conns : Producer(c) \in Filters /\ Consumer(c) \in Filters
  BY DEF Conns, Filters, Producer, Consumer

\* mp_pin_out_request_data() on a pin that has nothing.
LEMMA Requested ==
  ASSUME NEW g \in GraphState, NEW c \in Conns, ~HasData(g, c), ~NeedsData(g, c)
  PROVE  /\ PinBecomes(g, RequestData(g, c), c, TRUE, None)
         /\ RequestData(g, c).pending = g.pending \cup {Producer(c)}
<1> DEFINE r == [g.pin[c] EXCEPT !.requested = TRUE]
           F == g.pending \cup {Producer(c)}
<1>1. g.pin[c] \in Pin /\ F \in SUBSET Filters
  BY FilterOf DEF GraphState
<1>2. r \in Pin /\ r.requested = TRUE /\ r.data = None
  BY <1>1 DEF Pin, HasData
<1>3. /\ RequestData(g, c).pin = [g.pin EXCEPT ![c] = r] /\ RequestData(g, c).pending = F
      /\ SameRest(g, RequestData(g, c))
  BY DEF RequestData, AddPending, HasData, NeedsData, GraphState, SameRest
<1>4. RequestData(g, c) \in GraphState
  <2>1. [g.pin EXCEPT ![c] = r] \in [Conns -> Pin]
    BY <1>2 DEF GraphState
  <2>2. QED
    BY <1>1, <2>1 DEF RequestData, AddPending, HasData, NeedsData, GraphState
<1>5. PinBecomes(g, RequestData(g, c), c, r.requested, r.data)
  <2> HIDE DEF r, F
  <2>1. QED
    BY <1>2, <1>3, <1>4, PinIsSet
<1>6. QED
  <2> HIDE DEF r
  <2>1. QED
    BY <1>2, <1>3, <1>5

\* mp_pin_in_write() to a pin that was asked for data.
LEMMA WrittenTo ==
  ASSUME NEW g \in GraphState, NEW c \in Conns, NEW x \in Data, NeedsData(g, c)
  PROVE  /\ PinBecomes(g, PinWrite(g, c, x), c, FALSE, x)
         /\ PinWrite(g, c, x).pending = g.pending \cup {Consumer(c)}
<1> DEFINE r == [requested |-> FALSE, data |-> x]
           F == g.pending \cup {Consumer(c)}
<1>1. F \in SUBSET Filters
  BY FilterOf DEF GraphState
<1>2. r \in Pin /\ r.requested = FALSE /\ r.data = x
  BY DEF Pin
<1>3. /\ PinWrite(g, c, x).pin = [g.pin EXCEPT ![c] = r] /\ PinWrite(g, c, x).pending = F
      /\ SameRest(g, PinWrite(g, c, x))
  BY DEF PinWrite, AddPending, NeedsData, GraphState, SameRest
<1>4. PinWrite(g, c, x) \in GraphState
  <2>1. [g.pin EXCEPT ![c] = r] \in [Conns -> Pin]
    BY <1>2 DEF GraphState
  <2>2. QED
    BY <1>1, <2>1 DEF PinWrite, AddPending, NeedsData, GraphState
<1>5. PinBecomes(g, PinWrite(g, c, x), c, r.requested, r.data)
  <2> HIDE DEF r, F
  <2>1. QED
    BY <1>2, <1>3, <1>4, PinIsSet
<1>6. QED
  <2> HIDE DEF r
  <2>1. QED
    BY <1>2, <1>3, <1>5

\* mp_pin_out_read() of a pin.
LEMMA Taken ==
  ASSUME NEW g \in GraphState, NEW c \in Conns, ~NeedsData(g, c)
  PROVE  /\ PinBecomes(g, TakeData(g, c), c, FALSE, None)
         /\ TakeData(g, c).pending = g.pending
<1> DEFINE r == [g.pin[c] EXCEPT !.data = None]
           F == g.pending
<1>1. g.pin[c] \in Pin /\ F \in SUBSET Filters
  BY DEF GraphState
<1>2. r \in Pin /\ r.requested = FALSE /\ r.data = None
  BY <1>1 DEF Pin, NeedsData
<1>3. /\ TakeData(g, c).pin = [g.pin EXCEPT ![c] = r] /\ TakeData(g, c).pending = F
      /\ SameRest(g, TakeData(g, c))
  BY DEF TakeData, GraphState, SameRest
<1>4. TakeData(g, c) \in GraphState
  <2>1. [g.pin EXCEPT ![c] = r] \in [Conns -> Pin]
    BY <1>2 DEF GraphState
  <2>2. QED
    BY <1>1, <2>1 DEF TakeData, GraphState
<1>5. PinBecomes(g, TakeData(g, c), c, r.requested, r.data)
  <2> HIDE DEF r, F
  <2>1. QED
    BY <1>2, <1>3, <1>4, PinIsSet
<1>6. QED
  <2> HIDE DEF r
  <2>1. QED
    BY <1>2, <1>3, <1>5

-------------------------------------------------------------------------------
(* process() of each filter: it has nothing left to do, or is pending      *)
(* again; the others are pending if there is something new for them; and   *)
(* what was in the graph still is.                                         *)

Looks(g, async, q, d) ==
  g \in GraphState /\ PinsInv(g) /\ CodecInv(g) /\ Quiet(g, g.pending \cup async, q, d)
Keeps(g, h) ==
  /\ IsEmpty(g, "frames") => IsEmpty(h, "frames")
  /\ \A p \in Positions, n \in Nat :
       Holds(g, p, n) /\ ToPackets(g, n) <= NumPackets + 1 =>
         Holds(h, p, n) /\ ToPackets(h, n) = ToPackets(g, n)

\* The connections and their ends.
LEMMA ConnNames ==
  /\ "packets" \in Conns /\ "toCodec" \in Conns /\ "fromCodec" \in Conns /\ "frames" \in Conns
  /\ Producer("packets") = "demux" /\ Producer("toCodec") = "decode"
  /\ Producer("fromCodec") = "lavc" /\ Producer("frames") = "decode"
  /\ Consumer("packets") = "decode" /\ Consumer("toCodec") = "lavc"
  /\ Consumer("fromCodec") = "decode" /\ Consumer("frames") = "queue"
  BY DEF Conns, Producer, Consumer

\* What each part of the graph says of its number.
LEMMA Counts ==
  ASSUME NEW g \in GraphState, NEW n \in Nat
  PROVE  /\ \A c \in Conns : One(g.pin[c].data) \in {0, 1} /\ Real(g, g.pin[c].data) \in {0, 1}
         /\ Held(g) \in {0, 1} /\ One(g.packet) \in {0, 1} /\ One(g.newSegment) \in {0, 1}
         /\ Len(g.codec.buffer) \in Nat
         /\ ToFrames(g, n) \in Nat /\ ToFromCodec(g, n) \in Nat /\ ToBuffer(g, n) \in Nat
         /\ ToHeld(g, n) \in Nat /\ ToToCodec(g, n) \in Nat /\ ToPacket(g, n) \in Nat
         /\ ToPackets(g, n) \in Nat
<1>1. /\ \A c \in Conns : One(g.pin[c].data) \in {0, 1} /\ Real(g, g.pin[c].data) \in {0, 1}
      /\ Held(g) \in {0, 1} /\ One(g.packet) \in {0, 1} /\ One(g.newSegment) \in {0, 1}
  BY DEF One, Real, Held
<1>2. Len(g.codec.buffer) \in Nat
  <2>1. g.codec.buffer \in Seq(Packets)
    BY DEF GraphState
  <2>2. QED
    BY <2>1
<1>3. ToFrames(g, n) \in Nat
  BY <1>1, ConnNames DEF ToFrames
<1>4. ToFromCodec(g, n) \in Nat
  BY <1>1, <1>3, ConnNames DEF ToFromCodec
<1>5. ToBuffer(g, n) \in Nat
  BY <1>2, <1>4 DEF ToBuffer
<1>6. ToHeld(g, n) \in Nat
  BY <1>1, <1>5 DEF ToHeld
<1>7. ToToCodec(g, n) \in Nat
  BY <1>1, <1>6, ConnNames DEF ToToCodec
<1>8. ToPacket(g, n) \in Nat
  BY <1>1, <1>7 DEF ToPacket
<1>9. ToPackets(g, n) \in Nat
  BY <1>1, <1>8, ConnNames DEF ToPackets
<1>10. QED
  BY <1>1, <1>2, <1>3, <1>4, <1>5, <1>6, <1>7, <1>8, <1>9

\* demux_in notes whether the stream ended, and puts a frame on its pin.
Adds(g, h, x) ==
  /\ IsEmpty(g, "frames") => IsEmpty(h, "frames")
  /\ \A p \in Positions, n \in Nat :
       Holds(g, p, n) /\ x = Item(p, ToPackets(g, n) + 1) =>
         Holds(h, p, n) /\ ToPackets(h, n) = ToPackets(g, n) + 1
EofBecomes(g, f, eof) ==
  /\ f \in GraphState /\ f.pin = g.pin /\ f.pending = g.pending /\ f.packet = g.packet
  /\ f.newSegment = g.newSegment /\ f.codec = g.codec /\ f.eofReturned = g.eofReturned
  /\ f.packetsSent = g.packetsSent /\ f.demuxEof = eof

\* eof_returned of demux_in.
LEMMA EofIsSet ==
  ASSUME NEW g \in GraphState, NEW eof \in BOOLEAN, NEW f, f = [g EXCEPT !.demuxEof = eof]
  PROVE  EofBecomes(g, f, eof)
  BY DEF GraphState, EofBecomes

\* demux_in writes what it read.
LEMMA DemuxWrites ==
  ASSUME NEW g \in GraphState, NEW async \in SUBSET Filters, PinsInv(g), CodecInv(g),
         Quiet(g, g.pending \cup async \cup {"demux"}, queue, demux),
         NeedsData(g, "packets"), NEW eof \in BOOLEAN, NEW x \in Data, NEW d,
         NEW f, EofBecomes(g, f, eof), NEW h, h = PinWrite(f, "packets", x)
  PROVE  /\ Looks(h, async, queue, d)
         /\ h.demuxEof <=> eof
         /\ Adds(g, h, x)
<1>1. /\ f \in GraphState /\ f.pin = g.pin /\ f.pending = g.pending /\ f.packet = g.packet
      /\ f.newSegment = g.newSegment /\ f.codec = g.codec /\ f.eofReturned = g.eofReturned
      /\ f.packetsSent = g.packetsSent /\ f.demuxEof = eof
  BY DEF EofBecomes
<1>2. NeedsData(f, "packets")
  BY <1>1 DEF NeedsData
<1>4. PinBecomes(f, h, "packets", FALSE, x) /\ h.pending = f.pending \cup {"decode"}
  BY <1>1, <1>2, WrittenTo, ConnNames
<1>5. /\ h \in GraphState /\ h.packet = g.packet /\ h.newSegment = g.newSegment /\ h.codec = g.codec
      /\ h.eofReturned = g.eofReturned /\ h.packetsSent = g.packetsSent /\ h.demuxEof = eof
      /\ h.pin["toCodec"] = g.pin["toCodec"] /\ h.pin["fromCodec"] = g.pin["fromCodec"]
      /\ h.pin["frames"] = g.pin["frames"] /\ ~h.pin["packets"].requested
      /\ h.pin["packets"].data = x /\ h.pending = g.pending \cup {"decode"}
  BY <1>1, <1>4, ConnNames DEF PinBecomes, SameRest, Conns
<1>6. g.pin["packets"].data = None
  BY ConnNames DEF PinsInv, NeedsData, HasData
<1>a. One(h.pin["packets"].data) = 1 /\ One(g.pin["packets"].data) = 0
  BY <1>5, <1>6, Kinds DEF One
<1>7. PinsInv(h)
  BY <1>5 DEF PinsInv, NeedsData, HasData, Conns
<1>8. CodecInv(h)
  BY <1>5 DEF CodecInv, IsEmpty, NeedsData, HasData
<1>9. Quiet(h, h.pending \cup async, queue, d)
  BY <1>5 DEF Quiet, LavcQuiet, DemuxQuiet, QueueQuiet, NeedsData, CodecHasFrame
<1>10. ASSUME NEW p \in Positions, NEW n \in Nat, Holds(g, p, n), x = Item(p, ToPackets(g, n) + 1)
       PROVE  Holds(h, p, n) /\ ToPackets(h, n) = ToPackets(g, n) + 1
  <2>1. /\ ToFrames(h, n) = ToFrames(g, n) /\ ToFromCodec(h, n) = ToFromCodec(g, n)
        /\ ToBuffer(h, n) = ToBuffer(g, n) /\ ToHeld(h, n) = ToHeld(g, n)
        /\ ToToCodec(h, n) = ToToCodec(g, n) /\ ToPacket(h, n) = ToPacket(g, n)
    BY <1>5 DEF ToFrames, ToFromCodec, ToBuffer, ToHeld, ToToCodec, ToPacket, Real, Held
  <2>2. ToPackets(g, n) = ToPacket(g, n) /\ ToPackets(h, n) = ToPacket(g, n) + 1
    BY <1>5, <1>6, <1>a, <2>1, Counts DEF ToPackets
  <2>3. Holds(h, p, n)
    BY <1>5, <1>10, <2>1, <2>2 DEF Holds, IsItem, Real, Held
  <2>4. QED
    BY <2>2, <2>3
<1>11. QED
  BY <1>5, <1>7, <1>8, <1>9, <1>10 DEF Looks, Adds, IsEmpty, NeedsData, HasData

\* process() of demux_in.
LEMMA DemuxProcessed ==
  ASSUME NEW g \in GraphState, NEW async \in SUBSET Filters, PinsInv(g), CodecInv(g),
         Quiet(g, g.pending \cup async \cup {"demux"}, queue, demux), Types,
         NeedsData(g, "packets"), NEW h, h = ProcessDemux(g)
  PROVE  /\ Looks(h, async, queue, DemuxAfterRead)
         /\ DemuxAfterRead \in DemuxState /\ DemuxAfterRead.read <= DemuxAfterRead.avail
         /\ DemuxAfterRead.eof => DemuxAfterRead.avail = NumPackets
         /\ DemuxAfterRead.position = demux.position /\ DemuxAfterRead.blocked = demux.blocked
         /\ demux.blocked => DemuxAfterRead = demux
         /\ IsEmpty(g, "frames") => IsEmpty(h, "frames")
         /\ \A n \in Nat :
              /\ Holds(g, demux.position, n) /\ ToPackets(g, n) = Read(g, demux)
              /\ g.demuxEof => demux.eof /\ demux.read = NumPackets
              => /\ Holds(h, demux.position, n) /\ ToPackets(h, n) = Read(h, DemuxAfterRead)
                 /\ h.demuxEof => DemuxAfterRead.eof /\ DemuxAfterRead.read = NumPackets
<1> DEFINE d == DemuxAfterRead
<1>1. /\ demux.read \in Nat /\ demux.avail \in Nat /\ demux.read <= demux.avail
      /\ demux.avail <= NumPackets /\ NumPackets \in Nat /\ demux.position \in Positions
      /\ demux.eof => demux.avail = NumPackets
  BY Sizes DEF Types, DemuxState
<1>2. /\ d \in DemuxState /\ d.position = demux.position /\ d.blocked = demux.blocked
      /\ d.avail = demux.avail /\ d.eof = demux.eof
      /\ d.read = IF demux.blocked \/ demux.read = demux.avail THEN demux.read ELSE demux.read + 1
      /\ ~demux.blocked => d.needWakeup = (demux.read = demux.avail)
      /\ demux.blocked => d = demux
      /\ demux \in DemuxState
  <2>1. demux \in DemuxState
    BY DEF Types
  <2>2. CASE demux.blocked
    BY <2>1, <2>2 DEF DemuxAfterRead
  <2>3. CASE ~demux.blocked
    <3> DEFINE r == IF demux.read < demux.avail THEN demux.read + 1 ELSE demux.read
               w == demux.read = demux.avail
               v == demux.reading \/ ~demux.eof
    <3>1. r \in 0 .. NumPackets /\ w \in BOOLEAN /\ v \in BOOLEAN
      BY <1>1
    <3>2. d = [demux EXCEPT !.read = r, !.needWakeup = w, !.reading = v]
      BY <2>3 DEF DemuxAfterRead
    <3>3. r = IF demux.read = demux.avail THEN demux.read ELSE demux.read + 1
      BY <1>1
    <3> HIDE DEF r, w, v, d
    <3>4. /\ d \in DemuxState /\ d.position = demux.position /\ d.blocked = demux.blocked
          /\ d.avail = demux.avail /\ d.eof = demux.eof /\ d.read = r /\ d.needWakeup = w
      BY <2>1, <3>1, <3>2 DEF DemuxState
    <3>5. QED
      BY <2>1, <2>3, <3>3, <3>4 DEF w
  <2>4. QED
    BY <2>2, <2>3
<1> HIDE DEF d
<1>3. d.read <= d.avail /\ (d.eof => d.avail = NumPackets)
  BY <1>1, <1>2
<1>4. CASE ReadResult = None
  <2>1. h = g
    BY <1>4, Kinds DEF ProcessDemux
  <2>2. demux.blocked \/ (demux.read = demux.avail /\ ~demux.eof)
    BY <1>1, <1>4, Kinds DEF ReadResult, Packet, None
  <2>3. DemuxQuiet(h, d)
    BY <1>2, <2>1, <2>2 DEF DemuxQuiet
  <2>4. Quiet(h, h.pending \cup async, queue, d)
    BY <2>1, <2>3 DEF Quiet
  <2>5. Read(h, d) = Read(g, demux)
    BY <1>2, <2>1, <2>2 DEF Read
  <2>6. QED
    BY <1>2, <1>3, <2>1, <2>2, <2>4, <2>5 DEF Looks, d
<1>5. CASE ReadResult = EOF
  <2>1. ~demux.blocked /\ demux.read = demux.avail /\ demux.eof
    BY <1>1, <1>5, Kinds DEF ReadResult, Packet, EOF
  <2>2. CASE g.demuxEof
    <3>1. h = g
      BY <1>5, <2>2, Kinds DEF ProcessDemux
    <3>2. Quiet(h, h.pending \cup async, queue, d)
      BY <1>2, <2>1, <2>2, <3>1 DEF Quiet, DemuxQuiet
    <3>3. Read(h, d) = Read(g, demux)
      BY <1>2, <2>1, <3>1 DEF Read
    <3>4. QED
      BY <1>2, <1>3, <2>1, <3>1, <3>2, <3>3 DEF Looks, d
  <2>3. CASE ~g.demuxEof
    <3> DEFINE f == [g EXCEPT !.demuxEof = TRUE]
    <3>1. h = PinWrite(f, "packets", EOF)
      BY <1>5, <2>3, Kinds DEF ProcessDemux
    <3>a. EofBecomes(g, f, TRUE)
      BY EofIsSet
    <3> HIDE DEF f
    <3>2. Looks(h, async, queue, d) /\ h.demuxEof /\ Adds(g, h, EOF)
      BY <3>1, <3>a, Kinds, DemuxWrites
    <3>3. Read(g, demux) = NumPackets /\ Read(h, d) = NumPackets + 1 /\ d.read = NumPackets
      BY <1>1, <1>2, <2>1, <2>3, <3>2 DEF Read
    <3>4. \A p : EOF = Item(p, NumPackets + 1)
      BY <1>1 DEF Item
    <3>5. QED
      BY <1>1, <1>2, <1>3, <2>1, <3>2, <3>3, <3>4 DEF d, Adds
  <2>4. QED
    BY <2>2, <2>3
<1>6. CASE ReadResult # None /\ ReadResult # EOF
  <2> DEFINE x == Packet(demux.position, demux.read + 1)
  <2>1. ~demux.blocked /\ demux.read < demux.avail /\ ReadResult = x
    BY <1>6 DEF ReadResult
  <2>2. x \in Data
    BY <1>1, <2>1, Kinds
  <2> DEFINE f == [g EXCEPT !.demuxEof = FALSE]
  <2>3. h = PinWrite(f, "packets", x)
    BY <1>6, <2>1 DEF ProcessDemux
  <2>a. EofBecomes(g, f, FALSE)
    BY EofIsSet
  <2> HIDE DEF f
  <2>4. \A p \in Positions, n \in Nat : p = demux.position /\ ToPackets(g, n) = demux.read =>
          x = Item(p, ToPackets(g, n) + 1)
    BY <1>1, <2>1 DEF Item
  <2> HIDE DEF x
  <2>5. Looks(h, async, queue, d) /\ ~h.demuxEof /\ Adds(g, h, x)
    BY <2>2, <2>3, <2>a, DemuxWrites
  <2>6. Read(h, d) = demux.read + 1
    BY <1>1, <1>2, <2>1, <2>5 DEF Read
  <2>7. (g.demuxEof => demux.eof /\ demux.read = NumPackets) => Read(g, demux) = demux.read
    BY <1>1, <2>1 DEF Read
  <2>8. QED
    BY <1>1, <1>2, <1>3, <2>4, <2>5, <2>6, <2>7 DEF d, Adds
<1>7. QED
  BY <1>4, <1>5, <1>6

\* What lavc does to the codec.
CodecBecomes(f, h, buffer, draining, eofReturned, packetsSent) ==
  /\ h \in GraphState /\ h.pin = f.pin /\ h.packet = f.packet /\ h.newSegment = f.newSegment
  /\ h.demuxEof = f.demuxEof /\ h.codec.buffer = buffer /\ (h.codec.draining <=> draining)
  /\ (h.eofReturned <=> eofReturned) /\ (h.packetsSent <=> packetsSent)

\* A frame leaves the codec.
LEMMA CodecGivesFrame ==
  ASSUME NEW g \in GraphState, g.codec.buffer # <<>>,
         NEW f, f = [g EXCEPT !.codec.buffer = Tail(@), !.eofReturned = FALSE]
  PROVE  /\ CodecBecomes(g, f, Tail(g.codec.buffer), g.codec.draining, FALSE, g.packetsSent)
         /\ f.pending = g.pending
<1>1. g.codec \in [buffer : Seq(Packets), draining : BOOLEAN] /\ Tail(g.codec.buffer) \in Seq(Packets)
  BY DEF GraphState
<1> DEFINE c == [g.codec EXCEPT !.buffer = Tail(g.codec.buffer)]
<1>2. c \in [buffer : Seq(Packets), draining : BOOLEAN] /\ c.buffer = Tail(g.codec.buffer)
      /\ c.draining = g.codec.draining
  BY <1>1
<1>3. f = [g EXCEPT !.codec = c, !.eofReturned = FALSE]
  BY <1>1 DEF GraphState
<1> HIDE DEF c
<1>4. QED
  BY <1>2, <1>3 DEF CodecBecomes, GraphState

\* The codec is drained.
LEMMA CodecIsDrained ==
  ASSUME NEW g \in GraphState, NEW f,
         f = [g EXCEPT !.codec.draining = FALSE, !.eofReturned = TRUE, !.packetsSent = FALSE]
  PROVE  /\ CodecBecomes(g, f, g.codec.buffer, FALSE, TRUE, FALSE)
         /\ f.pending = g.pending
<1>1. g.codec \in [buffer : Seq(Packets), draining : BOOLEAN]
  BY DEF GraphState
<1> DEFINE c == [g.codec EXCEPT !.draining = FALSE]
<1>2. c \in [buffer : Seq(Packets), draining : BOOLEAN] /\ c.buffer = g.codec.buffer /\ ~c.draining
  BY <1>1
<1>3. f = [g EXCEPT !.codec = c, !.eofReturned = TRUE, !.packetsSent = FALSE]
  BY <1>1 DEF GraphState
<1> HIDE DEF c
<1>4. QED
  BY <1>2, <1>3 DEF CodecBecomes, GraphState

\* A packet enters the codec.
LEMMA CodecTakesPacket ==
  ASSUME NEW g \in GraphState, NEW x \in Packets, NEW h,
         h = AddPending([g EXCEPT !.codec.buffer = Append(@, x), !.packetsSent = TRUE], "lavc")
  PROVE  /\ CodecBecomes(g, h, Append(g.codec.buffer, x), g.codec.draining, g.eofReturned, TRUE)
         /\ h.pending = g.pending \cup {"lavc"}
<1>1. /\ g.codec \in [buffer : Seq(Packets), draining : BOOLEAN]
      /\ Append(g.codec.buffer, x) \in Seq(Packets) /\ g.pending \cup {"lavc"} \in SUBSET Filters
  BY DEF GraphState, Filters
<1> DEFINE c == [g.codec EXCEPT !.buffer = Append(g.codec.buffer, x)]
           f == [g EXCEPT !.codec = c, !.packetsSent = TRUE]
<1>2. c \in [buffer : Seq(Packets), draining : BOOLEAN] /\ c.buffer = Append(g.codec.buffer, x)
      /\ c.draining = g.codec.draining
  BY <1>1
<1>3. h = AddPending(f, "lavc")
  BY <1>1 DEF GraphState
<1> HIDE DEF c
<1>4. f \in GraphState
  BY <1>2 DEF GraphState
<1>5. QED
  BY <1>1, <1>2, <1>3, <1>4 DEF CodecBecomes, GraphState, AddPending

\* The codec starts to be drained.
LEMMA CodecDrains ==
  ASSUME NEW g \in GraphState, NEW h, h = AddPending([g EXCEPT !.codec.draining = TRUE], "lavc")
  PROVE  /\ CodecBecomes(g, h, g.codec.buffer, TRUE, g.eofReturned, g.packetsSent)
         /\ h.pending = g.pending \cup {"lavc"}
<1>1. /\ g.codec \in [buffer : Seq(Packets), draining : BOOLEAN]
      /\ g.pending \cup {"lavc"} \in SUBSET Filters
  BY DEF GraphState, Filters
<1> DEFINE c == [g.codec EXCEPT !.draining = TRUE]
           f == [g EXCEPT !.codec = c]
<1>2. c \in [buffer : Seq(Packets), draining : BOOLEAN] /\ c.buffer = g.codec.buffer /\ c.draining
  BY <1>1
<1>3. h = AddPending(f, "lavc")
  BY <1>1 DEF GraphState
<1> HIDE DEF c
<1>4. f \in GraphState
  BY <1>2 DEF GraphState
<1>5. QED
  BY <1>1, <1>2, <1>3, <1>4 DEF CodecBecomes, GraphState, AddPending

\* lavc returns a frame.
LEMMA LavcReturnsFrame ==
  ASSUME NEW g \in GraphState, NEW async \in SUBSET Filters, PinsInv(g), CodecInv(g), NEW q, NEW d,
         Quiet(g, g.pending \cup async \cup {"lavc"}, q, d),
         NeedsData(g, "fromCodec"), g.codec.buffer # <<>>,
         NEW f, CodecBecomes(g, f, Tail(g.codec.buffer), g.codec.draining, FALSE, g.packetsSent),
         f.pending = g.pending,
         NEW h, h = PinWrite(f, "fromCodec", Head(g.codec.buffer))
  PROVE  Looks(h, async, q, d) /\ Keeps(g, h) /\ (h.demuxEof <=> g.demuxEof)
<1> DEFINE x == Head(g.codec.buffer)
           s == g.codec.buffer
<1>1. s \in Seq(Packets) /\ Len(s) \in Nat /\ Len(s) # 0 /\ x = s[1] /\ x \in Packets
  <2>1. s \in Seq(Packets) /\ s # <<>>
    BY DEF GraphState
  <2> HIDE DEF s
  <2>2. QED
    BY <2>1 DEF s
<1>2. /\ Tail(s) \in Seq(Packets) /\ Len(Tail(s)) = Len(s) - 1
      /\ \A i \in 1 .. Len(s) - 1 : Tail(s)[i] = s[i + 1]
  <2> HIDE DEF s
  <2>1. QED
    BY <1>1, HeadTailProperties
<1>3. x \in Data /\ x # EOF /\ x # None
  BY <1>1, Kinds
<1>4. NeedsData(f, "fromCodec") /\ f \in GraphState
  BY DEF CodecBecomes, NeedsData
<1> HIDE DEF x, s
<1>a. h = PinWrite(f, "fromCodec", x)
  BY DEF x
<1>5. PinBecomes(f, h, "fromCodec", FALSE, x) /\ h.pending = f.pending \cup {"decode"}
  <2>1. /\ PinBecomes(f, PinWrite(f, "fromCodec", x), "fromCodec", FALSE, x)
        /\ PinWrite(f, "fromCodec", x).pending = f.pending \cup {Consumer("fromCodec")}
    BY <1>3, <1>4, WrittenTo, ConnNames
  <2>2. QED
    BY <1>a, <2>1, ConnNames
<1>6. /\ h \in GraphState /\ h.packet = g.packet /\ h.newSegment = g.newSegment
      /\ h.codec.buffer = Tail(s) /\ (h.codec.draining <=> g.codec.draining)
      /\ ~h.eofReturned /\ (h.packetsSent <=> g.packetsSent) /\ (h.demuxEof <=> g.demuxEof)
      /\ h.pin["toCodec"] = g.pin["toCodec"] /\ h.pin["packets"] = g.pin["packets"]
      /\ h.pin["frames"] = g.pin["frames"] /\ ~h.pin["fromCodec"].requested
      /\ h.pin["fromCodec"].data = x /\ h.pending = g.pending \cup {"decode"}
  BY <1>5, ConnNames DEF PinBecomes, SameRest, Conns, CodecBecomes, s
<1>7. g.pin["fromCodec"].data = None
  BY ConnNames DEF PinsInv, NeedsData, HasData
<1>8. PinsInv(h)
  BY <1>6 DEF PinsInv, NeedsData, HasData, Conns
<1>9. g.packetsSent /\ Len(s) <= Delay + 1
  BY DEF CodecInv, s
<1>10. CodecInv(h)
  <2>1. Len(h.codec.buffer) <= Delay + 1
    BY <1>1, <1>2, <1>6, <1>9, Sizes, SMTT(20)
  <2>2. h.packetsSent /\ ~h.eofReturned /\ h.pin["fromCodec"].data # EOF
    BY <1>3, <1>6, <1>9
  <2>3. QED
    BY <1>6, <1>7, <2>1, <2>2, Kinds DEF CodecInv, IsEmpty, NeedsData, HasData
<1>11. Quiet(h, h.pending \cup async, q, d)
  BY <1>6 DEF Quiet, LavcQuiet, DemuxQuiet, QueueQuiet, NeedsData
<1>12. ASSUME NEW p \in Positions, NEW n \in Nat, Holds(g, p, n)
       PROVE  Holds(h, p, n) /\ ToPackets(h, n) = ToPackets(g, n)
  <2> DEFINE k == ToFrames(g, n)
  <2>1. k \in Nat /\ ToFrames(h, n) = k /\ Held(h) = Held(g) /\ Held(g) \in {0, 1}
    BY <1>6, Counts DEF ToFrames, Held
  <2>2. Real(g, g.pin["fromCodec"].data) = 0 /\ Real(h, h.pin["fromCodec"].data) = 1
    BY <1>3, <1>6, <1>7, Kinds DEF Real
  <2>3. ToFromCodec(g, n) = k /\ ToFromCodec(h, n) = k + 1
    BY <2>1, <2>2 DEF ToFromCodec
  <2>4. ToBuffer(g, n) = k + Len(s) /\ ToBuffer(h, n) = k + Len(s)
    <3>1. ToBuffer(g, n) = k + Len(s) /\ ToBuffer(h, n) = (k + 1) + Len(Tail(s))
      BY <1>6, <2>3 DEF ToBuffer, s
    <3> HIDE DEF k
    <3>2. QED
      BY <1>1, <1>2, <2>1, <3>1
  <2>5. ToHeld(h, n) = ToHeld(g, n)
    BY <2>1, <2>4 DEF ToHeld
  <2>6. ToToCodec(h, n) = ToToCodec(g, n) /\ ToPacket(h, n) = ToPacket(g, n)
        /\ ToPackets(h, n) = ToPackets(g, n)
    BY <1>6, <2>5 DEF ToToCodec, ToPacket, ToPackets, Real
  <2>7. AreItems(s, p, k)
    BY <1>12, <2>3 DEF Holds, s
  <2>8. x = Item(p, k + 1) /\ AreItems(Tail(s), p, k + 1)
    <3>1. x = Item(p, k + 1)
      BY <1>1, <2>1, <2>7 DEF AreItems
    <3>2. ASSUME NEW j \in DOMAIN Tail(s) PROVE Tail(s)[j] = Item(p, k + 1 + j)
      <4>1. j \in 1 .. Len(s) - 1 /\ j + 1 \in DOMAIN s /\ k + (j + 1) = k + 1 + j
        BY <1>1, <1>2, <2>1
      <4>2. QED
        BY <1>2, <2>7, <4>1 DEF AreItems
    <3>3. QED
      BY <3>1, <3>2 DEF AreItems
  <2> HIDE DEF k
  <2>9. Holds(h, p, n)
    BY <1>6, <1>12, <2>1, <2>3, <2>5, <2>6, <2>8, <2>2 DEF Holds, IsItem, Real, k
  <2>10. QED
    BY <2>6, <2>9
<1>13. QED
  BY <1>6, <1>8, <1>10, <1>11, <1>12 DEF Looks, Keeps, IsEmpty, NeedsData, HasData

\* lavc was drained: the EOF.
LEMMA LavcEnds ==
  ASSUME NEW g \in GraphState, NEW async \in SUBSET Filters, PinsInv(g), CodecInv(g), NEW q, NEW d,
         Quiet(g, g.pending \cup async \cup {"lavc"}, q, d),
         NeedsData(g, "fromCodec"), g.codec.buffer = <<>>, g.codec.draining,
         NEW f, CodecBecomes(g, f, g.codec.buffer, FALSE, TRUE, FALSE), f.pending = g.pending,
         NEW h, h = PinWrite(f, "fromCodec", EOF)
  PROVE  Looks(h, async, q, d) /\ Keeps(g, h) /\ (h.demuxEof <=> g.demuxEof)
<1>1. NeedsData(f, "fromCodec") /\ f \in GraphState
  BY DEF CodecBecomes, NeedsData
<1>a. EOF \in Data
  BY Kinds
<1>2. PinBecomes(f, h, "fromCodec", FALSE, EOF) /\ h.pending = f.pending \cup {"decode"}
  <2>1. /\ PinBecomes(f, PinWrite(f, "fromCodec", EOF), "fromCodec", FALSE, EOF)
        /\ PinWrite(f, "fromCodec", EOF).pending = f.pending \cup {Consumer("fromCodec")}
    BY <1>1, <1>a, WrittenTo, ConnNames
  <2>2. QED
    BY <2>1, ConnNames
<1>3. /\ h \in GraphState /\ h.packet = g.packet /\ h.newSegment = g.newSegment
      /\ h.codec.buffer = <<>> /\ ~h.codec.draining
      /\ h.eofReturned /\ ~h.packetsSent /\ (h.demuxEof <=> g.demuxEof)
      /\ h.pin["toCodec"] = g.pin["toCodec"] /\ h.pin["packets"] = g.pin["packets"]
      /\ h.pin["frames"] = g.pin["frames"] /\ ~h.pin["fromCodec"].requested
      /\ h.pin["fromCodec"].data = EOF /\ h.pending = g.pending \cup {"decode"}
  BY <1>2, ConnNames DEF PinBecomes, SameRest, Conns, CodecBecomes
<1>4. g.pin["fromCodec"].data = None
  BY ConnNames DEF PinsInv, NeedsData, HasData
<1>5. PinsInv(h)
  BY <1>3 DEF PinsInv, NeedsData, HasData, Conns
<1>6. g.packetsSent /\ IsEmpty(g, "toCodec") /\ IsEmpty(h, "toCodec")
  BY <1>3 DEF CodecInv, IsEmpty, NeedsData, HasData
<1>7. CodecInv(h)
  <2>1. Len(h.codec.buffer) <= Delay + 1
    BY <1>3, Sizes
  <2>2. QED
    BY <1>3, <1>6, <2>1 DEF CodecInv
<1>8. Quiet(h, h.pending \cup async, q, d)
  BY <1>3 DEF Quiet, LavcQuiet, DemuxQuiet, QueueQuiet, NeedsData
<1>9. ASSUME NEW p \in Positions, NEW n \in Nat, Holds(g, p, n)
      PROVE  Holds(h, p, n) /\ ToPackets(h, n) = ToPackets(g, n)
  <2> DEFINE k == ToFrames(g, n)
             u == IF g.newSegment = None THEN 1 ELSE 0
  <2>1. k \in Nat /\ ToFrames(h, n) = k /\ u \in {0, 1}
    BY <1>3, Counts DEF ToFrames
  <2>2. /\ Real(g, g.pin["fromCodec"].data) = 0 /\ Real(h, h.pin["fromCodec"].data) = u
        /\ Held(g) = u /\ Held(h) = 0
    BY <1>3, <1>4, Kinds DEF Real, Held
  <2>3. Real(g, g.pin["toCodec"].data) = 0 /\ Real(h, h.pin["toCodec"].data) = 0
    BY <1>3, <1>6 DEF Real, IsEmpty, HasData
  <2> HIDE DEF u, k
  <2>4. ToFromCodec(g, n) = k /\ ToFromCodec(h, n) = k + u
    BY <2>1, <2>2 DEF ToFromCodec, k
  <2>5. ToBuffer(g, n) = k /\ ToBuffer(h, n) = k + u
    BY <1>3, <2>1, <2>4 DEF ToBuffer
  <2>6. ToHeld(g, n) = k + u /\ ToHeld(h, n) = k + u
    BY <2>1, <2>2, <2>5 DEF ToHeld
  <2>7. /\ ToToCodec(h, n) = ToToCodec(g, n) /\ ToPacket(h, n) = ToPacket(g, n)
        /\ ToPackets(h, n) = ToPackets(g, n)
    BY <1>3, <2>3, <2>6 DEF ToToCodec, ToPacket, ToPackets
  <2>8. u = 1 => k + u = NumPackets + 1
    BY <1>9, <2>2, <2>6 DEF Holds
  <2>9. Real(h, h.pin["fromCodec"].data) = 1 => h.pin["fromCodec"].data = Item(p, ToFromCodec(h, n))
    BY <1>3, <2>2, <2>4, <2>8, Sizes DEF Item
  <2>10. Holds(h, p, n)
    BY <1>3, <1>9, <2>1, <2>2, <2>3, <2>7, <2>9 DEF Holds, IsItem, AreItems, k
  <2>11. QED
    BY <2>7, <2>10
<1>10. QED
  BY <1>3, <1>5, <1>7, <1>8, <1>9 DEF Looks, Keeps, IsEmpty, NeedsData, HasData

\* lavc asks for a packet.
LEMMA LavcAsks ==
  ASSUME NEW g \in GraphState, NEW async \in SUBSET Filters, PinsInv(g), CodecInv(g), NEW q, NEW d,
         Quiet(g, g.pending \cup async \cup {"lavc"}, q, d),
         NeedsData(g, "fromCodec"), ~CodecHasFrame(g), ~g.codec.draining, ~HasData(g, "toCodec"),
         NEW h, h = RequestData(g, "toCodec")
  PROVE  Looks(h, async, q, d) /\ Keeps(g, h) /\ (h.demuxEof <=> g.demuxEof)
<1>1. CASE NeedsData(g, "toCodec")
  <2>1. h = g
    BY <1>1 DEF RequestData, NeedsData
  <2>2. LavcQuiet(h)
    BY <1>1, <2>1 DEF LavcQuiet
  <2>3. Quiet(h, h.pending \cup async, q, d)
    BY <2>1, <2>2 DEF Quiet
  <2>4. QED
    BY <2>1, <2>3 DEF Looks, Keeps, IsEmpty, NeedsData, HasData
<1>2. CASE ~NeedsData(g, "toCodec")
  <2>1. PinBecomes(g, h, "toCodec", TRUE, None) /\ h.pending = g.pending \cup {"decode"}
    BY <1>2, ConnNames, Requested
  <2>2. /\ h \in GraphState /\ h.packet = g.packet /\ h.newSegment = g.newSegment
        /\ h.codec = g.codec /\ h.eofReturned = g.eofReturned
        /\ h.packetsSent = g.packetsSent /\ (h.demuxEof <=> g.demuxEof)
        /\ h.pin["fromCodec"] = g.pin["fromCodec"] /\ h.pin["packets"] = g.pin["packets"]
        /\ h.pin["frames"] = g.pin["frames"] /\ h.pin["toCodec"].requested
        /\ h.pin["toCodec"].data = None /\ g.pin["toCodec"].data = None
        /\ h.pending = g.pending \cup {"decode"}
    BY <2>1, ConnNames DEF PinBecomes, SameRest, Conns, HasData
  <2>3. PinsInv(h)
    BY <2>2 DEF PinsInv, NeedsData, HasData, Conns
  <2>4. g.pin["fromCodec"].data = None
    BY ConnNames DEF PinsInv, NeedsData, HasData
  <2>5. CodecInv(h)
    BY <2>2, <2>4, Kinds DEF CodecInv, IsEmpty, NeedsData, HasData
  <2>6. Quiet(h, h.pending \cup async, q, d)
    BY <2>2 DEF Quiet, LavcQuiet, DemuxQuiet, QueueQuiet, NeedsData, CodecHasFrame
  <2>7. ASSUME NEW p \in Positions, NEW n \in Nat, Holds(g, p, n)
        PROVE  Holds(h, p, n) /\ ToPackets(h, n) = ToPackets(g, n)
    <3>1. /\ ToFrames(h, n) = ToFrames(g, n) /\ ToFromCodec(h, n) = ToFromCodec(g, n)
          /\ ToBuffer(h, n) = ToBuffer(g, n) /\ ToHeld(h, n) = ToHeld(g, n)
          /\ ToToCodec(h, n) = ToToCodec(g, n) /\ ToPacket(h, n) = ToPacket(g, n)
          /\ ToPackets(h, n) = ToPackets(g, n)
      BY <2>2 DEF ToFrames, ToFromCodec, ToBuffer, ToHeld, ToToCodec, ToPacket, ToPackets, Real, Held
    <3>2. QED
      BY <2>2, <2>7, <3>1 DEF Holds, IsItem, Real, Held
  <2>8. QED
    BY <2>2, <2>3, <2>5, <2>6, <2>7 DEF Looks, Keeps, IsEmpty, NeedsData, HasData
<1>3. QED
  BY <1>1, <1>2

\* lavc takes a packet.
LEMMA LavcTakesPacket ==
  ASSUME NEW g \in GraphState, NEW async \in SUBSET Filters, PinsInv(g), CodecInv(g), NEW q, NEW d,
         Quiet(g, g.pending \cup async \cup {"lavc"}, q, d),
         NeedsData(g, "fromCodec"), ~CodecHasFrame(g), ~g.codec.draining, HasData(g, "toCodec"),
         NEW x \in Packets, x = g.pin["toCodec"].data,
         NEW f, PinBecomes(g, f, "toCodec", FALSE, None), f.pending = g.pending,
         NEW h, CodecBecomes(f, h, Append(g.codec.buffer, x), FALSE, g.eofReturned, TRUE),
         h.pending = f.pending \cup {"lavc"}
  PROVE  Looks(h, async, q, d) /\ Keeps(g, h) /\ (h.demuxEof <=> g.demuxEof)
<1> DEFINE s == g.codec.buffer
<1>1. s \in Seq(Packets) /\ Len(s) \in Nat
  <2>1. s \in Seq(Packets)
    BY DEF GraphState
  <2> HIDE DEF s
  <2>2. Len(s) \in Nat
    BY <2>1
  <2>3. QED
    BY <2>1, <2>2
<1>2. /\ Append(s, x) # <<>> /\ Len(Append(s, x)) = Len(s) + 1
      /\ \A i \in 1 .. Len(s) + 1 : Append(s, x)[i] = IF i = Len(s) + 1 THEN x ELSE s[i]
      /\ DOMAIN Append(s, x) = 1 .. Len(s) + 1 /\ DOMAIN s = 1 .. Len(s)
  <2> HIDE DEF s
  <2>1. QED
    BY <1>1, AppendProperties
<1> HIDE DEF s
<1>3. /\ h \in GraphState /\ h.packet = g.packet /\ h.newSegment = g.newSegment
      /\ h.codec.buffer = Append(s, x) /\ ~h.codec.draining
      /\ (h.eofReturned <=> g.eofReturned) /\ h.packetsSent /\ (h.demuxEof <=> g.demuxEof)
      /\ h.pin["fromCodec"] = g.pin["fromCodec"] /\ h.pin["packets"] = g.pin["packets"]
      /\ h.pin["frames"] = g.pin["frames"] /\ ~h.pin["toCodec"].requested
      /\ h.pin["toCodec"].data = None /\ h.pending = g.pending \cup {"lavc"}
  BY ConnNames DEF PinBecomes, SameRest, Conns, CodecBecomes, s
<1>4. g.pin["fromCodec"].data = None /\ ~g.pin["toCodec"].requested
  BY ConnNames DEF PinsInv, NeedsData, HasData
<1>5. PinsInv(h)
  BY <1>3 DEF PinsInv, NeedsData, HasData, Conns
<1>6. x # EOF /\ x # None
  BY Kinds
<1>7. g.newSegment = None
  BY <1>4, <1>6, Kinds DEF CodecInv
<1>8. CodecInv(h)
  <2>1. Len(h.codec.buffer) <= Delay + 1
    BY <1>1, <1>2, <1>3, Sizes DEF CodecHasFrame, s
  <2>2. QED
    BY <1>2, <1>3, <1>4, <1>7, <2>1, Kinds DEF CodecInv
<1>9. Quiet(h, h.pending \cup async, q, d)
  BY <1>3 DEF Quiet, DecodeQuiet, DemuxQuiet, QueueQuiet, NeedsData
<1>10. ASSUME NEW p \in Positions, NEW n \in Nat, Holds(g, p, n)
       PROVE  Holds(h, p, n) /\ ToPackets(h, n) = ToPackets(g, n)
  <2> DEFINE k == ToFromCodec(g, n)
  <2>1. k \in Nat /\ ToFrames(h, n) = ToFrames(g, n) /\ ToFromCodec(h, n) = k
    BY <1>3, Counts DEF ToFrames, ToFromCodec, Real
  <2>2. /\ Real(g, g.pin["toCodec"].data) = 1 /\ Real(h, h.pin["toCodec"].data) = 0
        /\ Held(g) = 0 /\ Held(h) = 0
    BY <1>3, <1>6, Kinds DEF Real, Held
  <2> HIDE DEF k
  <2>4. ToBuffer(g, n) = k + Len(s) /\ ToBuffer(h, n) = k + (Len(s) + 1)
    BY <1>2, <1>3, <2>1 DEF ToBuffer, s, k
  <2>5. ToHeld(g, n) = k + Len(s) /\ ToHeld(h, n) = k + (Len(s) + 1)
    BY <1>1, <2>1, <2>2, <2>4 DEF ToHeld
  <2>6. ToToCodec(g, n) = k + (Len(s) + 1) /\ ToToCodec(h, n) = k + (Len(s) + 1)
    BY <1>1, <2>1, <2>2, <2>5 DEF ToToCodec
  <2>7. ToPacket(h, n) = ToPacket(g, n) /\ ToPackets(h, n) = ToPackets(g, n)
    BY <1>3, <2>6 DEF ToPacket, ToPackets
  <2>8. AreItems(s, p, k) /\ x = Item(p, k + (Len(s) + 1))
    BY <1>10, <2>2, <2>6 DEF Holds, s, k
  <2>9. AreItems(Append(s, x), p, k)
    BY <1>1, <1>2, <2>8 DEF AreItems
  <2>10. Real(h, h.pin["fromCodec"].data) = Real(g, g.pin["fromCodec"].data)
    BY <1>3 DEF Real
  <2>11. Holds(h, p, n)
    BY <1>3, <1>10, <2>1, <2>2, <2>7, <2>9, <2>10 DEF Holds, IsItem, k
  <2>12. QED
    BY <2>7, <2>11
<1>11. QED
  BY <1>3, <1>5, <1>8, <1>9, <1>10 DEF Looks, Keeps, IsEmpty, NeedsData, HasData

\* lavc takes an EOF that nothing was sent before, and passes it on.
LEMMA LavcPassesEof ==
  ASSUME NEW g \in GraphState, NEW async \in SUBSET Filters, PinsInv(g), CodecInv(g), NEW q, NEW d,
         Quiet(g, g.pending \cup async \cup {"lavc"}, q, d),
         NeedsData(g, "fromCodec"), ~g.codec.draining, g.pin["toCodec"].data = EOF, ~g.packetsSent,
         NEW f, PinBecomes(g, f, "toCodec", FALSE, None), f.pending = g.pending,
         NEW h, h = PinWrite(f, "fromCodec", EOF)
  PROVE  Looks(h, async, q, d) /\ Keeps(g, h) /\ (h.demuxEof <=> g.demuxEof)
<1>1. NeedsData(f, "fromCodec") /\ f \in GraphState
  BY ConnNames DEF PinBecomes, NeedsData, Conns
<1>a. EOF \in Data
  BY Kinds
<1>2. PinBecomes(f, h, "fromCodec", FALSE, EOF) /\ h.pending = f.pending \cup {"decode"}
  <2>1. /\ PinBecomes(f, PinWrite(f, "fromCodec", EOF), "fromCodec", FALSE, EOF)
        /\ PinWrite(f, "fromCodec", EOF).pending = f.pending \cup {Consumer("fromCodec")}
    BY <1>1, <1>a, WrittenTo, ConnNames
  <2>2. QED
    BY <2>1, ConnNames
<1>3. /\ h \in GraphState /\ h.packet = g.packet /\ h.newSegment = g.newSegment
      /\ h.codec = g.codec /\ (h.eofReturned <=> g.eofReturned)
      /\ ~h.packetsSent /\ (h.demuxEof <=> g.demuxEof)
      /\ ~h.pin["toCodec"].requested /\ h.pin["toCodec"].data = None
      /\ h.pin["packets"] = g.pin["packets"]
      /\ h.pin["frames"] = g.pin["frames"] /\ ~h.pin["fromCodec"].requested
      /\ h.pin["fromCodec"].data = EOF /\ h.pending = g.pending \cup {"decode"}
  BY <1>2, ConnNames DEF PinBecomes, SameRest, Conns
<1>4. g.pin["fromCodec"].data = None
  BY ConnNames DEF PinsInv, NeedsData, HasData
<1>5. PinsInv(h)
  BY <1>3 DEF PinsInv, NeedsData, HasData, Conns
<1>6. g.codec.buffer = <<>>
  BY DEF CodecInv
<1>7. CodecInv(h)
  BY <1>3, <1>6 DEF CodecInv, IsEmpty, NeedsData, HasData
<1>8. Quiet(h, h.pending \cup async, q, d)
  BY <1>3 DEF Quiet, LavcQuiet, DemuxQuiet, QueueQuiet, NeedsData
<1>9. ASSUME NEW p \in Positions, NEW n \in Nat, Holds(g, p, n), ToPackets(g, n) <= NumPackets + 1
      PROVE  Holds(h, p, n) /\ ToPackets(h, n) = ToPackets(g, n)
  <2> DEFINE k == ToFrames(g, n)
             u == IF g.newSegment = None THEN 1 ELSE 0
  <2>1. k \in Nat /\ ToFrames(h, n) = k /\ u \in {0, 1}
    BY <1>3, Counts DEF ToFrames
  <2>2. /\ Real(g, g.pin["fromCodec"].data) = 0 /\ Real(h, h.pin["fromCodec"].data) = u
        /\ Real(g, g.pin["toCodec"].data) = u /\ Real(h, h.pin["toCodec"].data) = 0
        /\ Held(g) = 0 /\ Held(h) = 0 /\ Len(g.codec.buffer) = 0
    BY <1>3, <1>4, <1>6, Kinds DEF Real, Held
  <2> HIDE DEF u, k
  <2>4. ToFromCodec(g, n) = k /\ ToFromCodec(h, n) = k + u
    BY <2>1, <2>2 DEF ToFromCodec, k
  <2>5. ToBuffer(g, n) = k /\ ToBuffer(h, n) = k + u
    BY <1>3, <2>1, <2>2, <2>4 DEF ToBuffer
  <2>6. ToHeld(g, n) = k /\ ToHeld(h, n) = k + u
    BY <2>1, <2>2, <2>5 DEF ToHeld
  <2>7. ToToCodec(g, n) = k + u /\ ToToCodec(h, n) = k + u
    BY <2>1, <2>2, <2>6 DEF ToToCodec
  <2>8. ToPacket(h, n) = ToPacket(g, n) /\ ToPackets(h, n) = ToPackets(g, n)
    BY <1>3, <2>7 DEF ToPacket, ToPackets
  <2>9. u = 1 => EOF = Item(p, k + u)
    BY <1>9, <2>2, <2>7 DEF Holds
  <2>10. Real(h, h.pin["fromCodec"].data) = 1 => h.pin["fromCodec"].data = Item(p, ToFromCodec(h, n))
    BY <1>3, <2>2, <2>4, <2>9
  <2>11. Holds(h, p, n)
    BY <1>3, <1>6, <1>9, <2>1, <2>2, <2>8, <2>10 DEF Holds, IsItem, AreItems, k
  <2>12. QED
    BY <2>8, <2>11
<1>10. QED
  BY <1>3, <1>5, <1>7, <1>8, <1>9 DEF Looks, Keeps, IsEmpty, NeedsData, HasData

\* lavc takes an EOF and starts to drain the codec.
LEMMA LavcDrains ==
  ASSUME NEW g \in GraphState, NEW async \in SUBSET Filters, PinsInv(g), CodecInv(g), NEW q, NEW d,
         Quiet(g, g.pending \cup async \cup {"lavc"}, q, d),
         NeedsData(g, "fromCodec"), ~g.codec.draining, g.pin["toCodec"].data = EOF, g.packetsSent,
         NEW f, PinBecomes(g, f, "toCodec", FALSE, None), f.pending = g.pending,
         NEW h, CodecBecomes(f, h, g.codec.buffer, TRUE, g.eofReturned, TRUE),
         h.pending = f.pending \cup {"lavc"}
  PROVE  Looks(h, async, q, d) /\ Keeps(g, h) /\ (h.demuxEof <=> g.demuxEof)
<1>3. /\ h \in GraphState /\ h.packet = g.packet /\ h.newSegment = g.newSegment
      /\ h.codec.buffer = g.codec.buffer /\ h.codec.draining
      /\ (h.eofReturned <=> g.eofReturned) /\ h.packetsSent /\ (h.demuxEof <=> g.demuxEof)
      /\ h.pin["fromCodec"] = g.pin["fromCodec"] /\ h.pin["packets"] = g.pin["packets"]
      /\ h.pin["frames"] = g.pin["frames"] /\ ~h.pin["toCodec"].requested
      /\ h.pin["toCodec"].data = None /\ h.pending = g.pending \cup {"lavc"}
  BY ConnNames DEF PinBecomes, SameRest, Conns, CodecBecomes
<1>4. g.pin["fromCodec"].data = None
  BY ConnNames DEF PinsInv, NeedsData, HasData
<1>5. PinsInv(h)
  BY <1>3 DEF PinsInv, NeedsData, HasData, Conns
<1>7. CodecInv(h)
  BY <1>3, <1>4, Kinds DEF CodecInv, IsEmpty, NeedsData, HasData
<1>8. Quiet(h, h.pending \cup async, q, d)
  BY <1>3, ConnNames DEF Quiet, DecodeQuiet, DemuxQuiet, QueueQuiet, NeedsData, PinsInv, HasData
<1>9. ASSUME NEW p \in Positions, NEW n \in Nat, Holds(g, p, n), ToPackets(g, n) <= NumPackets + 1
      PROVE  Holds(h, p, n) /\ ToPackets(h, n) = ToPackets(g, n)
  <2> DEFINE k == ToBuffer(g, n)
             u == IF g.newSegment = None THEN 1 ELSE 0
  <2>1. /\ k \in Nat /\ u \in {0, 1} /\ ToFrames(h, n) = ToFrames(g, n)
        /\ ToFromCodec(h, n) = ToFromCodec(g, n) /\ ToBuffer(h, n) = k
    BY <1>3, Counts DEF ToFrames, ToFromCodec, ToBuffer, Real
  <2>2. /\ Real(g, g.pin["toCodec"].data) = u /\ Real(h, h.pin["toCodec"].data) = 0
        /\ Held(g) = 0 /\ Held(h) = u
    BY <1>3, Kinds DEF Real, Held
  <2> HIDE DEF u, k
  <2>3. ToHeld(g, n) = k /\ ToHeld(h, n) = k + u
    BY <2>1, <2>2 DEF ToHeld, k
  <2>4. ToToCodec(g, n) = k + u /\ ToToCodec(h, n) = k + u
    BY <2>1, <2>2, <2>3 DEF ToToCodec
  <2>5. ToPacket(h, n) = ToPacket(g, n) /\ ToPackets(h, n) = ToPackets(g, n)
    BY <1>3, <2>4 DEF ToPacket, ToPackets
  <2>6. k + u <= NumPackets + 1
    <3>1. /\ ToPackets(g, n) \in Nat /\ One(g.packet) \in {0, 1} /\ One(g.newSegment) \in {0, 1}
          /\ One(g.pin["packets"].data) \in {0, 1}
      BY Counts, ConnNames
    <3>2. ToPackets(g, n) = k + u + One(g.packet) + One(g.newSegment) + One(g.pin["packets"].data)
      BY <2>4 DEF ToPackets, ToPacket
    <3>3. QED
      BY <1>9, <2>1, <3>1, <3>2, Sizes
  <2>7. u = 1 => EOF = Item(p, k + u)
    BY <1>9, <2>2, <2>4 DEF Holds
  <2>8. u = 1 => k + u = NumPackets + 1
    <3>1. u = 1 /\ k + u <= NumPackets => k + u \in 1 .. NumPackets
      BY <2>1, Sizes
    <3>2. ASSUME u = 1, k + u <= NumPackets PROVE FALSE
      <4>1. EOF = Packet(p, k + u) /\ Packet(p, k + u) \in Packets
        BY <2>7, <3>1, <3>2, Kinds DEF Item
      <4>2. QED
        BY <4>1, Kinds
    <3>3. QED
      BY <2>1, <2>6, <3>2, Sizes
  <2>9. Real(h, h.pin["fromCodec"].data) = Real(g, g.pin["fromCodec"].data)
    BY <1>3 DEF Real
  <2>10. Holds(h, p, n)
    BY <1>3, <1>9, <2>1, <2>2, <2>3, <2>5, <2>8, <2>9 DEF Holds, IsItem, k
  <2>11. QED
    BY <2>5, <2>10
<1>10. QED
  BY <1>3, <1>5, <1>7, <1>8, <1>9 DEF Looks, Keeps, IsEmpty, NeedsData, HasData

\* process() of lavc.
LEMMA LavcProcessed ==
  ASSUME NEW g \in GraphState, NEW async \in SUBSET Filters, PinsInv(g), CodecInv(g), NEW q, NEW d,
         Quiet(g, g.pending \cup async \cup {"lavc"}, q, d)
  PROVE  Looks(ProcessLavc(g), async, q, d) /\ Keeps(g, ProcessLavc(g))
         /\ (ProcessLavc(g).demuxEof <=> g.demuxEof)
<1> DEFINE h == ProcessLavc(g)
           s == g.codec.buffer
<1>1. s \in Seq(Packets) /\ Len(s) \in Nat /\ (Len(s) = 0 <=> s = <<>>)
  <2>1. s \in Seq(Packets)
    BY DEF GraphState
  <2> HIDE DEF s
  <2>2. QED
    BY <2>1
<1>2. /\ CodecHasFrame(g) => s # <<>>
      /\ ~CodecHasFrame(g) /\ g.codec.draining => s = <<>>
  BY <1>1, Sizes DEF CodecHasFrame
<1>3. CASE ~NeedsData(g, "fromCodec")
  <2>1. h = g
    BY <1>3 DEF ProcessLavc
  <2>2. Quiet(h, h.pending \cup async, q, d)
    BY <1>3, <2>1 DEF Quiet, LavcQuiet
  <2>3. QED
    BY <2>1, <2>2 DEF Looks, Keeps, IsEmpty, NeedsData, HasData
<1>4. CASE NeedsData(g, "fromCodec") /\ CodecHasFrame(g)
  <2> DEFINE f == [g EXCEPT !.codec.buffer = Tail(@), !.eofReturned = FALSE]
  <2>1. h = PinWrite(f, "fromCodec", Head(g.codec.buffer))
    BY <1>4 DEF ProcessLavc
  <2>2. /\ CodecBecomes(g, f, Tail(g.codec.buffer), g.codec.draining, FALSE, g.packetsSent)
        /\ f.pending = g.pending
    BY <1>2, <1>4, CodecGivesFrame
  <2> HIDE DEF f, h
  <2>3. QED
    BY <1>2, <1>4, <2>1, <2>2, LavcReturnsFrame DEF h
<1>5. CASE NeedsData(g, "fromCodec") /\ ~CodecHasFrame(g) /\ g.codec.draining
  <2> DEFINE f == [g EXCEPT !.codec.draining = FALSE, !.eofReturned = TRUE, !.packetsSent = FALSE]
  <2>0. ~g.eofReturned
    BY <1>2, <1>5 DEF CodecInv
  <2>1. h = PinWrite(f, "fromCodec", EOF)
    BY <1>5, <2>0 DEF ProcessLavc
  <2>2. CodecBecomes(g, f, g.codec.buffer, FALSE, TRUE, FALSE) /\ f.pending = g.pending
    BY CodecIsDrained
  <2> HIDE DEF f, h
  <2>3. QED
    BY <1>2, <1>5, <2>1, <2>2, LavcEnds DEF h
<1>6. CASE NeedsData(g, "fromCodec") /\ ~CodecHasFrame(g) /\ ~g.codec.draining /\ ~HasData(g, "toCodec")
  <2>1. h = RequestData(g, "toCodec")
    BY <1>6 DEF ProcessLavc
  <2> HIDE DEF h
  <2>2. QED
    BY <1>6, <2>1, LavcAsks DEF h
<1>7. CASE NeedsData(g, "fromCodec") /\ ~CodecHasFrame(g) /\ ~g.codec.draining /\ HasData(g, "toCodec")
  <2> DEFINE x == g.pin["toCodec"].data
             f == TakeData(g, "toCodec")
  <2>1. ~NeedsData(g, "toCodec") /\ x \in Data
    BY <1>7, ConnNames DEF PinsInv, HasData, GraphState, Pin
  <2>2. PinBecomes(g, f, "toCodec", FALSE, None) /\ f.pending = g.pending
    BY <2>1, Taken, ConnNames
  <2>3. f \in GraphState /\ f.codec = g.codec /\ f.eofReturned = g.eofReturned /\ f.packetsSent = g.packetsSent
    BY <2>2 DEF PinBecomes, SameRest
  <2>4. CASE x # EOF
    <3>1. h = AddPending([f EXCEPT !.codec.buffer = Append(@, x), !.packetsSent = TRUE], "lavc")
      BY <1>7, <2>4 DEF ProcessLavc
    <3>2. x \in Packets
      BY <2>1, <2>4 DEF Data
    <3> HIDE DEF f, h, x
    <3>3. CodecBecomes(f, h, Append(f.codec.buffer, x), f.codec.draining, f.eofReturned, TRUE)
          /\ h.pending = f.pending \cup {"lavc"}
      BY <2>3, <3>1, <3>2, CodecTakesPacket
    <3>4. CodecBecomes(f, h, Append(g.codec.buffer, x), FALSE, g.eofReturned, TRUE)
      BY <1>7, <2>3, <3>3 DEF CodecBecomes
    <3>5. QED
      BY <1>7, <2>2, <3>2, <3>3, <3>4, LavcTakesPacket DEF h, x
  <2>5. CASE x = EOF /\ ~g.packetsSent
    <3>1. h = PinWrite(f, "fromCodec", EOF)
      BY <1>7, <2>5 DEF ProcessLavc
    <3> HIDE DEF f, h
    <3>2. QED
      BY <1>7, <2>2, <2>5, <3>1, LavcPassesEof DEF h
  <2>6. CASE x = EOF /\ g.packetsSent
    <3>1. h = AddPending([f EXCEPT !.codec.draining = TRUE], "lavc")
      BY <1>7, <2>6 DEF ProcessLavc
    <3> HIDE DEF f, h
    <3>2. CodecBecomes(f, h, f.codec.buffer, TRUE, f.eofReturned, f.packetsSent)
          /\ h.pending = f.pending \cup {"lavc"}
      BY <2>3, <3>1, CodecDrains
    <3>3. CodecBecomes(f, h, g.codec.buffer, TRUE, g.eofReturned, TRUE)
      BY <2>3, <2>6, <3>2 DEF CodecBecomes
    <3>4. QED
      BY <1>7, <2>2, <2>6, <3>2, <3>3, LavcDrains DEF h
  <2>7. QED
    BY <2>4, <2>5, <2>6
<1>8. QED
  BY <1>3, <1>4, <1>5, <1>6, <1>7

\* What decode does to the packet it keeps.
PacketBecomes(g, f, packet, newSegment) ==
  /\ f \in GraphState /\ f.pin = g.pin /\ f.pending = g.pending /\ f.codec = g.codec
  /\ f.eofReturned = g.eofReturned /\ f.packetsSent = g.packetsSent
  /\ f.demuxEof = g.demuxEof /\ f.segment = g.segment
  /\ f.packet = packet /\ f.newSegment = newSegment

\* decode keeps another packet.
LEMMA PacketIsSet ==
  ASSUME NEW g \in GraphState, NEW x \in Data \cup {None}
  PROVE  PacketBecomes(g, [g EXCEPT !.packet = x], x, g.newSegment)
  BY DEF GraphState, PacketBecomes

\* A packet of another segment waits.
LEMMA SegmentWaits ==
  ASSUME NEW g \in GraphState, NEW x \in Packets
  PROVE  PacketBecomes(g, [g EXCEPT !.newSegment = x], g.packet, x)
  BY DEF GraphState, PacketBecomes

\* decode after it fed lavc.
IsFed(g) == NeedsData(g, "toCodec") => g.packet = None /\ NeedsData(g, "packets")
Feeds(g, h, async, q, d) ==
  /\ Looks(h, async \cup {"decode"}, q, d) /\ IsFed(h) /\ Keeps(g, h)
  /\ h.demuxEof <=> g.demuxEof
  /\ g.pending \subseteq h.pending

\* The packet x goes to lavc, or x waits and an EOF goes to it.
Fed(g, h, x, new) ==
  /\ h \in GraphState /\ h.packet = None /\ h.codec = g.codec /\ h.demuxEof = g.demuxEof
  /\ h.eofReturned = g.eofReturned /\ h.packetsSent = g.packetsSent
  /\ h.pin["fromCodec"] = g.pin["fromCodec"] /\ h.pin["frames"] = g.pin["frames"]
  /\ ~h.pin["toCodec"].requested
  /\ \/ new /\ h.newSegment = x /\ h.pin["toCodec"].data = EOF
     \/ ~new /\ h.newSegment = None /\ h.pin["toCodec"].data = x
  /\ \/ g.packet = x /\ h.pin["packets"] = g.pin["packets"]
     \/ /\ g.packet = None /\ g.pin["packets"].data = x
        /\ ~h.pin["packets"].requested /\ h.pin["packets"].data = None
  /\ h.pending = g.pending \cup {"lavc"}

\* A packet that is fed: the graph holds what it held.
LEMMA FeedsIt ==
  ASSUME NEW g \in GraphState, NEW async \in SUBSET Filters, PinsInv(g), CodecInv(g), NEW q, NEW d,
         Quiet(g, g.pending \cup async \cup {"decode"}, q, d),
         NeedsData(g, "toCodec"), g.newSegment = None,
         NEW x \in Data, NEW new \in BOOLEAN, new => x # EOF, NEW h, Fed(g, h, x, new)
  PROVE  Feeds(g, h, async, q, d)
<1>1. x # None /\ h \in GraphState /\ h.packet = None
  BY Kinds DEF Fed
<1>2. /\ g.pin["toCodec"].data = None /\ ~g.codec.draining /\ g.pin["fromCodec"].data # EOF
      /\ h.pin["toCodec"].data # None
  BY <1>1, ConnNames, Kinds DEF PinsInv, CodecInv, IsEmpty, NeedsData, HasData, Fed
<1>3. PinsInv(h)
  BY <1>1 DEF PinsInv, NeedsData, HasData, Conns, Fed
<1>4. CodecInv(h)
  BY <1>1, <1>2, Kinds DEF CodecInv, IsEmpty, NeedsData, HasData, Fed
<1>5. Quiet(h, h.pending \cup async \cup {"decode"}, q, d)
  BY <1>1 DEF Quiet, DemuxQuiet, QueueQuiet, NeedsData, Fed
<1>6. ASSUME NEW p \in Positions, NEW n \in Nat, Holds(g, p, n)
      PROVE  Holds(h, p, n) /\ ToPackets(h, n) = ToPackets(g, n)
  <2> DEFINE k == ToBuffer(g, n)
             a == One(g.pin["packets"].data)
             b == One(h.pin["packets"].data)
  <2>0. Real(h, h.pin["fromCodec"].data) = Real(g, g.pin["fromCodec"].data)
    BY <1>2 DEF Real, Fed
  <2>1. /\ k \in Nat /\ ToFrames(h, n) = ToFrames(g, n)
        /\ ToFromCodec(h, n) = ToFromCodec(g, n) /\ ToBuffer(h, n) = k
    BY <2>0, Counts DEF ToFrames, ToFromCodec, ToBuffer, Fed
  <2>2. Held(g) = 0 /\ Held(h) = 0 /\ Real(g, g.pin["toCodec"].data) = 0
    BY <1>2 DEF Held, Fed, Real
  <2>3. a \in {0, 1} /\ b \in {0, 1}
    BY DEF One
  <2> HIDE DEF k, a, b
  <2>4. ToHeld(g, n) = k /\ ToHeld(h, n) = k /\ ToToCodec(g, n) = k
    BY <2>1, <2>2 DEF ToHeld, ToToCodec, k
  <2>5. /\ ToPacket(g, n) = k + One(g.packet) /\ ToPackets(g, n) = k + One(g.packet) + a
        /\ One(g.packet) \in {0, 1}
    BY <2>1, <2>3, <2>4 DEF ToPacket, ToPackets, a, One
  <2>6. x = Item(p, k + 1) /\ ToPackets(g, n) = k + 1 + b
    <3>1. CASE g.packet = x /\ h.pin["packets"] = g.pin["packets"]
      <4>1. One(g.packet) = 1 /\ a = b
        BY <1>1, <3>1 DEF One, a, b
      <4>2. QED
        BY <1>1, <1>6, <2>1, <2>3, <2>5, <3>1, <4>1 DEF Holds, IsItem
    <3>2. CASE g.packet = None /\ g.pin["packets"].data = x /\ h.pin["packets"].data = None
      <4>1. One(g.packet) = 0 /\ a = 1 /\ b = 0
        BY <1>1, <3>2 DEF One, a, b
      <4>2. QED
        BY <1>1, <1>6, <2>1, <2>3, <2>5, <3>2, <4>1 DEF Holds, IsItem
    <3>3. QED
      BY <3>1, <3>2 DEF Fed
  <2>7. ToPacket(h, n) = k + 1 /\ (Real(h, h.pin["toCodec"].data) = 1 =>
          h.pin["toCodec"].data = x /\ ToToCodec(h, n) = k + 1)
    <3>1. CASE new /\ h.newSegment = x /\ h.pin["toCodec"].data = EOF
      <4>1. Real(h, h.pin["toCodec"].data) = 0 /\ One(h.newSegment) = 1 /\ One(h.packet) = 0
        BY <1>1, <3>1 DEF Real, One
      <4>2. QED
        BY <2>1, <2>4, <4>1 DEF ToToCodec, ToPacket
    <3>2. CASE ~new /\ h.newSegment = None /\ h.pin["toCodec"].data = x
      <4>1. Real(h, h.pin["toCodec"].data) = 1 /\ One(h.newSegment) = 0 /\ One(h.packet) = 0
        BY <1>1, <3>2 DEF Real, One
      <4>2. ToToCodec(h, n) = k + 1
        BY <2>4, <4>1 DEF ToToCodec
      <4>3. QED
        BY <2>1, <3>2, <4>1, <4>2 DEF ToPacket
    <3>3. QED
      BY <3>1, <3>2 DEF Fed
  <2>8. ToPackets(h, n) = ToPackets(g, n)
    BY <2>1, <2>3, <2>6, <2>7 DEF ToPackets, b
  <2>9. IsItem(h.packet, p, ToPacket(h, n)) /\ IsItem(h.newSegment, p, ToPacket(h, n))
    BY <1>1, <2>6, <2>7 DEF IsItem, Fed
  <2>10. IsItem(h.pin["packets"].data, p, ToPackets(h, n))
    <3>1. h.pin["packets"].data = None \/ h.pin["packets"].data = g.pin["packets"].data
      BY DEF Fed
    <3>2. QED
      BY <1>6, <2>8, <3>1 DEF Holds, IsItem
  <2>11. /\ IsItem(h.pin["frames"].data, p, ToFrames(h, n))
         /\ Real(h, h.pin["fromCodec"].data) = 1 =>
              h.pin["fromCodec"].data = Item(p, ToFromCodec(h, n))
         /\ AreItems(h.codec.buffer, p, ToFromCodec(h, n))
    BY <1>6, <2>0, <2>1 DEF Holds, Fed
  <2>12. Held(h) = 1 => ToHeld(h, n) = NumPackets + 1
    BY <2>2
  <2>13. Real(h, h.pin["toCodec"].data) = 1 => h.pin["toCodec"].data = Item(p, ToToCodec(h, n))
    BY <2>6, <2>7
  <2>14. Holds(h, p, n)
    BY <2>9, <2>10, <2>11, <2>12, <2>13 DEF Holds
  <2>15. QED
    BY <2>8, <2>14
<1>7. IsFed(h) /\ g.pending \subseteq h.pending
  BY DEF Fed, IsFed, NeedsData
<1>8. h.pending \cup (async \cup {"decode"}) = h.pending \cup async \cup {"decode"}
  OBVIOUS
<1>9. (h.demuxEof <=> g.demuxEof) /\ Keeps(g, h)
  BY <1>6 DEF Fed, Keeps, IsEmpty, NeedsData, HasData
<1>10. QED
  BY <1>1, <1>3, <1>4, <1>5, <1>7, <1>8, <1>9 DEF Feeds, Looks

\* feed_packet() has nothing to do.
LEMMA FeedsOnly ==
  ASSUME NEW g \in GraphState, NEW async \in SUBSET Filters, PinsInv(g), CodecInv(g), NEW q, NEW d,
         Quiet(g, g.pending \cup async \cup {"decode"}, q, d), IsFed(g)
  PROVE  Feeds(g, g, async, q, d)
<1>1. g.pending \cup (async \cup {"decode"}) = g.pending \cup async \cup {"decode"}
  OBVIOUS
<1>2. QED
  BY <1>1 DEF Feeds, Looks, Keeps

\* The packet is written.
LEMMA PacketIsFed ==
  ASSUME NEW g \in GraphState, NeedsData(g, "toCodec"), g.newSegment = None,
         NEW x \in Data, NEW e \in GraphState, e.packet = x, e.newSegment = None,
         e.pending = g.pending, e.codec = g.codec, e.eofReturned = g.eofReturned,
         e.packetsSent = g.packetsSent, e.demuxEof = g.demuxEof,
         \A c \in Conns \ {"packets"} : e.pin[c] = g.pin[c],
         \/ g.packet = x /\ e.pin["packets"] = g.pin["packets"]
         \/ /\ g.packet = None /\ g.pin["packets"].data = x
            /\ ~e.pin["packets"].requested /\ e.pin["packets"].data = None
  PROVE  /\ Fed(g, [PinWrite(e, "toCodec", x) EXCEPT !.packet = None], x, FALSE)
         /\ x # EOF => Fed(g, [PinWrite([e EXCEPT !.newSegment = x], "toCodec", EOF)
                                EXCEPT !.packet = None], x, TRUE)
<1>0. EOF \in Data /\ None \in Data \cup {None} /\ NeedsData(e, "toCodec")
  BY ConnNames, Kinds DEF NeedsData, Conns
<1>1. Fed(g, [PinWrite(e, "toCodec", x) EXCEPT !.packet = None], x, FALSE)
  <2> DEFINE f == PinWrite(e, "toCodec", x)
             h == [f EXCEPT !.packet = None]
  <2>1. PinBecomes(e, f, "toCodec", FALSE, x) /\ f.pending = e.pending \cup {"lavc"}
    <3>1. /\ PinBecomes(e, PinWrite(e, "toCodec", x), "toCodec", FALSE, x)
          /\ PinWrite(e, "toCodec", x).pending = e.pending \cup {Consumer("toCodec")}
      BY <1>0, WrittenTo, ConnNames
    <3>2. QED
      BY <3>1, ConnNames
  <2>2. PacketBecomes(f, h, None, f.newSegment)
    <3>1. f \in GraphState
      BY <2>1 DEF PinBecomes
    <3> HIDE DEF f
    <3>2. QED
      BY <1>0, <3>1, PacketIsSet
  <2> HIDE DEF f, h
  <2>3. /\ h \in GraphState /\ h.packet = None /\ h.newSegment = None /\ h.codec = g.codec
        /\ h.demuxEof = g.demuxEof /\ h.eofReturned = g.eofReturned /\ h.packetsSent = g.packetsSent
        /\ h.pending = g.pending \cup {"lavc"}
        /\ h.pin["packets"] = e.pin["packets"]
        /\ h.pin["fromCodec"] = g.pin["fromCodec"] /\ h.pin["frames"] = g.pin["frames"]
        /\ ~h.pin["toCodec"].requested /\ h.pin["toCodec"].data = x
    BY <2>1, <2>2 DEF PinBecomes, PacketBecomes, SameRest, Conns
  <2>4. Fed(g, h, x, FALSE)
    BY <2>3 DEF Fed
  <2>5. QED
    BY <2>4 DEF h, f
<1>2. ASSUME x # EOF
      PROVE  Fed(g, [PinWrite([e EXCEPT !.newSegment = x], "toCodec", EOF) EXCEPT !.packet = None],
                 x, TRUE)
  <2> DEFINE w == [e EXCEPT !.newSegment = x]
             f == PinWrite(w, "toCodec", EOF)
             h == [f EXCEPT !.packet = None]
  <2>0. x \in Packets
    BY <1>2 DEF Data
  <2>1. PacketBecomes(e, w, e.packet, x)
    BY <2>0, SegmentWaits
  <2> HIDE DEF w
  <2>2. w \in GraphState /\ NeedsData(w, "toCodec")
    BY <1>0, <2>1 DEF PacketBecomes, NeedsData
  <2>3. PinBecomes(w, f, "toCodec", FALSE, EOF) /\ f.pending = w.pending \cup {"lavc"}
    <3>1. /\ PinBecomes(w, PinWrite(w, "toCodec", EOF), "toCodec", FALSE, EOF)
          /\ PinWrite(w, "toCodec", EOF).pending = w.pending \cup {Consumer("toCodec")}
      BY <1>0, <2>2, WrittenTo, ConnNames
    <3>2. QED
      BY <3>1, ConnNames
  <2>4. PacketBecomes(f, h, None, f.newSegment)
    <3>1. f \in GraphState
      BY <2>3 DEF PinBecomes
    <3> HIDE DEF f
    <3>2. QED
      BY <1>0, <3>1, PacketIsSet
  <2> HIDE DEF f, h
  <2>5. /\ h \in GraphState /\ h.packet = None /\ h.newSegment = x /\ h.codec = g.codec
        /\ h.demuxEof = g.demuxEof /\ h.eofReturned = g.eofReturned /\ h.packetsSent = g.packetsSent
        /\ h.pending = g.pending \cup {"lavc"}
        /\ h.pin["packets"] = e.pin["packets"]
        /\ h.pin["fromCodec"] = g.pin["fromCodec"] /\ h.pin["frames"] = g.pin["frames"]
        /\ ~h.pin["toCodec"].requested /\ h.pin["toCodec"].data = EOF
    BY <2>1, <2>3, <2>4 DEF PinBecomes, PacketBecomes, SameRest, Conns
  <2>6. Fed(g, h, x, TRUE)
    BY <2>5 DEF Fed
  <2>7. QED
    BY <2>6 DEF h, f, w
<1>3. QED
  BY <1>1, <1>2

\* feed_packet() asks the demuxer for a packet.
LEMMA PacketsAreAsked ==
  ASSUME NEW g \in GraphState, NEW async \in SUBSET Filters, PinsInv(g), CodecInv(g), NEW q, NEW d,
         Quiet(g, g.pending \cup async \cup {"decode"}, q, d),
         NeedsData(g, "toCodec"), g.packet = None, ~HasData(g, "packets"),
         NEW h, h = RequestData(g, "packets")
  PROVE  Feeds(g, h, async, q, d)
<1>1. CASE NeedsData(g, "packets")
  <2>1. h = g
    BY <1>1 DEF RequestData, NeedsData
  <2>2. QED
    BY <1>1, <2>1, FeedsOnly DEF IsFed
<1>2. CASE ~NeedsData(g, "packets")
  <2>1. PinBecomes(g, h, "packets", TRUE, None) /\ h.pending = g.pending \cup {"demux"}
    BY <1>2, ConnNames, Requested
  <2>2. /\ h \in GraphState /\ h.packet = g.packet /\ h.newSegment = g.newSegment
        /\ h.codec = g.codec /\ h.eofReturned = g.eofReturned
        /\ h.packetsSent = g.packetsSent /\ (h.demuxEof <=> g.demuxEof)
        /\ h.pin["fromCodec"] = g.pin["fromCodec"] /\ h.pin["toCodec"] = g.pin["toCodec"]
        /\ h.pin["frames"] = g.pin["frames"] /\ h.pin["packets"].requested
        /\ h.pin["packets"].data = None /\ g.pin["packets"].data = None
        /\ h.pending = g.pending \cup {"demux"}
    BY <2>1, ConnNames DEF PinBecomes, SameRest, Conns, HasData
  <2>3. PinsInv(h)
    BY <2>2 DEF PinsInv, NeedsData, HasData, Conns
  <2>5. CodecInv(h)
    BY <2>2 DEF CodecInv, IsEmpty, NeedsData, HasData
  <2>6. Quiet(h, h.pending \cup (async \cup {"decode"}), q, d)
    BY <2>2 DEF Quiet, LavcQuiet, DemuxQuiet, QueueQuiet, NeedsData, CodecHasFrame
  <2>7. ASSUME NEW p \in Positions, NEW n \in Nat, Holds(g, p, n)
        PROVE  Holds(h, p, n) /\ ToPackets(h, n) = ToPackets(g, n)
    <3>1. /\ ToFrames(h, n) = ToFrames(g, n) /\ ToFromCodec(h, n) = ToFromCodec(g, n)
          /\ ToBuffer(h, n) = ToBuffer(g, n) /\ ToHeld(h, n) = ToHeld(g, n)
          /\ ToToCodec(h, n) = ToToCodec(g, n) /\ ToPacket(h, n) = ToPacket(g, n)
          /\ ToPackets(h, n) = ToPackets(g, n)
      BY <2>2 DEF ToFrames, ToFromCodec, ToBuffer, ToHeld, ToToCodec, ToPacket, ToPackets, Real, Held
    <3>2. QED
      BY <2>2, <2>7, <3>1 DEF Holds, IsItem, Real, Held
  <2>8. IsFed(h) /\ g.pending \subseteq h.pending
    BY <2>2 DEF IsFed, NeedsData
  <2>9. QED
    BY <2>2, <2>3, <2>5, <2>6, <2>7, <2>8 DEF Feeds, Looks, Keeps, IsEmpty, NeedsData, HasData
<1>3. QED
  BY <1>1, <1>2

\* feed_packet().
LEMMA DecodeFeeds ==
  ASSUME NEW g \in GraphState, NEW async \in SUBSET Filters, PinsInv(g), CodecInv(g), NEW q, NEW d,
         Quiet(g, g.pending \cup async \cup {"decode"}, q, d)
  PROVE  Feeds(g, FeedPacket(g), async, q, d)
<1>1. CASE ~NeedsData(g, "toCodec")
  <2>1. FeedPacket(g) = g
    BY <1>1 DEF FeedPacket
  <2>2. QED
    BY <1>1, <2>1, FeedsOnly DEF IsFed
<1>2. CASE NeedsData(g, "toCodec")
  <2>1. g.newSegment = None /\ ~HasData(g, "toCodec")
    BY <1>2, ConnNames, Kinds DEF CodecInv, PinsInv, IsEmpty, HasData
  <2>2. CASE g.packet # None
    <3> DEFINE x == g.packet
               same == [PinWrite(g, "toCodec", x) EXCEPT !.packet = None]
               other == [PinWrite([g EXCEPT !.newSegment = x], "toCodec", EOF) EXCEPT !.packet = None]
    <3>1. x \in Data /\ x # None
      BY <2>2 DEF GraphState
    <3>2. FeedPacket(g) = IF IsNewSegment(g, x) THEN other ELSE same
      BY <1>2, <2>2 DEF FeedPacket
    <3>3. IsNewSegment(g, x) => x # EOF
      BY DEF IsNewSegment
    <3>4. Fed(g, same, x, FALSE) /\ (x # EOF => Fed(g, other, x, TRUE))
      BY <1>2, <2>1, <3>1, PacketIsFed
    <3> HIDE DEF same, other
    <3>5. Feeds(g, same, async, q, d) /\ (x # EOF => Feeds(g, other, async, q, d))
      BY <1>2, <2>1, <3>1, <3>4, FeedsIt
    <3>6. QED
      BY <3>2, <3>3, <3>5
  <2>3. CASE g.packet = None /\ ~HasData(g, "packets")
    <3>1. FeedPacket(g) = RequestData(g, "packets")
      <4>1. RequestData(g, "packets").packet = None
        BY <2>3 DEF RequestData, AddPending, GraphState
      <4>2. QED
        BY <1>2, <2>1, <2>3, <4>1 DEF FeedPacket
    <3>2. QED
      BY <1>2, <2>3, <3>1, PacketsAreAsked
  <2>4. CASE g.packet = None /\ HasData(g, "packets")
    <3> DEFINE x == g.pin["packets"].data
               t == TakeData(g, "packets")
               e == [t EXCEPT !.packet = x]
               same == [PinWrite(e, "toCodec", x) EXCEPT !.packet = None]
               other == [PinWrite([e EXCEPT !.newSegment = x], "toCodec", EOF) EXCEPT !.packet = None]
    <3>1. x \in Data /\ x # None /\ ~NeedsData(g, "packets")
      BY <2>4, ConnNames DEF GraphState, HasData, Pin, PinsInv
    <3>2. PinBecomes(g, t, "packets", FALSE, None) /\ t.pending = g.pending
      BY <3>1, Taken, ConnNames
    <3>3. PacketBecomes(t, e, x, t.newSegment)
      <4>1. t \in GraphState
        BY <3>2 DEF PinBecomes
      <4> HIDE DEF t
      <4>2. QED
        BY <3>1, <4>1, PacketIsSet
    <3>4. e.packet = x
      BY <3>3 DEF PacketBecomes
    <3>5. FeedPacket(g) = IF IsNewSegment(e, x) THEN other ELSE same
      <4>1. e = [TakeData(g, "packets") EXCEPT !.packet = g.pin["packets"].data]
        OBVIOUS
      <4> HIDE DEF e
      <4>2. QED
        BY <1>2, <2>1, <2>4, <3>1, <3>4, <4>1 DEF FeedPacket
    <3>6. IsNewSegment(e, x) => x # EOF
      BY DEF IsNewSegment
    <3>7. Fed(g, same, x, FALSE) /\ (x # EOF => Fed(g, other, x, TRUE))
      <4> HIDE DEF e, t
      <4>1. /\ e \in GraphState /\ e.packet = x /\ e.newSegment = None /\ e.pending = g.pending
            /\ e.codec = g.codec /\ e.eofReturned = g.eofReturned /\ e.packetsSent = g.packetsSent
            /\ e.demuxEof = g.demuxEof /\ ~e.pin["packets"].requested
            /\ e.pin["packets"].data = None /\ \A c \in Conns \ {"packets"} : e.pin[c] = g.pin[c]
        BY <2>1, <3>2, <3>3 DEF PinBecomes, PacketBecomes, SameRest
      <4> HIDE DEF x
      <4>2. QED
        BY <1>2, <2>1, <2>4, <3>1, <4>1, PacketIsFed DEF x
    <3> HIDE DEF same, other, e, t
    <3>8. Feeds(g, same, async, q, d) /\ (x # EOF => Feeds(g, other, async, q, d))
      BY <1>2, <2>1, <3>1, <3>7, FeedsIt
    <3>9. QED
      BY <3>5, <3>6, <3>8
  <2>5. QED
    BY <2>2, <2>3, <2>4
<1>3. QED
  BY <1>1, <1>2

\* decode asks lavc for a frame.
LEMMA FramesAreAsked ==
  ASSUME NEW g \in GraphState, NEW async \in SUBSET Filters, NEW q, NEW d,
         Looks(g, async \cup {"decode"}, q, d), IsFed(g), ~HasData(g, "fromCodec"),
         NEW h, h = RequestData(g, "fromCodec")
  PROVE  Looks(h, async, q, d) /\ Keeps(g, h) /\ (h.demuxEof <=> g.demuxEof)
<1>0. PinsInv(g) /\ CodecInv(g) /\ Quiet(g, g.pending \cup (async \cup {"decode"}), q, d)
  BY DEF Looks
<1>1. CASE NeedsData(g, "fromCodec")
  <2>1. h = g
    BY <1>1 DEF RequestData, NeedsData
  <2>2. DecodeQuiet(h)
    BY <1>1, <2>1 DEF DecodeQuiet, IsFed
  <2>3. Quiet(h, h.pending \cup async, q, d)
    BY <1>0, <2>1, <2>2 DEF Quiet
  <2>4. QED
    BY <1>0, <2>1, <2>3 DEF Looks, Keeps, IsEmpty, NeedsData, HasData
<1>2. CASE ~NeedsData(g, "fromCodec")
  <2>1. PinBecomes(g, h, "fromCodec", TRUE, None) /\ h.pending = g.pending \cup {"lavc"}
    BY <1>2, ConnNames, Requested
  <2>2. /\ h \in GraphState /\ h.packet = g.packet /\ h.newSegment = g.newSegment
        /\ h.codec = g.codec /\ h.eofReturned = g.eofReturned
        /\ h.packetsSent = g.packetsSent /\ (h.demuxEof <=> g.demuxEof)
        /\ h.pin["packets"] = g.pin["packets"] /\ h.pin["toCodec"] = g.pin["toCodec"]
        /\ h.pin["frames"] = g.pin["frames"] /\ h.pin["fromCodec"].requested
        /\ h.pin["fromCodec"].data = None /\ g.pin["fromCodec"].data = None
        /\ h.pending = g.pending \cup {"lavc"}
    BY <2>1, ConnNames DEF PinBecomes, SameRest, Conns, HasData
  <2>3. PinsInv(h)
    BY <1>0, <2>2 DEF PinsInv, NeedsData, HasData, Conns
  <2>5. CodecInv(h)
    BY <1>0, <2>2, Kinds DEF CodecInv, IsEmpty, NeedsData, HasData
  <2>6. Quiet(h, h.pending \cup async, q, d)
    BY <1>0, <2>2 DEF Quiet, DecodeQuiet, IsFed, DemuxQuiet, QueueQuiet, NeedsData
  <2>7. ASSUME NEW p \in Positions, NEW n \in Nat, Holds(g, p, n)
        PROVE  Holds(h, p, n) /\ ToPackets(h, n) = ToPackets(g, n)
    <3>1. /\ ToFrames(h, n) = ToFrames(g, n) /\ ToFromCodec(h, n) = ToFromCodec(g, n)
          /\ ToBuffer(h, n) = ToBuffer(g, n) /\ ToHeld(h, n) = ToHeld(g, n)
          /\ ToToCodec(h, n) = ToToCodec(g, n) /\ ToPacket(h, n) = ToPacket(g, n)
          /\ ToPackets(h, n) = ToPackets(g, n)
      BY <2>2 DEF ToFrames, ToFromCodec, ToBuffer, ToHeld, ToToCodec, ToPacket, ToPackets, Real, Held
    <3>2. QED
      BY <2>2, <2>7, <3>1 DEF Holds, IsItem, Real, Held
  <2>9. QED
    BY <2>2, <2>3, <2>5, <2>6, <2>7 DEF Looks, Keeps, IsEmpty, NeedsData, HasData
<1>3. QED
  BY <1>1, <1>2

\* decode passes a frame on.
LEMMA FrameIsWritten ==
  ASSUME NEW g \in GraphState, NEW async \in SUBSET Filters, NEW q, NEW d,
         Looks(g, async \cup {"decode"}, q, d), IsFed(g), NeedsData(g, "frames"),
         NEW x \in Data, x = g.pin["fromCodec"].data, x = EOF => g.newSegment = None,
         NEW f, PinBecomes(g, f, "fromCodec", FALSE, None), f.pending = g.pending,
         NEW h, h = PinWrite(f, "frames", x)
  PROVE  Looks(h, async, q, d) /\ Keeps(g, h) /\ (h.demuxEof <=> g.demuxEof)
<1>0. PinsInv(g) /\ CodecInv(g) /\ Quiet(g, g.pending \cup (async \cup {"decode"}), q, d)
  BY DEF Looks
<1>1. NeedsData(f, "frames") /\ f \in GraphState
  BY ConnNames DEF PinBecomes, NeedsData, Conns
<1>2. PinBecomes(f, h, "frames", FALSE, x) /\ h.pending = f.pending \cup {"queue"}
  <2>1. /\ PinBecomes(f, PinWrite(f, "frames", x), "frames", FALSE, x)
        /\ PinWrite(f, "frames", x).pending = f.pending \cup {Consumer("frames")}
    BY <1>1, WrittenTo, ConnNames
  <2>2. QED
    BY <2>1, ConnNames
<1>3. /\ h \in GraphState /\ h.packet = g.packet /\ h.newSegment = g.newSegment
      /\ h.codec = g.codec /\ h.eofReturned = g.eofReturned
      /\ h.packetsSent = g.packetsSent /\ (h.demuxEof <=> g.demuxEof)
      /\ h.pin["packets"] = g.pin["packets"] /\ h.pin["toCodec"] = g.pin["toCodec"]
      /\ ~h.pin["fromCodec"].requested /\ h.pin["fromCodec"].data = None
      /\ ~h.pin["frames"].requested /\ h.pin["frames"].data = x
      /\ h.pending = g.pending \cup {"queue"}
  BY <1>2, ConnNames, SMTT(20) DEF PinBecomes, SameRest, Conns
<1>4. g.pin["frames"].data = None /\ x # None
  BY <1>0, ConnNames, Kinds DEF PinsInv, NeedsData, HasData
<1>5. PinsInv(h)
  BY <1>0, <1>3, SMTT(20) DEF PinsInv, NeedsData, HasData, Conns
<1>6. CodecInv(h)
  BY <1>0, <1>3, Kinds, SMTT(20) DEF CodecInv, IsEmpty, NeedsData, HasData
<1>7. Quiet(h, h.pending \cup async, q, d)
  BY <1>0, <1>3 DEF Quiet, LavcQuiet, DecodeQuiet, IsFed, DemuxQuiet, NeedsData
<1>8. ASSUME NEW p \in Positions, NEW n \in Nat, Holds(g, p, n)
      PROVE  Holds(h, p, n) /\ ToPackets(h, n) = ToPackets(g, n)
  <2>1. /\ One(g.pin["frames"].data) = 0 /\ One(h.pin["frames"].data) = 1
        /\ Real(g, g.pin["fromCodec"].data) = 1 /\ Real(h, h.pin["fromCodec"].data) = 0
    BY <1>3, <1>4 DEF One, Real
  <2>2. /\ ToFrames(g, n) = n /\ ToFrames(h, n) = n + 1
        /\ ToFromCodec(g, n) = n + 1 /\ ToFromCodec(h, n) = n + 1
    BY <2>1 DEF ToFrames, ToFromCodec
  <2>3. /\ ToBuffer(h, n) = ToBuffer(g, n) /\ ToHeld(h, n) = ToHeld(g, n)
        /\ ToToCodec(h, n) = ToToCodec(g, n) /\ ToPacket(h, n) = ToPacket(g, n)
        /\ ToPackets(h, n) = ToPackets(g, n)
    <3>1. Held(h) = Held(g) /\ Real(h, h.pin["toCodec"].data) = Real(g, g.pin["toCodec"].data)
      BY <1>3 DEF Real, Held
    <3>2. ToBuffer(h, n) = ToBuffer(g, n)
      BY <1>3, <2>2 DEF ToBuffer
    <3>3. ToToCodec(h, n) = ToToCodec(g, n) /\ ToHeld(h, n) = ToHeld(g, n)
      BY <3>1, <3>2 DEF ToHeld, ToToCodec
    <3>4. ToPacket(h, n) = ToPacket(g, n)
      BY <1>3, <3>3 DEF ToPacket
    <3>5. QED
      BY <1>3, <3>2, <3>3, <3>4 DEF ToPackets
  <2>4. IsItem(h.pin["frames"].data, p, ToFrames(h, n))
    BY <1>3, <1>8, <2>1, <2>2 DEF Holds, IsItem
  <2>5. /\ Held(h) = Held(g) /\ Real(h, h.pin["toCodec"].data) = Real(g, g.pin["toCodec"].data)
        /\ h.codec = g.codec /\ h.packet = g.packet /\ h.newSegment = g.newSegment
        /\ h.pin["toCodec"] = g.pin["toCodec"] /\ h.pin["packets"] = g.pin["packets"]
    BY <1>3 DEF Real, Held
  <2>6. /\ AreItems(h.codec.buffer, p, ToFromCodec(h, n))
        /\ Held(h) = 1 => ToHeld(h, n) = NumPackets + 1
        /\ Real(h, h.pin["toCodec"].data) = 1 => h.pin["toCodec"].data = Item(p, ToToCodec(h, n))
    BY <1>8, <2>2, <2>3, <2>5 DEF Holds
  <2>7. /\ IsItem(h.packet, p, ToPacket(h, n)) /\ IsItem(h.newSegment, p, ToPacket(h, n))
        /\ IsItem(h.pin["packets"].data, p, ToPackets(h, n))
    BY <1>8, <2>3, <2>5 DEF Holds
  <2>8. Real(h, h.pin["fromCodec"].data) # 1
    BY <2>1
  <2>9. Holds(h, p, n)
    BY <2>4, <2>6, <2>7, <2>8, Zenon DEF Holds
  <2>10. QED
    BY <2>3, <2>9
<1>9. QED
  BY <1>3, <1>5, <1>6, <1>7, <1>8 DEF Looks, Keeps, IsEmpty, NeedsData, HasData

\* The segment that waited starts when the one before it was drained.
Starts(g, h) ==
  /\ h \in GraphState /\ h.packet = g.newSegment /\ h.newSegment = None
  /\ h.codec.buffer = <<>> /\ ~h.codec.draining /\ ~h.eofReturned /\ ~h.packetsSent
  /\ h.demuxEof = g.demuxEof
  /\ h.pin["packets"] = g.pin["packets"] /\ h.pin["frames"] = g.pin["frames"]
  /\ \A c \in {"toCodec", "fromCodec"} : ~h.pin[c].requested /\ h.pin[c].data = None
  /\ h.pending = g.pending \cup {"decode"}

LEMMA SegmentStarts ==
  ASSUME NEW g \in GraphState, g.newSegment # None,
         NEW f, PinBecomes(g, f, "fromCodec", FALSE, None), f.pending = g.pending
  PROVE  Starts(g, StartSegment(f))
<1>1. f \in GraphState /\ f.newSegment = g.newSegment /\ f.demuxEof = g.demuxEof
      /\ f.pin["packets"] = g.pin["packets"] /\ f.pin["frames"] = g.pin["frames"]
  BY ConnNames DEF PinBecomes, SameRest, Conns
<1> DEFINE pin == [f.pin EXCEPT !["toCodec"] = EmptyPin, !["fromCodec"] = EmptyPin]
           codec == [buffer |-> <<>>, draining |-> FALSE]
           segment == SegmentOf[f.newSegment.index]
           F == f.pending \cup {"decode"}
           h == StartSegment(f)
<1>2. EmptyPin \in Pin /\ ~EmptyPin.requested /\ EmptyPin.data = None
  BY DEF EmptyPin, Pin
<1>3. pin \in [Conns -> Pin] /\ pin["packets"] = f.pin["packets"] /\ pin["frames"] = f.pin["frames"]
      /\ pin["toCodec"] = EmptyPin /\ pin["fromCodec"] = EmptyPin
  <2>1. f.pin \in [Conns -> Pin]
    BY <1>1 DEF GraphState
  <2>2. QED
    BY <1>2, <2>1, ConnNames
<1>4. codec \in [buffer : Seq(Packets), draining : BOOLEAN] /\ codec.buffer = <<>> /\ ~codec.draining
  OBVIOUS
<1>5. segment \in Segment
  <2>1. f.newSegment \in Packets
    BY <1>1 DEF GraphState
  <2>2. f.newSegment.index \in 1 .. NumPackets
    BY <2>1 DEF Packets, Packet
  <2>3. QED
    BY <2>2 DEF Segment
<1>6. F \in SUBSET Filters
  BY <1>1 DEF GraphState, Filters
<1>7. h = [f EXCEPT !.pin = pin, !.codec = codec, !.eofReturned = FALSE, !.packetsSent = FALSE,
                    !.newSegment = None, !.packet = f.newSegment, !.segment = segment, !.pending = F]
  BY <1>1 DEF StartSegment, AddPending, ResetCodec, GraphState
<1>8. f.newSegment \in Data \cup {None}
  BY <1>1, Kinds DEF GraphState
<1> HIDE DEF pin, codec, segment, F, h
<1>9. /\ h \in GraphState /\ h.pin = pin /\ h.codec = codec /\ ~h.eofReturned /\ ~h.packetsSent
      /\ h.newSegment = None /\ h.packet = f.newSegment /\ h.pending = F /\ h.demuxEof = f.demuxEof
  BY <1>1, <1>3, <1>4, <1>5, <1>6, <1>7, <1>8 DEF GraphState
<1>10. QED
  BY <1>1, <1>2, <1>3, <1>4, <1>9 DEF Starts, h, F

\* Starting it loses nothing.
LEMMA SegmentIsStarted ==
  ASSUME NEW g \in GraphState, NEW async \in SUBSET Filters, NEW q, NEW d,
         Looks(g, async \cup {"decode"}, q, d), g.newSegment # None,
         g.pin["fromCodec"].data = EOF, NEW h, Starts(g, h)
  PROVE  Looks(h, async, q, d) /\ Keeps(g, h) /\ (h.demuxEof <=> g.demuxEof)
<1>0. PinsInv(g) /\ CodecInv(g) /\ Quiet(g, g.pending \cup (async \cup {"decode"}), q, d)
  BY DEF Looks
<1>1. /\ h \in GraphState /\ h.packet = g.newSegment /\ h.newSegment = None
      /\ h.codec.buffer = <<>> /\ ~h.codec.draining /\ ~h.eofReturned /\ ~h.packetsSent
      /\ (h.demuxEof <=> g.demuxEof)
      /\ h.pin["packets"] = g.pin["packets"] /\ h.pin["frames"] = g.pin["frames"]
      /\ ~h.pin["toCodec"].requested /\ h.pin["toCodec"].data = None
      /\ ~h.pin["fromCodec"].requested /\ h.pin["fromCodec"].data = None
      /\ h.pending = g.pending \cup {"decode"}
  BY DEF Starts
<1>2. PinsInv(h)
  BY <1>0, <1>1 DEF PinsInv, NeedsData, HasData, Conns
<1>3. CodecInv(h)
  BY <1>1, Kinds, Sizes DEF CodecInv
<1>4. Quiet(h, h.pending \cup async, q, d)
  BY <1>0, <1>1 DEF Quiet, LavcQuiet, DemuxQuiet, QueueQuiet, NeedsData
<1>5. /\ g.packet = None /\ g.codec.buffer = <<>> /\ ~g.codec.draining
      /\ g.pin["toCodec"].data = None
  BY <1>0 DEF CodecInv, IsEmpty, HasData
<1>6. ASSUME NEW p \in Positions, NEW n \in Nat, Holds(g, p, n)
      PROVE  Holds(h, p, n) /\ ToPackets(h, n) = ToPackets(g, n)
  <2> DEFINE k == ToFrames(g, n)
  <2>1. k \in Nat /\ ToFrames(h, n) = k
    BY <1>1, Counts DEF ToFrames
  <2>2. /\ Real(g, g.pin["fromCodec"].data) = 0 /\ Real(h, h.pin["fromCodec"].data) = 0
        /\ Real(g, g.pin["toCodec"].data) = 0 /\ Real(h, h.pin["toCodec"].data) = 0
        /\ Held(g) = 0 /\ Held(h) = 0 /\ Len(g.codec.buffer) = 0 /\ Len(h.codec.buffer) = 0
        /\ One(g.packet) = 0 /\ One(g.newSegment) = 1 /\ One(h.packet) = 1 /\ One(h.newSegment) = 0
    BY <1>1, <1>5 DEF Real, Held, One
  <2> HIDE DEF k
  <2>3. /\ ToFromCodec(g, n) = k /\ ToFromCodec(h, n) = k
        /\ ToBuffer(g, n) = k /\ ToBuffer(h, n) = k
        /\ ToHeld(g, n) = k /\ ToHeld(h, n) = k
        /\ ToToCodec(g, n) = k /\ ToToCodec(h, n) = k
    BY <2>1, <2>2 DEF ToFromCodec, ToBuffer, ToHeld, ToToCodec, k
  <2>4. ToPacket(g, n) = k + 1 /\ ToPacket(h, n) = k + 1
    BY <2>1, <2>2, <2>3 DEF ToPacket
  <2>5. ToPackets(h, n) = ToPackets(g, n)
    BY <1>1, <2>4 DEF ToPackets
  <2>6. IsItem(h.packet, p, k + 1)
    BY <1>1, <1>6, <2>4 DEF Holds
  <2>7. Holds(h, p, n)
    BY <1>1, <1>6, <2>1, <2>2, <2>4, <2>5, <2>6 DEF Holds, IsItem, AreItems, k
  <2>8. QED
    BY <2>5, <2>7
<1>7. QED
  BY <1>1, <1>2, <1>3, <1>4, <1>6 DEF Looks, Keeps, IsEmpty, NeedsData, HasData

\* read_frame().
LEMMA DecodeReads ==
  ASSUME NEW g \in GraphState, NEW async \in SUBSET Filters, NEW q, NEW d,
         Looks(g, async \cup {"decode"}, q, d), IsFed(g)
  PROVE  Looks(ReadFrame(g), async, q, d) /\ Keeps(g, ReadFrame(g))
         /\ (ReadFrame(g).demuxEof <=> g.demuxEof)
<1> DEFINE h == ReadFrame(g)
<1>0. PinsInv(g) /\ CodecInv(g) /\ Quiet(g, g.pending \cup (async \cup {"decode"}), q, d)
  BY DEF Looks
<1>1. CASE ~NeedsData(g, "frames")
  <2>1. h = g
    BY <1>1 DEF ReadFrame
  <2>2. DecodeQuiet(h)
    BY <1>1, <2>1 DEF DecodeQuiet, IsFed
  <2>3. Quiet(h, h.pending \cup async, q, d)
    BY <1>0, <2>1, <2>2 DEF Quiet
  <2>4. QED
    BY <1>0, <2>1, <2>3 DEF Looks, Keeps, IsEmpty, NeedsData, HasData
<1>2. CASE NeedsData(g, "frames") /\ ~HasData(g, "fromCodec")
  <2>1. h = RequestData(g, "fromCodec")
    BY <1>2 DEF ReadFrame
  <2> HIDE DEF h
  <2>2. QED
    BY <1>2, <2>1, FramesAreAsked DEF h
<1>3. CASE NeedsData(g, "frames") /\ HasData(g, "fromCodec")
  <2> DEFINE x == g.pin["fromCodec"].data
             f == TakeData(g, "fromCodec")
  <2>1. ~NeedsData(g, "fromCodec") /\ x \in Data
    BY <1>0, <1>3, ConnNames DEF PinsInv, HasData, GraphState, Pin
  <2>2. PinBecomes(g, f, "fromCodec", FALSE, None) /\ f.pending = g.pending
    BY <2>1, Taken, ConnNames
  <2>3. CASE x = EOF /\ g.newSegment # None
    <3>1. h = StartSegment(f)
      BY <1>3, <2>3 DEF ReadFrame
    <3> HIDE DEF f, h
    <3>2. Starts(g, h)
      BY <2>2, <2>3, <3>1, SegmentStarts
    <3>3. QED
      BY <2>3, <3>2, SegmentIsStarted DEF h
  <2>4. CASE ~(x = EOF /\ g.newSegment # None)
    <3>1. h = PinWrite(f, "frames", x)
      BY <1>3, <2>4 DEF ReadFrame
    <3> HIDE DEF f, h
    <3>2. QED
      BY <1>3, <2>1, <2>2, <2>4, <3>1, FrameIsWritten DEF h
  <2>5. QED
    BY <2>3, <2>4
<1>4. QED
  BY <1>1, <1>2, <1>3

\* process() of the decoder wrapper.
LEMMA DecodeProcessed ==
  ASSUME NEW g \in GraphState, NEW async \in SUBSET Filters, PinsInv(g), CodecInv(g), NEW q, NEW d,
         Quiet(g, g.pending \cup async \cup {"decode"}, q, d)
  PROVE  Looks(ProcessDecode(g), async, q, d) /\ Keeps(g, ProcessDecode(g))
         /\ (ProcessDecode(g).demuxEof <=> g.demuxEof)
<1> DEFINE e == FeedPacket(g)
<1>1. Feeds(g, e, async, q, d)
  BY DecodeFeeds
<1>2. ProcessDecode(g) = ReadFrame(e)
  BY DEF ProcessDecode
<1> HIDE DEF e
<1>3. e \in GraphState /\ Looks(e, async \cup {"decode"}, q, d) /\ IsFed(e) /\ Keeps(g, e)
      /\ (e.demuxEof <=> g.demuxEof)
  BY <1>1 DEF Feeds, Looks
<1>4. Looks(ReadFrame(e), async, q, d) /\ Keeps(e, ReadFrame(e)) /\ (ReadFrame(e).demuxEof <=> e.demuxEof)
  BY <1>3, DecodeReads
<1>5. Keeps(g, ReadFrame(e))
  BY <1>3, <1>4 DEF Keeps
<1>6. QED
  BY <1>2, <1>3, <1>4, <1>5

\* queue_in takes k frames from its pin.
Shifts(g, h, k) ==
  \A p \in Positions, n \in Nat :
    Holds(g, p, n) => Holds(h, p, n + k) /\ ToPackets(h, n + k) = ToPackets(g, n)

\* queue_in asks for the next frame.
LEMMA QueueAsks ==
  ASSUME NEW g \in GraphState, NEW async \in SUBSET Filters, NEW q, NEW d,
         Looks(g, async \cup {"queue"}, q, d), ~HasData(g, "frames"),
         NEW h, h = RequestData(g, "frames")
  PROVE  Looks(h, async, q, d) /\ Shifts(g, h, 0) /\ (h.demuxEof <=> g.demuxEof)
<1>0. PinsInv(g) /\ CodecInv(g) /\ Quiet(g, g.pending \cup (async \cup {"queue"}), q, d)
  BY DEF Looks
<1>1. CASE NeedsData(g, "frames")
  <2>1. h = g
    BY <1>1 DEF RequestData, NeedsData
  <2>2. QueueQuiet(h, q)
    BY <1>1, <2>1 DEF QueueQuiet
  <2>3. Quiet(h, h.pending \cup async, q, d)
    BY <1>0, <2>1, <2>2 DEF Quiet
  <2>4. \A n \in Nat : n + 0 = n
    OBVIOUS
  <2>5. QED
    BY <1>0, <2>1, <2>3, <2>4 DEF Looks, Shifts
<1>2. CASE ~NeedsData(g, "frames")
  <2>1. PinBecomes(g, h, "frames", TRUE, None) /\ h.pending = g.pending \cup {"decode"}
    BY <1>2, ConnNames, Requested
  <2>2. /\ h \in GraphState /\ h.packet = g.packet /\ h.newSegment = g.newSegment
        /\ h.codec = g.codec /\ h.eofReturned = g.eofReturned
        /\ h.packetsSent = g.packetsSent /\ (h.demuxEof <=> g.demuxEof)
        /\ h.pin["packets"] = g.pin["packets"] /\ h.pin["toCodec"] = g.pin["toCodec"]
        /\ h.pin["fromCodec"] = g.pin["fromCodec"] /\ h.pin["frames"].requested
        /\ h.pin["frames"].data = None /\ g.pin["frames"].data = None
        /\ h.pending = g.pending \cup {"decode"}
    BY <2>1, ConnNames DEF PinBecomes, SameRest, Conns, HasData
  <2>3. PinsInv(h)
    BY <1>0, <2>2 DEF PinsInv, NeedsData, HasData, Conns
  <2>5. CodecInv(h)
    BY <1>0, <2>2 DEF CodecInv, IsEmpty, NeedsData, HasData
  <2>6. Quiet(h, h.pending \cup async, q, d)
    BY <1>0, <2>2 DEF Quiet, LavcQuiet, DemuxQuiet, QueueQuiet, NeedsData, CodecHasFrame
  <2>7. ASSUME NEW p \in Positions, NEW n \in Nat, Holds(g, p, n)
        PROVE  Holds(h, p, n + 0) /\ ToPackets(h, n + 0) = ToPackets(g, n)
    <3>0. n + 0 = n
      OBVIOUS
    <3>1. /\ ToFrames(h, n) = ToFrames(g, n) /\ ToFromCodec(h, n) = ToFromCodec(g, n)
          /\ ToBuffer(h, n) = ToBuffer(g, n) /\ ToHeld(h, n) = ToHeld(g, n)
          /\ ToToCodec(h, n) = ToToCodec(g, n) /\ ToPacket(h, n) = ToPacket(g, n)
          /\ ToPackets(h, n) = ToPackets(g, n)
      BY <2>2 DEF ToFrames, ToFromCodec, ToBuffer, ToHeld, ToToCodec, ToPacket, ToPackets, Real, Held
    <3>2. Holds(h, p, n)
      BY <2>2, <2>7, <3>1 DEF Holds, IsItem, Real, Held
    <3>3. QED
      BY <3>0, <3>1, <3>2
  <2>9. QED
    BY <2>2, <2>3, <2>5, <2>6, <2>7 DEF Looks, Shifts
<1>3. QED
  BY <1>1, <1>2

\* queue_in takes the frame from its pin.
LEMMA FrameIsTaken ==
  ASSUME NEW g \in GraphState, NEW async \in SUBSET Filters, PinsInv(g), CodecInv(g), NEW q, NEW d,
         Quiet(g, g.pending \cup async \cup {"queue"}, q, d),
         HasData(g, "frames"), NEW h, h = TakeData(g, "frames"), NEW r
  PROVE  /\ Looks(h, async \cup {"queue"}, r, d) /\ Shifts(g, h, 1) /\ (h.demuxEof <=> g.demuxEof)
         /\ ~HasData(h, "frames")
         /\ \A p \in Positions, n \in Nat : Holds(g, p, n) => g.pin["frames"].data = Item(p, n + 1)
<1>0. ~NeedsData(g, "frames") /\ g.pin["frames"].data # None
  BY ConnNames DEF PinsInv, HasData
<1>1. PinBecomes(g, h, "frames", FALSE, None) /\ h.pending = g.pending
  BY <1>0, ConnNames, Taken
<1>2. /\ h \in GraphState /\ h.packet = g.packet /\ h.newSegment = g.newSegment
      /\ h.codec = g.codec /\ h.eofReturned = g.eofReturned
      /\ h.packetsSent = g.packetsSent /\ (h.demuxEof <=> g.demuxEof)
      /\ h.pin["packets"] = g.pin["packets"] /\ h.pin["toCodec"] = g.pin["toCodec"]
      /\ h.pin["fromCodec"] = g.pin["fromCodec"] /\ ~h.pin["frames"].requested
      /\ h.pin["frames"].data = None /\ h.pending = g.pending
  BY <1>1, ConnNames DEF PinBecomes, SameRest, Conns
<1>3. PinsInv(h)
  BY <1>2 DEF PinsInv, NeedsData, HasData, Conns
<1>4. CodecInv(h)
  BY <1>2 DEF CodecInv, IsEmpty, NeedsData, HasData
<1>5. Quiet(h, h.pending \cup (async \cup {"queue"}), r, d)
  BY <1>2 DEF Quiet, LavcQuiet, DecodeQuiet, DemuxQuiet, NeedsData, CodecHasFrame
<1>6. ASSUME NEW p \in Positions, NEW n \in Nat, Holds(g, p, n)
      PROVE  /\ Holds(h, p, n + 1) /\ ToPackets(h, n + 1) = ToPackets(g, n)
             /\ g.pin["frames"].data = Item(p, n + 1)
  <2>0. ToFrames(g, n) = n + 1 /\ ToFrames(h, n + 1) = n + 1
    <3>1. One(g.pin["frames"].data) = 1 /\ One(h.pin["frames"].data) = 0
      BY <1>0, <1>2 DEF One
    <3>2. QED
      BY <3>1 DEF ToFrames
  <2>1. /\ ToFromCodec(h, n + 1) = ToFromCodec(g, n)
        /\ ToBuffer(h, n + 1) = ToBuffer(g, n) /\ ToHeld(h, n + 1) = ToHeld(g, n)
        /\ ToToCodec(h, n + 1) = ToToCodec(g, n) /\ ToPacket(h, n + 1) = ToPacket(g, n)
        /\ ToPackets(h, n + 1) = ToPackets(g, n)
    <3>1. /\ Held(h) = Held(g) /\ Real(h, h.pin["toCodec"].data) = Real(g, g.pin["toCodec"].data)
          /\ Real(h, h.pin["fromCodec"].data) = Real(g, g.pin["fromCodec"].data)
      BY <1>2 DEF Real, Held
    <3>2. ToFromCodec(h, n + 1) = ToFromCodec(g, n) /\ ToBuffer(h, n + 1) = ToBuffer(g, n)
      BY <1>2, <2>0, <3>1 DEF ToFromCodec, ToBuffer
    <3>3. ToToCodec(h, n + 1) = ToToCodec(g, n) /\ ToHeld(h, n + 1) = ToHeld(g, n)
      BY <3>1, <3>2 DEF ToHeld, ToToCodec
    <3>4. ToPacket(h, n + 1) = ToPacket(g, n)
      BY <1>2, <3>3 DEF ToPacket
    <3>5. QED
      BY <1>2, <3>2, <3>3, <3>4 DEF ToPackets
  <2>2. g.pin["frames"].data = Item(p, n + 1)
    BY <1>0, <1>6, <2>0 DEF Holds, IsItem
  <2>3. Holds(h, p, n + 1)
    BY <1>2, <1>6, <2>1 DEF Holds, IsItem, Real, Held
  <2>4. QED
    BY <2>1, <2>2, <2>3
<1>7. QED
  BY <1>2, <1>3, <1>4, <1>5, <1>6 DEF Looks, Shifts, HasData

\* Without a reader a frame is discarded.
LEMMA FrameIsDiscarded ==
  ASSUME NEW g \in GraphState, NEW async \in SUBSET Filters, PinsInv(g), CodecInv(g), NEW d,
         NEW q, ~q.reading, Quiet(g, g.pending \cup async \cup {"queue"}, q, d),
         NEW h, h = TakeData(g, "frames")
  PROVE  /\ Looks(h, async, q, d) /\ (h.demuxEof <=> g.demuxEof)
         /\ IsEmpty(g, "frames") => Keeps(g, h)
<1> DEFINE r == [g.pin["frames"] EXCEPT !.data = None]
<1>1. g.pin["frames"] \in Pin
  BY ConnNames DEF GraphState
<1>2. r \in Pin /\ (r.requested <=> g.pin["frames"].requested) /\ r.data = None
  BY <1>1 DEF Pin
<1>3. h.pin = [g.pin EXCEPT !["frames"] = r] /\ h.pending = g.pending /\ SameRest(g, h)
  BY DEF TakeData, GraphState, SameRest
<1>4. h \in GraphState
  <2>1. [g.pin EXCEPT !["frames"] = r] \in [Conns -> Pin]
    BY <1>2 DEF GraphState
  <2>2. QED
    BY <2>1 DEF TakeData, GraphState
<1> HIDE DEF r
<1>5. PinBecomes(g, h, "frames", r.requested, r.data)
  BY <1>2, <1>3, <1>4, PinIsSet, ConnNames
<1>6. /\ h \in GraphState /\ h.packet = g.packet /\ h.newSegment = g.newSegment
      /\ h.codec = g.codec /\ h.eofReturned = g.eofReturned
      /\ h.packetsSent = g.packetsSent /\ (h.demuxEof <=> g.demuxEof)
      /\ h.pin["packets"] = g.pin["packets"] /\ h.pin["toCodec"] = g.pin["toCodec"]
      /\ h.pin["fromCodec"] = g.pin["fromCodec"] /\ h.pending = g.pending
      /\ (h.pin["frames"].requested <=> g.pin["frames"].requested) /\ h.pin["frames"].data = None
  BY <1>2, <1>3, <1>5, ConnNames DEF PinBecomes, SameRest, Conns
<1>7. PinsInv(h)
  BY <1>6 DEF PinsInv, NeedsData, HasData, Conns
<1>8. CodecInv(h)
  BY <1>6 DEF CodecInv, IsEmpty, NeedsData, HasData
<1>9. Quiet(h, h.pending \cup async, q, d)
  BY <1>6 DEF Quiet, LavcQuiet, DecodeQuiet, DemuxQuiet, QueueQuiet, NeedsData, CodecHasFrame
<1>10. ASSUME NEW p \in Positions, NEW n \in Nat, Holds(g, p, n), IsEmpty(g, "frames")
       PROVE  Holds(h, p, n) /\ ToPackets(h, n) = ToPackets(g, n)
  <2>0. g.pin["frames"].data = None
    BY <1>10 DEF IsEmpty, HasData
  <2>1. /\ ToFrames(h, n) = ToFrames(g, n) /\ ToFromCodec(h, n) = ToFromCodec(g, n)
        /\ ToBuffer(h, n) = ToBuffer(g, n) /\ ToHeld(h, n) = ToHeld(g, n)
        /\ ToToCodec(h, n) = ToToCodec(g, n) /\ ToPacket(h, n) = ToPacket(g, n)
        /\ ToPackets(h, n) = ToPackets(g, n)
    BY <1>6, <2>0 DEF ToFrames, ToFromCodec, ToBuffer, ToHeld, ToToCodec, ToPacket, ToPackets, Real, Held
  <2>2. Holds(h, p, n)
    BY <1>6, <1>10, <2>1 DEF Holds, IsItem, Real, Held
  <2>3. QED
    BY <2>1, <2>2
<1>11. QED
  BY <1>6, <1>7, <1>8, <1>9, <1>10 DEF Looks, Keeps, IsEmpty, NeedsData, HasData

QueueAfter(g) == IF QueueTakes(g) THEN [queue EXCEPT !.frames = Append(@, g.pin["frames"].data)]
                 ELSE queue

\* process_in() of the asynchronous queue.
LEMMA QueueProcessed ==
  ASSUME NEW g \in GraphState, NEW async \in SUBSET Filters, PinsInv(g), CodecInv(g),
         Quiet(g, g.pending \cup async \cup {"queue"}, queue, demux), queue \in QueueState,
         NEW h, h = ProcessQueueIn(g)
  PROVE  /\ Looks(h, async, QueueAfter(g), demux) /\ (h.demuxEof <=> g.demuxEof)
         /\ ~queue.reading /\ IsEmpty(g, "frames") => Keeps(g, h)
         /\ queue.reading /\ ~QueueTakes(g) => Shifts(g, h, 0)
         /\ QueueTakes(g) =>
              /\ queue.reading /\ Shifts(g, h, 1)
              /\ g.pin["frames"].data \in Data
              /\ \A p \in Positions, n \in Nat : Holds(g, p, n) => g.pin["frames"].data = Item(p, n + 1)
<1> DEFINE x == g.pin["frames"].data
           fs == Append(queue.frames, x)
           r == QueueAfter(g)
<1>1. CASE ~queue.reading
  <2>1. h = TakeData(g, "frames") /\ ~QueueTakes(g) /\ r = queue
    BY <1>1 DEF ProcessQueueIn, QueueTakes, QueueAfter
  <2>2. QED
    BY <1>1, <2>1, FrameIsDiscarded
<1>2. CASE queue.reading /\ IsFull(queue.frames)
  <2>1. h = g /\ ~QueueTakes(g) /\ r = queue
    BY <1>2 DEF ProcessQueueIn, QueueTakes, QueueAfter
  <2>2. Quiet(h, h.pending \cup async, queue, demux)
    BY <1>2, <2>1 DEF Quiet, QueueQuiet
  <2>3. \A n \in Nat : n + 0 = n
    OBVIOUS
  <2>4. QED
    BY <1>2, <2>1, <2>2, <2>3 DEF Looks, Shifts
<1>3. CASE QueueTakes(g)
  <2> DEFINE t == TakeData(g, "frames")
  <2>1. queue.reading /\ ~IsFull(queue.frames) /\ HasData(g, "frames")
    BY <1>3 DEF QueueTakes
  <2>2. h = IF IsFull(fs) THEN t ELSE RequestData(t, "frames")
    BY <1>3, <2>1 DEF ProcessQueueIn
  <2>3. r = [queue EXCEPT !.frames = fs]
    BY <1>3 DEF QueueAfter
  <2>4. x \in Data
    BY <2>1, ConnNames DEF GraphState, Pin, HasData
  <2>5. r.frames = fs
    BY <2>3 DEF QueueState
  <2> HIDE DEF t, r, x, fs
  <2>6. /\ Looks(t, async \cup {"queue"}, r, demux) /\ Shifts(g, t, 1) /\ (t.demuxEof <=> g.demuxEof)
        /\ ~HasData(t, "frames") /\ t \in GraphState
        /\ \A p \in Positions, n \in Nat : Holds(g, p, n) => x = Item(p, n + 1)
    BY <2>1, FrameIsTaken DEF t, Looks, x
  <2>7. CASE IsFull(fs)
    <3>1. h = t /\ QueueQuiet(t, r)
      BY <2>2, <2>5, <2>7 DEF QueueQuiet
    <3>2. Quiet(t, t.pending \cup async, r, demux) /\ PinsInv(t) /\ CodecInv(t)
      BY <2>6, <3>1 DEF Looks, Quiet
    <3>3. QED
      BY <1>3, <2>1, <2>4, <2>6, <3>1, <3>2 DEF Looks, r, x
  <2>8. CASE ~IsFull(fs)
    <3>1. h = RequestData(t, "frames")
      BY <2>2, <2>8
    <3>2. Looks(h, async, r, demux) /\ Shifts(t, h, 0) /\ (h.demuxEof <=> t.demuxEof)
      BY <2>6, <3>1, QueueAsks
    <3>3. Shifts(g, h, 1)
      <4>1. \A n \in Nat : n + 1 \in Nat /\ (n + 1) + 0 = n + 1
        OBVIOUS
      <4>2. QED
        BY <2>6, <3>2, <4>1 DEF Shifts
    <3>4. QED
      BY <1>3, <2>1, <2>4, <2>6, <3>2, <3>3 DEF r, x
  <2>9. QED
    BY <2>7, <2>8
<1>4. CASE queue.reading /\ ~IsFull(queue.frames) /\ ~QueueTakes(g)
  <2>1. h = RequestData(g, "frames") /\ r = queue /\ ~HasData(g, "frames")
    BY <1>4 DEF ProcessQueueIn, QueueTakes, QueueAfter
  <2>2. g.pending \cup async \cup {"queue"} = g.pending \cup (async \cup {"queue"})
    OBVIOUS
  <2>3. Looks(g, async \cup {"queue"}, queue, demux)
    BY <2>2 DEF Looks
  <2>4. Looks(h, async, queue, demux) /\ Shifts(g, h, 0) /\ (h.demuxEof <=> g.demuxEof)
    BY <2>1, <2>3, QueueAsks
  <2>5. QED
    BY <1>4, <2>1, <2>4
<1>5. QED
  BY <1>1, <1>2, <1>3, <1>4

-------------------------------------------------------------------------------
(* The runner.                                                             *)

\* More notified filters, fewer that must be quiet.
LEMMA QuietGrows ==
  ASSUME NEW g, NEW few, NEW many, few \subseteq many, NEW q, NEW d, Quiet(g, few, q, d)
  PROVE  Quiet(g, many, q, d)
  BY DEF Quiet

\* Another set of pending filters.
LEMMA PendingIsSet ==
  ASSUME NEW g \in GraphState, NEW F \in SUBSET Filters, NEW h, h = [g EXCEPT !.pending = F]
  PROVE  h \in GraphState /\ SameRest(g, h) /\ h.pin = g.pin /\ h.pending = F
  BY DEF GraphState, SameRest

\* The invariant of the graph does not depend on who is pending.
LEMMA SameInside ==
  ASSUME NEW g \in GraphState, NEW h \in GraphState, SameRest(g, h), h.pin = g.pin
  PROVE  /\ PinsInv(g) => PinsInv(h)
         /\ CodecInv(g) => CodecInv(h)
         /\ \A N, q, d : Quiet(g, N, q, d) => Quiet(h, N, q, d)
         /\ \A p, n : Holds(g, p, n) => Holds(h, p, n)
         /\ \A n : ToPackets(g, n) = ToPackets(h, n)
         /\ \A s, x, q, d : Flow(g, s, x, q, d) => Flow(h, s, x, q, d)
<1>0. /\ h.pin = g.pin /\ h.packet = g.packet /\ h.newSegment = g.newSegment /\ h.codec = g.codec
      /\ h.eofReturned = g.eofReturned /\ h.packetsSent = g.packetsSent /\ h.demuxEof = g.demuxEof
  BY DEF SameRest
<1>1. PinsInv(g) => PinsInv(h)
  BY <1>0 DEF PinsInv, NeedsData, HasData
<1>2. CodecInv(g) => CodecInv(h)
  BY <1>0 DEF CodecInv, IsEmpty, NeedsData, HasData
<1>3. ASSUME NEW N, NEW q, NEW d, Quiet(g, N, q, d) PROVE Quiet(h, N, q, d)
  BY <1>0, <1>3 DEF Quiet, LavcQuiet, DecodeQuiet, DemuxQuiet, QueueQuiet, NeedsData, CodecHasFrame
<1>4. \A n : /\ ToFrames(h, n) = ToFrames(g, n) /\ ToFromCodec(h, n) = ToFromCodec(g, n)
             /\ ToBuffer(h, n) = ToBuffer(g, n) /\ ToHeld(h, n) = ToHeld(g, n)
             /\ ToToCodec(h, n) = ToToCodec(g, n) /\ ToPacket(h, n) = ToPacket(g, n)
             /\ ToPackets(h, n) = ToPackets(g, n)
  BY <1>0 DEF ToFrames, ToFromCodec, ToBuffer, ToHeld, ToToCodec, ToPacket, ToPackets, Real, Held
<1>5. ASSUME NEW p, NEW n, Holds(g, p, n) PROVE Holds(h, p, n)
  BY <1>0, <1>4, <1>5 DEF Holds, Real, Held
<1>6. ASSUME NEW s, NEW x, NEW q, NEW d, Flow(g, s, x, q, d) PROVE Flow(h, s, x, q, d)
  BY <1>0, <1>4, <1>5, <1>6 DEF Flow, Read, IsEmpty, NeedsData, HasData
<1>7. QED
  BY <1>1, <1>2, <1>3, <1>4, <1>5, <1>6

\* A notification from elsewhere.
LEMMA FilterWakens ==
  ASSUME NEW f \in Filters, WakeFilter(f), runner \in RunnerState,
         dispatch \in [interrupted : BOOLEAN, terminate : BOOLEAN],
         RunnerInv, UNCHANGED <<graph, decPc>>
  PROVE  /\ runner' \in RunnerState /\ runner'.async = runner.async \cup {f}
         /\ dispatch' \in [interrupted : BOOLEAN, terminate : BOOLEAN]
         /\ RunnerInv'
<1>1. /\ runner' \in RunnerState /\ runner'.async = runner.async \cup {f} /\ runner'.sent
      /\ dispatch' \in [interrupted : BOOLEAN, terminate : BOOLEAN]
      /\ runner.sent => dispatch' = dispatch
      /\ ~runner.sent => dispatch'.interrupted
  BY DEF WakeFilter, RunnerState
<1>2. QED
  BY <1>1 DEF RunnerInv

\* The wakeup of the player.
LEMMA CoreWakens ==
  ASSUME NEW m \in CoreState, NEW w, w = WakeOut(m)
  PROVE  /\ w \in CoreState /\ w.async /\ w.sent /\ (w.woken <=> m.woken \/ ~m.sent)
         /\ w.requested = m.requested /\ w.data = m.data /\ w.pending = m.pending
  BY DEF WakeOut, CoreState

\* The notifications become pending filters.
LEMMA Flushed ==
  ASSUME Inv, FlushAsync, UNCHANGED <<dispatch, queue, demux, coreVars>>,
         decPc' \in {"run", "interrupt", "next", "process", "exit", "enter", "wait", "done"},
         decPc' = "exit" => dispatch.interrupted,
         decPc' \in {"enter", "wait"} =>
           dispatch.interrupted \/ (graph.pending = {} /\ runner.async = {})
  PROVE  Inv'
<1>1. Types /\ GraphInv(graph, runner.async, queue, demux) /\ RunnerInv /\ CoreInv /\ SeekInv /\ FlowInv
  BY DEF Inv
<1>2. graph \in GraphState /\ runner \in RunnerState
  BY <1>1 DEF Types
<1> DEFINE F == graph.pending \cup runner.async
<1>3. F \in SUBSET Filters
  BY <1>2 DEF GraphState, RunnerState
<1>4. graph' = [graph EXCEPT !.pending = F]
  BY DEF FlushAsync
<1>5. runner' \in RunnerState /\ runner'.async = {} /\ ~runner'.sent
  BY <1>2 DEF FlushAsync, RunnerState
<1> HIDE DEF F
<1>6. graph' \in GraphState /\ SameRest(graph, graph') /\ graph'.pin = graph.pin /\ graph'.pending = F
  <2> DEFINE h == [graph EXCEPT !.pending = F]
  <2>1. h \in GraphState /\ SameRest(graph, h) /\ h.pin = graph.pin /\ h.pending = F
    BY <1>2, <1>3, PendingIsSet
  <2>2. graph' = h
    BY <1>4
  <2> HIDE DEF h
  <2>3. QED
    BY <2>1, <2>2
<1>7. Types'
  BY <1>1, <1>5, <1>6 DEF Types, coreVars
<1>8. GraphInv(graph', runner'.async, queue', demux')
  <2>1. PinsInv(graph') /\ CodecInv(graph') /\ Quiet(graph', F, queue, demux)
    BY <1>1, <1>2, <1>6, SameInside DEF GraphInv, F
  <2>2. graph'.pending \cup runner'.async = F
    BY <1>5, <1>6
  <2>3. QED
    BY <2>1, <2>2 DEF GraphInv
<1>9. RunnerInv'
  BY <1>1, <1>5, <1>6 DEF RunnerInv, F
<1>10. CoreInv' /\ SeekInv'
  BY <1>1 DEF CoreInv, SeekInv, Unlocked, Stale, Locking, coreVars
<1>11. FlowInv'
  <2>1. Flow(graph, got, core.data, queue, demux) => Flow(graph', got, core.data, queue, demux)
    BY <1>2, <1>6, SameInside
  <2>2. QED
    BY <1>1, <2>1 DEF FlowInv, Stale, Locking, coreVars
<1>12. QED
  BY <1>7, <1>8, <1>9, <1>10, <1>11 DEF Inv

\* The steps of mp_filter_graph_run().
LEMMA RunGraphSafe == ASSUME Inv, RunGraph PROVE Inv'
  BY Flushed DEF RunGraph

LEMMA FlushAgainSafe == ASSUME Inv, FlushAgain PROVE Inv'
<1>1. RunnerInv
  BY DEF Inv
<1>2. QED
  BY <1>1, Flushed DEF FlushAgain, RunnerInv

\* What the player and the queue hold can be counted.
LEMMA Numbers ==
  ASSUME NEW s \in Seq(Data), NEW x, NEW q \in QueueState
  PROVE  /\ Len(s) \in Nat /\ One(x) \in {0, 1} /\ Len(q.frames) \in Nat /\ q.frames \in Seq(Data)
         /\ ToCore(s, x) \in Nat /\ ToQueue(s, x, q) \in Nat
<1>1. Len(s) \in Nat
  OBVIOUS
<1>2. q.frames \in Seq(Data)
  BY DEF QueueState
<1>3. Len(q.frames) \in Nat
  BY <1>2
<1>4. One(x) \in {0, 1}
  BY DEF One
<1>5. ToCore(s, x) \in Nat
  BY <1>1, <1>4 DEF ToCore
<1>6. QED
  BY <1>1, <1>2, <1>3, <1>4, <1>5 DEF ToQueue

\* A filter that keeps what is in the graph.
LEMMA FlowKept ==
  ASSUME NEW g \in GraphState, NEW h \in GraphState, Keeps(g, h), h.demuxEof <=> g.demuxEof,
         NEW s \in Seq(Data), NEW x, NEW q \in QueueState,
         NEW d \in DemuxState, d.read <= d.avail, Flow(g, s, x, q, d)
  PROVE  Flow(h, s, x, q, d)
<1> DEFINE n == ToQueue(s, x, q)
<1>1. n \in Nat
  BY Numbers
<1>2. d.position \in Positions /\ d.read \in Nat /\ d.read <= NumPackets
  BY Sizes DEF DemuxState
<1>3. Read(g, d) <= NumPackets + 1 /\ Read(h, d) = Read(g, d)
  BY <1>2, Sizes DEF Read
<1> HIDE DEF n
<1>4. Holds(g, d.position, n) /\ ToPackets(g, n) = Read(g, d)
  BY DEF Flow, n
<1>5. Holds(h, d.position, n) /\ ToPackets(h, n) = Read(h, d)
  BY <1>1, <1>2, <1>3, <1>4 DEF Keeps
<1>6. QED
  BY <1>5 DEF Flow, Keeps, n

\* queue_in that took nothing.
LEMMA FlowSame ==
  ASSUME NEW g \in GraphState, NEW h \in GraphState, Shifts(g, h, 0), h.demuxEof <=> g.demuxEof,
         NEW s \in Seq(Data), NEW x, NEW q \in QueueState, q.reading,
         NEW d \in DemuxState, Flow(g, s, x, q, d)
  PROVE  Flow(h, s, x, q, d)
<1> DEFINE n == ToQueue(s, x, q)
<1>1. n \in Nat /\ d.position \in Positions
  BY Numbers DEF DemuxState
<1>3. Read(h, d) = Read(g, d)
  BY DEF Read
<1> HIDE DEF n
<1>4. Holds(g, d.position, n) /\ ToPackets(g, n) = Read(g, d) /\ n + 0 = n
  BY <1>1 DEF Flow, n
<1>5. Holds(h, d.position, n) /\ ToPackets(h, n) = Read(h, d)
  BY <1>1, <1>3, <1>4 DEF Shifts
<1>6. QED
  BY <1>5 DEF Flow, n

\* queue_in that took the next frame.
LEMMA FlowQueued ==
  ASSUME NEW g \in GraphState, NEW h \in GraphState, Shifts(g, h, 1), h.demuxEof <=> g.demuxEof,
         NEW s \in Seq(Data), NEW x, NEW q \in QueueState, q.reading,
         NEW d \in DemuxState, Flow(g, s, x, q, d), NEW y \in Data,
         \A p \in Positions, n \in Nat : Holds(g, p, n) => y = Item(p, n + 1),
         NEW r \in QueueState, r.frames = Append(q.frames, y), r.reading
  PROVE  Flow(h, s, x, r, d)
<1> DEFINE n == ToQueue(s, x, q)
           k == ToCore(s, x)
           fs == q.frames
<1>1. n \in Nat /\ d.position \in Positions /\ k \in Nat /\ fs \in Seq(Data) /\ Len(fs) \in Nat
      /\ n = k + Len(fs)
  BY Numbers DEF DemuxState, ToQueue
<1>3. Read(h, d) = Read(g, d)
  BY DEF Read
<1>4. Holds(g, d.position, n) /\ ToPackets(g, n) = Read(g, d) /\ AreItems(fs, d.position, k)
      /\ AreItems(s, d.position, 0) /\ IsItem(x, d.position, k)
  BY DEF Flow
<1>a. r.frames = Append(fs, y)
  OBVIOUS
<1> HIDE DEF n, k, fs
<1>5. Holds(h, d.position, n + 1) /\ ToPackets(h, n + 1) = Read(h, d) /\ y = Item(d.position, n + 1)
  BY <1>1, <1>3, <1>4 DEF Shifts
<1>6. /\ Len(Append(fs, y)) = Len(fs) + 1 /\ DOMAIN Append(fs, y) = 1 .. Len(fs) + 1
      /\ Append(fs, y)[Len(fs) + 1] = y /\ \A i \in 1 .. Len(fs) : Append(fs, y)[i] = fs[i]
      /\ DOMAIN fs = 1 .. Len(fs)
  BY <1>1, AppendProperties
<1>7. ToQueue(s, x, r) = n + 1
  BY <1>1, <1>6, <1>a DEF ToQueue, k
<1>8. AreItems(r.frames, d.position, k)
  <2>1. ASSUME NEW j \in 1 .. Len(fs) + 1 PROVE Append(fs, y)[j] = Item(d.position, k + j)
    <3>1. CASE j = Len(fs) + 1
      <4>1. k + j = n + 1
        BY <1>1, <3>1
      <4>2. QED
        BY <1>5, <1>6, <3>1, <4>1
    <3>2. CASE j # Len(fs) + 1
      <4>1. j \in 1 .. Len(fs)
        BY <1>1, <3>2
      <4>2. QED
        BY <1>4, <1>6, <4>1 DEF AreItems
    <3>3. QED
      BY <3>1, <3>2
  <2>2. QED
    BY <1>6, <1>a, <2>1 DEF AreItems
<1>9. QED
  BY <1>4, <1>5, <1>7, <1>8 DEF Flow, k

-------------------------------------------------------------------------------
(* The decoder thread's steps.                                             *)

\* What a step of the graph must keep.
LEMMA GraphStepSafe ==
  ASSUME Inv, decPc' = "interrupt", decPc \notin {"run", "done"},
         UNCHANGED <<runner, dispatch, corePc, op, got, calls>>,
         Looks(graph', runner.async, queue', demux'),
         queue' \in QueueState, queue'.active <=> queue.active, queue'.reading <=> queue.reading,
         queue.frames # queue'.frames => queue.reading /\ core' = WakeOut(core),
         core' = core \/ core' = WakeOut(core),
         demux' \in DemuxState, demux'.read <= demux'.avail,
         demux'.eof => demux'.avail = NumPackets, demux'.position = demux.position,
         demux'.blocked = demux.blocked, demux.blocked => demux' = demux,
         Flow(graph, got, core.data, queue, demux) => Flow(graph', got, core.data, queue', demux')
  PROVE  Inv'
<1>1. Types /\ GraphInv(graph, runner.async, queue, demux) /\ RunnerInv /\ CoreInv /\ SeekInv /\ FlowInv
  BY DEF Inv
<1>2. graph' \in GraphState /\ PinsInv(graph') /\ CodecInv(graph')
      /\ Quiet(graph', graph'.pending \cup runner.async, queue', demux')
  BY DEF Looks
<1>3. core' \in CoreState /\ core'.requested = core.requested /\ core'.data = core.data
      /\ core'.pending = core.pending
      /\ \/ core' = core
         \/ core'.async /\ core'.sent /\ (core'.woken <=> core.woken \/ ~core.sent)
  BY <1>1, CoreWakens DEF Types
<1>4. Types'
  BY <1>1, <1>2, <1>3 DEF Types
<1>5. GraphInv(graph', runner'.async, queue', demux')
  BY <1>2 DEF GraphInv
<1>6. RunnerInv'
  BY <1>1 DEF RunnerInv
<1>7. CoreInv'
  <2>1. core' = core => queue'.frames = queue.frames \/ core'.async
    <3>1. core' = WakeOut(core) => core'.async
      BY <1>1, CoreWakens DEF Types
    <3>2. QED
      BY <3>1
  <2>2. QED
    BY <1>1, <1>3, <2>1 DEF CoreInv
<1>8. SeekInv'
  <2>1. ~queue.active => queue'.frames = queue.frames
    BY <1>1 DEF SeekInv
  <2>2. Stale => demux' = demux
    BY <1>1 DEF SeekInv
  <2>3. QED
    BY <1>1, <1>3, <2>1, <2>2 DEF SeekInv, Stale, Locking, Unlocked
<1>9. FlowInv'
  BY <1>1, <1>3 DEF FlowInv, Stale, Locking
<1>10. QED
  BY <1>4, <1>5, <1>6, <1>7, <1>8, <1>9 DEF Inv

\* The filter that is processed was pending.
Unpends(g, f) == g = [graph EXCEPT !.pending = @ \ {f}]

LEMMA Unpended ==
  ASSUME Inv, NEW f \in graph.pending, NEW g, Unpends(g, f)
  PROVE  /\ g \in GraphState /\ PinsInv(g) /\ CodecInv(g)
         /\ Quiet(g, g.pending \cup runner.async \cup {f}, queue, demux)
         /\ g.demuxEof = graph.demuxEof
         /\ Flow(graph, got, core.data, queue, demux) => Flow(g, got, core.data, queue, demux)
<1> DEFINE h == [graph EXCEPT !.pending = graph.pending \ {f}]
<1>0. Types /\ GraphInv(graph, runner.async, queue, demux) /\ graph \in GraphState
  BY DEF Inv, Types
<1>1. h \in GraphState /\ SameRest(graph, h) /\ h.pin = graph.pin /\ h.pending = graph.pending \ {f}
  <2>1. graph.pending \ {f} \in SUBSET Filters
    BY <1>0 DEF GraphState
  <2>2. QED
    BY <1>0, <2>1, PendingIsSet
<1>2. g = h
  BY DEF Unpends
<1> HIDE DEF h
<1>3. g \in GraphState /\ SameRest(graph, g) /\ g.pin = graph.pin /\ g.pending = graph.pending \ {f}
  BY <1>1, <1>2
<1>4. g.pending \cup runner.async \cup {f} = graph.pending \cup runner.async
  BY <1>3
<1>5. /\ PinsInv(g) /\ CodecInv(g)
      /\ \A N, q, d : Quiet(graph, N, q, d) => Quiet(g, N, q, d)
      /\ \A s, x, q, d : Flow(graph, s, x, q, d) => Flow(g, s, x, q, d)
  BY <1>0, <1>3, SameInside DEF GraphInv
<1>6. Quiet(g, g.pending \cup runner.async \cup {f}, queue, demux)
  BY <1>0, <1>4, <1>5 DEF GraphInv
<1>7. QED
  BY <1>3, <1>5, <1>6 DEF SameRest

\* process() of each filter as a step of the runner.
LEMMA DemuxStepSafe ==
  ASSUME Inv, decPc \in {"next", "process"}, "demux" \in graph.pending,
         NEW g, Unpends(g, "demux"),
         graph' = IF NeedsData(g, "packets") THEN ProcessDemux(g) ELSE g,
         demux' = IF NeedsData(g, "packets") THEN DemuxAfterRead ELSE demux,
         decPc' = "interrupt", UNCHANGED <<queue, core, runner, dispatch, corePc, op, got, calls>>
  PROVE  Inv'
<1>1. /\ g \in GraphState /\ PinsInv(g) /\ CodecInv(g)
      /\ Quiet(g, g.pending \cup runner.async \cup {"demux"}, queue, demux)
      /\ Flow(graph, got, core.data, queue, demux) => Flow(g, got, core.data, queue, demux)
  BY Unpended
<1>2. /\ Types /\ runner.async \in SUBSET Filters /\ queue \in QueueState /\ demux \in DemuxState
      /\ demux.read <= demux.avail /\ (demux.eof => demux.avail = NumPackets) /\ got \in Seq(Data)
  BY DEF Inv, Types, RunnerState
<1>3. CASE ~NeedsData(g, "packets")
  <2>1. DemuxQuiet(g, demux)
    BY <1>3 DEF DemuxQuiet
  <2>2. Looks(g, runner.async, queue, demux)
    BY <1>1, <2>1 DEF Looks, Quiet
  <2>3. graph' = g /\ demux' = demux
    BY <1>3
  <2>4. QED
    BY <1>1, <1>2, <2>2, <2>3, GraphStepSafe
<1>4. CASE NeedsData(g, "packets")
  <2> DEFINE h == ProcessDemux(g)
             d == DemuxAfterRead
  <2>1. graph' = h /\ demux' = d
    BY <1>4
  <2>2. /\ Looks(h, runner.async, queue, d)
        /\ d \in DemuxState /\ d.read <= d.avail /\ (d.eof => d.avail = NumPackets)
        /\ d.position = demux.position /\ d.blocked = demux.blocked
        /\ demux.blocked => d = demux
        /\ IsEmpty(g, "frames") => IsEmpty(h, "frames")
        /\ \A n \in Nat :
             /\ Holds(g, demux.position, n) /\ ToPackets(g, n) = Read(g, demux)
             /\ g.demuxEof => demux.eof /\ demux.read = NumPackets
             => /\ Holds(h, demux.position, n) /\ ToPackets(h, n) = Read(h, d)
                /\ h.demuxEof => d.eof /\ d.read = NumPackets
    BY <1>1, <1>2, <1>4, DemuxProcessed
  <2> HIDE DEF h, d
  <2>3. Flow(g, got, core.data, queue, demux) => Flow(h, got, core.data, queue, d)
    <3>1. ToQueue(got, core.data, queue) \in Nat
      BY <1>2, Numbers
    <3>2. QED
      BY <2>2, <3>1 DEF Flow
  <2>4. QED
    BY <1>1, <1>2, <2>1, <2>2, <2>3, GraphStepSafe
<1>5. QED
  BY <1>3, <1>4

LEMMA DecodeStepSafe ==
  ASSUME Inv, decPc \in {"next", "process"}, NEW f \in {"decode", "lavc"}, f \in graph.pending,
         NEW g, Unpends(g, f), graph' = Process(f, g),
         decPc' = "interrupt",
         UNCHANGED <<demux, queue, core, runner, dispatch, corePc, op, got, calls>>
  PROVE  Inv'
<1>1. /\ g \in GraphState /\ PinsInv(g) /\ CodecInv(g)
      /\ Quiet(g, g.pending \cup runner.async \cup {f}, queue, demux)
      /\ Flow(graph, got, core.data, queue, demux) => Flow(g, got, core.data, queue, demux)
  BY Unpended
<1>2. /\ runner.async \in SUBSET Filters /\ queue \in QueueState /\ demux \in DemuxState
      /\ demux.read <= demux.avail /\ (demux.eof => demux.avail = NumPackets) /\ got \in Seq(Data)
  BY DEF Inv, Types, RunnerState
<1> DEFINE h == Process(f, g)
<1>3. Looks(h, runner.async, queue, demux) /\ Keeps(g, h) /\ (h.demuxEof <=> g.demuxEof)
  <2>1. CASE f = "decode"
    <3>1. h = ProcessDecode(g)
      BY <2>1 DEF Process
    <3>2. QED
      BY <1>1, <1>2, <2>1, <3>1, DecodeProcessed
  <2>2. CASE f = "lavc"
    <3>1. h = ProcessLavc(g)
      BY <2>2 DEF Process
    <3>2. QED
      BY <1>1, <1>2, <2>2, <3>1, LavcProcessed
  <2>3. QED
    BY <2>1, <2>2
<1>4. graph' = h
  OBVIOUS
<1> HIDE DEF h
<1>5. Flow(g, got, core.data, queue, demux) => Flow(h, got, core.data, queue, demux)
  BY <1>1, <1>2, <1>3, FlowKept DEF Looks
<1>6. QED
  BY <1>1, <1>2, <1>3, <1>4, <1>5, GraphStepSafe

LEMMA QueueStepSafe ==
  ASSUME Inv, decPc \in {"next", "process"}, "queue" \in graph.pending,
         NEW g, Unpends(g, "queue"), graph' = ProcessQueueIn(g),
         queue' = QueueAfter(g), core' = IF QueueTakes(g) THEN WakeOut(core) ELSE core,
         decPc' = "interrupt", UNCHANGED <<demux, runner, dispatch, corePc, op, got, calls>>
  PROVE  Inv'
<1>1. /\ g \in GraphState /\ PinsInv(g) /\ CodecInv(g)
      /\ Quiet(g, g.pending \cup runner.async \cup {"queue"}, queue, demux)
      /\ Flow(graph, got, core.data, queue, demux) => Flow(g, got, core.data, queue, demux)
  BY Unpended
<1>2. /\ runner.async \in SUBSET Filters /\ queue \in QueueState /\ demux \in DemuxState
      /\ demux.read <= demux.avail /\ (demux.eof => demux.avail = NumPackets) /\ got \in Seq(Data)
  BY DEF Inv, Types, RunnerState
<1> DEFINE h == ProcessQueueIn(g)
           x == g.pin["frames"].data
           r == QueueAfter(g)
<1>3. /\ Looks(h, runner.async, r, demux) /\ (h.demuxEof <=> g.demuxEof)
      /\ ~queue.reading /\ IsEmpty(g, "frames") => Keeps(g, h)
      /\ queue.reading /\ ~QueueTakes(g) => Shifts(g, h, 0)
      /\ QueueTakes(g) =>
           /\ queue.reading /\ Shifts(g, h, 1) /\ x \in Data
           /\ \A p \in Positions, n \in Nat : Holds(g, p, n) => x = Item(p, n + 1)
  BY <1>1, <1>2, QueueProcessed
<1>4. graph' = h /\ queue' = r /\ h \in GraphState
  BY <1>3 DEF Looks
<1>5. CASE QueueTakes(g)
  <2>0. r = [queue EXCEPT !.frames = Append(@, x)] /\ x \in Data /\ queue.reading
    BY <1>3, <1>5 DEF QueueAfter
  <2> HIDE DEF h, x, r
  <2>1. /\ r \in QueueState /\ r.frames = Append(queue.frames, x) /\ r.reading
        /\ (r.active <=> queue.active)
    <3>1. Append(queue.frames, x) \in Seq(Data)
      BY <1>2, <2>0 DEF QueueState
    <3>2. QED
      BY <1>2, <2>0, <3>1 DEF QueueState
  <2>2. Flow(g, got, core.data, queue, demux) => Flow(h, got, core.data, r, demux)
    BY <1>1, <1>2, <1>3, <1>4, <1>5, <2>1, FlowQueued
  <2>3. QED
    BY <1>1, <1>2, <1>3, <1>4, <1>5, <2>0, <2>1, <2>2, GraphStepSafe
<1>6. CASE ~QueueTakes(g)
  <2>1. r = queue /\ core' = core
    BY <1>6 DEF QueueAfter
  <2> HIDE DEF h, x, r
  <2>2. Flow(g, got, core.data, queue, demux) => Flow(h, got, core.data, queue, demux)
    <3>1. CASE queue.reading
      BY <1>1, <1>2, <1>3, <1>4, <1>6, <3>1, FlowSame
    <3>2. CASE ~queue.reading
      <4>1. Flow(g, got, core.data, queue, demux) => Keeps(g, h)
        BY <1>3, <3>2 DEF Flow
      <4>2. QED
        BY <1>1, <1>2, <1>3, <1>4, <4>1, FlowKept
    <3>3. QED
      BY <3>1, <3>2
  <2>3. QED
    BY <1>1, <1>2, <1>3, <1>4, <2>1, <2>2, GraphStepSafe
<1>7. QED
  BY <1>5, <1>6

LEMMA ProcessNextSafe == ASSUME Inv, ProcessNext PROVE Inv'
<1>1. PICK f \in graph.pending :
        LET g == [graph EXCEPT !.pending = @ \ {f}]
        IN  /\ graph' = Process(f, g)
            /\ demux' = IF f = "demux" /\ NeedsData(g, "packets") THEN DemuxAfterRead ELSE demux
            /\ IF f = "queue" /\ QueueTakes(g)
                 THEN /\ queue' = [queue EXCEPT !.frames = Append(@, g.pin["frames"].data)]
                      /\ core' = WakeOut(core)
                 ELSE UNCHANGED <<queue, core>>
  BY DEF ProcessNext
<1> DEFINE g == [graph EXCEPT !.pending = @ \ {f}]
<1>2. /\ graph' = Process(f, g)
      /\ demux' = IF f = "demux" /\ NeedsData(g, "packets") THEN DemuxAfterRead ELSE demux
      /\ IF f = "queue" /\ QueueTakes(g)
           THEN /\ queue' = [queue EXCEPT !.frames = Append(@, g.pin["frames"].data)]
                /\ core' = WakeOut(core)
           ELSE UNCHANGED <<queue, core>>
  BY <1>1
<1>3. decPc \in {"next", "process"} /\ decPc' = "interrupt"
      /\ UNCHANGED <<runner, dispatch, corePc, op, got, calls>>
  BY DEF ProcessNext
<1>4. f \in Filters
  BY DEF Inv, Types, GraphState
<1>5. CASE f = "demux"
  <2>1. /\ graph' = IF NeedsData(g, "packets") THEN ProcessDemux(g) ELSE g
        /\ demux' = IF NeedsData(g, "packets") THEN DemuxAfterRead ELSE demux
        /\ UNCHANGED <<queue, core>> /\ Unpends(g, "demux")
    BY <1>2, <1>5 DEF Process, Unpends
  <2> HIDE DEF g
  <2>2. QED
    BY <1>3, <1>5, <2>1, DemuxStepSafe
<1>6. CASE f \in {"decode", "lavc"}
  <2>1. UNCHANGED <<demux, queue, core>> /\ Unpends(g, f)
    BY <1>2, <1>6 DEF Unpends
  <2> HIDE DEF g
  <2>2. QED
    BY <1>2, <1>3, <1>6, <2>1, DecodeStepSafe
<1>7. CASE f = "queue"
  <2>1. /\ graph' = ProcessQueueIn(g) /\ demux' = demux /\ queue' = QueueAfter(g)
        /\ core' = IF QueueTakes(g) THEN WakeOut(core) ELSE core
        /\ Unpends(g, "queue")
    BY <1>2, <1>7 DEF Process, QueueAfter, Unpends
  <2> HIDE DEF g
  <2>2. QED
    BY <1>3, <1>7, <2>1, QueueStepSafe
<1>8. QED
  BY <1>4, <1>5, <1>6, <1>7 DEF Filters

\* Steps of the thread outside of the graph.
LEMMA RunnerStepSafe ==
  ASSUME Inv, UNCHANGED <<graph, queue, demux, coreVars>>, runner' \in RunnerState,
         runner'.async = runner.async,
         dispatch' \in [interrupted : BOOLEAN, terminate : BOOLEAN],
         decPc' \in {"run", "interrupt", "next", "process", "exit", "enter", "wait", "done"},
         RunnerInv'
  PROVE  Inv'
<1>1. Types /\ GraphInv(graph, runner.async, queue, demux) /\ CoreInv /\ SeekInv /\ FlowInv
  BY DEF Inv
<1>2. Types'
  BY <1>1 DEF Types, coreVars
<1>3. GraphInv(graph', runner'.async, queue', demux')
  BY <1>1
<1>4. CoreInv' /\ SeekInv'
  BY <1>1 DEF CoreInv, SeekInv, Unlocked, Stale, Locking, coreVars
<1>5. FlowInv'
  BY <1>1 DEF FlowInv, Stale, Locking, coreVars
<1>6. QED
  BY <1>2, <1>3, <1>4, <1>5 DEF Inv

LEMMA TakeInterruptSafe == ASSUME Inv, TakeInterrupt PROVE Inv'
<1>1. RunnerInv /\ runner \in RunnerState /\ dispatch \in [interrupted : BOOLEAN, terminate : BOOLEAN]
  BY DEF Inv, Types
<1>2. UNCHANGED <<graph, queue, demux, coreVars>> /\ decPc = "interrupt"
  BY DEF TakeInterrupt
<1>3. CASE runner.interrupt
  <2>1. /\ dispatch' = IF runner.sent THEN dispatch ELSE [dispatch EXCEPT !.interrupted = TRUE]
        /\ runner' = [runner EXCEPT !.interrupt = FALSE, !.sent = TRUE]
        /\ decPc' = "exit"
    BY <1>3 DEF TakeInterrupt
  <2>2. runner' \in RunnerState /\ runner'.async = runner.async /\ runner'.sent
    BY <1>1, <2>1 DEF RunnerState
  <2>3. /\ dispatch' \in [interrupted : BOOLEAN, terminate : BOOLEAN]
        /\ runner.sent => dispatch' = dispatch
        /\ ~runner.sent => dispatch'.interrupted
    BY <1>1, <2>1
  <2>4. dispatch'.interrupted
    BY <1>1, <1>2, <2>3 DEF RunnerInv
  <2>5. RunnerInv'
    BY <2>1, <2>2, <2>4 DEF RunnerInv
  <2>6. QED
    BY <1>2, <2>1, <2>2, <2>3, <2>5, RunnerStepSafe
<1>4. CASE ~runner.interrupt
  <2>1. runner' = runner /\ dispatch' = dispatch /\ decPc' = "next"
    BY <1>4 DEF TakeInterrupt
  <2>2. RunnerInv'
    BY <1>1, <1>2, <2>1 DEF RunnerInv
  <2>3. QED
    BY <1>1, <1>2, <2>1, <2>2, RunnerStepSafe
<1>5. QED
  BY <1>3, <1>4

LEMMA ExitEarlySafe == ASSUME Inv, ExitEarly PROVE Inv'
<1>1. RunnerInv /\ runner \in RunnerState /\ dispatch \in [interrupted : BOOLEAN, terminate : BOOLEAN]
  BY DEF Inv, Types
<1>2. decPc = "exit" /\ decPc' = "enter" /\ UNCHANGED <<graph, runner, dispatch, queue, demux, coreVars>>
  BY DEF ExitEarly
<1>3. RunnerInv'
  BY <1>1, <1>2 DEF RunnerInv
<1>4. QED
  BY <1>1, <1>2, <1>3, RunnerStepSafe

LEMMA EnterProcessSafe == ASSUME Inv, EnterProcess PROVE Inv'
<1>1. RunnerInv /\ runner \in RunnerState /\ dispatch \in [interrupted : BOOLEAN, terminate : BOOLEAN]
  BY DEF Inv, Types
<1>2. decPc = "enter" /\ decPc' = "wait" /\ UNCHANGED <<graph, runner, dispatch, queue, demux, coreVars>>
  BY DEF EnterProcess
<1>3. RunnerInv'
  BY <1>1, <1>2 DEF RunnerInv
<1>4. QED
  BY <1>1, <1>2, <1>3, RunnerStepSafe

LEMMA LeaveProcessSafe == ASSUME Inv, LeaveProcess PROVE Inv'
<1>1. RunnerInv /\ runner \in RunnerState /\ dispatch \in [interrupted : BOOLEAN, terminate : BOOLEAN]
  BY DEF Inv, Types
<1>2. /\ decPc' \in {"run", "done"} /\ UNCHANGED <<graph, runner, queue, demux, coreVars>>
      /\ dispatch' = [dispatch EXCEPT !.interrupted = FALSE]
  BY DEF LeaveProcess
<1>3. dispatch' \in [interrupted : BOOLEAN, terminate : BOOLEAN]
  BY <1>1, <1>2
<1>4. RunnerInv'
  BY <1>1, <1>2 DEF RunnerInv
<1>5. QED
  BY <1>1, <1>2, <1>3, <1>4, RunnerStepSafe

-------------------------------------------------------------------------------
(* The demuxer's steps.                                                    *)

\* It has more than before, and wakes the reader that found nothing.
LEMMA DemuxerStepSafe ==
  ASSUME Inv, NEW d \in DemuxState, WakeReader(d), UNCHANGED <<decVars, queue, core, op, got, calls>>,
         d.read = demux.read, d.read <= d.avail, d.position = demux.position,
         d.eof => d.avail = NumPackets, demux.eof => d.eof,
         d.needWakeup <=> demux.needWakeup \/ (demux.blocked /\ ~d.blocked),
         \/ corePc' = corePc /\ d.blocked = demux.blocked /\ ~demux.blocked
         \/ corePc = "unblock" /\ corePc' = "idle" /\ demux.blocked /\ ~d.blocked
  PROVE  Inv'
<1>1. Types /\ GraphInv(graph, runner.async, queue, demux) /\ RunnerInv /\ CoreInv /\ SeekInv /\ FlowInv
  BY DEF Inv
<1>2. /\ demux' \in DemuxState /\ demux'.read = demux.read /\ demux'.avail = d.avail
      /\ demux'.position = demux.position /\ demux'.eof = d.eof /\ demux'.blocked = d.blocked
      /\ ~demux'.needWakeup
  BY DEF WakeReader, DemuxState
<1>3. UNCHANGED <<graph, decPc>>
  BY DEF decVars
<1>4. /\ runner' \in RunnerState /\ dispatch' \in [interrupted : BOOLEAN, terminate : BOOLEAN]
      /\ RunnerInv' /\ runner.async \subseteq runner'.async
      /\ d.needWakeup => "demux" \in runner'.async
  <2>1. CASE d.needWakeup
    <3>1. WakeFilter("demux") /\ "demux" \in Filters
      BY <2>1 DEF WakeReader, Filters
    <3>2. QED
      BY <1>1, <1>3, <3>1, FilterWakens DEF Types
  <2>2. CASE ~d.needWakeup
    <3>1. runner' = runner /\ dispatch' = dispatch
      BY <2>2 DEF WakeReader
    <3>2. QED
      BY <1>1, <1>3, <2>2, <3>1 DEF Types, RunnerInv
  <2>3. QED
    BY <2>1, <2>2
<1>5. Types'
  BY <1>1, <1>2, <1>3, <1>4 DEF Types
<1>6. GraphInv(graph', runner'.async, queue', demux')
  <2>1. Quiet(graph, graph.pending \cup runner'.async, queue, demux)
    BY <1>1, <1>4, QuietGrows DEF GraphInv
  <2>2. "demux" \in graph.pending \cup runner'.async \/ ~NeedsData(graph, "packets")
    <3>1. CASE d.needWakeup
      BY <1>4, <3>1
    <3>2. CASE ~d.needWakeup
      BY <2>1, <3>2 DEF Quiet, DemuxQuiet
    <3>3. QED
      BY <3>1, <3>2
  <2>3. Quiet(graph, graph.pending \cup runner'.async, queue, demux')
    BY <2>1, <2>2 DEF Quiet, DemuxQuiet
  <2>4. QED
    BY <1>1, <1>3, <2>3 DEF GraphInv
<1>7. CoreInv'
  BY <1>1 DEF CoreInv
<1>8. SeekInv'
  BY <1>1, <1>2 DEF SeekInv, Unlocked, Stale, Locking
<1>9. FlowInv'
  <2>1. Read(graph, demux') = Read(graph, demux)
    BY <1>2 DEF Read
  <2>2. Flow(graph, got, core.data, queue, demux) => Flow(graph, got, core.data, queue, demux')
    BY <1>2, <2>1 DEF Flow
  <2>3. ~Stale' => ~Stale
    BY DEF Stale, Locking
  <2>4. QED
    BY <1>1, <1>3, <2>2, <2>3 DEF FlowInv
<1>10. QED
  BY <1>4, <1>5, <1>6, <1>7, <1>8, <1>9 DEF Inv

LEMMA AddPacketSafe == ASSUME Inv, AddPacket PROVE Inv'
<1> DEFINE d == [demux EXCEPT !.avail = @ + 1]
<1>1. /\ demux \in DemuxState /\ demux.read <= demux.avail /\ (demux.eof => demux.avail = NumPackets)
      /\ demux.avail < NumPackets /\ ~demux.blocked
      /\ WakeReader(d) /\ UNCHANGED <<decVars, queue, coreVars>>
  BY DEF AddPacket, Inv, Types
<1>2. demux.avail + 1 \in 0 .. NumPackets /\ demux.read <= demux.avail + 1
  BY <1>1, Sizes DEF DemuxState
<1>3. d \in DemuxState /\ d.avail = demux.avail + 1 /\ d.read = demux.read
      /\ d.position = demux.position /\ d.eof = demux.eof /\ d.blocked = demux.blocked
      /\ d.needWakeup = demux.needWakeup
  BY <1>1, <1>2 DEF DemuxState
<1> HIDE DEF d
<1>4. ~d.eof
  BY <1>1, <1>3, Sizes
<1>5. QED
  BY <1>1, <1>2, <1>3, <1>4, DemuxerStepSafe DEF coreVars

LEMMA MarkStreamEofSafe == ASSUME Inv, MarkStreamEof PROVE Inv'
<1> DEFINE d == [demux EXCEPT !.eof = TRUE]
<1>1. /\ demux \in DemuxState /\ demux.read <= demux.avail
      /\ demux.avail = NumPackets /\ ~demux.blocked /\ ~demux.eof
      /\ WakeReader(d) /\ UNCHANGED <<decVars, queue, coreVars>>
  BY DEF MarkStreamEof, Inv, Types
<1>2. d \in DemuxState /\ d.avail = demux.avail /\ d.read = demux.read
      /\ d.position = demux.position /\ d.eof /\ d.blocked = demux.blocked
      /\ d.needWakeup = demux.needWakeup
  BY <1>1 DEF DemuxState
<1> HIDE DEF d
<1>3. QED
  BY <1>1, <1>2, DemuxerStepSafe DEF coreVars

LEMMA UnblockSafe == ASSUME Inv, Unblock PROVE Inv'
<1> DEFINE d == [demux EXCEPT !.blocked = FALSE, !.needWakeup = TRUE]
<1>1. /\ demux \in DemuxState /\ demux.read <= demux.avail /\ (demux.eof => demux.avail = NumPackets)
      /\ WakeReader(d) /\ UNCHANGED <<decVars, queue, core, op, got, calls>>
      /\ corePc = "unblock" /\ corePc' = "idle"
  BY DEF Unblock, Inv, Types
<1>2. demux.blocked
  BY <1>1 DEF Inv, SeekInv
<1>3. d \in DemuxState /\ d.avail = demux.avail /\ d.read = demux.read
      /\ d.position = demux.position /\ d.eof = demux.eof /\ ~d.blocked /\ d.needWakeup
  BY <1>1 DEF DemuxState
<1> HIDE DEF d
<1>4. QED
  BY <1>1, <1>2, <1>3, DemuxerStepSafe

-------------------------------------------------------------------------------
(* The player's steps.                                                     *)

\* A step that touches nothing of the thread.
LEMMA CoreStepSafe ==
  ASSUME Inv, UNCHANGED <<decVars, runner, dispatch, queue, demux>>,
         core' \in CoreState, got' \in Seq(Data),
         corePc' \in {"idle", "flush", "process", "check", "sleep", "ended", "reset",
                      "lock", "locking", "resume", "unblock", "join", "gone"},
         op' \in {"reset", "control", "destroy"},
         calls' \in [seeks : Positions, controls : 0 .. MaxControls],
         calls'.seeks = calls.seeks, CoreInv', SeekInv', FlowInv'
  PROVE  Inv'
<1>1. Types /\ GraphInv(graph, runner.async, queue, demux) /\ RunnerInv
  BY DEF Inv
<1>2. Types'
  BY <1>1 DEF Types, decVars
<1>3. GraphInv(graph', runner'.async, queue', demux') /\ RunnerInv'
  BY <1>1 DEF RunnerInv, decVars
<1>4. QED
  BY <1>2, <1>3 DEF Inv

\* The frames the player has are those of FlowInv.
LEMMA SameForPlayer ==
  ASSUME FlowInv, UNCHANGED <<decVars, queue, demux, got>>, core'.data = core.data,
         ~Stale' => ~Stale
  PROVE  FlowInv'
  BY DEF FlowInv, decVars

LEMMA ReadPinSafe == ASSUME Inv, ReadPin PROVE Inv'
<1>1. Types /\ CoreInv /\ SeekInv /\ FlowInv
  BY DEF Inv
<1>2. /\ corePc = "idle" /\ corePc' = "flush" /\ core.data = None
      /\ core' = [core EXCEPT !.requested = TRUE, !.pending = @ \/ ~core.requested]
      /\ UNCHANGED <<decVars, runner, dispatch, queue, demux, op, got, calls>>
  BY DEF ReadPin
<1>3. /\ core' \in CoreState /\ core'.requested /\ core'.data = core.data
      /\ core'.pending <=> core.pending \/ ~core.requested
      /\ core'.async = core.async /\ core'.sent = core.sent /\ core'.woken = core.woken
  BY <1>1, <1>2 DEF Types, CoreState
<1>4. CoreInv'
  BY <1>1, <1>2, <1>3 DEF CoreInv
<1>5. SeekInv'
  BY <1>1, <1>2, <1>3 DEF SeekInv, Unlocked, Stale, Locking
<1>6. FlowInv'
  BY <1>1, <1>2, <1>3, SameForPlayer DEF Stale, Locking
<1>7. QED
  BY <1>1, <1>2, <1>3, <1>4, <1>5, <1>6, CoreStepSafe DEF Types

LEMMA CoreFlushSafe == ASSUME Inv, CoreFlush PROVE Inv'
<1>1. Types /\ CoreInv /\ SeekInv /\ FlowInv
  BY DEF Inv
<1>2. /\ corePc = "flush" \/ (corePc = "process" /\ ~core.pending)
      /\ corePc' = IF core'.pending THEN "process" ELSE "check"
      /\ core' = [core EXCEPT !.pending = @ \/ core.async, !.async = FALSE, !.sent = FALSE]
      /\ UNCHANGED <<decVars, runner, dispatch, queue, demux, op, got, calls>>
  BY DEF CoreFlush
<1>3. /\ core' \in CoreState /\ core'.requested = core.requested /\ core'.data = core.data
      /\ core'.pending <=> core.pending \/ core.async
      /\ ~core'.async /\ ~core'.sent /\ core'.woken = core.woken
  BY <1>1, <1>2 DEF Types, CoreState
<1>4. CoreInv'
  BY <1>1, <1>2, <1>3 DEF CoreInv
<1>5. SeekInv'
  BY <1>1, <1>2, <1>3 DEF SeekInv, Unlocked, Stale, Locking
<1>6. FlowInv'
  BY <1>1, <1>2, <1>3, SameForPlayer DEF Stale, Locking
<1>7. QED
  BY <1>1, <1>2, <1>3, <1>4, <1>5, <1>6, CoreStepSafe DEF Types

LEMMA GoToSleepSafe == ASSUME Inv, GoToSleep PROVE Inv'
<1>1. Types /\ CoreInv /\ SeekInv /\ FlowInv
  BY DEF Inv
<1>2. /\ corePc = "check" /\ corePc' = "sleep" /\ core.data = None
      /\ UNCHANGED <<decVars, runner, dispatch, queue, demux, core, op, got, calls>>
  BY DEF GoToSleep
<1>4. CoreInv'
  BY <1>1, <1>2 DEF CoreInv
<1>5. SeekInv'
  BY <1>1, <1>2 DEF SeekInv, Unlocked, Stale, Locking
<1>6. FlowInv'
  BY <1>1, <1>2, SameForPlayer DEF Stale, Locking
<1>7. QED
  BY <1>1, <1>2, <1>4, <1>5, <1>6, CoreStepSafe DEF Types

LEMMA WakeUpSafe == ASSUME Inv, WakeUp PROVE Inv'
<1>1. Types /\ CoreInv /\ SeekInv /\ FlowInv
  BY DEF Inv
<1>2. /\ corePc = "sleep" /\ corePc' = "idle" /\ core' = [core EXCEPT !.woken = FALSE]
      /\ UNCHANGED <<decVars, runner, dispatch, queue, demux, op, got, calls>>
  BY DEF WakeUp
<1>3. /\ core' \in CoreState /\ core'.requested = core.requested /\ core'.data = core.data
      /\ core'.pending = core.pending /\ core'.async = core.async /\ core'.sent = core.sent
  BY <1>1, <1>2 DEF Types, CoreState
<1>4. CoreInv'
  BY <1>1, <1>2, <1>3 DEF CoreInv
<1>5. SeekInv'
  BY <1>1, <1>2, <1>3 DEF SeekInv, Unlocked, Stale, Locking
<1>6. FlowInv'
  BY <1>1, <1>2, <1>3, SameForPlayer DEF Stale, Locking
<1>7. QED
  BY <1>1, <1>2, <1>3, <1>4, <1>5, <1>6, CoreStepSafe DEF Types

\* A frame is taken: it is the next of the position.
LEMMA TakeFrameSafe == ASSUME Inv, TakeFrame PROVE Inv'
<1>1. Types /\ CoreInv /\ SeekInv /\ FlowInv
  BY DEF Inv
<1>2. /\ corePc = "check" /\ core.data # None /\ got' = Append(got, core.data)
      /\ core' = [core EXCEPT !.data = None]
      /\ corePc' = IF core.data = EOF THEN "ended" ELSE "idle"
      /\ UNCHANGED <<decVars, runner, dispatch, queue, demux, op, calls>>
  BY DEF TakeFrame
<1>3. /\ core' \in CoreState /\ core'.requested = core.requested /\ core'.data = None
      /\ core'.pending = core.pending /\ core'.async = core.async /\ core'.sent = core.sent
      /\ core.data \in Data
  BY <1>1, <1>2 DEF Types, CoreState
<1> DEFINE x == core.data
           d == demux
<1>4. /\ got \in Seq(Data) /\ Len(got) \in Nat /\ x \in Data /\ x # None /\ demux \in DemuxState
      /\ queue \in QueueState
  BY <1>1, <1>2, <1>3 DEF Types
<1>5. /\ got' \in Seq(Data) /\ Len(got') = Len(got) + 1 /\ DOMAIN got' = 1 .. Len(got) + 1
      /\ got'[Len(got) + 1] = x /\ \A i \in 1 .. Len(got) : got'[i] = got[i]
      /\ DOMAIN got = 1 .. Len(got)
  <2>1. got' = Append(got, x)
    BY <1>2
  <2> HIDE DEF x
  <2>2. QED
    BY <1>4, <2>1, AppendProperties
<1>6. ~Stale /\ Flow(graph, got, x, queue, d)
  BY <1>1, <1>2 DEF FlowInv, Stale, Locking
<1>7. ToCore(got, x) = Len(got) + 1 /\ ToCore(got', core'.data) = Len(got) + 1
  <2>1. One(x) = 1 /\ One(core'.data) = 0
    BY <1>3, <1>4 DEF One
  <2> HIDE DEF x
  <2>2. QED
    BY <1>4, <1>5, <2>1 DEF ToCore
<1>8. x = Item(d.position, Len(got) + 1)
  BY <1>4, <1>6, <1>7 DEF Flow, IsItem
<1> HIDE DEF x, d
<1>9. AreItems(got', d.position, 0)
  <2>1. AreItems(got, d.position, 0)
    BY <1>6 DEF Flow
  <2>2. ASSUME NEW j \in 1 .. Len(got) + 1 PROVE got'[j] = Item(d.position, 0 + j)
    <3>1. 0 + j = j /\ (j = Len(got) + 1 \/ j \in 1 .. Len(got))
      BY <1>4
    <3>2. QED
      BY <1>5, <1>8, <2>1, <3>1 DEF AreItems
  <2>3. QED
    BY <1>5, <2>2 DEF AreItems
<1>10. ToQueue(got', core'.data, queue) = ToQueue(got, x, queue)
  BY <1>7 DEF ToQueue
<1>11. Flow(graph, got', core'.data, queue, d)
  BY <1>3, <1>6, <1>7, <1>9, <1>10 DEF Flow, IsItem
<1>12. FlowInv'
  BY <1>2, <1>11 DEF FlowInv, decVars, d
<1>13. CoreInv'
  BY <1>1, <1>2, <1>3 DEF CoreInv
<1>14. x # EOF => Len(got') <= NumPackets
  BY <1>4, <1>5, <1>8, Sizes DEF Item
<1>15. SeekInv'
  BY <1>1, <1>2, <1>3, <1>14 DEF SeekInv, Unlocked, Stale, Locking, x
<1>16. QED
  BY <1>1, <1>2, <1>3, <1>5, <1>12, <1>13, <1>15, CoreStepSafe DEF Types

\* The queue is read: what it gives moves to the player's pin.
LEMMA FlowGiven ==
  ASSUME NEW g \in GraphState, NEW s \in Seq(Data), NEW q \in QueueState, NEW d \in DemuxState,
         Flow(g, s, None, q, d), q.frames # <<>>, NEW r \in QueueState,
         r.frames = Tail(q.frames), r.reading
  PROVE  Head(q.frames) \in Data /\ Flow(g, s, Head(q.frames), r, d)
<1> DEFINE fs == q.frames
           x == Head(fs)
           p == d.position
           k == Len(s)
<1>1. fs \in Seq(Data) /\ fs # <<>> /\ k \in Nat
  BY DEF QueueState
<1>2. /\ x = fs[1] /\ x \in Data /\ Len(fs) \in Nat /\ Len(fs) # 0 /\ Tail(fs) \in Seq(Data)
      /\ Len(Tail(fs)) = Len(fs) - 1 /\ \A i \in 1 .. Len(fs) - 1 : Tail(fs)[i] = fs[i + 1]
      /\ DOMAIN fs = 1 .. Len(fs) /\ DOMAIN Tail(fs) = 1 .. Len(fs) - 1
  <2> HIDE DEF fs
  <2>1. Len(fs) \in Nat /\ Len(fs) # 0 /\ DOMAIN fs = 1 .. Len(fs)
    BY <1>1
  <2>2. Head(fs) = fs[1] /\ fs[1] \in Data
    BY <1>1, <2>1
  <2>3. /\ Tail(fs) \in Seq(Data) /\ Len(Tail(fs)) = Len(fs) - 1
        /\ \A i \in 1 .. Len(fs) - 1 : Tail(fs)[i] = fs[i + 1]
    BY <1>1, HeadTailProperties
  <2>4. DOMAIN Tail(fs) = 1 .. Len(fs) - 1
    BY <2>3
  <2>5. QED
    BY <2>1, <2>2, <2>3, <2>4
<1>3. r.frames = Tail(fs) /\ x # None
  BY <1>2, Kinds
<1> HIDE DEF fs, x, k
<1>4. One(None) = 0 /\ One(x) = 1
  BY <1>3 DEF One
<1>5. ToCore(s, None) = k /\ ToCore(s, x) = k + 1
  BY <1>1, <1>4 DEF ToCore, k
<1>6. ToQueue(s, None, q) = k + Len(fs) /\ ToQueue(s, x, r) = k + Len(fs)
  <2>1. ToQueue(s, None, q) = k + Len(fs) /\ ToQueue(s, x, r) = (k + 1) + Len(Tail(fs))
    BY <1>3, <1>5 DEF ToQueue, fs
  <2>2. (k + 1) + (Len(fs) - 1) = k + Len(fs)
    BY <1>1, <1>2
  <2>3. QED
    BY <1>2, <2>1, <2>2
<1>7. AreItems(fs, p, k)
  BY <1>5 DEF Flow, fs
<1>8. x = Item(p, k + 1)
  BY <1>1, <1>2, <1>7 DEF AreItems
<1>9. AreItems(Tail(fs), p, k + 1)
  <2>1. ASSUME NEW j \in 1 .. Len(fs) - 1 PROVE Tail(fs)[j] = Item(p, (k + 1) + j)
    <3>1. j + 1 \in 1 .. Len(fs) /\ k + (j + 1) = (k + 1) + j
      BY <1>1, <1>2
    <3>2. QED
      BY <1>2, <1>7, <3>1 DEF AreItems
  <2>2. QED
    BY <1>2, <2>1 DEF AreItems
<1>10. Flow(g, s, x, r, d)
  BY <1>3, <1>5, <1>6, <1>8, <1>9 DEF Flow, IsItem
<1>11. QED
  BY <1>2, <1>10 DEF x, fs

LEMMA ProcessQueueOutSafe == ASSUME Inv, ProcessQueueOut PROVE Inv'
<1> DEFINE gives == queue.active /\ queue.frames # <<>>
           wakes == gives \/ (queue.active /\ ~queue.reading)
<1>1. Types /\ GraphInv(graph, runner.async, queue, demux) /\ RunnerInv /\ CoreInv /\ SeekInv /\ FlowInv
  BY DEF Inv
<1>2. /\ corePc = "process" /\ core.pending
      /\ UNCHANGED <<decVars, demux, corePc, op, got, calls>>
  BY DEF ProcessQueueOut
<1>3. graph' = graph /\ decPc' = decPc
  BY <1>2 DEF decVars
<1>4. core \in CoreState /\ queue \in QueueState /\ graph \in GraphState /\ demux \in DemuxState
      /\ got \in Seq(Data) /\ ~Stale
  BY <1>1, <1>2 DEF Types, Stale, Locking
<1>5. CASE ~core.requested
  <2>1. core' = [core EXCEPT !.pending = FALSE] /\ UNCHANGED <<queue, runner, dispatch>>
    BY <1>5 DEF ProcessQueueOut
  <2>2. /\ core' \in CoreState /\ core'.requested = core.requested /\ core'.data = core.data
        /\ ~core'.pending /\ core'.async = core.async /\ core'.sent = core.sent
        /\ core'.woken = core.woken
    BY <1>4, <2>1 DEF CoreState
  <2>3. CoreInv'
    BY <1>1, <1>2, <1>5, <2>1, <2>2 DEF CoreInv
  <2>4. SeekInv'
    BY <1>1, <1>2, <2>1, <2>2 DEF SeekInv, Unlocked, Stale, Locking
  <2>5. FlowInv'
    BY <1>1, <1>2, <2>1, <2>2, SameForPlayer DEF Stale, Locking
  <2>6. QED
    BY <1>1, <1>2, <2>1, <2>2, <2>3, <2>4, <2>5, CoreStepSafe DEF Types
<1>6. CASE core.requested
  <2>1. /\ queue' = [queue EXCEPT !.reading = @ \/ queue.active,
                                  !.frames = IF gives THEN Tail(@) ELSE @]
        /\ core' = IF gives
             THEN [core EXCEPT !.pending = FALSE, !.requested = FALSE, !.data = Head(queue.frames)]
             ELSE [core EXCEPT !.pending = FALSE]
        /\ IF wakes THEN WakeFilter("queue") ELSE UNCHANGED <<runner, dispatch>>
    BY <1>6 DEF ProcessQueueOut
  <2>2. queue.active /\ core.data = None
    BY <1>1, <1>2, <1>6 DEF SeekInv, CoreInv, Locking
  <2>3. (gives <=> queue.frames # <<>>) /\ (wakes <=> gives \/ ~queue.reading)
    BY <2>2
  <2>4. gives => Tail(queue.frames) \in Seq(Data) /\ Head(queue.frames) \in Data
    <3>1. queue.frames \in Seq(Data)
      BY <1>4 DEF QueueState
    <3>2. QED
      BY <2>3, <3>1, HeadTailProperties
  <2>5. /\ queue' \in QueueState /\ (queue'.active <=> queue.active) /\ queue'.reading
        /\ gives => queue'.frames = Tail(queue.frames)
        /\ ~gives => queue'.frames = queue.frames
    <3>1. (IF gives THEN Tail(queue.frames) ELSE queue.frames) \in Seq(Data)
      BY <1>4, <2>4 DEF QueueState
    <3> HIDE DEF gives
    <3>2. QED
      BY <1>4, <2>1, <2>2, <3>1 DEF QueueState
  <2>6. /\ core' \in CoreState /\ ~core'.pending /\ core'.async = core.async /\ core'.sent = core.sent
        /\ core'.woken = core.woken
        /\ gives => ~core'.requested /\ core'.data = Head(queue.frames)
        /\ ~gives => core'.requested /\ core'.data = None
    <3> HIDE DEF gives
    <3>1. QED
      BY <1>4, <1>6, <2>1, <2>2, <2>4 DEF CoreState
  <2>7. /\ runner' \in RunnerState /\ dispatch' \in [interrupted : BOOLEAN, terminate : BOOLEAN]
        /\ RunnerInv' /\ runner.async \subseteq runner'.async
        /\ wakes => "queue" \in runner'.async
    <3>1. CASE wakes
      <4>1. WakeFilter("queue") /\ "queue" \in Filters
        BY <2>1, <3>1 DEF Filters
      <4>2. QED
        BY <1>1, <1>3, <4>1, FilterWakens DEF Types
    <3>2. CASE ~wakes
      <4>1. runner' = runner /\ dispatch' = dispatch
        BY <2>1, <3>2
      <4>2. QED
        BY <1>1, <1>3, <3>2, <4>1 DEF Types, RunnerInv
    <3>3. QED
      BY <3>1, <3>2
  <2> HIDE DEF gives, wakes
  <2>8. Types'
    BY <1>1, <1>2, <1>3, <2>5, <2>6, <2>7 DEF Types
  <2>9. GraphInv(graph', runner'.async, queue', demux')
    <3>1. Quiet(graph, graph.pending \cup runner'.async, queue, demux)
      BY <1>1, <2>7, QuietGrows DEF GraphInv
    <3>2. "queue" \in graph.pending \cup runner'.async \/ QueueQuiet(graph, queue')
      <4>1. CASE wakes
        BY <2>7, <4>1
      <4>2. CASE ~wakes
        <5>1. ~gives /\ queue.reading
          BY <2>3, <4>2
        <5>2. QED
          BY <2>5, <3>1, <5>1 DEF Quiet, QueueQuiet
      <4>3. QED
        BY <4>1, <4>2
    <3>3. Quiet(graph, graph.pending \cup runner'.async, queue', demux)
      BY <3>1, <3>2 DEF Quiet
    <3>4. QED
      BY <1>1, <1>2, <1>3, <3>3 DEF GraphInv
  <2>10. CoreInv'
    <3>1. CASE gives
      <4>1. core'.data # None
        BY <2>4, <2>6, <3>1, Kinds
      <4>2. QED
        BY <1>1, <1>2, <2>6, <3>1, <4>1 DEF CoreInv
    <3>2. CASE ~gives
      <4>1. queue'.frames = <<>> /\ queue'.reading
        BY <2>3, <2>5, <3>2
      <4>2. QED
        BY <1>1, <1>2, <2>6, <3>2, <4>1 DEF CoreInv
    <3>3. QED
      BY <3>1, <3>2
  <2>11. SeekInv'
    BY <1>1, <1>2, <2>2, <2>5, <2>6 DEF SeekInv, Unlocked, Stale, Locking
  <2>12. FlowInv'
    <3>1. Flow(graph, got, None, queue, demux)
      BY <1>1, <1>4, <2>2 DEF FlowInv
    <3>2. Flow(graph, got, core'.data, queue', demux)
      <4>1. CASE gives
        BY <1>4, <2>3, <2>5, <2>6, <3>1, <4>1, FlowGiven
      <4>2. CASE ~gives
        <5>1. ToQueue(got, None, queue') = ToQueue(got, None, queue)
          BY <2>5, <4>2 DEF ToQueue
        <5>2. QED
          BY <2>5, <2>6, <3>1, <4>2, <5>1 DEF Flow
      <4>3. QED
        BY <4>1, <4>2
    <3>3. QED
      BY <1>2, <1>3, <3>2 DEF FlowInv
  <2>13. QED
    BY <2>7, <2>8, <2>9, <2>10, <2>11, <2>12 DEF Inv
<1>7. QED
  BY <1>5, <1>6

-------------------------------------------------------------------------------
(* Seeking, and what else locks the thread.                                *)

LEMMA SeekDemuxSafe == ASSUME Inv, SeekDemux PROVE Inv'
<1>1. Types /\ GraphInv(graph, runner.async, queue, demux) /\ RunnerInv /\ CoreInv /\ SeekInv
  BY DEF Inv
<1>2. PICK cached \in {0, NumPackets} :
        demux' = [demux EXCEPT !.position = @ + 1, !.avail = cached, !.read = 0,
                               !.eof = FALSE, !.reading = FALSE, !.blocked = TRUE]
  BY DEF SeekDemux
<1>3. /\ corePc \in {"idle", "sleep", "ended"} /\ corePc' = "reset"
      /\ calls.seeks < MaxSeeks /\ calls' = [calls EXCEPT !.seeks = @ + 1] /\ got' = <<>>
      /\ UNCHANGED <<decVars, runner, dispatch, queue, core, op>>
  BY DEF SeekDemux, AtRest
<1>4. graph' = graph /\ decPc' = decPc
  BY <1>3 DEF decVars
<1>5. calls.seeks \in 0 .. MaxSeeks /\ calls.controls \in 0 .. MaxControls
      /\ demux.position = calls.seeks /\ demux \in DemuxState
  BY <1>1 DEF Types, Positions
<1>6. calls.seeks + 1 \in 0 .. MaxSeeks /\ cached \in 0 .. NumPackets /\ 0 \in 0 .. NumPackets
      /\ 0 <= cached
  BY <1>3, <1>5, Sizes
<1>7. calls' \in [seeks : Positions, controls : 0 .. MaxControls] /\ calls'.seeks = calls.seeks + 1
  BY <1>1, <1>3, <1>6 DEF Types, Positions
<1>8. /\ demux' \in DemuxState /\ demux'.position = calls.seeks + 1 /\ demux'.avail = cached
      /\ demux'.read = 0 /\ ~demux'.eof /\ demux'.blocked
  BY <1>2, <1>5, <1>6 DEF DemuxState, Positions
<1>9. Types'
  BY <1>1, <1>3, <1>4, <1>6, <1>7, <1>8 DEF Types
<1>10. GraphInv(graph', runner'.async, queue', demux')
  BY <1>1, <1>3, <1>4, <1>8 DEF GraphInv, Quiet, DemuxQuiet
<1>11. RunnerInv' /\ CoreInv'
  BY <1>1, <1>3, <1>4 DEF RunnerInv, CoreInv
<1>12. SeekInv' /\ Stale'
  BY <1>1, <1>3, <1>8 DEF SeekInv, Unlocked, Stale, Locking
<1>13. QED
  BY <1>9, <1>10, <1>11, <1>12 DEF Inv, FlowInv

LEMMA ResetQueueSafe == ASSUME Inv, ResetQueue PROVE Inv'
<1>1. Types /\ GraphInv(graph, runner.async, queue, demux) /\ RunnerInv /\ CoreInv /\ SeekInv
  BY DEF Inv
<1>2. /\ corePc = "reset" /\ corePc' = "lock" /\ op' = "reset"
      /\ queue' = [active |-> FALSE, reading |-> FALSE, frames |-> <<>>]
      /\ WakeFilter("queue")
      /\ core' = WakeOut([core EXCEPT !.requested = FALSE, !.data = None])
      /\ UNCHANGED <<decVars, demux, got, calls>>
  BY DEF ResetQueue
<1>3. graph' = graph /\ decPc' = decPc
  BY <1>2 DEF decVars
<1>4. queue' \in QueueState /\ ~queue'.active /\ ~queue'.reading /\ queue'.frames = <<>>
  <2>1. <<>> \in Seq(Data)
    OBVIOUS
  <2>2. QED
    BY <1>2, <2>1 DEF QueueState
<1>5. core' \in CoreState /\ core'.async /\ core'.sent /\ ~core'.requested /\ core'.data = None
  <2> DEFINE m == [core EXCEPT !.requested = FALSE, !.data = None]
  <2>1. m \in CoreState /\ ~m.requested /\ m.data = None
    BY <1>1 DEF Types, CoreState
  <2>2. core' = WakeOut(m)
    BY <1>2
  <2> HIDE DEF m
  <2>3. QED
    BY <2>1, <2>2, CoreWakens
<1>6. /\ runner' \in RunnerState /\ dispatch' \in [interrupted : BOOLEAN, terminate : BOOLEAN]
      /\ RunnerInv' /\ runner'.async = runner.async \cup {"queue"}
  <2>1. "queue" \in Filters
    BY DEF Filters
  <2>2. QED
    BY <1>1, <1>2, <1>3, <2>1, FilterWakens DEF Types
<1>7. Types'
  BY <1>1, <1>2, <1>3, <1>4, <1>5, <1>6 DEF Types
<1>8. GraphInv(graph', runner'.async, queue', demux')
  <2>1. Quiet(graph, graph.pending \cup runner'.async, queue, demux)
    BY <1>1, <1>6, QuietGrows DEF GraphInv
  <2>2. Quiet(graph, graph.pending \cup runner'.async, queue', demux)
    BY <1>6, <2>1 DEF Quiet
  <2>3. QED
    BY <1>1, <1>2, <1>3, <2>2 DEF GraphInv
<1>9. CoreInv'
  BY <1>2, <1>5 DEF CoreInv
<1>10. SeekInv' /\ Stale'
  BY <1>1, <1>2, <1>4, <1>5 DEF SeekInv, Unlocked, Stale, Locking
<1>11. QED
  BY <1>6, <1>7, <1>8, <1>9, <1>10 DEF Inv, FlowInv

\* The player asks for the lock.
LEMMA LockStepSafe ==
  ASSUME Inv, UNCHANGED <<decVars, runner, dispatch, queue, demux, core, got>>,
         corePc \in {"idle", "sleep", "ended"}, corePc' = "lock", op' \in {"control", "destroy"},
         calls' \in [seeks : Positions, controls : 0 .. MaxControls], calls'.seeks = calls.seeks
  PROVE  Inv'
<1>1. Types /\ CoreInv /\ SeekInv /\ FlowInv
  BY DEF Inv
<1>2. CoreInv' /\ SeekInv'
  BY <1>1 DEF CoreInv, SeekInv, Unlocked, Stale, Locking
<1>3. FlowInv'
  BY <1>1, SameForPlayer DEF Stale, Locking
<1>4. QED
  BY <1>1, <1>2, <1>3, CoreStepSafe DEF Types

LEMMA ControlSafe == ASSUME Inv, Control PROVE Inv'
<1>1. /\ corePc \in {"idle", "sleep", "ended"} /\ corePc' = "lock" /\ op' = "control"
      /\ calls.controls < MaxControls /\ calls' = [calls EXCEPT !.controls = @ + 1]
      /\ UNCHANGED <<decVars, runner, dispatch, queue, demux, core, got>>
  BY DEF Control, AtRest
<1>2. calls \in [seeks : Positions, controls : 0 .. MaxControls]
  BY DEF Inv, Types
<1>3. calls.controls + 1 \in 0 .. MaxControls
  BY <1>1, <1>2, Sizes
<1>4. calls' \in [seeks : Positions, controls : 0 .. MaxControls] /\ calls'.seeks = calls.seeks
  BY <1>1, <1>2, <1>3
<1>5. QED
  BY <1>1, <1>4, LockStepSafe

LEMMA DestroySafe == ASSUME Inv, Destroy PROVE Inv'
<1>1. /\ corePc \in {"idle", "sleep", "ended"} /\ corePc' = "lock" /\ op' = "destroy"
      /\ UNCHANGED <<decVars, runner, dispatch, queue, demux, core, got, calls>>
  BY DEF Destroy, AtRest
<1>2. calls \in [seeks : Positions, controls : 0 .. MaxControls]
  BY DEF Inv, Types
<1>3. QED
  BY <1>1, <1>2, LockStepSafe

LEMMA ThreadLockSafe == ASSUME Inv, ThreadLock PROVE Inv'
<1>1. Types /\ GraphInv(graph, runner.async, queue, demux) /\ RunnerInv /\ CoreInv /\ SeekInv /\ FlowInv
  BY DEF Inv
<1>2. /\ corePc = "lock" /\ corePc' = "locking" /\ runner' = [runner EXCEPT !.interrupt = TRUE]
      /\ UNCHANGED <<decVars, dispatch, queue, demux, core, op, got, calls>>
  BY DEF ThreadLock
<1>3. graph' = graph /\ decPc' = decPc
  BY <1>2 DEF decVars
<1>4. runner' \in RunnerState /\ runner'.async = runner.async /\ runner'.sent = runner.sent
  BY <1>1, <1>2 DEF Types, RunnerState
<1>5. Types'
  BY <1>1, <1>2, <1>3, <1>4 DEF Types
<1>6. GraphInv(graph', runner'.async, queue', demux')
  BY <1>1, <1>2, <1>3, <1>4
<1>7. RunnerInv' /\ CoreInv'
  BY <1>1, <1>2, <1>3, <1>4 DEF RunnerInv, CoreInv
<1>8. SeekInv'
  BY <1>1, <1>2 DEF SeekInv, Unlocked, Stale, Locking
<1>9. FlowInv'
  BY <1>1, <1>2, SameForPlayer DEF Stale, Locking
<1>10. QED
  BY <1>5, <1>6, <1>7, <1>8, <1>9 DEF Inv

LEMMA ResumeQueueSafe == ASSUME Inv, ResumeQueue PROVE Inv'
<1>1. Types /\ GraphInv(graph, runner.async, queue, demux) /\ RunnerInv /\ CoreInv /\ SeekInv /\ FlowInv
  BY DEF Inv
<1>2. /\ corePc = "resume" /\ corePc' = "unblock" /\ queue' = [queue EXCEPT !.active = TRUE]
      /\ core' = WakeOut(core)
      /\ UNCHANGED <<decVars, runner, dispatch, demux, op, got, calls>>
  BY DEF ResumeQueue
<1>3. graph' = graph /\ decPc' = decPc
  BY <1>2 DEF decVars
<1>4. queue' \in QueueState /\ queue'.active /\ queue'.reading = queue.reading
      /\ queue'.frames = queue.frames
  BY <1>1, <1>2 DEF Types, QueueState
<1>5. core' \in CoreState /\ core'.async /\ core'.sent /\ core'.requested = core.requested
      /\ core'.data = core.data
  BY <1>1, <1>2, CoreWakens DEF Types
<1>6. Types'
  BY <1>1, <1>2, <1>3, <1>4, <1>5 DEF Types
<1>7. GraphInv(graph', runner'.async, queue', demux')
  BY <1>1, <1>2, <1>3, <1>4 DEF GraphInv, Quiet, QueueQuiet
<1>8. RunnerInv'
  BY <1>1, <1>2, <1>3 DEF RunnerInv
<1>9. CoreInv'
  BY <1>1, <1>2, <1>5 DEF CoreInv
<1>10. SeekInv'
  BY <1>1, <1>2, <1>4, <1>5 DEF SeekInv, Unlocked, Stale, Locking
<1>11. FlowInv'
  <2>1. Flow(graph, got, core.data, queue, demux) => Flow(graph, got, core.data, queue', demux)
    BY <1>4 DEF Flow, ToQueue
  <2>2. QED
    BY <1>1, <1>2, <1>3, <1>5, <2>1 DEF FlowInv, Stale, Locking
<1>12. QED
  BY <1>6, <1>7, <1>8, <1>9, <1>10, <1>11 DEF Inv

LEMMA JoinSafe == ASSUME Inv, Join PROVE Inv'
<1>1. Types /\ CoreInv /\ SeekInv /\ FlowInv
  BY DEF Inv
<1>2. /\ corePc = "join" /\ corePc' = "gone"
      /\ UNCHANGED <<decVars, runner, dispatch, queue, demux, core, op, got, calls>>
  BY DEF Join
<1>3. CoreInv' /\ SeekInv'
  BY <1>1, <1>2 DEF CoreInv, SeekInv, Unlocked, Stale, Locking
<1>4. FlowInv'
  BY <1>1, <1>2, SameForPlayer DEF Stale, Locking
<1>5. QED
  BY <1>1, <1>2, <1>3, <1>4, CoreStepSafe DEF Types

\* An empty graph is one that holds nothing of a position from which nothing was read.
LEMMA NewGraphIsEmpty ==
  ASSUME NEW F \in SUBSET Filters
  PROVE  /\ NewGraph(F) \in GraphState /\ PinsInv(NewGraph(F)) /\ CodecInv(NewGraph(F))
         /\ NewGraph(F).pending = F
         /\ \A N, q, d : ~q.reading => Quiet(NewGraph(F), N, q, d)
         /\ \A q \in QueueState, d \in DemuxState : q.frames = <<>> /\ d.read = 0 =>
              Flow(NewGraph(F), <<>>, None, q, d)
<1> DEFINE h == NewGraph(F)
           pin == [c \in Conns |-> EmptyPin]
           codec == [buffer |-> <<>>, draining |-> FALSE]
<1>1. EmptyPin \in Pin /\ ~EmptyPin.requested /\ EmptyPin.data = None
  BY DEF EmptyPin, Pin
<1>2. pin \in [Conns -> Pin] /\ \A c \in Conns : pin[c] = EmptyPin
  BY <1>1
<1>3. codec \in [buffer : Seq(Packets), draining : BOOLEAN] /\ codec.buffer = <<>> /\ ~codec.draining
  OBVIOUS
<1>4. h = [pending |-> F, pin |-> pin, packet |-> None, newSegment |-> None, segment |-> NoSegment,
           codec |-> codec, eofReturned |-> FALSE, packetsSent |-> FALSE, demuxEof |-> FALSE]
  BY DEF NewGraph
<1> HIDE DEF pin, codec, h
<1>5. NoSegment \in Segment
  BY DEF Segment
<1>6. h \in GraphState
  BY <1>2, <1>3, <1>4, <1>5 DEF GraphState
<1>7. /\ h.pending = F /\ h.packet = None /\ h.newSegment = None /\ h.codec.buffer = <<>>
      /\ ~h.codec.draining /\ ~h.eofReturned /\ ~h.packetsSent /\ ~h.demuxEof
      /\ \A c \in Conns : ~h.pin[c].requested /\ h.pin[c].data = None
  BY <1>1, <1>2, <1>3, <1>4
<1>8. PinsInv(h)
  BY <1>7 DEF PinsInv, NeedsData, HasData
<1>9. CodecInv(h)
  BY <1>7, ConnNames, Kinds, Sizes DEF CodecInv
<1>10. ASSUME NEW N, NEW q, NEW d, ~q.reading PROVE Quiet(h, N, q, d)
  BY <1>7, <1>10, ConnNames DEF Quiet, LavcQuiet, DecodeQuiet, DemuxQuiet, QueueQuiet, NeedsData
<1>11. ASSUME NEW q \in QueueState, NEW d \in DemuxState, q.frames = <<>>, d.read = 0
       PROVE  Flow(h, <<>>, None, q, d)
  <2>1. One(None) = 0 /\ Len(<<>>) = 0 /\ ToCore(<<>>, None) = 0 /\ ToQueue(<<>>, None, q) = 0
    BY <1>11 DEF One, ToCore, ToQueue
  <2>2. /\ \A c \in Conns : One(h.pin[c].data) = 0 /\ Real(h, h.pin[c].data) = 0
        /\ Held(h) = 0 /\ One(h.packet) = 0 /\ One(h.newSegment) = 0 /\ Len(h.codec.buffer) = 0
    BY <1>7 DEF One, Real, Held
  <2>3. ToFrames(h, 0) = 0
    BY <2>2, ConnNames DEF ToFrames
  <2>4. ToFromCodec(h, 0) = 0
    BY <2>2, <2>3, ConnNames DEF ToFromCodec
  <2>5. ToBuffer(h, 0) = 0 /\ ToHeld(h, 0) = 0
    BY <2>2, <2>4 DEF ToBuffer, ToHeld
  <2>6. ToToCodec(h, 0) = 0
    BY <2>2, <2>5, ConnNames DEF ToToCodec
  <2>7. ToPacket(h, 0) = 0
    BY <2>2, <2>6 DEF ToPacket
  <2>8. ToPackets(h, 0) = 0 /\ Read(h, d) = 0
    BY <1>7, <1>11, <2>2, <2>7, ConnNames DEF ToPackets, Read
  <2>9. Holds(h, d.position, 0)
    BY <1>7, <2>2, ConnNames DEF Holds, IsItem, AreItems
  <2>10. IsEmpty(h, "frames")
    BY <1>7, ConnNames DEF IsEmpty, NeedsData, HasData
  <2>11. QED
    BY <1>7, <1>11, <2>1, <2>8, <2>9, <2>10 DEF Flow, IsItem, AreItems
<1>12. QED
  BY <1>6, <1>7, <1>8, <1>9, <1>10, <1>11 DEF h

\* The player that did not reach the EOF has less than the whole stream.
LEMMA NotEnded ==
  ASSUME got \in Seq(Data), ~HasEnded, NEW p, AreItems(got, p, 0)
  PROVE  Len(got) <= NumPackets
<1>1. Len(got) \in Nat /\ DOMAIN got = 1 .. Len(got)
  OBVIOUS
<1>2. ASSUME ~(Len(got) <= NumPackets) PROVE FALSE
  <2>1. NumPackets + 1 \in DOMAIN got /\ 0 + (NumPackets + 1) = NumPackets + 1
        /\ ~(NumPackets + 1 <= NumPackets)
    BY <1>1, <1>2, Sizes
  <2>2. got[NumPackets + 1] = EOF
    BY <2>1 DEF AreItems, Item
  <2>3. QED
    BY <2>1, <2>2 DEF HasEnded
<1>3. QED
  BY <1>2

LEMMA LockedSectionSafe == ASSUME Inv, LockedSection PROVE Inv'
<1>1. Types /\ GraphInv(graph, runner.async, queue, demux) /\ RunnerInv /\ CoreInv /\ SeekInv /\ FlowInv
  BY DEF Inv
<1>2. /\ corePc = "locking" /\ decPc = "wait"
      /\ graph' = IF op = "reset" THEN NewGraph(graph.pending) ELSE graph
      /\ dispatch' = [interrupted |-> dispatch.interrupted \/ op # "control",
                      terminate |-> op = "destroy"]
      /\ corePc' = CASE op = "reset" -> "resume"
                     [] op = "control" -> IF HasEnded THEN "ended" ELSE "idle"
                     [] op = "destroy" -> "join"
      /\ UNCHANGED <<runner, decPc, queue, demux, core, op, got, calls>>
  BY DEF LockedSection
<1>3. /\ dispatch' \in [interrupted : BOOLEAN, terminate : BOOLEAN]
      /\ dispatch.interrupted => dispatch'.interrupted
      /\ op # "control" => dispatch'.interrupted
  BY <1>1, <1>2 DEF Types
<1>4. op \in {"reset", "control", "destroy"} /\ graph \in GraphState
  BY <1>1 DEF Types
<1>5. CASE op = "reset"
  <2>1. corePc' = "resume" /\ graph' = NewGraph(graph.pending)
    BY <1>2, <1>5
  <2>2. /\ queue \in QueueState /\ demux \in DemuxState /\ ~queue.reading /\ queue.frames = <<>>
        /\ core.data = None /\ demux.read = 0 /\ got = <<>>
    BY <1>1, <1>2, <1>5 DEF Types, SeekInv, Stale, Locking
  <2>3. graph.pending \in SUBSET Filters
    BY <1>4 DEF GraphState
  <2>4. /\ graph' \in GraphState /\ PinsInv(graph') /\ CodecInv(graph')
        /\ graph'.pending = graph.pending
        /\ \A N, q, d : ~q.reading => Quiet(graph', N, q, d)
        /\ Flow(graph', <<>>, None, queue, demux)
    BY <2>1, <2>2, <2>3, NewGraphIsEmpty
  <2>5. Types'
    BY <1>1, <1>2, <1>3, <2>1, <2>4 DEF Types
  <2>6. GraphInv(graph', runner'.async, queue', demux')
    BY <1>2, <2>2, <2>4 DEF GraphInv
  <2>7. RunnerInv'
    BY <1>1, <1>2, <1>3, <1>5 DEF RunnerInv
  <2>8. CoreInv'
    BY <1>1, <1>2, <2>1 DEF CoreInv
  <2>9. Len(got) <= NumPackets
    BY <2>2, Sizes
  <2>10. SeekInv'
    BY <1>1, <1>2, <1>5, <2>1, <2>9 DEF SeekInv, Unlocked, Stale, Locking
  <2>11. FlowInv'
    BY <1>2, <2>2, <2>4 DEF FlowInv
  <2>12. QED
    BY <2>5, <2>6, <2>7, <2>8, <2>10, <2>11 DEF Inv
<1>6. CASE op # "reset"
  <2>1. graph' = graph /\ ~Stale
        /\ (corePc' = "ended" \/ (corePc' = "idle" /\ ~HasEnded) \/ corePc' = "join")
    BY <1>2, <1>4, <1>6 DEF Stale, Locking
  <2>2. Types'
    BY <1>1, <1>2, <1>3, <2>1 DEF Types
  <2>3. GraphInv(graph', runner'.async, queue', demux')
    BY <1>1, <1>2, <2>1
  <2>4. RunnerInv'
    BY <1>1, <1>2, <1>3, <2>1 DEF RunnerInv
  <2>5. CoreInv'
    BY <1>1, <1>2, <2>1 DEF CoreInv
  <2>6. corePc' = "idle" => Len(got) <= NumPackets
    BY <1>1, <2>1, NotEnded DEF FlowInv, Flow, Types
  <2>7. SeekInv'
    BY <1>1, <1>2, <1>6, <2>1, <2>6 DEF SeekInv, Unlocked, Stale, Locking
  <2>8. FlowInv'
    BY <1>1, <1>2, <2>1 DEF FlowInv
  <2>9. QED
    BY <2>2, <2>3, <2>4, <2>5, <2>7, <2>8 DEF Inv
<1>7. QED
  BY <1>5, <1>6

-------------------------------------------------------------------------------
\* The initial state, after public_f_reset().
LEMMA InitInv == ASSUME Init PROVE Inv
<1>0. {} \in SUBSET Filters /\ 0 \in Positions /\ 0 \in 0 .. NumPackets /\ 0 \in 0 .. MaxControls
      /\ <<>> \in Seq(Data)
  BY Sizes DEF Positions
<1>1. /\ graph = NewGraph({}) /\ runner = [async |-> {}, sent |-> FALSE, interrupt |-> FALSE]
      /\ dispatch = [interrupted |-> FALSE, terminate |-> FALSE] /\ decPc = "run"
      /\ queue = [active |-> TRUE, reading |-> FALSE, frames |-> <<>>]
      /\ demux = [position |-> 0, avail |-> 0, read |-> 0, eof |-> FALSE,
                  reading |-> FALSE, blocked |-> FALSE, needWakeup |-> TRUE]
      /\ core = [requested |-> FALSE, data |-> None, pending |-> FALSE,
                 async |-> FALSE, sent |-> FALSE, woken |-> FALSE]
      /\ corePc = "idle" /\ op = "reset" /\ got = <<>> /\ calls = [seeks |-> 0, controls |-> 0]
  BY DEF Init
<1>2. queue \in QueueState /\ demux \in DemuxState /\ core \in CoreState /\ runner \in RunnerState
  BY <1>0, <1>1 DEF QueueState, DemuxState, CoreState, RunnerState
<1>3. calls \in [seeks : Positions, controls : 0 .. MaxControls]
  BY <1>0, <1>1
<1>4. /\ graph \in GraphState /\ PinsInv(graph) /\ CodecInv(graph) /\ graph.pending = {}
      /\ \A N, q, d : ~q.reading => Quiet(graph, N, q, d)
      /\ Flow(graph, <<>>, None, queue, demux)
  BY <1>0, <1>1, <1>2, NewGraphIsEmpty
<1>5. Types
  BY <1>0, <1>1, <1>2, <1>3, <1>4 DEF Types
<1>6. GraphInv(graph, runner.async, queue, demux)
  BY <1>1, <1>4 DEF GraphInv
<1>7. RunnerInv /\ CoreInv
  BY <1>1 DEF RunnerInv, CoreInv
<1>8. SeekInv
  BY <1>1, Sizes DEF SeekInv, Unlocked, Stale, Locking
<1>9. FlowInv
  BY <1>1, <1>4 DEF FlowInv
<1>10. QED
  BY <1>5, <1>6, <1>7, <1>8, <1>9 DEF Inv

\* A step that changes nothing.
LEMMA StutterSafe == ASSUME Inv, UNCHANGED vars PROVE Inv'
<1>1. Types /\ CoreInv /\ SeekInv /\ FlowInv /\ RunnerInv /\ GraphInv(graph, runner.async, queue, demux)
  BY DEF Inv
<1>2. Types' /\ CoreInv' /\ SeekInv' /\ RunnerInv'
  BY <1>1 DEF Types, CoreInv, SeekInv, RunnerInv, Unlocked, Stale, Locking, vars
<1>3. FlowInv' /\ GraphInv(graph', runner'.async, queue', demux')
  BY <1>1 DEF FlowInv, Stale, Locking, vars
<1>4. QED
  BY <1>1, <1>2, <1>3 DEF Inv

\* Every step keeps the invariant.
LEMMA StepInv == ASSUME Inv, [Next]_vars PROVE Inv'
<1>1. CASE Decoder
  BY <1>1, RunGraphSafe, TakeInterruptSafe, FlushAgainSafe, ExitEarlySafe, ProcessNextSafe,
     EnterProcessSafe, LeaveProcessSafe DEF Decoder
<1>2. CASE Demuxer
  BY <1>2, AddPacketSafe, MarkStreamEofSafe DEF Demuxer
<1>3. CASE Core
  BY <1>3, ReadPinSafe, CoreFlushSafe, ProcessQueueOutSafe, TakeFrameSafe, GoToSleepSafe, WakeUpSafe,
     ResetQueueSafe, ThreadLockSafe, LockedSectionSafe, ResumeQueueSafe, UnblockSafe, JoinSafe,
     DestroySafe DEF Core
<1>4. CASE User
  BY <1>4, SeekDemuxSafe, ControlSafe, DestroySafe DEF User
<1>5. CASE Finished
  BY <1>5, StutterSafe DEF Finished
<1>6. CASE UNCHANGED vars
  BY <1>6, StutterSafe
<1>7. QED
  BY <1>1, <1>2, <1>3, <1>4, <1>5, <1>6 DEF Next

(* The invariant holds in every state of every run of the decoder thread.  *)
THEOREM DecoderInvariant == Spec => []Inv
<1>1. Init => Inv
  BY InitInv
<1>2. Inv /\ [Next]_vars => Inv'
  BY StepInv
<1>3. QED
  BY <1>1, <1>2, PTL DEF Spec

\* The invariant gives the type invariant.
LEMMA InvTypes == ASSUME Inv PROVE TypeOK
<1>1. Types /\ GraphInv(graph, runner.async, queue, demux)
  BY DEF Inv
<1>2. /\ graph.pending \subseteq Filters /\ graph.packet \in Data \cup {None}
      /\ graph.newSegment \in Packets \cup {None} /\ graph.pin \in [Conns -> Pin]
  BY <1>1 DEF Types, GraphState
<1>3. graph.pin \in [Conns -> [requested : BOOLEAN, data : Data \cup {None}]]
  BY <1>2 DEF Pin
<1>4. runner.async \subseteq Filters /\ runner.sent \in BOOLEAN /\ runner.interrupt \in BOOLEAN
  BY <1>1 DEF Types, RunnerState
<1>5. queue.active \in BOOLEAN /\ queue.reading \in BOOLEAN /\ queue.frames \in Seq(Data)
  BY <1>1 DEF Types, QueueState
<1>6. demux.read \in 0 .. demux.avail /\ demux.avail \in 0 .. NumPackets /\ demux.position \in Positions
  BY <1>1, Sizes DEF Types, DemuxState
<1>7. core.data \in Data \cup {None}
  BY <1>1 DEF Types, CoreState
<1>8. /\ \A c \in Conns : ~(NeedsData(graph, c) /\ HasData(graph, c))
      /\ Len(graph.codec.buffer) <= Delay + 1
  BY <1>1 DEF GraphInv, PinsInv, CodecInv
<1>9. QED
  BY <1>1, <1>2, <1>3, <1>4, <1>5, <1>6, <1>7, <1>8 DEF Types, TypeOK

(* The state has its types, no pin is asked for data it has, and the codec *)
(* keeps at most one packet more than its delay (filters/filter.c,         *)
(* filters/f_decoder_wrapper.c).                                           *)
THEOREM DecoderTypeOK == Spec => []TypeOK
<1>1. Inv => TypeOK
  BY InvTypes
<1>2. QED
  BY <1>1, DecoderInvariant, PTL

\* An empty queue takes frames.
LEMMA EmptyIsNotFull == ~IsFull(<<>>)
<1>1. {i \in DOMAIN <<>> : <<>>[i] # EOF} = {}
  OBVIOUS
<1>2. QED
  BY <1>1, FS_EmptySet, Sizes DEF IsFull

\* With everything asked for, what was read and not delivered is in the codec.
LEMMA NothingLeft ==
  ASSUME NEW g \in GraphState, NEW s \in Seq(Data), NEW q \in QueueState, NEW d \in DemuxState,
         Flow(g, s, None, q, d), q.frames = <<>>, g.packet = None, g.newSegment = None,
         ~g.codec.draining, \A c \in Conns : g.pin[c].data = None, Len(s) <= NumPackets
  PROVE  ~g.demuxEof
<1> DEFINE fs == g.codec.buffer
           k == Len(s)
<1>1. k \in Nat /\ fs \in Seq(Packets)
  BY DEF GraphState
<1>2. Len(fs) \in Nat /\ DOMAIN fs = 1 .. Len(fs) /\ \A i \in 1 .. Len(fs) : fs[i] \in Packets
  <2> HIDE DEF fs
  <2>1. QED
    BY <1>1
<1>3. /\ \A c \in Conns : One(g.pin[c].data) = 0 /\ Real(g, g.pin[c].data) = 0
      /\ Held(g) = 0 /\ One(g.packet) = 0 /\ One(g.newSegment) = 0 /\ One(None) = 0
      /\ Len(q.frames) = 0
  BY DEF One, Real, Held
<1>4. ToCore(s, None) = k /\ ToQueue(s, None, q) = k
  BY <1>1, <1>3 DEF ToCore, ToQueue
<1> HIDE DEF fs, k
<1>5. ToFrames(g, k) = k /\ ToFromCodec(g, k) = k
  BY <1>1, <1>3, ConnNames DEF ToFrames, ToFromCodec
<1>6. ToBuffer(g, k) = k + Len(fs) /\ ToHeld(g, k) = k + Len(fs)
  BY <1>1, <1>2, <1>3, <1>5 DEF ToBuffer, ToHeld, fs
<1>7. ToToCodec(g, k) = k + Len(fs) /\ ToPacket(g, k) = k + Len(fs)
  BY <1>1, <1>2, <1>3, <1>6, ConnNames DEF ToToCodec, ToPacket
<1>8. ToPackets(g, k) = k + Len(fs)
  BY <1>1, <1>2, <1>3, <1>7, ConnNames DEF ToPackets
<1>9. AreItems(fs, d.position, k) /\ k + Len(fs) = Read(g, d)
      /\ (g.demuxEof => d.read = NumPackets)
  BY <1>4, <1>5, <1>8 DEF Flow, Holds, fs
<1>10. ASSUME g.demuxEof PROVE FALSE
  <2>1. k + Len(fs) = NumPackets + 1 /\ k <= NumPackets
    BY <1>9, <1>10 DEF Read, k
  <2>2. Len(fs) \in 1 .. Len(fs) /\ ~(k + Len(fs) <= NumPackets)
    BY <1>1, <1>2, <2>1, Sizes
  <2>3. fs[Len(fs)] = EOF
    BY <1>2, <1>9, <2>2 DEF AreItems, Item
  <2>4. QED
    BY <1>2, <2>2, <2>3, Kinds
<1>11. QED
  BY <1>10

\* The invariant gives that nobody sleeps with work to do.
LEMMA InvSleeps == ASSUME Inv PROVE BothSleepJustly
<1>1. Types /\ GraphInv(graph, runner.async, queue, demux) /\ RunnerInv /\ CoreInv /\ SeekInv /\ FlowInv
  BY DEF Inv
<1>2. ASSUME ThreadAsleep
      PROVE  /\ graph.pending = {} /\ runner.async = {} /\ Quiet(graph, {}, queue, demux)
  <2>1. decPc = "wait" /\ ~dispatch.interrupted
    BY <1>2 DEF ThreadAsleep
  <2>2. graph.pending = {} /\ ~runner.sent
    BY <1>1, <2>1 DEF RunnerInv
  <2>3. runner.async = {}
    BY <1>1, <2>2 DEF RunnerInv
  <2>4. graph.pending \cup runner.async = {}
    BY <2>2, <2>3
  <2>5. QED
    BY <1>1, <2>2, <2>3, <2>4 DEF GraphInv
<1>3. ASSUME Quiet(graph, {}, queue, demux), queue.reading, ~IsFull(queue.frames)
      PROVE  /\ \A c \in Conns : graph.pin[c].requested
             /\ ~CodecHasFrame(graph) /\ ~graph.codec.draining
             /\ graph.packet = None /\ DemuxQuiet(graph, demux)
  BY <1>3 DEF Quiet, LavcQuiet, DecodeQuiet, QueueQuiet, NeedsData, Conns
<1>4. ThreadSleepsJustly
  <2>1. ASSUME ThreadAsleep, queue.reading, ~IsFull(queue.frames), ~graph.demuxEof
        PROVE  /\ \A c \in Conns : graph.pin[c].requested
               /\ ~CodecHasFrame(graph)
               /\ demux.blocked \/ (demux.read = demux.avail /\ ~demux.eof /\ demux.needWakeup)
    BY <1>2, <1>3, <2>1, ConnNames DEF DemuxQuiet, NeedsData
  <2>2. QED
    BY <1>2, <2>1 DEF ThreadSleepsJustly
<1>5. CoreSleepsJustly
  <2>1. ASSUME corePc = "sleep", ~core.woken
        PROVE  /\ queue.active /\ queue.reading /\ queue.frames = <<>>
               /\ ThreadAsleep => ~graph.demuxEof /\ demux.needWakeup
    <3>1. ~core.sent /\ ~core.async /\ ~core.pending /\ core.data = None /\ core.requested
      BY <1>1, <2>1 DEF CoreInv
    <3>2. queue.active /\ ~demux.blocked /\ Len(got) <= NumPackets /\ ~Stale
      BY <1>1, <2>1 DEF SeekInv, Unlocked, Stale, Locking
    <3>3. queue.reading /\ queue.frames = <<>>
      BY <1>1, <3>1, <3>2 DEF CoreInv
    <3>4. ASSUME ThreadAsleep PROVE ~graph.demuxEof /\ demux.needWakeup
      <4>1. /\ \A c \in Conns : graph.pin[c].requested
            /\ ~graph.codec.draining /\ graph.packet = None /\ DemuxQuiet(graph, demux)
        BY <1>2, <1>3, <3>3, <3>4, EmptyIsNotFull
      <4>2. \A c \in Conns : graph.pin[c].data = None
        BY <1>1, <4>1 DEF GraphInv, PinsInv, NeedsData, HasData
      <4>3. graph.newSegment = None
        BY <1>1, <4>1, <4>2, ConnNames, Kinds DEF GraphInv, CodecInv
      <4>4. Flow(graph, got, None, queue, demux)
        BY <1>1, <3>1, <3>2 DEF FlowInv
      <4>5. ~graph.demuxEof
        BY <1>1, <3>2, <3>3, <4>1, <4>2, <4>3, <4>4, NothingLeft DEF Types
      <4>6. demux.needWakeup
        BY <3>2, <4>1, ConnNames DEF DemuxQuiet, NeedsData
      <4>7. QED
        BY <4>5, <4>6
    <3>5. QED
      BY <3>2, <3>3, <3>4
  <2>2. QED
    BY <2>1 DEF CoreSleepsJustly
<1>6. QED
  BY <1>4, <1>5 DEF BothSleepJustly

(* No lost wakeup: the thread sleeps in its dispatch queue only when it has *)
(* nothing to do, and the player only when the queue is empty and the      *)
(* thread works or waits for the demuxer (flush_async_notifications(),     *)
(* process_in(), process_out()).                                           *)
THEOREM SleepIsJust == Spec => []BothSleepJustly
<1>1. Inv => BothSleepJustly
  BY InvSleeps
<1>2. QED
  BY <1>1, DecoderInvariant, PTL

-------------------------------------------------------------------------------
\* The player takes a frame: Deliver or DeliverEof.
LEMMA TakeFrameServes ==
  ASSUME Inv, TakeFrame
  PROVE  Service!Deliver \/ Service!DeliverEof
<1>1. Types /\ SeekInv /\ FlowInv
  BY DEF Inv
<1>2. /\ corePc = "check" /\ core.data # None /\ got' = Append(got, core.data) /\ demux' = demux
  BY DEF TakeFrame
<1>3. Len(got) \in Nat /\ Len(got) <= NumPackets /\ got \in Seq(Data)
  BY <1>1, <1>2 DEF Types, SeekInv, Unlocked
<1>4. core.data = Item(demux.position, Len(got) + 1)
  <2>1. IsItem(core.data, demux.position, ToCore(got, core.data))
    BY <1>1, <1>2 DEF FlowInv, Flow, Stale, Locking
  <2>2. One(core.data) = 1
    BY <1>2 DEF One
  <2>3. QED
    BY <1>2, <2>1, <2>2 DEF IsItem, ToCore
<1>5. CASE Len(got) < NumPackets
  <2>1. core.data = Packet(demux.position, Len(got) + 1)
    BY <1>3, <1>4, <1>5, Sizes DEF Item
  <2>2. QED
    BY <1>2, <1>5, <2>1 DEF Service!Deliver, Service!Frame, Packet
<1>6. CASE Len(got) = NumPackets
  <2>1. core.data = EOF
    BY <1>3, <1>4, <1>6, Sizes DEF Item
  <2>2. QED
    BY <1>2, <1>6, <2>1 DEF Service!DeliverEof, Service!EOF, EOF
<1>7. QED
  BY <1>3, <1>5, <1>6, Sizes

\* The seek of the demuxer is the Seek of the service.
LEMMA SeekServes ==
  ASSUME Inv, SeekDemux
  PROVE  Service!Seek
<1>1. demux \in DemuxState
  BY DEF Inv, Types
<1>2. PICK cached \in {0, NumPackets} :
        demux' = [demux EXCEPT !.position = @ + 1, !.avail = cached, !.read = 0,
                               !.eof = FALSE, !.reading = FALSE, !.blocked = TRUE]
  BY DEF SeekDemux
<1>3. demux'.position = demux.position + 1
  BY <1>1, <1>2 DEF DemuxState
<1>4. QED
  BY <1>3 DEF Service!Seek, SeekDemux

\* The demuxer gives the service nothing to see.
LEMMA DemuxerServes ==
  ASSUME Inv, AddPacket \/ MarkStreamEof \/ Unblock
  PROVE  demux'.position = demux.position /\ got' = got
<1>1. demux \in DemuxState
  BY DEF Inv, Types
<1>2. CASE AddPacket
  BY <1>1, <1>2 DEF AddPacket, WakeReader, DemuxState, coreVars
<1>3. CASE MarkStreamEof
  BY <1>1, <1>3 DEF MarkStreamEof, WakeReader, DemuxState, coreVars
<1>4. CASE Unblock
  BY <1>1, <1>4 DEF Unblock, WakeReader, DemuxState
<1>5. QED
  BY <1>2, <1>3, <1>4

\* Neither do the filters.
LEMMA ProcessServes ==
  ASSUME Inv, ProcessNext
  PROVE  demux'.position = demux.position /\ got' = got
<1>1. demux \in DemuxState /\ got' = got
  BY DEF Inv, Types, ProcessNext
<1>2. demux' = demux \/ demux' = DemuxAfterRead
  BY DEF ProcessNext
<1>3. DemuxAfterRead.position = demux.position
  BY <1>1 DEF DemuxAfterRead, DemuxState
<1>4. QED
  BY <1>1, <1>2, <1>3

\* Every step is one of the service or a stutter.
LEMMA StepServes ==
  ASSUME Inv, [Next]_vars
  PROVE  [Service!ServiceNext]_(Service!sVars)
<1>1. ASSUME demux'.position = demux.position, got' = got
      PROVE  [Service!ServiceNext]_(Service!sVars)
  BY <1>1 DEF Service!sVars
<1>2. CASE TakeFrame
  BY <1>2, TakeFrameServes DEF Service!ServiceNext
<1>3. CASE SeekDemux
  BY <1>3, SeekServes DEF Service!ServiceNext
<1>4. CASE AddPacket \/ MarkStreamEof \/ Unblock
  BY <1>1, <1>4, DemuxerServes
<1>5. CASE ProcessNext
  BY <1>1, <1>5, ProcessServes
<1>6. CASE \/ RunGraph \/ TakeInterrupt \/ FlushAgain \/ ExitEarly \/ EnterProcess \/ LeaveProcess
  BY <1>1, <1>6 DEF RunGraph, TakeInterrupt, FlushAgain, ExitEarly, EnterProcess, LeaveProcess, coreVars
<1>7. CASE \/ ReadPin \/ CoreFlush \/ ProcessQueueOut \/ GoToSleep \/ WakeUp
           \/ ResetQueue \/ ThreadLock \/ LockedSection \/ ResumeQueue \/ Join
           \/ Control \/ Destroy
  BY <1>1, <1>7 DEF ReadPin, CoreFlush, ProcessQueueOut, GoToSleep, WakeUp, ResetQueue, ThreadLock,
     LockedSection, ResumeQueue, Join, Control, Destroy
<1>8. CASE UNCHANGED vars
  BY <1>1, <1>8 DEF vars
<1>9. QED
  BY <1>2, <1>3, <1>4, <1>5, <1>6, <1>7, <1>8 DEF Next, Decoder, Demuxer, Core, User, Finished

(* The decoder thread, its queues and its seeks implement the service a    *)
(* decoder promises: every frame of the position once and in order, then   *)
(* EOF, and nothing from before a seek.                                    *)
THEOREM DecoderServesFrames == Spec => ServesFrames
<1>1. Init => Service!ServiceInit
  BY DEF Init, Service!ServiceInit
<1>2. Inv /\ [Next]_vars => [Service!ServiceNext]_(Service!sVars)
  BY StepServes
<1>3. QED
  BY <1>1, <1>2, DecoderInvariant, PTL DEF Spec, ServesFrames, Service!ServiceSpec
================================================================================
