--------------------------- MODULE DecoderThread ----------------------------
(***************************************************************************)
(* Decoding in a thread of its own: filters/f_decoder_wrapper.c with       *)
(* use_queue, the filter graph runner of filters/filter.c the thread is    *)
(* built on, the queue of decoded frames (filters/f_async_queue.c) and the *)
(* seek of player/playloop.c that resets all of it.                        *)
(*                                                                         *)
(*   demuxer -> demux_in -> decode <-> lavc     (the thread's graph)       *)
(*                            |                                            *)
(*                         queue_in -> frames -> queue_out -> player       *)
(*                                                                         *)
(* A process() callback takes at most one lock that others take too, and   *)
(* the pins and filters of a graph belong to the thread that runs it, so   *)
(* a callback is one step; the runner between two callbacks is not.        *)
(* The dispatch queue is what Dispatch.tla shows it to be: the player      *)
(* holds the lock only while the thread is inside                          *)
(* mp_dispatch_queue_process(), and the thread does not leave it before.   *)
(* Left out: reverse playback, cover art, frame dropping, hr-seek and      *)
(* timestamps, clipping at the ends of a segment, decoding errors.         *)
(* The runner takes the filter that became pending last, an order its      *)
(* comments call naive and filters must not rely on: here it takes any.    *)
(***************************************************************************)
EXTENDS Naturals, FiniteSets, Sequences

CONSTANTS
  NumPackets,       \* packets (and frames) from a position to the end
  SegmentOf,        \* the timeline segment of each of them
  Delay,            \* packets the codec keeps before it returns a frame
  MaxFrames,        \* max_samples: frames the queue takes
  MaxSeeks,         \* bound: seeks
  MaxControls       \* bound: other calls that lock the thread

ASSUME ConstantsAssumption ==
  /\ NumPackets \in Nat /\ Delay \in Nat
  /\ MaxFrames \in Nat \ {0}
  /\ MaxSeeks \in Nat /\ MaxControls \in Nat
  /\ DOMAIN SegmentOf = 1 .. NumPackets

None == [type |-> "none"]   \* MP_FRAME_NONE, demux_read_packet_async() = 0
EOF == [type |-> "eof"]     \* MP_FRAME_EOF, demux_read_packet_async() < 0

(* The packet i behind the p-th seek; the frame decoded from it looks the  *)
(* same, being told apart by the pin it is on.                             *)
Packet(p, i) == [type |-> "packet", position |-> p, index |-> i]

Positions == 0 .. MaxSeeks
Packets == {Packet(p, i) : p \in Positions, i \in 1 .. NumPackets}
Data == Packets \cup {EOF}

(* The filters of the thread's graph and their connections, each with what *)
(* its final output pin keeps.                                             *)
Filters == {"demux", "decode", "lavc", "queue"}
Conns == {"packets", "toCodec", "fromCodec", "frames"}
Producer(c) == CASE c = "packets" -> "demux"  [] c = "toCodec" -> "decode"
                 [] c = "fromCodec" -> "lavc" [] c = "frames" -> "decode"
Consumer(c) == CASE c = "packets" -> "decode"   [] c = "toCodec" -> "lavc"
                 [] c = "fromCodec" -> "decode" [] c = "frames" -> "queue"

VARIABLES
  graph,      \* what only the running thread or the holder of the lock uses
  runner,     \* the runner's flags others set: async_pending, interrupt_flag
  dispatch,   \* the thread's dispatch queue: [interrupted, terminate]
  decPc,      \* where the thread is
  queue,      \* struct async_queue
  demux,      \* the stream in the demuxer
  core,       \* the player's side of the graph: the pin of queue_out
  corePc,     \* where the player is
  op,         \* what it locks the thread for
  got,        \* the frames it read since the last seek
  calls       \* how many seeks and other calls it made

decVars == <<graph, decPc>>
coreVars == <<core, corePc, op, got, calls>>
vars == <<graph, runner, dispatch, decPc, queue, demux, core, corePc, op, got, calls>>

(***************************************************************************)
(* Pins and the runner's pending list.                                     *)
(***************************************************************************)

NoSegment == 0
EmptyPin == [requested |-> FALSE, data |-> None]

ResetCodec(g) ==
  [g EXCEPT !.pin["toCodec"] = EmptyPin, !.pin["fromCodec"] = EmptyPin,
            !.codec = [buffer |-> <<>>, draining |-> FALSE],
            !.eofReturned = FALSE, !.packetsSent = FALSE]

(* Codec data, lavc_state, decode's packet, new_segment and segment, and   *)
(* demux_in's eof_returned.                                                *)
NewGraph(pending) ==
  [pending |-> pending,
   pin |-> [c \in Conns |-> EmptyPin],
   packet |-> None, newSegment |-> None, segment |-> NoSegment,
   codec |-> [buffer |-> <<>>, draining |-> FALSE],
   eofReturned |-> FALSE, packetsSent |-> FALSE, demuxEof |-> FALSE]

AddPending(g, f) == [g EXCEPT !.pending = @ \cup {f}]

HasData(g, c) == g.pin[c].data # None
NeedsData(g, c) == g.pin[c].requested

RequestData(g, c) ==
  IF HasData(g, c) \/ g.pin[c].requested THEN g
  ELSE AddPending([g EXCEPT !.pin[c].requested = TRUE], Producer(c))

TakeData(g, c) == [g EXCEPT !.pin[c].data = None]

(* Mutant: the request stays when its frame is written.                    *)
PinWriteKeepsRequest(g, c, frame) ==
  IF ~NeedsData(g, c) THEN g
  ELSE AddPending([g EXCEPT !.pin[c].data = frame], Consumer(c))

PinWrite(g, c, frame) ==
  IF ~NeedsData(g, c) THEN g       \* "losing frame"
  ELSE AddPending([g EXCEPT !.pin[c] = [requested |-> FALSE, data |-> frame]],
                  Consumer(c))

(* mp_filter_wakeup() on a filter of the thread's graph, from anywhere.    *)
WakeFilter(f) ==
  /\ runner' = [runner EXCEPT !.async = @ \cup {f}, !.sent = TRUE]
  /\ dispatch' = IF runner.sent THEN dispatch
                 ELSE [dispatch EXCEPT !.interrupted = TRUE]

(* The same for queue_out in the player's graph, whose wakeup callback     *)
(* wakes the playback loop.                                                *)
WakeOut(m) == [m EXCEPT !.async = TRUE, !.sent = TRUE, !.woken = @ \/ ~m.sent]

(***************************************************************************)
(* process() of each filter.                                               *)
(***************************************************************************)

(* demux_read_packet_async() of an eager stream.                           *)
ReadResult ==
  IF demux.blocked THEN None
  ELSE IF demux.read < demux.avail THEN Packet(demux.position, demux.read + 1)
  ELSE IF demux.eof THEN EOF ELSE None

DemuxAfterRead ==
  IF demux.blocked THEN demux
  ELSE [demux EXCEPT !.read = IF @ < demux.avail THEN @ + 1 ELSE @,
                     !.needWakeup = demux.read = demux.avail,
                     !.reading = @ \/ ~demux.eof]

ProcessDemux(g) ==
  LET res == ReadResult IN
  CASE res = None -> g
    [] res = EOF ->
         IF g.demuxEof THEN g
         ELSE PinWrite([g EXCEPT !.demuxEof = TRUE], "packets", EOF)
    [] OTHER -> PinWrite([g EXCEPT !.demuxEof = FALSE], "packets", res)

(* lavc_process(): receive() gives a frame, EOF when drained, or EAGAIN.   *)
CodecHasFrame(g) ==
  Len(g.codec.buffer) > (IF g.codec.draining THEN 0 ELSE Delay)

ProcessLavc(g) ==
  IF ~NeedsData(g, "fromCodec") THEN g
  ELSE IF CodecHasFrame(g) THEN
    PinWrite([g EXCEPT !.codec.buffer = Tail(@), !.eofReturned = FALSE],
             "fromCodec", Head(g.codec.buffer))
  ELSE IF g.codec.draining THEN
    LET h == [g EXCEPT !.codec.draining = FALSE,
                       !.eofReturned = TRUE, !.packetsSent = FALSE]
    IN  IF g.eofReturned THEN h ELSE PinWrite(h, "fromCodec", EOF)
  ELSE IF ~HasData(g, "toCodec") THEN RequestData(g, "toCodec")
  ELSE
    LET packet == g.pin["toCodec"].data
        h == TakeData(g, "toCodec")
    IN  IF packet # EOF
          THEN AddPending([h EXCEPT !.codec.buffer = Append(@, packet),
                                    !.packetsSent = TRUE], "lavc")
        ELSE IF ~g.packetsSent THEN PinWrite(h, "fromCodec", EOF)
        ELSE AddPending([h EXCEPT !.codec.draining = TRUE], "lavc")

(* feed_packet(): a packet of another segment waits while the decoder is   *)
(* drained.                                                                *)
IsNewSegment(g, packet) ==
  packet # EOF /\ SegmentOf[packet.index] # g.segment

FeedPacket(g) ==
  IF ~NeedsData(g, "toCodec") THEN g
  ELSE
    LET reads == g.packet = None /\ g.newSegment = None
        h == IF ~reads THEN g
             ELSE IF HasData(g, "packets")
               THEN [TakeData(g, "packets") EXCEPT !.packet = g.pin["packets"].data]
               ELSE RequestData(g, "packets")
        packet == h.packet
        flush == [h EXCEPT !.newSegment = packet]
    IN  IF packet = None THEN h
        ELSE IF IsNewSegment(h, packet)
          THEN [PinWrite(flush, "toCodec", EOF) EXCEPT !.packet = None]
          ELSE [PinWrite(h, "toCodec", packet) EXCEPT !.packet = None]

(* reset_decoder() and the start of the segment that waited.               *)
StartSegment(g) ==
  AddPending([ResetCodec(g) EXCEPT !.newSegment = None, !.packet = g.newSegment,
                                   !.segment = SegmentOf[g.newSegment.index]],
             "decode")

(* read_frame() with process_decoded_frame(): the EOF of a segment that    *)
(* was drained is not the player's.                                        *)
ReadFrame(g) ==
  IF ~NeedsData(g, "frames") THEN g
  ELSE IF ~HasData(g, "fromCodec") THEN RequestData(g, "fromCodec")
  ELSE
    LET frame == g.pin["fromCodec"].data
        h == TakeData(g, "fromCodec")
    IN  IF frame = EOF /\ g.newSegment # None
          THEN StartSegment(h)
          ELSE PinWrite(h, "frames", frame)

ProcessDecode(g) == ReadFrame(FeedPacket(g))

IsFull(frames) == Cardinality({i \in DOMAIN frames : frames[i] # EOF}) >= MaxFrames

(* Mutant: a frame that was requested before a reset is queued.            *)
QueueTakesAlways(g) == ~IsFull(queue.frames) /\ HasData(g, "frames")

(* process_in(): without a reader a frame that was requested earlier is    *)
(* discarded.                                                              *)
QueueTakes(g) == queue.reading /\ ~IsFull(queue.frames) /\ HasData(g, "frames")

ProcessQueueIn(g) ==
  LET frames == Append(queue.frames, g.pin["frames"].data)
  IN  CASE ~queue.reading -> TakeData(g, "frames")
        [] queue.reading /\ IsFull(queue.frames) -> g
        [] QueueTakes(g) ->
             LET h == TakeData(g, "frames")
             IN  IF IsFull(frames) THEN h ELSE RequestData(h, "frames")
        [] OTHER -> RequestData(g, "frames")

Process(f, g) ==
  CASE f = "demux"  -> IF NeedsData(g, "packets") THEN ProcessDemux(g) ELSE g
    [] f = "decode" -> ProcessDecode(g)
    [] f = "lavc"   -> ProcessLavc(g)
    [] f = "queue"  -> ProcessQueueIn(g)

(***************************************************************************)
(* The decoder thread: dec_thread() and mp_filter_graph_run().             *)
(***************************************************************************)

(* Mutant: async_wakeup_sent is not cleared with the notifications.        *)
FlushAsyncStaysSent ==
  /\ graph' = [graph EXCEPT !.pending = @ \cup runner.async]
  /\ runner' = [runner EXCEPT !.async = {}]

(* flush_async_notifications().                                            *)
FlushAsync ==
  /\ graph' = [graph EXCEPT !.pending = @ \cup runner.async]
  /\ runner' = [runner EXCEPT !.async = {}, !.sent = FALSE]

RunGraph ==
  /\ decPc = "run"
  /\ FlushAsync
  /\ decPc' = "interrupt"
  /\ UNCHANGED <<dispatch, queue, demux, coreVars>>

(* Mutant: the flag is read, and not cleared.                              *)
TakeInterruptKeepsFlag ==
  /\ decPc = "interrupt"
  /\ IF runner.interrupt
       THEN /\ dispatch' = IF runner.sent THEN dispatch
                           ELSE [dispatch EXCEPT !.interrupted = TRUE]
            /\ runner' = [runner EXCEPT !.sent = TRUE]
            /\ decPc' = "exit"
       ELSE decPc' = "next" /\ UNCHANGED <<runner, dispatch>>
  /\ UNCHANGED <<graph, queue, demux, coreVars>>

(* The exchange of interrupt_flag at the head of the loop; with the flag   *)
(* set, the runner reports a wakeup and does only high priority filters,   *)
(* of which the thread has none.                                           *)
TakeInterrupt ==
  /\ decPc = "interrupt"
  /\ IF runner.interrupt
       THEN /\ dispatch' = IF runner.sent THEN dispatch
                           ELSE [dispatch EXCEPT !.interrupted = TRUE]
            /\ runner' = [runner EXCEPT !.interrupt = FALSE, !.sent = TRUE]
            /\ decPc' = "exit"
       ELSE decPc' = "next" /\ UNCHANGED <<runner, dispatch>>
  /\ UNCHANGED <<graph, queue, demux, coreVars>>

(* Nothing pending (or a request to exit): one more look at the            *)
(* notifications.                                                          *)
FlushAgain ==
  /\ decPc \in {"next", "exit"}
  /\ graph.pending = {}
  /\ FlushAsync
  /\ decPc' = IF decPc = "exit" \/ runner.async = {} THEN "enter" ELSE "process"
  /\ UNCHANGED <<dispatch, queue, demux, coreVars>>

ExitEarly ==
  /\ decPc = "exit"
  /\ graph.pending # {}
  /\ decPc' = "enter"
  /\ UNCHANGED <<graph, runner, dispatch, queue, demux, coreVars>>

(* One of the pending filters is processed.                                *)
ProcessNext ==
  /\ decPc \in {"next", "process"}
  /\ \E f \in graph.pending :
     LET g == [graph EXCEPT !.pending = @ \ {f}]
     IN  /\ graph' = Process(f, g)
         /\ demux' = IF f = "demux" /\ NeedsData(g, "packets")
                       THEN DemuxAfterRead ELSE demux
         /\ IF f = "queue" /\ QueueTakes(g)
              THEN /\ queue' = [queue EXCEPT !.frames = Append(@, g.pin["frames"].data)]
                   /\ core' = WakeOut(core)
              ELSE UNCHANGED <<queue, core>>
  /\ decPc' = "interrupt"
  /\ UNCHANGED <<runner, dispatch, corePc, op, got, calls>>

(* mp_dispatch_queue_process() with an infinite timeout.                   *)
EnterProcess ==
  /\ decPc = "enter"
  /\ decPc' = "wait"
  /\ UNCHANGED <<graph, runner, dispatch, queue, demux, coreVars>>

LeaveProcess ==
  /\ decPc = "wait"
  /\ dispatch.interrupted
  /\ corePc # "locking"
  /\ dispatch' = [dispatch EXCEPT !.interrupted = FALSE]
  /\ decPc' = IF dispatch.terminate THEN "done" ELSE "run"
  /\ UNCHANGED <<graph, runner, queue, demux, coreVars>>

Decoder ==
  \/ RunGraph \/ TakeInterrupt \/ FlushAgain \/ ExitEarly \/ ProcessNext
  \/ EnterProcess \/ LeaveProcess

(***************************************************************************)
(* The demuxer thread, as far as one stream sees it (DemuxThread.tla).     *)
(***************************************************************************)

(* wakeup_ds() and the wakeup callback of demux_in.                        *)
WakeReader(d) ==
  /\ demux' = [d EXCEPT !.needWakeup = FALSE]
  /\ IF d.needWakeup THEN WakeFilter("demux") ELSE UNCHANGED <<runner, dispatch>>

AddPacket ==
  /\ demux.reading /\ ~demux.blocked
  /\ demux.avail < NumPackets
  /\ WakeReader([demux EXCEPT !.avail = @ + 1])
  /\ UNCHANGED <<decVars, queue, coreVars>>

MarkStreamEof ==
  /\ demux.reading /\ ~demux.blocked
  /\ demux.avail = NumPackets
  /\ ~demux.eof
  /\ WakeReader([demux EXCEPT !.eof = TRUE])
  /\ UNCHANGED <<decVars, queue, coreVars>>

Demuxer == AddPacket \/ MarkStreamEof

(***************************************************************************)
(* The player.                                                             *)
(***************************************************************************)

(* It reads from the pin of queue_out: a frame that is there, or a request *)
(* for one and a run of its graph.                                         *)
ReadPin ==
  /\ corePc = "idle"
  /\ core.data = None
  /\ core' = [core EXCEPT !.requested = TRUE, !.pending = @ \/ ~core.requested]
  /\ corePc' = "flush"
  /\ UNCHANGED <<decVars, runner, dispatch, queue, demux, op, got, calls>>

CoreFlush ==
  /\ corePc = "flush" \/ (corePc = "process" /\ ~core.pending)
  /\ core' = [core EXCEPT !.pending = @ \/ core.async, !.async = FALSE, !.sent = FALSE]
  /\ corePc' = IF core'.pending THEN "process" ELSE "check"
  /\ UNCHANGED <<decVars, runner, dispatch, queue, demux, op, got, calls>>

(* process_out().                                                          *)
ProcessQueueOut ==
  LET gives == queue.active /\ queue.frames # <<>> IN
  /\ corePc = "process" /\ core.pending
  /\ IF core.requested
       THEN /\ queue' = [queue EXCEPT !.reading = @ \/ queue.active,
                                      !.frames = IF gives THEN Tail(@) ELSE @]
            /\ core' = IF gives
                 THEN [core EXCEPT !.pending = FALSE, !.requested = FALSE,
                                   !.data = Head(queue.frames)]
                 ELSE [core EXCEPT !.pending = FALSE]
            /\ IF gives \/ (queue.active /\ ~queue.reading)
                 THEN WakeFilter("queue") ELSE UNCHANGED <<runner, dispatch>>
       ELSE core' = [core EXCEPT !.pending = FALSE] /\ UNCHANGED <<queue, runner, dispatch>>
  /\ UNCHANGED <<decVars, demux, corePc, op, got, calls>>

TakeFrame ==
  /\ corePc = "check"
  /\ core.data # None
  /\ got' = Append(got, core.data)
  /\ core' = [core EXCEPT !.data = None]
  /\ corePc' = IF core.data = EOF THEN "ended" ELSE "idle"
  /\ UNCHANGED <<decVars, runner, dispatch, queue, demux, op, calls>>

GoToSleep ==
  /\ corePc = "check"
  /\ core.data = None
  /\ corePc' = "sleep"
  /\ UNCHANGED <<decVars, runner, dispatch, queue, demux, core, op, got, calls>>

WakeUp ==
  /\ corePc = "sleep"
  /\ core.woken
  /\ core' = [core EXCEPT !.woken = FALSE]
  /\ corePc' = "idle"
  /\ UNCHANGED <<decVars, runner, dispatch, queue, demux, op, got, calls>>

(* Between two iterations a command may come, which wakes a sleeping core. *)
AtRest == corePc \in {"idle", "sleep", "ended"}

(* mp_seek(): demux_seek() with SEEK_BLOCK, within the demuxer's cache or  *)
(* not.                                                                    *)
SeekDemux ==
  /\ AtRest
  /\ calls.seeks < MaxSeeks
  /\ \E cached \in {0, NumPackets} :
       demux' = [demux EXCEPT !.position = @ + 1, !.avail = cached, !.read = 0,
                              !.eof = FALSE, !.reading = FALSE, !.blocked = TRUE]
  /\ calls' = [calls EXCEPT !.seeks = @ + 1]
  /\ got' = <<>>
  /\ corePc' = "reset"
  /\ UNCHANGED <<decVars, runner, dispatch, queue, core, op>>

(* reset_playback_state(), public_f_reset(): the pins on the player's      *)
(* side, then mp_async_queue_reset().                                      *)
ResetQueue ==
  /\ corePc = "reset"
  /\ queue' = [active |-> FALSE, reading |-> FALSE, frames |-> <<>>]
  /\ WakeFilter("queue")
  /\ core' = WakeOut([core EXCEPT !.requested = FALSE, !.data = None])
  /\ corePc' = "lock"
  /\ op' = "reset"
  /\ UNCHANGED <<decVars, demux, got, calls>>

(* mp_decoder_wrapper_control() and the like.                              *)
Control ==
  /\ AtRest
  /\ calls.controls < MaxControls
  /\ calls' = [calls EXCEPT !.controls = @ + 1]
  /\ corePc' = "lock"
  /\ op' = "control"
  /\ UNCHANGED <<decVars, runner, dispatch, queue, demux, core, got>>

(* public_f_destroy(), at any time.                                        *)
Destroy ==
  /\ AtRest
  /\ corePc' = "lock"
  /\ op' = "destroy"
  /\ UNCHANGED <<decVars, runner, dispatch, queue, demux, core, got, calls>>

(* mp_dispatch_lock(): the request and onlock_dec_thread().                *)
ThreadLock ==
  /\ corePc = "lock"
  /\ runner' = [runner EXCEPT !.interrupt = TRUE]
  /\ corePc' = "locking"
  /\ UNCHANGED <<decVars, dispatch, queue, demux, core, op, got, calls>>

HasEnded == \E n \in DOMAIN got : got[n] = EOF

(* The section with the lock held, the thread being stuck in the dispatch  *)
(* queue: public_f_reset() with mp_filter_reset() of the whole graph       *)
(* (pending filters stay pending, and queue_in, without a reader, asks for *)
(* nothing); mp_decoder_wrapper_control(), which changes nothing here; and *)
(* public_f_destroy().  What others do meanwhile commutes with it.         *)
LockedSection ==
  /\ corePc = "locking"
  /\ decPc = "wait"
  /\ graph' = IF op = "reset" THEN NewGraph(graph.pending) ELSE graph
  /\ dispatch' = [interrupted |-> dispatch.interrupted \/ op # "control",
                  terminate |-> op = "destroy"]
  /\ corePc' = CASE op = "reset" -> "resume" [] op = "control" -> IF HasEnded THEN "ended" ELSE "idle"
                 [] op = "destroy" -> "join"
  /\ UNCHANGED <<runner, decPc, queue, demux, core, op, got, calls>>

(* mp_async_queue_resume().                                                *)
ResumeQueue ==
  /\ corePc = "resume"
  /\ queue' = [queue EXCEPT !.active = TRUE]
  /\ core' = WakeOut(core)
  /\ corePc' = "unblock"
  /\ UNCHANGED <<decVars, runner, dispatch, demux, op, got, calls>>

(* demux_block_reading(false).                                             *)
Unblock ==
  /\ corePc = "unblock"
  /\ WakeReader([demux EXCEPT !.blocked = FALSE, !.needWakeup = TRUE])
  /\ corePc' = "idle"
  /\ UNCHANGED <<decVars, queue, core, op, got, calls>>

(* pthread_join() in public_f_destroy().                                   *)
Join ==
  /\ corePc = "join"
  /\ decPc = "done"
  /\ corePc' = "gone"
  /\ UNCHANGED <<decVars, runner, dispatch, queue, demux, core, op, got, calls>>

(* What the player does by itself; at the end of the stream it closes the  *)
(* file.                                                                   *)
Core ==
  \/ ReadPin \/ CoreFlush \/ ProcessQueueOut \/ TakeFrame \/ GoToSleep \/ WakeUp
  \/ ResetQueue \/ ThreadLock \/ LockedSection \/ ResumeQueue \/ Unblock \/ Join
  \/ corePc = "ended" /\ Destroy

User == SeekDemux \/ Control \/ Destroy

Finished == corePc = "gone" /\ UNCHANGED vars

(* mp_decoder_wrapper_create() ended with public_f_reset().                *)
Init ==
  /\ graph = NewGraph({})
  /\ runner = [async |-> {}, sent |-> FALSE, interrupt |-> FALSE]
  /\ dispatch = [interrupted |-> FALSE, terminate |-> FALSE]
  /\ decPc = "run"
  /\ queue = [active |-> TRUE, reading |-> FALSE, frames |-> <<>>]
  /\ demux = [position |-> 0, avail |-> 0, read |-> 0, eof |-> FALSE,
              reading |-> FALSE, blocked |-> FALSE, needWakeup |-> TRUE]
  /\ core = [requested |-> FALSE, data |-> None, pending |-> FALSE,
             async |-> FALSE, sent |-> FALSE, woken |-> FALSE]
  /\ corePc = "idle"
  /\ op = "reset"
  /\ got = <<>>
  /\ calls = [seeks |-> 0, controls |-> 0]

Next == Decoder \/ Demuxer \/ Core \/ User \/ Finished

Fairness == WF_vars(Decoder) /\ WF_vars(Demuxer) /\ WF_vars(Core)

Spec == Init /\ [][Next]_vars

FairSpec == Spec /\ Fairness

(***************************************************************************)
(* Properties.                                                             *)
(***************************************************************************)

TypeOK ==
  /\ graph.pending \subseteq Filters
  /\ graph.pin \in [Conns -> [requested : BOOLEAN, data : Data \cup {None}]]
  /\ \A c \in Conns : ~(NeedsData(graph, c) /\ HasData(graph, c))
  /\ graph.packet \in Data \cup {None}
  /\ graph.newSegment \in Packets \cup {None}
  /\ Len(graph.codec.buffer) <= Delay + 1
  /\ runner.async \subseteq Filters
  /\ runner.sent \in BOOLEAN /\ runner.interrupt \in BOOLEAN
  /\ dispatch \in [interrupted : BOOLEAN, terminate : BOOLEAN]
  /\ decPc \in {"run", "interrupt", "next", "process", "exit", "enter", "wait", "done"}
  /\ queue.active \in BOOLEAN /\ queue.reading \in BOOLEAN
  /\ queue.frames \in Seq(Data)
  /\ demux.read \in 0 .. demux.avail /\ demux.avail \in 0 .. NumPackets
  /\ demux.position \in Positions
  /\ core.data \in Data \cup {None}
  /\ corePc \in {"idle", "flush", "process", "check", "sleep", "ended", "reset",
                 "lock", "locking", "resume", "unblock", "join", "gone"}
  /\ op \in {"reset", "control", "destroy"}
  /\ calls \in [seeks : Positions, controls : 0 .. MaxControls]

(* The thread sleeps in its dispatch queue only when nothing is left that  *)
(* it could do: no filter is pending or notified, and when the player has  *)
(* asked for frames and the queue has room, the codec and the demuxer have *)
(* nothing, and the demuxer will wake it.  A notification that comes while *)
(* the graph runs, or after its last look at them, must not be lost        *)
(* (flush_async_notifications(), interrupt_flag, wakeup_dec_thread()).     *)
ThreadAsleep == decPc = "wait" /\ ~dispatch.interrupted /\ corePc # "locking"

ThreadSleepsJustly ==
  ThreadAsleep =>
    /\ graph.pending = {} /\ runner.async = {}
    /\ queue.reading /\ ~IsFull(queue.frames) /\ ~graph.demuxEof =>
         /\ \A c \in Conns : graph.pin[c].requested
         /\ ~CodecHasFrame(graph)
         /\ demux.blocked \/ (demux.read = demux.avail /\ ~demux.eof /\ demux.needWakeup)

(* The player sleeps only when the queue is empty, and only after it asked *)
(* for frames; and then the thread is working, or waits for the demuxer.   *)
(* The frame the thread adds while the player gives up on one must wake it *)
(* (process_in() and process_out()).                                       *)
CoreSleepsJustly ==
  corePc = "sleep" /\ ~core.woken =>
    /\ queue.active /\ queue.reading /\ queue.frames = <<>>
    /\ ThreadAsleep => ~graph.demuxEof /\ demux.needWakeup

(* Between the two threads no wakeup is lost.                              *)
BothSleepJustly == ThreadSleepsJustly /\ CoreSleepsJustly

(* What the player reads is what a decoder promises, over every seek and   *)
(* segment: no frame lost, none of an earlier position, the EOF that       *)
(* drains a segment kept inside (mp_async_queue_reset() before the lock,   *)
(* the discarding in process_in(), SEEK_BLOCK).                            *)
Service == INSTANCE FrameService WITH
             NumFrames <- NumPackets, position <- demux.position, got <- got

ServesFrames == Service!ServiceSpec

(* Whatever the user does, the file is closed in the end: decoding reaches *)
(* EOF after the last seek, every lock is granted and the thread joined.   *)
DecodingEnds == <>(corePc = "gone")
=============================================================================
