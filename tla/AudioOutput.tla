------------------------------ MODULE AudioOutput ------------------------------
(***************************************************************************)
(* Audio output of a file without video: audio/out/buffer.c with a driver  *)
(* that is written to (all drivers of this tree are), the asynchronous     *)
(* queue in front of it, and the part of the player core that decides when *)
(* audio starts, underruns, drains and ends (player/audio.c).              *)
(*                                                                         *)
(* The core runs the play loop and its filter graph; the thread "ao"       *)
(* (playthread) moves samples from the queue to the device; the device     *)
(* plays them.  One step is one critical section of buffer_state.lock or   *)
(* of pt_lock.  A frame holds one sample; Eof ends the file, and in the    *)
(* device the same value is silence.                                       *)
(***************************************************************************)
EXTENDS Integers, FiniteSets, Sequences

CONSTANTS Setups,       \* what may happen: kinds of devices, options, and what the user does
          Length,       \* samples of the file
          QueueSize,    \* ao->buffer
          DeviceSize,   \* ao->device_buffer
          MaxSeeks      \* bound

\* The device takes what it gets at once; it can pause; --audio-stream-silence;
\* --gapless-audio; the demuxer is slow; how often the user seeks, and pauses or
\* unpauses (bounds).
ASSUME SetupsAssumption ==
  Setups \subseteq [untimed : BOOLEAN, can_pause : BOOLEAN, stream_silence : BOOLEAN,
                   gapless : BOOLEAN, slow : BOOLEAN, seeks : 0 .. MaxSeeks, pauses : Nat]
ASSUME SizesAssumption == /\ Length \in Nat /\ MaxSeeks \in Nat
                          /\ QueueSize \in Nat \ {0} /\ DeviceSize \in Nat \ {0}

VARIABLES setup,    \* never changes
          ao,       \* struct buffer_state, and where playthread is
          queue,    \* the queue, and the graph of its reading end (buffer_state.filter_root)
          device,
          graph,    \* the core's filter graph: decoder, ao_filter, writing end of the queue
          core,     \* the play loop: struct ao_chain and parts of MPContext
          played,   \* the last sample that was heard
          skipped,  \* ghost: samples up to this one were dropped when the device was reset
          cached,   \* the demuxer has read enough
          commands  \* counts what the user did, for the bounds

vars == <<setup, ao, queue, device, graph, core, played, skipped, cached, commands>>

Eof == 0
LastSample == (MaxSeeks + 1) * Length
Samples == 1 .. LastSample
Frame == Samples \union {Eof}
Filters == {"dec", "ao", "in"}

AoState == [playing : BOOLEAN, streaming : BOOLEAN, paused : BOOLEAN, hw_paused : BOOLEAN,
            recover_pause : BOOLEAN, prepause : 0 .. DeviceSize, need_wakeup : BOOLEAN,
            terminate : BOOLEAN, pc : {"play", "check", "sleep", "woken", "exit"},
            retry : BOOLEAN, timed : BOOLEAN]
QueueState == [frames : Seq(Frame), requested : BOOLEAN, async_pending : BOOLEAN,
               wakeup_sent : BOOLEAN]
DeviceState == [buffer : Seq(Frame), playing : BOOLEAN, paused : BOOLEAN]
GraphState == [pending : SUBSET Filters, async_pending : SUBSET Filters,
               wakeup_sent : BOOLEAN, requested : BOOLEAN, data : Seq(Frame),
               in_requested : BOOLEAN, in_data : Seq(Frame), decoded : BOOLEAN,
               next : 1 .. Length + 2, base : Nat]
CoreState == [pc : {"fill", "recover", "drain", "restart", "eof", "reset", "filter",
                    "filtered", "wait", "input", "uninit", "draining", "delay", "drainwait",
                    "drainwoken", "drained", "terminate", "join", "done"},
              status : {"syncing", "ready", "playing", "draining", "eof"},
              out_eof : BOOLEAN, underrun : BOOLEAN, ao_underrun : BOOLEAN,
              start_pts_known : BOOLEAN, restart_complete : BOOLEAN, pause : BOOLEAN,
              paused_for_cache : BOOLEAN, seek : BOOLEAN, cmd : {"none", "seek", "pause"},
              woken : BOOLEAN, waking : BOOLEAN]

Init ==
  /\ setup \in Setups
  /\ ao = [playing |-> FALSE, streaming |-> FALSE, paused |-> FALSE, hw_paused |-> FALSE,
           recover_pause |-> FALSE, prepause |-> 0, need_wakeup |-> FALSE, terminate |-> FALSE,
           pc |-> "play", retry |-> FALSE, timed |-> FALSE]
  /\ queue = [frames |-> <<>>, requested |-> FALSE, async_pending |-> TRUE, wakeup_sent |-> TRUE]
  /\ device = [buffer |-> <<>>, playing |-> FALSE, paused |-> FALSE]
  /\ graph = [pending |-> Filters, async_pending |-> {"ao", "in"}, wakeup_sent |-> TRUE,
              requested |-> FALSE, data |-> <<>>, in_requested |-> FALSE, in_data |-> <<>>,
              decoded |-> FALSE, next |-> 1, base |-> 0]
  /\ core = [pc |-> "fill", status |-> "syncing", out_eof |-> FALSE, underrun |-> FALSE,
             ao_underrun |-> FALSE, start_pts_known |-> FALSE, restart_complete |-> FALSE,
             pause |-> FALSE, paused_for_cache |-> FALSE, seek |-> FALSE, cmd |-> "none",
             woken |-> TRUE, waking |-> FALSE]
  /\ played = 0 /\ skipped = 0 /\ cached = ~setup.slow
  /\ commands = [seek |-> 0, pause |-> 0]
--------------------------------------------------------------------------------
(* Waking each other. *)

\* ao_wakeup_playthread(), in one critical section of pt_lock.
WakePlaythread(a) ==
  [a EXCEPT !.need_wakeup = TRUE, !.pc = IF @ = "sleep" THEN "woken" ELSE @]

\* mp_filter_wakeup() of the reading end of the queue: the wakeup_cb of its graph is
\* called once until the graph is run again.
NotifyReader(q) == [q EXCEPT !.async_pending = TRUE, !.wakeup_sent = TRUE]
WakeReader(a) == IF queue.wakeup_sent THEN a ELSE WakePlaythread(a)

\* mp_filter_wakeup() of filters of the core's graph, whose wakeup_cb is mp_wakeup_core().
NotifyCore(F) == graph' = [graph EXCEPT !.async_pending = @ \union F, !.wakeup_sent = TRUE]
WakesCore == ~graph.wakeup_sent
--------------------------------------------------------------------------------
(* playthread() with ao_play_data(). *)

NotPlaying == ~ao.playing /\ ~setup.stream_silence
Inactive == (~ao.playing \/ ao.paused) /\ ~setup.stream_silence
DeviceRuns == device.playing /\ device.buffer # <<>>
Underrun == ao.streaming /\ ~DeviceRuns /\ ~setup.untimed
SpaceAndOne == DeviceSize - Len(device.buffer) + 1
Space == DeviceSize - Len(device.buffer)

\* The way out of ao_play_data() and the critical section.
Leave(a, retry) ==
  ao' = [a EXCEPT !.pc = "check", !.retry = retry,
                  !.timed = a.streaming /\ ~retry /\ (~a.paused \/ setup.stream_silence)]

PlayNothing ==
  /\ ao.pc = "play"
  /\ Inactive \/ (~Underrun /\ Space = 0)
  /\ Leave(ao, FALSE)
  /\ UNCHANGED <<queue, device, graph, core, played, skipped>>

\* The label "eof" of ao_play_data(): running is state.playing.  The core is told,
\* and ao_drain() if it waits.
EndsOn(running) == setup.untimed \/ ~running \/ setup.stream_silence
EndAudio(a, running) ==
  Leave(IF EndsOn(running)
          THEN [a EXCEPT !.streaming = running /\ ~setup.untimed, !.playing = FALSE]
          ELSE a, TRUE)
TellNobody(c) == [c EXCEPT !.pc = IF @ = "drainwait" THEN "drainwoken" ELSE @]
TellEnd(c) == [c EXCEPT !.woken = TRUE, !.pc = IF @ = "drainwait" THEN "drainwoken" ELSE @]

PlayUnderrun ==
  /\ ao.pc = "play" /\ ~Inactive /\ Underrun
  /\ EndAudio(ao, FALSE)
  /\ core' = TellEnd(core)
  /\ UNCHANGED <<queue, device, graph, played, skipped>>

\* driver->write(), and driver->start() if it does not run yet.
Write(samples) ==
  IF samples = <<>> THEN UNCHANGED <<device, played>>
  ELSE IF setup.untimed
    THEN /\ played' = IF samples[Len(samples)] = Eof THEN played ELSE samples[Len(samples)]
         /\ device' = [device EXCEPT !.playing = TRUE]
    ELSE /\ device' = [device EXCEPT !.buffer = @ \o samples,
                                     !.playing = @ \/ ~ao.streaming]
         /\ UNCHANGED played
Silence(n) == [i \in 1 .. n |-> Eof]
Least(m, n) == IF m < n THEN m ELSE n

\* After a pause that stopped the device, silence makes up for what it had queued;
\* with stream_silence it is fed while nothing is played.
Recovered == IF ao.recover_pause THEN Least(ao.prepause, Space) ELSE 0
Silent == ao.paused \/ ~ao.playing
PlaySilence ==
  /\ ao.pc = "play" /\ ~Inactive /\ ~Underrun /\ Space > 0
  /\ Recovered > 0 \/ Silent
  /\ LET n == IF Recovered > 0 THEN Recovered ELSE Space
     IN /\ Write(Silence(n))
        /\ Leave([ao EXCEPT !.recover_pause = FALSE, !.streaming = TRUE], n < Space)
  /\ UNCHANGED <<queue, graph, core, skipped>>

\* read_buffer() reads until the space is filled or nothing comes.  A frame comes out
\* of the pin when it was requested just now, or the queue told of one since.
Readable == IF queue.requested /\ ~queue.async_pending THEN <<>> ELSE queue.frames
SampleCount(frames) == Cardinality({i \in DOMAIN frames : frames[i] # Eof})
PlayQueued ==
  /\ ao.pc = "play" /\ ~Inactive /\ ~Underrun /\ Space > 0
  /\ Recovered = 0 /\ ~Silent
  /\ LET full    == SampleCount(Readable) >= Space
         taken   == IF full THEN Space ELSE Len(Readable)
         got_eof == taken > 0 /\ Readable[taken] = Eof
         samples == SubSeq(Readable, 1, IF got_eof THEN taken - 1 ELSE taken)
         a       == [ao EXCEPT !.recover_pause = FALSE, !.streaming = @ \/ samples # <<>>]
         running == DeviceRuns \/ (samples # <<>> /\ ~ao.streaming)
     IN /\ queue' = [frames |-> SubSeq(queue.frames, taken + 1, Len(queue.frames)),
                     requested |-> ~full, async_pending |-> FALSE, wakeup_sent |-> FALSE]
        /\ Write(samples)
        /\ IF got_eof THEN EndAudio(a, running)
                      ELSE Leave(a, samples # <<>> /\ (Len(samples) < Space \/ setup.untimed))
        /\ LET c == IF taken > 0 /\ WakesCore THEN [core EXCEPT !.woken = TRUE] ELSE core
           IN core' = IF got_eof THEN TellEnd(c) ELSE c
        /\ IF taken > 0 THEN NotifyCore({"in"}) ELSE UNCHANGED graph
  /\ UNCHANGED skipped

\* pt_lock
RetryOnly == ao.retry
MustNotSleep == ao.need_wakeup \/ ao.retry
PlayCheck ==
  /\ ao.pc = "check"
  /\ ao' = IF ao.terminate THEN [ao EXCEPT !.pc = "exit"]
           ELSE IF MustNotSleep THEN [ao EXCEPT !.need_wakeup = FALSE, !.pc = "play"]
           ELSE [ao EXCEPT !.pc = "sleep"]
  /\ UNCHANGED <<queue, device, graph, core, played, skipped>>

\* pthread_cond_timedwait() has returned.
PlayWoken ==
  /\ ao.pc = "woken" \/ (ao.pc = "sleep" /\ ao.timed)
  /\ ao' = [ao EXCEPT !.need_wakeup = FALSE, !.pc = "play"]
  /\ UNCHANGED <<queue, device, graph, core, played, skipped>>

Playthread == PlayNothing \/ PlayUnderrun \/ PlaySilence \/ PlayQueued \/ PlayCheck \/ PlayWoken

\* The device plays; it stops when it has nothing left.
DevicePlays ==
  /\ DeviceRuns /\ ~device.paused
  /\ device' = [device EXCEPT !.buffer = Tail(@), !.playing = Len(device.buffer) > 1]
  /\ played' = IF Head(device.buffer) = Eof THEN played ELSE Head(device.buffer)
  /\ UNCHANGED <<ao, queue, graph, core, skipped>>
--------------------------------------------------------------------------------
(* What the core calls.  Its call of ao_wakeup_playthread() after the lock was given *)
(* back is a step of its own (waking).                                               *)

Full == SampleCount(queue.frames) >= QueueSize
Stopped == [buffer |-> <<>>, playing |-> FALSE, paused |-> FALSE]
Heard(frames) == {frames[i] : i \in DOMAIN frames} \ {Eof}
Dropped(buffer) == IF Heard(buffer) = {} THEN skipped
                   ELSE CHOOSE s \in Heard(buffer) : \A f \in Heard(buffer) : f <= s

\* ao_reset(), with mp_async_queue_reset() and mp_async_queue_resume_reading(), which
\* notify both ends of the queue.
KeepFrames(q) == [NotifyReader(q) EXCEPT !.requested = FALSE]
ResetQueue(q) == [NotifyReader(q) EXCEPT !.frames = <<>>, !.requested = FALSE]
AoReset(c) ==
  /\ queue' = ResetQueue(queue)
  /\ ao' = [WakeReader(ao) EXCEPT !.playing = FALSE, !.recover_pause = FALSE,
                                  !.hw_paused = FALSE,
                                  !.streaming = @ /\ setup.stream_silence]
  /\ device' = IF setup.stream_silence THEN device ELSE Stopped
  /\ NotifyCore({"in"})
  /\ core' = [c EXCEPT !.waking = ao.playing, !.woken = TRUE]
  /\ UNCHANGED <<played, skipped>>

\* ao_start()
AoStart(c) ==
  /\ ao' = [ao EXCEPT !.playing = TRUE]
  /\ core' = [c EXCEPT !.waking = TRUE]
  /\ UNCHANGED <<queue, device, graph, played, skipped>>

\* ao_set_paused(), if the internal state of pausing changes (set_pause_state()).  A
\* device that cannot pause is reset.
Pauses(p)   == ao.playing /\ ~ao.paused /\ p
Unpauses(p) == ao.playing /\ ao.paused /\ ~p
PausesDevice(p) == Pauses(p) /\ ao.streaming /\ ~setup.stream_silence
ResetsDevice(p) == PausesDevice(p) /\ ~setup.can_pause
AoSetPaused(p) ==
  /\ ao' = [ao EXCEPT
       !.paused = p,
       !.prepause = IF PausesDevice(p) /\ ~ao.recover_pause THEN Len(device.buffer) ELSE @,
       !.hw_paused = IF PausesDevice(p) THEN setup.can_pause
                     ELSE IF Unpauses(p) THEN FALSE ELSE @,
       !.streaming = @ /\ ~ResetsDevice(p),
       !.recover_pause = IF ResetsDevice(p) THEN ~setup.untimed ELSE @]
  /\ device' = IF ResetsDevice(p) THEN Stopped
               ELSE IF PausesDevice(p) THEN [device EXCEPT !.paused = TRUE]
               ELSE IF Unpauses(p) /\ ao.hw_paused THEN [device EXCEPT !.paused = FALSE]
               ELSE device
  /\ skipped' = IF ResetsDevice(p) THEN Dropped(device.buffer) ELSE skipped
SetPauseState(c) ==
  LET p == c.pause \/ c.paused_for_cache
  IN /\ IF p # ao.paused
          THEN /\ AoSetPaused(p)
               /\ core' = [c EXCEPT !.waking = Pauses(p) \/ Unpauses(p), !.woken = TRUE]
          ELSE core' = c /\ UNCHANGED <<ao, device, skipped>>
     /\ UNCHANGED played

Wakeup ==
  /\ core.waking
  /\ ao' = WakePlaythread(ao)
  /\ core' = [core EXCEPT !.waking = FALSE]
  /\ UNCHANGED <<queue, device, graph, played, skipped>>

At(pc) == core.pc = pc /\ ~core.waking
Go(c, pc) == [c EXCEPT !.pc = pc]
--------------------------------------------------------------------------------
(* The play loop: fill_audio_out_buffers(), whose looks at the AO are apart. *)

\* Without video the time to start at is known at once.  Audio is ready when the
\* queue is full, or holds all there is.
FillSync ==
  /\ At("fill")
  /\ IF core.status # "syncing"
       THEN core' = Go(core, "recover") /\ UNCHANGED graph
       ELSE LET ready == Full \/ core.out_eof
            IN /\ core' = [core EXCEPT !.start_pts_known = TRUE, !.pc = "recover",
                                       !.status = IF ready THEN "ready" ELSE @,
                                       !.woken = @ \/ ready \/
                                                 (~core.start_pts_known /\ WakesCore)]
               /\ IF core.start_pts_known THEN UNCHANGED graph ELSE NotifyCore({"ao"})
  /\ UNCHANGED <<ao, queue, device, played, skipped>>

\* The AO should play but does not: audio has ended, or there was an underrun, from
\* which it recovers when the queue is full again.
ShouldPlay == core.status \in {"playing", "draining"}
Stalled == ShouldPlay /\ ~ao.playing /\ ~core.underrun
Recovers == core.out_eof \/ Full
FillRecover ==
  /\ At("recover")
  /\ LET c == Go(core, "drain")
         u == [c EXCEPT !.ao_underrun = TRUE, !.underrun = ~core.ao_underrun,
                        !.woken = @ \/ ~core.ao_underrun]
     IN IF ~Stalled
          THEN core' = c /\ UNCHANGED <<ao, queue, device, graph, played, skipped>>
        ELSE IF core.out_eof /\ queue.frames = <<>>
          THEN AoReset([c EXCEPT !.status = "eof"])
        ELSE IF Recovers
          THEN AoStart([c EXCEPT !.ao_underrun = FALSE, !.underrun = FALSE, !.woken = TRUE])
        ELSE core' = u /\ UNCHANGED <<ao, queue, device, graph, played, skipped>>

\* Playing what is left; the end of audio; audio_start_ao() if it got delayed.
DrainsAt(c) == c.status = "draining" /\ (~ao.playing \/ (setup.gapless /\ ~setup.untimed))
FillDrain ==
  /\ At("drain")
  /\ LET d == IF core.status = "playing" /\ core.out_eof
                THEN [core EXCEPT !.status = "draining", !.woken = TRUE] ELSE core
         e == IF DrainsAt(d) THEN [d EXCEPT !.status = "eof", !.woken = TRUE] ELSE d
     IN core' = Go(e, "restart")
  /\ UNCHANGED <<ao, queue, device, graph, played, skipped>>

\* handle_update_cache(): pauses for the cache after an underrun of the output and of
\* the demuxer, for as long as the demuxer has too little.
UpdateCache(k) ==
  \E low \in IF cached THEN {FALSE} ELSE BOOLEAN, demux_underrun \in BOOLEAN :
    LET wait == low /\ (core.paused_for_cache \/ (demux_underrun /\ core.underrun))
        c    == [k EXCEPT !.paused_for_cache = wait, !.underrun = @ /\ wait,
                          !.woken = @ \/ (core.underrun /\ ~wait)]
    IN IF wait # core.paused_for_cache THEN SetPauseState(c)
       ELSE core' = c /\ UNCHANGED <<ao, device, played, skipped>>

\* handle_playback_restart(), with audio_start_ao().
Restart ==
  /\ At("restart")
  /\ IF core.status = "syncing"
       THEN core' = Go(core, "eof") /\ UNCHANGED <<ao, queue, device, graph, played, skipped>>
     ELSE IF core.restart_complete
       THEN UpdateCache(Go(core, "eof")) /\ UNCHANGED <<queue, graph>>
     ELSE LET c == [core EXCEPT !.restart_complete = TRUE, !.woken = TRUE, !.pc = "eof"]
          IN IF core.status = "ready"
               THEN AoStart([c EXCEPT !.status = IF core.out_eof THEN "draining" ELSE "playing",
                                      !.underrun = FALSE])
               ELSE core' = c /\ UNCHANGED <<ao, queue, device, graph, played, skipped>>

\* handle_eof(), execute_queued_seek(): clear_audio_output_buffers() of mp_seek();
\* or the filters are run, starting with what they were told of.
Flushed == [graph EXCEPT !.pending = @ \union graph.async_pending, !.async_pending = {},
                         !.wakeup_sent = FALSE]
HandleEof ==
  /\ At("eof")
  /\ IF core.seek THEN AoReset(Go(core, "reset"))
     ELSE IF core.status = "eof"
       THEN core' = Go(core, "uninit") /\ UNCHANGED <<ao, queue, device, graph, played, skipped>>
     ELSE /\ graph' = Flushed
          /\ core' = Go(core, "filter")
          /\ UNCHANGED <<ao, queue, device, played, skipped>>

\* reset_playback_state(), before the filters run again: filters, struct ao_chain (ao_chain_reset_state()), pausing.
ResetPlayback ==
  /\ At("reset")
  /\ graph' = [graph EXCEPT !.pending = @ \union graph.async_pending \union {"in"},
                            !.async_pending = {}, !.wakeup_sent = FALSE,
                            !.requested = FALSE, !.data = <<>>, !.in_requested = FALSE,
                            !.in_data = <<>>, !.decoded = FALSE,
                            !.next = 1, !.base = @ + Length]
  /\ SetPauseState([core EXCEPT !.status = "syncing", !.out_eof = FALSE, !.underrun = FALSE,
                                !.start_pts_known = FALSE, !.restart_complete = FALSE,
                                !.paused_for_cache = FALSE, !.seek = FALSE,
                                !.woken = TRUE, !.pc = "filter"])
  /\ UNCHANGED queue

\* mp_wait_events(): sleeps until mp_wakeup_core(); while it waits for the cache, it
\* looks again after 0.2 seconds.  Then it looks at the cache.
Wait ==
  /\ At("wait")
  /\ core.woken \/ core.paused_for_cache
  /\ UpdateCache([core EXCEPT !.woken = FALSE, !.pc = "input"])
  /\ UNCHANGED <<queue, graph>>

\* mp_process_input(): what the user asked for.
Input ==
  /\ At("input")
  /\ LET c == [core EXCEPT !.cmd = "none", !.pc = "fill"]
     IN CASE core.cmd = "pause" -> SetPauseState([c EXCEPT !.pause = ~@])
          [] core.cmd = "seek"  -> /\ core' = [c EXCEPT !.seek = TRUE, !.woken = TRUE]
                                   /\ UNCHANGED <<ao, device, played, skipped>>
          [] OTHER -> core' = c /\ UNCHANGED <<ao, device, played, skipped>>
  /\ UNCHANGED <<queue, graph>>
--------------------------------------------------------------------------------
(* mp_filter_graph_run() of the core, one process() at a time, in any order.  Frames *)
(* come from the decoder, through ao_filter, to the writing end of the queue.        *)

Processes(f) == (At("filter") \/ At("filtered")) /\ f \in graph.pending
Done(f) == [graph EXCEPT !.pending = @ \ {f}]

\* The decoder, as far as the graph sees it: it has the frame that was asked for.
ProcessDecoder ==
  /\ Processes("dec")
  /\ graph' = IF graph.decoded /\ graph.requested
       THEN [Done("dec") EXCEPT !.data = IF graph.next > Length THEN <<Eof>>
                                         ELSE <<graph.base + graph.next>>,
                                !.next = @ + 1, !.decoded = FALSE, !.requested = FALSE,
                                !.pending = @ \union {"ao"}]
       ELSE Done("dec")
  /\ core' = Go(core, "filtered")
  /\ UNCHANGED <<ao, queue, device, played, skipped>>

\* ao_process(): passes a frame on if the queue wants one; otherwise it asks for one.
MayPass == (core.status = "syncing" => core.start_pts_known) /\ graph.in_requested
ProcessAo ==
  /\ Processes("ao")
  /\ LET frame == graph.data[1]
         told == core.status # "playing" /\ Full
     IN CASE MayPass /\ graph.data # <<>> ->
               /\ graph' = [Done("ao") EXCEPT !.data = <<>>, !.in_data = <<frame>>,
                                              !.in_requested = FALSE,
                              !.pending = @ \union (IF frame = Eof THEN {"in", "ao"} ELSE {"in"})]
               /\ core' = [core EXCEPT !.out_eof = (frame = Eof), !.pc = "filtered",
                                       !.woken = @ \/ told \/ frame = Eof]
          [] MayPass /\ graph.data = <<>> ->
               /\ graph' = [Done("ao") EXCEPT !.requested = TRUE,
                              !.pending = IF graph.requested THEN @ ELSE @ \union {"dec"}]
               /\ core' = [core EXCEPT !.pc = "filtered", !.woken = @ \/ told]
          [] OTHER -> /\ graph' = Done("ao")
                      /\ core' = [core EXCEPT !.pc = "filtered", !.woken = @ \/ told]
  /\ UNCHANGED <<ao, queue, device, played, skipped>>

\* process_in(): takes the frame, or asks for one, unless the queue is full, and tells
\* ao_filter when the queue got full or is empty (mp_async_queue_set_notifier()).
ProcessIn ==
  /\ Processes("in")
  /\ LET takes  == ~Full /\ graph.in_data # <<>>
         frames == IF takes THEN queue.frames \o graph.in_data ELSE queue.frames
         full   == SampleCount(frames) >= QueueSize
         asks   == ~Full /\ ~full /\ ~graph.in_requested
         tells  == (takes /\ full) \/ frames = <<>>
     IN /\ queue' = IF takes THEN [NotifyReader(queue) EXCEPT !.frames = frames] ELSE queue
        /\ ao' = IF takes THEN WakeReader(ao) ELSE ao
        /\ graph' = [Done("in") EXCEPT
             !.in_data = IF takes THEN <<>> ELSE @,
             !.in_requested = @ \/ asks,
             !.pending = IF asks THEN @ \union {"ao"} ELSE @,
             !.async_pending = IF tells THEN @ \union {"ao"} ELSE @,
             !.wakeup_sent = @ \/ tells]
        /\ core' = [core EXCEPT !.pc = "filtered", !.woken = @ \/ (tells /\ WakesCore)]
  /\ UNCHANGED <<device, played, skipped>>

\* Nothing is pending; or the run took too long and is interrupted, for the next time.
EndGraph ==
  /\ At("filter") \/ At("filtered")
  /\ \/ /\ graph.pending = {} /\ graph.async_pending # {}
        /\ graph' = Flushed
        /\ UNCHANGED core
     \/ /\ graph.pending = {} /\ graph.async_pending = {}
        /\ graph' = Flushed
        /\ core' = Go(core, "wait")
     \/ /\ graph.pending # {} /\ core.pc = "filtered"
        /\ graph' = [graph EXCEPT !.wakeup_sent = TRUE]
        /\ core' = [core EXCEPT !.woken = @ \/ WakesCore, !.pc = "wait"]
  /\ UNCHANGED <<ao, queue, device, played, skipped>>

RunGraph == ProcessDecoder \/ ProcessAo \/ ProcessIn \/ EndGraph
--------------------------------------------------------------------------------
(* The end: uninit_audio_out(), with ao_drain() and ao_uninit(). *)

Uninit ==
  /\ At("uninit")
  /\ core' = Go(core, IF ao.playing /\ ~ao.paused THEN "draining" ELSE "terminate")
  /\ UNCHANGED <<ao, queue, device, graph, played, skipped>>

\* The lock is given back to ask for the delay; afterwards ao_drain() waits in any case.
DrainTest ==
  /\ At("draining")
  /\ core' = Go(core, IF ~ao.paused /\ ao.playing THEN "delay" ELSE "drained")
  /\ UNCHANGED <<ao, queue, device, graph, played, skipped>>
DrainWait ==
  /\ At("delay")
  /\ core' = Go(core, "drainwait")
  /\ UNCHANGED <<ao, queue, device, graph, played, skipped>>

\* The timeout covers what was buffered and some more: all of it has been played, or
\* the AO has given up.
DrainTimeout ==
  /\ At("drainwait") /\ ~ao.playing
  /\ core' = Go(core, "drained")
  /\ UNCHANGED <<ao, queue, device, graph, played, skipped>>
DrainWoken ==
  /\ At("drainwoken")
  /\ IF ~ao.playing /\ SampleCount(queue.frames) > 0
       THEN AoStart(Go(core, "draining"))
       ELSE core' = Go(core, "draining") /\ UNCHANGED <<ao, queue, device, graph, played, skipped>>
Drained == At("drained") /\ AoReset(Go(core, "terminate"))

Terminate ==
  /\ At("terminate")
  /\ ao' = [ao EXCEPT !.terminate = TRUE, !.pc = IF @ = "sleep" THEN "woken" ELSE @]
  /\ core' = Go(core, "join")
  /\ UNCHANGED <<queue, device, graph, played, skipped>>
Join == /\ At("join") /\ ao.pc = "exit"
        /\ core' = Go(core, "done")
        /\ UNCHANGED <<ao, queue, device, graph, played, skipped>>
--------------------------------------------------------------------------------
Fill == FillSync \/ FillRecover \/ FillDrain
Drain == DrainTest \/ DrainWait \/ DrainTimeout \/ DrainWoken \/ Drained
Core == \/ Wakeup \/ Fill \/ Restart \/ HandleEof \/ ResetPlayback \/ Wait \/ Input
        \/ RunGraph \/ Uninit \/ Drain \/ Terminate \/ Join

\* The decoder thread, and the demuxer.
Decode == /\ graph.requested /\ ~graph.decoded /\ graph.next <= Length + 1
          /\ graph' = [graph EXCEPT !.decoded = TRUE, !.wakeup_sent = TRUE,
                                    !.async_pending = @ \union {"dec"}]
          /\ core' = [core EXCEPT !.woken = @ \/ WakesCore]
          /\ UNCHANGED <<ao, queue, device, played, skipped, cached>>
Prefetch == /\ ~cached /\ cached' = TRUE
            /\ UNCHANGED <<ao, queue, device, graph, core, played, skipped>>

\* A command for mp_process_input(), which wakes the core.
Command(what, bound) ==
  /\ core.cmd = "none" /\ commands[what] < bound
  /\ commands' = [commands EXCEPT ![what] = @ + 1]
  /\ core' = [core EXCEPT !.cmd = what, !.woken = TRUE]
  /\ UNCHANGED <<ao, queue, device, graph, played, skipped, cached>>
User == Command("seek", setup.seeks) \/ Command("pause", setup.pauses)

CoreStep == Core /\ UNCHANGED cached
PlayStep == Playthread /\ UNCHANGED cached
DeviceStep == DevicePlays /\ UNCHANGED cached
Next == /\ \/ (CoreStep \/ PlayStep \/ DeviceStep \/ Decode \/ Prefetch) /\ UNCHANGED commands
           \/ User
        /\ UNCHANGED setup

Spec == Init /\ [][Next]_vars
--------------------------------------------------------------------------------
(* The threads run, the device plays, the decoder decodes and the demuxer reads. *)
Never == UNCHANGED <<setup, commands>>
FairSpec == /\ Spec
            /\ WF_vars(CoreStep /\ Never) /\ WF_vars(PlayStep /\ Never)
            /\ WF_vars(DeviceStep /\ Never) /\ WF_vars(Decode /\ Never)
            /\ WF_vars(Prefetch /\ Never)
--------------------------------------------------------------------------------
TypeOK ==
  /\ ao \in AoState /\ queue \in QueueState /\ device \in DeviceState
  /\ graph \in GraphState /\ core \in CoreState
  /\ SampleCount(queue.frames) <= QueueSize /\ Len(device.buffer) <= DeviceSize
  /\ played \in Frame /\ skipped \in Frame /\ cached \in BOOLEAN
  /\ commands \in [seek : 0 .. MaxSeeks, pause : Nat]

\* playthread sleeps without a timer, and nobody is about to wake it, only if there is
\* nothing to write, and no end of audio that it has to report.
AoSleepsJustly ==
  ao.pc = "sleep" /\ ~ao.timed /\ ~core.waking /\ ~Inactive =>
    /\ ~ao.streaming
    /\ ~ao.terminate
    /\ queue.frames = <<>>
    /\ ao.playing => queue.requested

\* What will be heard is what was decoded since the last seek: in order, nothing
\* twice, nothing left out, nothing from before (but for stream_silence, which never
\* stops the device).  Pausing reaches the device, and unpausing too: it is silent while
\* the AO is paused, and no longer held when it is not.
Queued == queue.frames \o graph.in_data \o graph.data
InOrder(frames) == \A i, j \in DOMAIN frames :
                     i < j /\ Eof \notin {frames[i], frames[j]} => frames[i] < frames[j]
NewOnes == {f \in Heard(device.buffer) : f > graph.base}
First == LET old == IF played > skipped THEN played ELSE skipped
         IN 1 + IF old > graph.base THEN old ELSE graph.base
LastDecoded == graph.base + Least(graph.next - 1, Length)
Emptied == {"reset", "terminate", "join", "done"}
AudioIsContinuous ==
  core.pc \notin Emptied =>
    /\ InOrder(device.buffer \o Queued)
    /\ NewOnes \union Heard(Queued) = First .. LastDecoded
    /\ setup.stream_silence \/ NewOnes = Heard(device.buffer)

PauseReachesDevice ==
  ~setup.stream_silence =>
    /\ ao.paused => ~DeviceRuns \/ device.paused
    /\ ~ao.paused => ~device.paused
    /\ ao.recover_pause => ~device.playing
DeviceIsRight == AudioIsContinuous /\ PauseReachesDevice

\* Playback ends, and the thread is stopped, unless it stays paused.  (A device that is
\* fed silence underruns again and again if the thread is always late.)
PlaybackEnds == <>[](~core.pause) /\ ~setup.stream_silence => <>(core.pc = "done")
================================================================================
