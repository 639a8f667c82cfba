# Verification models for mpv-mini

TLA+ modules for the concurrent core of the player: how its threads reach each
other's state, hand frames and packets to each other, sleep, wake and end. Each
module is written from the C source; `PROJECT.json` ("map") names, for every
definition, the lines it stands for. TLC checks small instances
(`tlc -workers 2 -config X.cfg M`), TLAPS proves theorems for all values of the
constants (`tlapm M.tla`).

1. [Inventory](#1-inventory)
2. [Modules and how they correspond to the code](#2-modules)
3. [Runs, bounds and what they show](#3-runs)
4. [Fairness](#4-fairness)
5. [Where code and comments disagree](#5-where-code-and-comments-disagree)
6. [Proofs](#6-proofs)
7. [Not modelled](#7-not-modelled)
8. [Plan](#8-plan)

## 1. Inventory

### Threads

| thread | started in | lives in | reached through |
|---|---|---|---|
| playback core | `player/main.c` | `player/playloop.c`, `run_playloop()` | `mpctx->dispatch` |
| VO thread | `vo_create()` | `video/out/vo.c:vo_thread()` | `in->dispatch`, `in->lock` |
| demuxer thread | `demux_start_thread()` | `demux/demux.c:demux_thread()` | `in->lock` |
| decoder thread (optional) | `f_decoder_wrapper.c` | `dec_thread()` | its dispatch queue, two async queues |
| AO thread (push drivers) or device callback | `audio/out/buffer.c` | `ao_thread()` / `ao_read_data()` | `p->lock`, `p->pt_lock` |
| pool workers | `misc/thread_pool.c` | `worker_thread()` | `pool->lock` |
| clients: scripts, API users, IPC | `player/scripting.c`, user | own loops around `mpv_wait_event()` | `ctx->lock` of each client, `mpctx->dispatch` |
| render API user | user | `mpv_render_context_render()` | `ctx->lock`, its dispatch queue |

The playback core decides; nearly everything else exists so that it never blocks.
Two patterns recur. State owned by one thread is reached by others through a
*dispatch queue* (run a callback on the owner, or stop the owner and borrow it).
Streams of data go through *queues under a mutex*, with a wakeup callback that
must be called exactly when the sleeping side has something to do. Most hazards
are of the second kind: a flag ("need_wakeup", "reading", "waiting") that is read
in one critical section and acted on in another.

### Components

For each: state; operations; partners; what is hard; what makes it correct.
"->" names the module.

**Dispatch queue** (`misc/dispatch.c`) -> Dispatch, DispatchService
- State: the item list, `in_process`, `locked`, `lock_requests`, the explicit
  lock holder, `interrupted`, the deadline `wait`, one condition variable.
- Operations: enqueue, enqueue_notify (merging), cancel_fn, run (synchronous),
  lock/unlock, interrupt, adjust_timeout, queue_process.
- Partners: all threads; wakeup_fn and onlock_fn tell a target that sleeps elsewhere.
- Hard: one condition variable for runners, lockers and the target; the mutex is
  dropped around callbacks and wakeup_fn; a lock may be granted only while the
  target is trapped in queue_process; items on the caller's stack.
- Correct: one owner of the target's state; no wakeup lost; run returns after its
  callback ran once; notifications merge but are not lost; locks are granted.

**Options** (`options/m_config_core.c`) -> ConfigCache
- State: the values with a time stamp per group, a global atomic stamp, listeners;
  per cache a copy with stamps and an iteration position.
- Operations: write_opt, update, get_next_changed, set_dispatch_change_cb.
- Partners: core (writer), VO, demuxer, AO, scripts (caches), Dispatch (callback).
- Hard: the first comparison is made without the lock; stamps are advanced before
  data is copied; listeners are removed while notifications are queued.
- Correct: equal stamps mean equal data; no change is hidden; no callback after
  its removal; a listener ends with the last values.

**Thread pool** (`misc/thread_pool.c`) -> ThreadPool
- State: job list, threads, busy count, terminate flag.
- Operations: create, queue, run, the worker's loop, destructor.
- Hard: one signal per job; timeouts that coincide; failing pthread_create();
  detached against joined threads.
- Correct: no job waits beside a sleeper; min_threads stay; jobs are run; the
  destructor drains and ends.

**Video output** (`video/out/vo.c`) -> VoQueue
- State: queued and current frame, redraw requests, timers, pause, reset,
  need_wakeup, wakeup_on_done.
- Operations: is_ready_for_frame, queue_frame, wait_frame, request_wakeup_on_done,
  redraw, set_paused, seek_reset, reconfig, control, destroy; the VO thread's round:
  dispatch, render_frame, checks, redraw, wait.
- Partners: the core, Dispatch, the driver.
- Hard: the lock is left while drawing and flipping; timers on both sides; repeats
  in display sync; drops.
- Correct: neither side sleeps on work; a queued frame is never overwritten;
  redraw requests are drawn; a paused picture is on the screen.

**Demuxer thread and packet queues** (`demux/demux.c`) -> DemuxThread
- State: per stream a packet queue, eof, refreshing, need_wakeup, the position
  returned last; reading, eof, blocked, seeking, tracks_switched.
- Operations: read_packet_async, seek, block_reading, select_track, stop; the
  thread: switch tracks, seek, read a packet, rest.
- Partners: decoders or core (readers), core (commands), the low level demuxer.
- Hard: the lock is left while reading, seeking and switching, and commands are
  queued meanwhile; refresh seeks read packets again and must not repeat them;
  passive streams; full queues.
- Correct: packets are neither missed nor repeated; EOF is true; readers are
  answered; the thread ends.

**Audio output** (`audio/out/buffer.c`, `player/audio.c`) -> AudioOutput
- State: a queue of samples; playing, streaming, paused, hw_paused and what an
  underrun left behind under one lock, need_wakeup under another; the core's audio
  status, its EOF and underrun flags.
- Operations: ao_start, ao_set_paused, ao_reset, ao_drain, ao_uninit; the AO thread:
  write, feed silence, notice underruns and the end, sleep; the core: start, recover,
  drain, end.
- Partners: the core's filter graph in front, the device behind.
- Hard: a start, a pause or new data between the thread's two critical sections;
  ao_drain() waits unlocked; devices that cannot pause; who tells the core.
- Correct: what is heard is what was decoded; pausing reaches the device; the thread
  does not sleep on data; playback ends.

**Client API** (`player/client.c`) -> ClientApi
- State: per handle a ring of events with places reserved for replies, choked,
  need_wakeup; observed properties with change, value and returned stamps; the list of
  handles; shutdown flags.
- Operations: mpv_wait_event, observe and unobserve, asynchronous requests, hooks,
  mpv_wakeup, mpv_wait_async_requests, destroy, quit; the core: broadcast, send
  property changes, run requests, shut clients down.
- Partners: Dispatch for everything that needs the core.
- Hard: values are fetched with the client unlocked; the list of clients changes
  meanwhile; events are dropped when the ring is full; destruction while requests run.
- Correct: replies are never dropped; a drop is told; an observer ends with the last
  value; handles outlive their use; the player ends.

**Filter graph, asynchronous queue, decoder wrapper** (`filters/filter.c`,
`f_async_queue.c`, `f_decoder_wrapper.c`) -> DecoderThread, FrameService
- State: pins that hold one frame, pending and asynchronously notified filters,
  interruption; the queue of frames; the thread's dispatch queue; codec and segment.
- Operations: the graph's runner, the process() callbacks, reset, lock and unlock,
  feeding, draining, segment changes, destruction.
- Partners: the demuxer, Dispatch, the player's graph.
- Hard: a notification after the runner looked at them; a reset while a frame is on
  its way; the player locks the thread while it waits for packets or for space.
- Correct: frames come in order, each once, none of an earlier position (FrameService);
  no wakeup is lost; locks are granted and the thread ends.

**Render API** (`video/out/vo_libmpv.c`, `dr_helper.c`) -> RenderApi
- State: the next and the current frame, in_use, present and expected counts, direct
  rendering images in flight, a dispatch queue the application serves.
- Operations: draw_frame, flip_page with its time-outs, update, render, get_image,
  screenshots, free; preinit and uninit of the VO.
- Partners: VO thread, decoder, core, screenshot threads, the application.
- Hard: flip_page() gives up on a frame that may be rendered; freeing the context has
  to kill the video from the thread that others wait for.
- Correct: the context outlives its users; the application is told of frames; nobody
  waits for ever.

**Playback loop** (`player/playloop.c`, `video.c`, `audio.c`) -> PlayLoop
- State: status of audio and video, restart_complete, the queued and the executed
  seek, next_frames, saved_frame, step_frames, stop_play.
- Operations: run_playloop() with fill_audio_out_buffers(), write_video(),
  handle_playback_restart(), handle_eof(), loop-file, keep-open, execute_queued_seek();
  the commands seek, pause, frame-step, frame-back-step.
- Partners: contracts of VoQueue, AudioOutput and DecoderThread.
- Hard: seeks come while others are under way, are combined, delayed and dropped;
  audio has to start with the picture, whichever is ready first; every wakeup counts.
- Correct: an exact seek shows the frame that was asked for; audio starts with its
  frame; playback restarts after every seek and ends at the end.

**Demuxer cache** (`demux/demux.c`) -> DemuxRanges
- State: the list of ranges, sorted by use, each with a queue of packets and seekable times per
  stream; reader_head, refreshing, skip_to_keyframe and base_ts of each stream; the low level
  seek that is queued; after_seek; the sizes of both caches.
- Operations: add_packet_locked() with adjust_seek_range_on_packet(), attempt_range_joining() and
  prune_old_packets(); queue_seek() in a range or in the file; selecting tracks with
  initiate_refresh_seek(); dequeue_packet(); read_packet() and execute_seek() of the thread.
- Partners: the user (seeks, tracks), the readers, the demuxer's implementation.
- Hard: the demuxer is sent behind a range that is sought in or joined, lands anywhere before it,
  and packets are skipped until it is where it was, while readers, seeks, pruning and switches
  go on; the times of a range follow from queues of which some are passive, empty or at EOF.
- Correct: a range has no gap and no packet twice; a seek in the cache finds what a seek in the
  file finds; no reader misses a packet.

The components below are not modelled yet, or not at all; section 7 says why.

**Cancellation and waiters** (`misc/thread_tools.c`, `rendezvous.c`): a tree of cancel
objects, triggered from above. Correct: a slave added to a triggered parent is
triggered; callbacks do not run after they were unset.

**Input** (`input/*.c`): key queue, sections, repeat timers, under one lock.
**Logging** (`common/msg.c`): per client ring of messages. **Commands and properties**
(`player/command.c`): mostly sequential; hooks and asynchronous commands are in
ClientApi, seeking and stepping in PlayLoop.
**Scripting and subprocesses**, **option parsing**, **demuxer implementations**,
**streams**, **decoders**, **frames and conversion**, **filters**, **VO drivers and
renderers**, **AO drivers**, **subtitles and OSD**, **encoding and tags**, **allocation
and utilities**, **platform**: see section 7.

### Interactions the models keep

- Dispatch is used by VO (`vo_reconfig`, `vo_control`), core (API), decoder thread,
  render API and listeners of ConfigCache. In their modules it is reduced to what
  Dispatch shows of it: a run returns after its callback ran (CallersReturn,
  ImplementsService), a lock is held only while the target is inside
  mp_dispatch_queue_process() (TargetIsOwned), notifications merge without being
  lost and the target is woken (NobodyWaitsInVain).
- The core of VoQueue is nondeterministic within the call protocol of
  `write_video()` and `run_playloop()`: ask, queue if ready, else sleep. PlayLoop has
  that core in full, with a VO of one queued frame and one that is shown.
- The readers of DemuxThread poll, and after "wait" or "EOF" ask again when their
  wakeup_cb was called, as `f_demux_in.c` does; DecoderThread has this reader in full,
  and of the demuxer the answers, need_wakeup and SEEK_BLOCK.
- AudioOutput has the core's graph and the play loop as far as audio goes; PlayLoop
  has both, with an AO that only plays, runs out and is asked whether it does.

## 2. Modules

| module | of | lines of code | role |
|---|---|---|---|
| Dispatch | `misc/dispatch.c` | 418 | all functions of the queue |
| DispatchService | its contract (`dispatch.c` comments, callers) | - | abstract specification |
| DispatchProofs | - | - | theorems about Dispatch |
| ConfigCache | `options/m_config_core.c` | 910, of which caches and shadow 350 | stamps and copies |
| ConfigCacheProofs | - | - | theorems about ConfigCache |
| ThreadPool | `misc/thread_pool.c` | 223 | all functions |
| ThreadPoolProofs | - | - | theorems about ThreadPool |
| VoQueue | `video/out/vo.c` | 1420 | core and VO thread |
| VoQueueProofs | - | - | theorems about VoQueue |
| DemuxThread | `demux/demux.c` | 4640 | thread, readers, commands |
| AudioOutput | `audio/out/buffer.c`, parts of `player/audio.c`, `playloop.c`, `filter.c`, `f_async_queue.c` | 736 and 500 | AO thread, device, the core's side of audio |
| AudioOutputProofs | - | - | theorems about AudioOutput |
| ClientApi | `player/client.c`, hooks of `command.c` | 2243 | core, handles and their users |
| ClientApiProofs | - | - | theorems about ClientApi |
| DecoderThread | `filters/f_decoder_wrapper.c`, `f_async_queue.c`, `filter.c`, `f_demux_in.c` | 1300, 380, 890, 90 | decoder thread, demuxer, player |
| DecoderThreadProofs | - | - | theorems about DecoderThread |
| FrameService | the contract of a decoder wrapper | - | abstract specification |
| RenderApi | `video/out/vo_libmpv.c`, `dr_helper.c`, parts of `client.c` | 760 and 180 | five threads around a render context |
| RenderApiProofs | - | - | theorems about RenderApi |
| DemuxRanges | `demux/demux.c` | of its 4640, 1000 | the seekable cache, on one record under in->lock |
| PlayLoop | `player/playloop.c`, `video.c`, `audio.c` | 1277, 1180, 1000 | the core thread during one file |
| MC*X* | - | - | constants for TLC |

Conventions. An action is one critical section of the component's lock, one call
of a callback, or what happens unlocked between two sections; program counters
(`pc`, `tpc`, `vpc`, `cpc`) name the place in the function. `waiting` holds the
threads inside pthread_cond_wait; a broadcast empties it, a signal removes one, and
SpuriousWakeup removes any, as POSIX allows. Fields keep their names. Variables that
the code does not have are marked "ghost" and no guard of the code's actions reads
them. Definitions such as `DemuxTarget` or `NoSignal` beside a definition with the
same parameters are the plausible errors (`PROJECT.json`, "mutants") with which each
property was seen to fail; nothing else uses them.

**Dispatch.** One action per function, with `mp_dispatch_lock()` split at its waits
and at the unlocked call of wakeup_fn (StartLock, LockWakeup, LockRecheck,
LockWoken) and `mp_dispatch_run()` at its call of wakeup_fn and its wait (Run,
CallWakeup, RunCheck). `mp_dispatch_queue_process()` is EnterProcess, then the
branches of its loop in the order of the code: BlockForLock, TakeItem, IdleWait,
ExitProcess; the target keeps the mutex while in "loop". The deadline is 0 (passed),
1 .. Never - 1 (may pass: Timeout), or Never. `hooks` says which of wakeup_fn and
onlock_fn are set. `signal` is what these callbacks leave behind at a target that
sleeps elsewhere. Items on the stack of mp_dispatch_run() are one per thread.

**ConfigCache.** Groups are numbered as in the shadow, and a cache has a contiguous
part of them. WriteOpt is the critical section up to the store of the new time,
NotifyListeners the rest of it (the store is visible to the unlocked check before).
CacheCheckUpdate is the unlocked check; Update, NextChanged and NoneChanged are
what follows under the lock. Poll and Dispatched start a check, by the thread itself
or by the callback. RemoveListener and CancelPending are the two halves of unsetting
the callback. `missed` remembers caches that chose not to listen, `raced` changes
between check and lock.

**ThreadPool.** Identities in Workers are reused once a thread has left. Add is
thread_pool_add() for both entry points, with pthread_create() failing or not. A
worker keeps the lock from GetLock, Timeout or Finish to TakeWork, Sleep or Leave.

**VoQueue.** Times are distances from now, which Tick shortens; -1 is "unset" and -2
"in 1e9 us". The VO thread's round is Dispatch, one of SkipRender, DropFrame and
StartRender .. EndRender, then Check, then DoRedraw and DrawAgain or WaitVo .. Awake.
The core asks (IsReadyForFrame), queues (QueueFrame), sleeps (wantready, wantdone) or
waits inside a call (waitframe, request); `uses` selects what else it does. `osd` and
`shown` follow what the driver has been given to draw.

**DemuxThread.** The file is a sequence of streams; a packet is its index, which is also
its time and its position. One range, no seekable cache (DemuxRanges has it): what a stream has read
is its queue, and what it has returned is gone. The thread leaves the lock in
"switch", "seek" and "read"; EndRead is everything after the packet arrived. A seek
lands at or before its target, where a keyframe of the file may be. Select includes
initiate_refresh_seek(), and Seek the reset of the readers that SEEK_BLOCK comes with.
`due` is the time from which on a stream owes packets to its reader; `lost` the streams
a refresh made break this (section 5).

**DemuxRanges.** What happens with in->lock held is a function from struct demux_internal to
itself, in the record `in`; the functions have the names of the C functions and call each other
as they do. The actions are the critical sections: Read (dequeue_packet() and the end of its
caller), Seek, Select, Deselect, and for the thread StartSeek .. EndSeek, StopReading, StartRead ..
EndRead, with the lock left in between. Wakeups and blocking are DemuxThread's. The queue's list is the
set of its packets, as a packet is its position; every packet has size 1; times are even numbers, so
that the 0.1 s of last_pruned and the 1 s of refresh seeks are numbers too. A low level seek lands
on any keyframe of the video at or before its target, or at the start. Ghosts: `goal` and
`due` are where the user is and what each reader needs next; `unseen`, `gone` and `twice` mark packets.

**AudioOutput.** `ao.pc` is playthread(): "play" is ao_play_data() with everything under
buffer_state.lock, "check" the second critical section, under pt_lock. The queue is
f_async_queue.c with a graph of one filter on the AO's side; `graph` is the core's graph
(decoder, ao_filter, queue input), one process() callback a step. `core.pc` goes
through run_playloop() as far as it is about audio: fill, recover, drain,
the graph, restart, EOF, wait, input, and uninit with ao_drain() when the file is over. Samples carry
numbers that grow over seeks, so that what is heard tells where it came from.

**ClientApi.** `client[h]` is struct mpv_handle with the state of the calls that are
under way: `user` is the thread in mpv_wait_event() or in destruction, `joiner` one in
mpv_wait_async_requests(); other calls are atomic under the handle's lock or wait for
the core in "process". A property has the three stamps of struct observe_property. The core sends
property changes in two steps, GetProperty with the handle unlocked and StoreProperty
with it locked, and starts again when the list of clients changed. `raced` is ghost: the
property changed in between without the core being told to look again; so is `orphaned`: a hook may be
waiting for a property that is not observed any more (section 5). `terminate` is the argument of
mp_destroy_client(): QuitPlayer sets it for mpv_terminate_destroy(), which runs "quit" first; RemoveClient
then makes the handle the terminator (Terminates), which goes on with Quit, StopCore and Join.

**DecoderThread.** The runner of a graph is split where others can intervene: flushing
the asynchronous notifications, taking the interrupt, one process() callback, leaving,
sleeping in the dispatch queue. The runner takes any of the pending filters (the code takes
the last one added, an order that filter.c itself calls naive). Filters on the way are demux_in, the wrapper ("decode"), the codec
("lavc", which keeps Delay packets) and the queue's input. The player reads the queue's output through a pin
of its own graph; SeekDemux .. Unblock is the reset that a seek does, in
its order: block the demuxer and seek, reset the queue, lock and reset the thread's graph,
resume, unblock. Refined to FrameService by the player's reads.

**RenderApi.** A section under ctx->lock is a step; `waking` are threads on their way
to call update() with nothing locked. An image is in `images.refs` with everybody that
holds it; the last holder queues dr_thread_free() for the render thread. flip_page() may
give up at any time it waits: a time-out is a choice, not a clock.

**PlayLoop.** `mp.pc` is the place in run_playloop(), which ends with the core's filter graph
and the wait for a wakeup. Times count frames; audio sample t is heard while frame t
is shown. FillAudio, RecoverAudio, DrainAudio are fill_audio_out_buffers(); SkipVideo to
FrameQueued write_video() with video_output_image(); Restart and its variants
handle_playback_restart(); the core's graph takes one audio frame at a time. Around it:
ShowFrame and FrameDue (VO), PlayAudio and RunOut (AO), VideoArrives, AudioArrives and
Stall (decoders and sources), TimePasses (timers). GoOn, LoopFile and KeepOpen are the handlers of the end
of the file, each followed by handle_sstep() (Stepped). `goal` is ghost: what the last executed
seek asked for.

## 3. Runs

All passing runs are exhaustive for their constants. Deadlock is checked for Dispatch,
ConfigCache, DecoderThread and RenderApi, whose threads can always go on or are done in one
known state. The pool, the VO thread, the demuxer thread, the AO thread, the core and the
clients end; there liveness, and the properties about who may sleep, say more than the absence
of deadlock.

Where everything at once is too large, an instance is a set of *setups* (AudioOutput,
ClientApi, PlayLoop, DemuxRanges; *uses* in VoQueue): each chooses what may happen, and pairs what
interacts. Init picks one, and TLC explores them all.

| run | instance | distinct states |
|---|---|---|
| dispatch_core | 3 threads and the target, one callback, 2 items, with and without wakeup_fn | 543 278 |
| dispatch_live | 2 threads, 1 item, no hook, wakeup_fn, or onlock_fn | 21 953 |
| config_core | 3 nested groups of 0, 1 and 2 options, 2 caches, 2 values, 2 changes | 139 555 |
| pool_core | min 1, max 2 threads, 3 identities, 2 jobs, init_threads 0 or 1 | 9 322 |
| vo_core | delays 0 .. 2, up to 2 repeats, three uses | 1 611 117 |
| demux_core | 3 streams, file v sub a v, 2 commands, seekable or not | 386 253 |
| ao_core | file of 3 samples, queue 2, device 1, 6 setups | 825 931 |
| client_core | 2 handles, ring of 2, 2 properties, 14 setups | 407 036 |
| decoder_core | 3 packets in 2 segments, codec delay 1, queue 2, 2 seeks, 1 other call | 1 023 628 |
| render_core | 2 images, 2 draws, 1 screenshot, with and without advanced control | 134 784 |
| play_core | 3 or 4 frames, keyframes 0 and 2, 10 setups | 460 607 |
| ranges_core | 11 packets of 3 streams, 2 ranges, 6 setups of up to 3 commands | 255 482 |

**dispatch_core.** *TargetIsOwned* is three statements: a thread that returned from
mp_dispatch_lock() is alone (Exclusive); lock_requests is the number of threads inside or past it
(LockAccounting); `locked` is set exactly while someone has the target, so the asserts hold
(LockedIsOwned). *NobodyWaitsInVain*: nobody sleeps whose condition holds, and queued
items have a signal on its way (NoLostWakeup); the stack item is queued or running exactly while
its caller waits (RunItemsLive); merging loses no notification (NotifyMerged).
*ImplementsService*: the whole queue implements DispatchService, in which ownership passes from
hand to hand and every synchronous request is served once. Three threads are the
holder, one that competes with it and one that enqueues; two items are one in front of another.

**dispatch_live.** *CallersReturn*: locks are granted and runs return,
for a target that polls, one that wakeup_fn brings back (VO thread), and one that only
onlock_fn does (decoder thread). Symmetry is not used here.

**config_core.** *StampTellsData*: if the stamps of a group agree, so do its data.
*UpdateSeesAll*: a thread that is not about to be told has all changes.
*NoLateCallback*: none after it was unset. *NextLosesOnlyRaces*: an iteration loses
a change at most when it was made between check and lock. Two changes make a second change
while the first is read; the third group is needed for a group that is passed.

**pool_core.** *NoJobSleptOver*: with one signal per job, while anybody sleeps each job
has a thread that is up. *PoolDelivers*: adding work to a pool that has threads does not fail, as
`thread_pool.h` promises; jobs are run; the destructor returns, with the queue empty
and all threads gone. Two threads time out together, a third identity shows a pool that grows
too far.

**vo_core.** *ThreadsAgree*: what vo_is_ready_for_frame() said is still true when
vo_queue_frame() asserts it (QueueIsFree), and neither side sleeps on work.
*PictureIsCurrent*: after a vo_redraw() comes a draw, also if it found a request pending (but for
section 5); and when the VO thread rests the last frame is on the screen, unless it was dropped as late
and the player is not paused: pausing draws it. Delays
up to 2 give a point before the next, now, and a timer between; two repeats are a first and a
last one.

**demux_core.** *StreamsAreComplete*: from the time a stream is selected or sought its reader
gets every packet (but for section 5), nothing twice, no gap, and EOF is said only
after the last packet, unless the queues overflowed. *NobodyWaitsForEver*: a reader that waits
is called; the thread ends. The file has a stream twice, so that there is something before and
after the refresh position, and the queue limit of 2 is reached by one stream. The instance
also holds with three commands (2.8 million states, without liveness).

**ao_core.** *AoSleepsJustly*: the AO thread sleeps without a timer only if there is
nothing to write and no end to report. *DeviceIsRight*: device, queue and pins hold exactly what
was decoded since the last seek and not yet heard, and the pause state reaches the
device. *PlaybackEnds*: the file ends and the thread is joined, unless the user
stays in pause. The setups are six kinds of outputs, paired with a seek, two pauses, or a pause
for the cache. A file of three samples is longer than the queue, the queue longer than the
device: each can be full while the next is not.

**client_core.** *ClientsMissNothing* is three statements: events come in order, and where one is
missing the handle is choked, so that the user will be told of an overflow, and replies have
their places (NothingLostUntold); when the core rests and a user sleeps, the user has seen the last
value of each observed property, but for section 5 (SleepersAreCurrent); a hook comes after the
changes it follows (HooksComeAfterChanges). *HandlesOutliveUse*: nothing that is queued, running or
being read belongs to a handle that is gone.
*PlayerEnds*: after quit the core ends and every mp_destroy_client() returns (but for
section 5), whether it is the last strong handle that destroys the core or the first of those that called
mpv_terminate_destroy(); the others must not try to. A ring of 2 can be full of replies, of events, or of both.

**decoder_core.** *BothSleepJustly*: the thread sleeps in its dispatch queue, and the
player in its graph, only if nothing is left to do. *ServesFrames*: what the player reads is
FrameService: after a seek all frames in order, then one EOF, and nothing of an earlier position.
*DecodingEnds*: decoding reaches EOF or is given up, every lock is granted, and the thread is
joined. Two seeks are needed for one that meets the reset of another; two segments make the
inner EOF that must not come out; one packet of delay makes draining return a frame.

**render_core.** *ContextOutlivesUse*: when mpv_render_context_free() returned, nobody is or
will be in the context and no image is left in it. *ApplicationIsTold*: a frame or a request
that waits is known to the application, or update() is on its way. *EverybodyReturns*:
the render thread, the VO thread, the decoder and the core come out of every call they
make into each other, unless the assertion of section 5 ended it all. Two images and two draws are a frame that is replaced by a
next one while it is rendered.

**play_core.** *RestartIsExact*: when playback restarts after an exact seek, the shown
frame is the one asked for, and after any seek audio starts with its frame (or later
if it has none there). *PlaybackGoesOn*: playback restarts, queued seeks are executed, and the
file ends, unless it is paused or its source has stalled (and but for section 5). The ten setups are
files whose audio is as long as, shorter than or starts after the video, and files with one of
the two; slow and stalling sources; each end of file; each command.

**ranges_core.** *CacheIsTrue* is five statements, with the exceptions of section 5: a queue that is
read eagerly is a run of the file's packets (QueuesHaveNoGaps); nothing is appended twice
(NothingTwice); where find_cache_seek_range() offers a range, each queue has the keyframe a seek in the
file would find (SeekRangesAreTrue); subtitles that a range covers are there (SubsAreThere);
a reader is never beyond the packet it needs next, wherever the packets come from
(ReadersMissNothing). Seeks to 0 and 3 seconds in a file of five make two ranges that meet and are
joined; a third one is the limit. One setup joins ranges of video and subtitles, three have
caches so small that both ends are pruned, two switch tracks meanwhile. Without
`refreshing` after a join or a cached seek, with a resume seek that ends too late, without an
overlap to join at, or with last_pruned forgotten, a part of it fails. TypeOK says
that reader_head and keyframe_latest are in the queue.

TypeOK of each module is its only type invariant; besides types it holds the
bounds the code relies on (num_threads <= max_threads; woken readers exist; a counter
that must not go below zero; no frame offered on top of another).

## 4. Fairness

- Dispatch: the target's loop is weakly fair (nothing disables it but itself). The
  calls threads are in, the end of callbacks, unlocks and timeouts are strongly
  fair, as a mutex is released again and again and POSIX threads that want it get it in the
  end; there is no fairness on making calls. The target returns to
  mp_dispatch_queue_process() by itself without hooks, else only when told:
  a lost hook call would show.
- ThreadPool: workers are scheduled, callbacks return. Timeouts are not fair: no
  job may depend on one.
- DemuxThread: the thread runs when it is not waiting; Timeout (a spurious wakeup, or the
  periodic cache update) is not fair, so that progress never depends on it; demux_block_reading(false)
  follows a blocking seek, as in `playloop.c:mp_seek()`. Readers are not fair.
- AudioOutput: core, AO thread, device, decoder and demuxer are weakly fair, each on its own;
  seeks and pauses are not.
- ClientApi: the core and running commands are weakly fair. Calls that users are in are strongly
  fair (they compete for locks and for the core); making calls is not fair. When mpv_wait_event()
  returns, its user calls it again, or when the wakeup callback was called, as the API demands.
- DecoderThread: the decoder thread, the demuxer and the player's own steps are weakly fair;
  seeks, control calls and destruction are not, but the player that has read EOF destroys.
- RenderApi: VO thread, decoder, core and screenshots are weakly fair. The render thread is
  strongly fair, and with advanced control so is its reaction to update(), which
  `render.h` demands of the application; rendering itself and mpv_render_context_free() are not
  fair.
- PlayLoop: the core runs while it has not to sleep; VO and AO play what they were given; data
  arrives unless it stalled; the timers that the core set pass. Commands and stalls are not fair.
  Nothing else wakes the core: a forgotten mp_wakeup_core() shows as a stop.

VoQueue and ConfigCache are checked for safety; that no side sleeps on work is an invariant there.

## 5. Where code and comments disagree

The following were met while modelling. The models have them; a property that would be false
because of them names the exception, and is checked to hold otherwise.

1. `m_config_core.c:699`: the unlocked check of m_config_cache_get_next_changed()
   comes before the lock; a change in between to an option the iteration has passed is stamped
   over and never reported. It takes a second writer; in this tree only the core
   writes and iterates. (NextLosesOnlyRaces)
2. `vo.c:979`: a vo_redraw() between the draw of a frame and the end of render_frame()
   finds an earlier request set, does nothing, and is cleared with it. The next frame repairs it.
   (Overlooked, the only calls of vo_redraw() that RequestsAreDrawn leaves out)
3. `demux.c:2059`: a seek while streams refresh clears their positions but not
   `refreshing`; the first packet after the seek is dropped. Subtitle streams can lose one, as a
   refresh regards only video and audio (`demux.c:2048`). (`lost` in NoPacketMissed)
4. `demux.c:2662`: a track selected after the end of the file leaves in->eof set until its
   refresh seek is executed; if readers ask before, nobody starts reading. (`atEof` in ReaderIsAnswered)
5. `client.c:1698` and `1748`: a property that another thread than the core
   announces (`osd.c:256`) between getproperty_fn() and the lock is taken for the value that
   was just read. (`swallowed` in SleepersAreCurrent)
6. `client.c`: MPV_EVENT_SHUTDOWN is not sent to a handle whose queue is full; the core tries again
   when it runs, but by itself for two seconds only. `client.h:537` says that the event tells to
   quit. (NotTold in PlayerEnds)
7. `client.c:371`: mpv_wait_async_requests() of another thread resets need_wakeup and so can swallow
   a mpv_wakeup(), of which `client.h:1667` says that it interrupts the current or the next
   mpv_wait_event().
8. `audio.c:972`: "Wait until the AO has played all queued data." An underrun that the AO thread
   notices after the core looked for one is taken for the end while data is queued; at the end of
   playback ao_drain() plays the rest (`buffer.c:425`). (PlaybackEnds)
9. `playloop.c:933`: "Make it exact: stop seek only if last frame was reached" is defeated, as
   handle_keep_open() sets video_status to EOF right after (`playloop.c:951`) and
   video_output_image() looks at the exact target only while syncing: with keep-open, a seek past the end shows
   the first frame it decodes. (hrseek_lastframe in SeekIsExact)
10. `playloop.c:473`: if the player is paused after a loop has sought without a flush, the new audio waits for
   the end of the old (`audio.c:909`), which does not move: the restart is not completed, and a seek that is delayed
   waits for something else to wake the core. (PausedInLoop, which must then hold for ever)
11. `audio.c:670` and `954`: the queue wakes the core when it is full only if audio is not
   playing, so that after an underrun of audio alone nothing restarts the AO until something
   else wakes the core; in the program timers of the cache and the OSD do. (Unrecovered)
12. `dr_helper.c:31`: "All references must have been freed on destruction", which is asserted. A software
    screenshot (`screenshot.c:370`) is a reference to the current frame, which may be a direct rendering
    image, and is written with the core unlocked; mpv_render_context_free() does not wait for
    it. ("aborted" in RenderApi: ReferencesAreFreed says that nothing else holds an image then.)
13. `demux.c:3953`: "Streams which didn't have any packets yet will return all packets": not if they were
    left `refreshing` by a join or a cached seek, or joined a range without packets of theirs;
    then there is nothing to resume behind, and `demux.c:2052` drops the first one. (`unseen`)
14. `demux.c:2252`: when the queues are full, streams that starve are marked EOF, and with
    them their queue: the range says that the file ends there until the next packet of the
    stream arrives. (Overrun)
15. `demux.c:637`: a queue that is empty at EOF, as after a switch near the end, or has no keyframe
    yet, does not limit its range; a seek in it gets nothing of this stream. (FindsTarget)
16. `demux.c:3996`: after_seek avoids a redundant seek, but the seek may have been one that resumes
    behind a range; a track that is selected then begins at the end of the range instead
    of at the position of the reader. (Resumed)
17. `demux.c:2393`: last_pruned is kept only if the queue had a start; the first subtitle may be pruned
    before. Nor does a range know that it was read before a subtitle track was selected. (`gone`,
    SubsAreThere)
18. `client.c:1575`: a hook that is kept back until a property was delivered (`client.c:932`) is
    free to be delivered when another thread unobserves this property, but
    mpv_unobserve_property() wakes nobody: the client sleeps on the hook, and the core waits for
    it, until something else wakes the client. (`orphaned` in SleepersAreCurrent)

## 6. Proofs

Every proof has the same shape: an inductive invariant with the type invariant and the property
among its conjuncts, a lemma per action (`<Action>Keeps`, or a group of actions), and the theorem
from `Init`, `Next` and PTL. TLC checked each inductive invariant, with every conjunct, on the
instance of the component's run before it was proved. The theorems hold for all values of the
constants that satisfy the named ASSUMEs, which TLC evaluates on every run; those that bound a model
(MaxItems, MaxTs, MaxImages, ...) are any numbers.

### Dispatch

`DispatchProofs`, for any finite set of threads, any set of callbacks and any bound on the queue:

| theorem | property | says |
|---|---|---|
| DispatchTypeOK | TypeOK | types; lock_requests, a size_t, never goes below zero |
| TargetOwnership | TargetIsOwned | the next three together |
| MutualExclusion | (Exclusive) | the lock holder is alone with the target's state |
| RequestsAreCounted | (LockAccounting) | lock_requests = threads in or past mp_dispatch_lock() |
| AssertsHold | (LockedIsOwned) | the asserts on `locked` |
| LockInvariant | - | their conjunction, which is inductive |
| BooksAreRight | - | LockInv and the books of the queue, inductive |
| NobodyWaits | NobodyWaitsInVain | no wakeup is lost, and no item |
| ImplementsDispatchService | ImplementsService | the refinement of DispatchService |

Assumptions: threads are finitely many, differ from the target and from "none"; items of different
kinds differ; the bounds are numbers; the hooks are the two that exist.

Argument. *Exclusive* alone is not inductive: a step of the target from "loop" to "out"
would break it if somebody held the lock. The guard of that step is lock_requests = 0, so
one needs that the number counts the holder: *LockAccounting*. A thread gets the
lock if `locked` is false and `in_process` true; that this means a target which is caught
and runs nothing is *LockedIsOwned*. Counting needs the types (a finite set of
requesters, a natural number). Most actions are disposed of by two lemmas: those that leave the
five lock variables and the requesters alone (LockUntouched), and those that move a thread
within one side of LockPhase (SameRequesters).

*BookInv* adds what the queue holds. The property counts the places of an item; the invariant says
without counting that an item is there at most once (Once), and exactly when its caller
waits in mp_dispatch_run() (RunBook) or its notification is merged (NotifyBook); PlacesCounted turns
one into the other. A callback runs while `cur` is its item (CurBook); who waits in the second loop of
mp_dispatch_lock() is counted, so the target is still inside (LockersInside).

The refinement maps `owner` to the holder, to the target where it runs its own code or a callback, and
to nobody else, and `request` to the place of a caller of mp_dispatch_run(). Under BookInv each action
is Take, Give, Submit, Serve, Return or a stutter (a lemma for each of these, then one step per action).

### ConfigCache

`ConfigCacheProofs`, for any tree of groups and options, any caches and any number of changes:

| theorem | property | says |
|---|---|---|
| ConfigTypeOK | TypeOK | types |
| EqualStampsEqualData | StampTellsData | a group that update_next_option() skips is up to date |
| UpdatesAreComplete | UpdateSeesAll | a cache at rest that was not told of anything has all changes |
| CallbacksEnd | NoLateCallback | no callback after it was unset |
| IterationsLoseOnlyRaces | NextLosesOnlyRaces | an iteration reports every change but those between its check and its lock |
| DataInvariant, ReadInvariant, IterInvariant | - | the inductive invariants |

Assumptions: the two kinds of caches are disjoint, "none" is neither a cache nor a position (the -1 of
upd_group is no index), a cache owns a contiguous part of the groups, the default is a value.

Argument. *StampTellsData* needs that no stamp is ahead of its source (StampOrder), so that
a write makes its group stale in every cache, and that an update starts with the
cache's first option (StartsOver), so that it passes all of them: DataInv. *UpdateSeesAll* is about
caches at rest and says nothing of the steps that lead there. StaleIsKnown does, of every
group that is stale: it is newer than the time of the last unlocked check (WillBeSeen, so
the next check succeeds), and its cache was told of it, is reading, chose not to
listen, or will be told when the writer that holds the lock goes through the
listeners (WillBeTold). The last case needs that this writer wrote one group only
(OneNotifier). For iterations stale groups are not enough, as an iteration that returns in the middle
of a group has not read the rest of it: DifferenceIsKnown says of every option that differs
that its group is stale and either newer than the check or not passed yet (Ahead).
*NoLateCallback* is inductive with the types.

### ThreadPool

`ThreadPoolProofs`, for any set of workers at least as large as max_threads, any jobs and limits:

| theorem | property | says |
|---|---|---|
| PoolTypeOK | TypeOK | types; never more than max_threads threads |
| NoJobIsSleptOver | NoJobSleptOver | while a worker sleeps, each queued job has a worker that is up for it |
| QueueingNeverFails | (QueueNeverFails, part of PoolDelivers) | mp_thread_pool_queue() does not fail on a pool created with threads |
| PoolInvariant | - | PoolInv, inductive |

Argument. One pthread_cond_signal() per job is enough because the workers that are up are at least as
many as the jobs: NoJobSleptOver is a comparison of cardinalities, kept because a worker goes to
sleep only when it sees no job. It needs that `threads` are the threads that exist (Members) and
busy_threads counts those that run a job (Counted). That a timed out worker decides to leave and
leaves in one critical section (Leavers) keeps min_threads of them (Enough), so that a pool with
threads always has one that takes the job.

### VoQueue

`VoQueueProofs`, for any set of delays closed under the passing of time and any number of repeats:

| theorem | property | says |
|---|---|---|
| VoTypeOK | TypeOK | types |
| VoAgrees | ThreadsAgree | vo_queue_frame() finds the queue free; neither thread sleeps over what concerns it |
| PictureCurrent | PictureIsCurrent | what vo_redraw() asks for is drawn, unless Overlooked (section 5); at rest the last frame is shown, unless dropped as late while playing |
| VoInvariant | - | VoInv, inductive |

Argument. The property looks at a VO thread that is asleep. VoKnows says how it gets there: as
long as need_wakeup is clear, what the thread saw at the places of its round that it has passed
(Working, Looked, Settled, Sleepy) still holds, because everything that would change it sets
need_wakeup. For the core, what it waits for is a pending request (Calls), a time in wakeup_pts
that is not after the one it asked for (ReadyIsTold), the end of the last frame queued
(EndIsTimed) or wakeup_on_done (DoneIsTold). PicInv carries a redraw request through the round:
redraw_at_start means that it is still set, and by the flip has been drawn, but for calls since. A frame not given
to the driver is about to be, or was dropped; if it was dropped and the player is paused, a redraw is requested.

### RenderApi

`RenderApiProofs`, for any number of images, redraws and screenshots and both settings of
MPV_RENDER_PARAM_ADVANCED_CONTROL:

| theorem | property | says |
|---|---|---|
| RenderTypeOK | TypeOK | types; no frame is offered on top of another, dr_in_flight does not underflow |
| ContextIsSafe | ContextOutlivesUse | mpv_render_context_free() returns when nobody comes back to the context and all DR images are freed |
| ApplicationAlwaysTold | ApplicationIsTold | no frame and no request is slept over |
| RenderInvariant | - | RenderInv, inductive |

Argument. Everybody who uses the context lives within the VO: VoInv (where VO and core are together)
and ChainInv (decoder and queue within the chain, the chain within the VO); ContextInv ties
in_use and the lock to that life. Images are counted: HolderInv says for each holder which image
it has, so that the last one to let go is known, FlightInv that dr_in_flight is the number of images
somebody holds plus the "free" items in the dispatch queue. Then a context that is freed with
nothing in flight has no image left, and not even a screenshot can queue another
item (FreedInv). An image is moved by the operators Hold, Drop and MakeCur; With, Without, MadeCur say
what they do, and Moved what all of them keep (the balance of dr_in_flight, nobody takes an image
that was freed, only "free" items are appended), so that MovedKeeps disposes of half the
invariant for all steps made of them. ImagesKept does so for the steps that touch no image.

### AudioOutput

`AudioOutputProofs`, for any length of the file, any sizes of queue and device, any set of setups and
any number of seeks:

| theorem | property | says |
|---|---|---|
| AudioTypeOK | TypeOK | types; queue and device never hold more than their sizes |
| AoNeverSleepsTooLong | AoSleepsJustly | playthread does not sleep over frames, an end or terminate |
| AudioReachesDevice | DeviceIsRight | what is heard is what was decoded since the seek; pausing reaches the device |
| AudioInvariant | - | Inv, inductive |

Argument. The property compares what is heard with what was decoded; no step but the decoder's
makes frames, so the invariant numbers them. Flows says that queue, writing end and decoder
hold a run of consecutive numbers up to `next`; it is kept by taking from the front (FlowTakes),
by passing on (FlowPushes, FlowMoves, FlowMakes) and by emptying the queue (FlowEmpties).
Ordered and Whole say that the device holds what is between the last sample heard or
dropped and the first of that run; they are kept when the device takes, plays or drops
(DeviceTakes, DevicePlaysAtOnce, DeviceGives, DeviceDrops). The queue is emptied before the filters
are (HandleEof, ResetPlayback); in between (Emptied) only Ordered holds, and SeekInv says that
nothing plays. A seek starts above everything decoded so far; that the numbers stay within the
model's samples needs the seeks to be counted (SeekInv). For sleeping, NothingToDo holds from the
moment playthread leaves ao_play_data() without retry, and breaks only together with need_wakeup or
while the core is about to call ao_wakeup_playthread() (waking): pushing a frame wakes it unless the
queue's graph was told already, and then it had not gone to sleep. PauseReachesDevice needs that
hw_paused is the state of the device, and that recovery is owed only by a device that was reset.
AudioIsContinuous is stated with the set of samples and their order; a sequence that is in order and
holds the samples First to LastDecoded is the sequence of these numbers.

### DecoderThread

`DecoderThreadProofs`, for any number of packets, segments, codec delay and queue size, and any number of
seeks and controls:

| theorem | property | says |
|---|---|---|
| DecoderTypeOK | TypeOK | types, and the asserts of filter.c about pins |
| SleepIsJust | BothSleepJustly | neither thread sleeps over something nobody will tell it of |
| DecoderServesFrames | ServesFrames | the refinement of FrameService: every frame of the position once, in order, then EOF |
| DecoderInvariant | - | Inv, inductive |

Argument. A runner without pending filters sleeps; that it may says Quiet: a filter that is neither
pending nor notified has nothing to do. Each process() leaves its own filter quiet or pending
again, and makes pending whoever is at the other end of a pin it changed (Looks); to know that nothing
else concerns the others one needs what pins and codec can be (PinsInv, CodecInv). RunnerInv and
CoreInv carry a notification to the thread it is for: from `async` through `sent` to the interrupted
dispatch queue, or to core.woken. For the frames FlowInv reads everything between the player and the
demuxer, from downstream to upstream, as one sequence, the packets of the position in their order and
the EOF last; process() only moves the border between two of its parts (Shifts). A drain that a new
segment asked for puts an EOF on the way that is not one of the stream: Real and Held do not
count it. In the middle of a seek (Stale) the graph still holds the old position, and nothing is said
about it; SeekInv says which parts are reset when, so that FlowInv holds again when the lock is
given back. The refinement follows from FlowInv alone, as the next frame of the player is the one at
the head of that sequence.

### ClientApi

`ClientApiProofs`, for any handles, properties, values and size of the ring, and any setups with
distinct clients:

| theorem | property | says |
|---|---|---|
| ClientTypeOK | TypeOK | types; stamps never ahead of the changes, the cursor within the list |
| HandlesOutlive | HandlesOutliveUse | no request, command or read belongs to a handle that is gone |
| NothingMissed | ClientsMissNothing | no event is lost without a word, nobody sleeps on news, hooks come after changes |
| ClientInvariant | - | Inv, inductive |

Argument. Inv says three things of every handle. Own is what it is by itself: the ring has
room for what is reserved, the stamps of a property are ordered, a property that is ready lies ahead of the
cursor or new_events is set. Linked is how it fits to the core, the list and the values:
what differs from the property is stale (ValuesTrue); what is stale is pending, or the core is about
to read it (StaleKnown); what is pending the core still comes to, or it was woken
(PendingKnown); and a user does not sleep when something was read that is ready
(SleepsJustly). Followed from the value to the user, this chain is SleepersAreCurrent. Booked counts
reserved places as the places that the handle has in the dispatch queue and among the running
commands; HandlesOutliveUse follows, as a handle leaves the list with no place reserved (Life). For
the events, InOrder and NoGap say that the numbers in the ring are those from told to
sent, but for what a choked handle lost. ReadInv is about the one property that the core reads unlocked.
As Own and Linked have the handle and the core as parameters, there is one lemma for each
thing that happens to a handle (EventSent, NotifiedIs, PropertyTold and so on); OneHandle,
EveryHandle, CoreAlone and ServesOne carry these over to Inv'; and each action has one lemma. The proof
attempt led to exception 18 of section 5: that a sleeper has no event in its ring is false without
it, and a setup of client_core now shows why (a hook, an observed property and a handle that polls).

### Only model-checked

Liveness (EverybodyReturns and its like, CallersReturn, PoolDelivers and so on) and what needs
ENABLED: out of the prover's reach, DecodingEnds of DecoderThread and PlayerEnds of ClientApi among it.
Everything about DemuxThread, DemuxRanges and PlayLoop: not proved (section 8). The
functions of DemuxRanges fold over sets of packets; what a fold computes for every set needs
induction over data, which the installed provers cannot instantiate.

## 7. Not modelled

Inside the modelled components:
- ConfigCache: creation of a cache while others write, change_flags,
  m_config_cache_set_wakeup_cb() without dispatch queue and mp_read_option_raw();
- VoQueue: vsync statistics, display rate, event masks, screenshots and drivers with their own
  wait_events;
- DemuxThread and DemuxRanges: disk cache, backward demuxing, attached pictures, closed captions,
  metadata, update_cache(), read_until, hysteresis, demuxer_refresh_track(), SEEK_FORWARD, the
  index, timestamps that do not grow, changes of options, cancellation and demuxing without a
  thread;
- AudioOutput: creation of the AO, reinitialisation after a format change, drivers that pull
  (none in this tree), volume, device hotplug, rounding to periods and times in samples;
- ClientApi: creation of handles, log messages, event masks, aborting requests, the wakeup pipe,
  conversion of values, several handlers of a hook, the command line player (is_cli), which
  is not destroyed by its clients;
- DecoderThread: backward playback, cover art, frame dropping, timestamps and clipping, decoding
  errors, choosing a decoder; building graphs, filters that run graphs inside, filter commands;
- RenderApi: resizing, reconfiguration, options, swap reports, frames without image;
- PlayLoop: A-B loops, pauses for the cache (AudioOutput has them), chapters, subtitles, track
  switching, display sync, backward playback, the playlist and reloading, --sstep and --frames
  (step_sec and max_frames); the
  underrun flag of the video chain, which only causes one more wakeup.

Left out for good, with the reason:
- demuxer implementations, decoders, filters' arithmetic, frames, format conversion:
  sequential code over data TLC cannot enumerate, or wrappers of libraries;
- VO and AO drivers, renderers, platform code, streams, subprocesses: devices and system
  calls; mutexes and condition variables are taken by their POSIX meaning;
- option parsing, properties, most commands, tags, text utilities: sequential, on one
  thread, or formatting;
- subtitles and OSD: rendering under one lock per object (the order of these locks is a
  candidate);
- encoding, recording, statistics: bookkeeping;
- Lua and its bindings: clients whose protocol is that of the client API.

## 8. Plan

Done since the first version of this plan: AudioOutput, ClientApi (which was ClientEvents and
PropertyObserve), DecoderThread (AsyncQueue, FilterGraph and DecoderWrapper in one, as their
hazards are in between), RenderApi, PlayLoop, DemuxRanges. What is left, in order; each module is written to
be proved about (constants with named assumptions, one action per operation, no RECURSIVE):

| module | composes with | question | bounds |
|---|---|---|---|
| Cancel | - | parent, slaves, callbacks | 3 objects |
| PlayLoop | DemuxThread | track switching, pauses for the cache | 2 switches |
| InputQueue, MsgBuffer | - | if they show more than one lock does | - |

The first is the hazard no property covers yet (`thread_tools.c:232`).

Theorems left to prove, in this order:
1. DemuxThread: StreamsAreComplete, for any file.
2. PlayLoop: TypeOK, which has the asserts of its state machine.
