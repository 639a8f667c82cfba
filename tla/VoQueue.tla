-------------------------------- MODULE VoQueue --------------------------------
(***************************************************************************)
(* video/out/vo.c: the playback core hands frames to the VO thread and     *)
(* sleeps until vo->extra.wakeup_cb says that the next one can be queued,  *)
(* or that the last one is over; the VO thread renders, repeats frames in  *)
(* display sync mode, redraws on request, and sleeps until need_wakeup, a  *)
(* timer or an event.                                                      *)
(*                                                                         *)
(* Points in time are kept relative to now: 0 has come, k > 0 comes after  *)
(* k more Ticks.  One step is one critical section of in->lock, or what    *)
(* the VO thread does between two of them.  The dispatch queue of the VO   *)
(* (module Dispatch) is reduced to the request the core waits for.         *)
(***************************************************************************)
EXTENDS Integers

CONSTANTS Uses,        \* what the core may do, see the guards of its actions
          Delays,      \* how far ahead points in time may lie
          MaxVsyncs,   \* how often a frame is shown in display sync mode
          None

\* Time passes tick by tick.
ASSUME DelaysAssumption == /\ Delays \subseteq Nat /\ 0 \in Delays
                           /\ \A d \in Delays : d > 0 => d - 1 \in Delays
ASSUME VsyncsAssumption == MaxVsyncs \in Nat

Unset == -1   \* wakeup_pts = 0
Never == -2   \* wait_until = now + 1e9, a timer nothing relies on

\* struct vo_frame; "end" is pts + MPMAX(duration, 0).
Frame == {f \in [synced : BOOLEAN, vsyncs : 0 .. MaxVsyncs, pts : Delays, end : Delays] :
            IF f.synced THEN f.pts = 0 /\ f.end = 0
                        ELSE f.vsyncs <= 1 /\ f.pts <= f.end}

\* No frame is a NULL pointer.
ASSUME NoneAssumption == None \notin Frame

VARIABLES frame_queued, current_frame, hasframe, hasframe_rendered,
          rendering, dropped_frame, paused, request_redraw,
          want_redraw,     \* in->want_redraw, seen by the core
          driver_want,     \* vo->want_redraw, set by the driver
          send_reset, wakeup_on_done, wakeup_pts, need_wakeup, config_ok,
          waiting,         \* threads asleep on in->wakeup: "core", "vo"
          request,         \* what mp_dispatch_run() asks of the VO thread
          vpc, vo_paused,
          until,           \* the VO thread's wait_until
          redraw_at_start, \* request_redraw when rendering started
          cpc,             \* what the core does
          asked,           \* next_pts of the refused vo_is_ready_for_frame()
          early,           \* the next frame was refused as too early
          core_woken,      \* wakeup_core() was called
          shown,           \* ghost: current_frame was given to the driver
          uses,            \* one of Uses, never changes
          osd              \* ghost: no draw started since one was asked for ("stale"), or
                           \* since a vo_redraw() that was Overlooked ("merged")

frames == <<frame_queued, current_frame, hasframe, hasframe_rendered, dropped_frame, shown>>
redraw == <<request_redraw, want_redraw, driver_want, redraw_at_start, osd>>
timing == <<wakeup_on_done, wakeup_pts, until>>
thread == <<vpc, vo_paused, rendering>>
core   == <<cpc, asked, early>>
wakeup == <<need_wakeup, waiting>>
others == <<paused, send_reset, config_ok, request>>

vars == <<frames, redraw, timing, thread, core, wakeup, others, core_woken, uses>>

Init == /\ frame_queued = None /\ current_frame = None
        /\ hasframe = FALSE /\ hasframe_rendered = FALSE
        /\ rendering = FALSE /\ dropped_frame = FALSE
        /\ paused = FALSE /\ vo_paused = FALSE
        /\ request_redraw = FALSE /\ want_redraw = FALSE /\ driver_want = FALSE
        /\ send_reset = FALSE
        /\ wakeup_on_done = FALSE /\ wakeup_pts = Unset
        /\ need_wakeup = FALSE /\ waiting = {}
        /\ config_ok = FALSE /\ uses \in Uses
        /\ request = "none"
        /\ vpc = "dispatch" /\ until = Never
        /\ redraw_at_start = FALSE
        /\ cpc = "run" /\ asked = Unset /\ early = FALSE /\ core_woken = FALSE
        /\ shown = TRUE /\ osd = "drawn"
--------------------------------------------------------------------------------
\* wakeup_locked(): the VO thread, and whoever waits on the same condition.
WakeupLocked == need_wakeup' = TRUE /\ waiting' = {}
Broadcast == waiting' = {} /\ UNCHANGED need_wakeup
WakeupCore == core_woken' = TRUE

VsyncsLeft(f) == f # None /\ f.vsyncs >= 1
ReadyIfUnqueued == config_ok /\ frame_queued = None
ReadyNow == config_ok /\ frame_queued = None /\ ~VsyncsLeft(current_frame)

\* forget_frames(): queued frames go, the current one is kept for redraws.
ForgetRepeats == IF current_frame = None THEN None
                 ELSE [current_frame EXCEPT !.vsyncs = 0, !.synced = FALSE]
ForgetFrames(cur) == /\ hasframe' = FALSE
                     /\ hasframe_rendered' = FALSE
                     /\ frame_queued' = None
                     /\ current_frame' = cur
                     /\ UNCHANGED dropped_frame

StillDisplaying ==
  /\ hasframe
  /\ \/ rendering
     \/ frame_queued # None
     \/ /\ current_frame # None
        /\ IF current_frame.synced THEN current_frame.vsyncs > 0 ELSE current_frame.end > 0
--------------------------------------------------------------------------------
(* The playback core.  It calls one function at a time; when it has nothing  *)
(* to do it sleeps until it is woken.                                        *)

\* vo_is_ready_for_frame(); next = Unset stands for a negative next_pts.
NextPts == Delays \union {Unset}
IsReadyForFrame(next) ==
  /\ cpc = "run"
  /\ LET update == ReadyNow /\ next # Unset /\ (wakeup_pts = Unset \/ next < wakeup_pts)
     IN /\ wakeup_pts' = IF update THEN next ELSE wakeup_pts
        /\ IF update /\ next > 0 THEN WakeupLocked ELSE UNCHANGED wakeup
        /\ \/ /\ ReadyNow /\ next <= 0
              /\ cpc' = "ready"
              /\ UNCHANGED <<asked, early>>
           \/ /\ ~(ReadyNow /\ next <= 0)
              /\ cpc' = "wantready"
              /\ asked' = next
              /\ early' = (early \/ ReadyNow)
           \/ /\ ReadyNow /\ next = Unset   \* at the end of the file
              /\ UNCHANGED <<cpc, asked, early>>
  /\ UNCHANGED <<frames, redraw, wakeup_on_done, until, thread, others, core_woken>>

\* vo_queue_frame(); it asserts QueueIsFree.  write_video() and schedule_frame()
\* have a frame without display sync drawn once.
NewFrame == {f \in Frame : f.synced \/ f.vsyncs = 1}
QueueFrame(f) ==
  /\ cpc = "ready"
  /\ hasframe' = TRUE
  /\ frame_queued' = f
  /\ wakeup_pts' = IF f.synced THEN Unset ELSE f.end
  /\ WakeupLocked
  /\ cpc' = "run"
  /\ early' = FALSE
  /\ UNCHANGED <<current_frame, hasframe_rendered, dropped_frame, shown, redraw,
                 wakeup_on_done, until, thread, asked, others, core_woken>>

\* vo_wait_frame(), with the condition variable the VO thread broadcasts.
WaitFrame ==
  /\ cpc = "run" \/ (cpc = "waitframe" /\ "core" \notin waiting)
  /\ IF frame_queued # None \/ rendering
       THEN cpc' = "waitframe" /\ waiting' = waiting \union {"core"}
       ELSE cpc' = "run" /\ UNCHANGED waiting
  /\ UNCHANGED <<frames, redraw, timing, thread, asked, early, need_wakeup, others, core_woken>>

\* vo_request_wakeup_on_done().  write_video() asks for it before a reconfig, and
\* for a frame that it has not asked vo_is_ready_for_frame() about.
RequestWakeupOnDone ==
  /\ cpc = "run" /\ "done" \in uses /\ ~early
  /\ cpc' = "wantdone"
  /\ IF StillDisplaying THEN wakeup_on_done' = TRUE /\ UNCHANGED core_woken
                        ELSE WakeupCore /\ UNCHANGED wakeup_on_done
  /\ UNCHANGED <<frames, redraw, wakeup_pts, until, thread, asked, early, wakeup, others>>

\* vo_redraw().  If the frame was drawn already and render_frame() clears the request it
\* started with (in->request_redraw = false), nobody draws again.
Overlooked == vpc = "flip" /\ redraw_at_start /\ osd # "stale"
Redraw ==
  /\ cpc = "run" /\ "redraw" \in uses /\ config_ok
  /\ osd' = IF request_redraw /\ Overlooked THEN "merged" ELSE "stale"
  /\ IF request_redraw
       THEN UNCHANGED <<request_redraw, want_redraw, wakeup>>
       ELSE /\ request_redraw' = TRUE
            /\ want_redraw' = FALSE
            /\ WakeupLocked
  /\ UNCHANGED <<frames, driver_want, redraw_at_start, timing, thread, core, others, core_woken>>

\* vo_set_paused(): a dropped frame has to be drawn after all.
PauseNeedsNothing(p) == FALSE
PauseNeedsDraw(p) == p /\ dropped_frame
SetPaused(p) ==
  /\ cpc = "run" /\ "pause" \in uses /\ p # paused
  /\ paused' = p
  /\ IF PauseNeedsDraw(p)
       THEN /\ request_redraw' = TRUE
            /\ osd' = IF request_redraw THEN osd ELSE "stale"
            /\ WakeupCore
       ELSE UNCHANGED <<request_redraw, osd, core_woken>>
  /\ WakeupLocked
  /\ UNCHANGED <<frames, want_redraw, driver_want, redraw_at_start, timing,
                 thread, core, send_reset, config_ok, request>>

\* vo_seek_reset()
SeekReset ==
  /\ cpc = "run" /\ "seek" \in uses
  /\ ForgetFrames(ForgetRepeats)
  /\ send_reset' = TRUE
  /\ early' = FALSE
  /\ WakeupLocked
  /\ UNCHANGED <<shown, redraw, timing, thread, cpc, asked, paused, config_ok, request, core_woken>>

\* vo_reconfig(), vo_destroy() and vo_control() wait until the VO thread has called
\* back (mp_dispatch_run()); dispatch_wakeup_cb() wakes it.
Request(r) ==
  /\ cpc = "run"
  /\ request' = r
  /\ cpc' = "request"
  /\ WakeupLocked
  /\ UNCHANGED <<frames, redraw, timing, thread, asked, early, paused, send_reset, config_ok, core_woken>>

RequestDone == /\ cpc = "request" /\ request = "none"
               /\ cpc' = IF vpc = "out" THEN "gone" ELSE "run"
               /\ UNCHANGED <<frames, redraw, timing, thread, asked, early, wakeup, others, core_woken>>

\* Something else wakes the core as well: input, audio, its own timers.
WakeCore ==
  /\ cpc \in {"wantready", "wantdone"}
  /\ cpc' = "run"
  /\ asked' = Unset
  /\ core_woken' = FALSE
  /\ UNCHANGED <<frames, redraw, timing, thread, early, wakeup, others>>

\* dispatch_wakeup_cb() of what is queued without waiting (vo_control_async(),
\* changes of options), and vo_event() of a driver.
VoWakeup == /\ WakeupLocked
            /\ ~need_wakeup
            /\ UNCHANGED <<frames, redraw, timing, thread, core, others, core_woken>>
--------------------------------------------------------------------------------
(* The VO thread: one round of its loop is dispatch, render, check, and then *)
(* a redraw or a wait.                                                       *)

\* mp_dispatch_queue_process() and VOCTRL_CHECK_EVENTS.
Dispatch ==
  /\ vpc = "dispatch"
  /\ request' = "none"
  /\ \/ /\ request = "none"
        /\ vpc' = "render"
        /\ UNCHANGED <<frames, config_ok>>
     \/ /\ request = "reconfig"
        /\ vpc' = "render"
        /\ config_ok' \in BOOLEAN
        /\ ForgetFrames(None)
        /\ UNCHANGED shown
     \/ /\ request = "terminate"
        /\ vpc' = "out"
        /\ ForgetFrames(None)
        /\ UNCHANGED <<config_ok, shown>>
  /\ driver_want' \in {driver_want, "wish" \in uses}
  /\ UNCHANGED <<request_redraw, want_redraw, redraw_at_start, osd, timing,
                 vo_paused, rendering, core, wakeup, paused, send_reset, core_woken>>

\* The end of render_frame(): more_frames, and the wakeup_on_done request.
MoreFrames == \/ VsyncsLeft(current_frame) /\ current_frame.synced
              \/ frame_queued # None /\ frame_queued.synced
FrameDone(woken) ==
  /\ wakeup_on_done' = (wakeup_on_done /\ StillDisplaying')
  /\ core_woken' = (core_woken \/ woken \/ (wakeup_on_done /\ ~StillDisplaying'))
  /\ until' = IF MoreFrames' THEN 0 ELSE Never
  /\ vpc' = "check"

\* render_frame() up to the unlock: which frame is drawn or repeated, and whether.
Taken == IF frame_queued # None THEN frame_queued ELSE current_frame
NothingToRender == /\ frame_queued = None
                   /\ \/ paused \/ ~hasframe
                      \/ ~(VsyncsLeft(current_frame) /\ current_frame.synced)
RepeatForever(f) == [f EXCEPT !.vsyncs = @ - 1]
Repeat(f) == [f EXCEPT !.vsyncs = IF @ > 0 THEN @ - 1 ELSE 0]
Late(f) == IF f.synced THEN f.vsyncs < 1 ELSE f.end = 0 /\ hasframe_rendered
MayDrop(f) == ~paused /\ Late(f)

SkipRender ==
  /\ vpc = "render"
  /\ NothingToRender
  /\ until' = Never
  /\ wakeup_on_done' = (wakeup_on_done /\ StillDisplaying)
  /\ core_woken' = (core_woken \/ (wakeup_on_done /\ ~StillDisplaying))
  /\ vpc' = "check"
  /\ UNCHANGED <<frames, redraw, wakeup_pts, vo_paused, rendering, core, wakeup, others>>

\* The frame is late.  A frame for display sync is then dropped always, another
\* one if can_drop, its duration and the time of the last one say so.
DropFrame ==
  /\ vpc = "render"
  /\ ~NothingToRender /\ MayDrop(Taken)
  /\ current_frame' = Repeat(Taken)
  /\ frame_queued' = None
  /\ dropped_frame' = TRUE
  /\ shown' = (shown /\ frame_queued = None)
  /\ Broadcast
  /\ UNCHANGED <<hasframe, hasframe_rendered, redraw, wakeup_pts, vo_paused, rendering,
                 core, others>>
  /\ FrameDone(TRUE)

\* Can the core queue new video now?
CanQueue(f) == f.vsyncs < 1 \/ ~f.synced \/ paused

StartRender ==
  /\ vpc = "render"
  /\ ~NothingToRender /\ ~(Taken.synced /\ MayDrop(Taken))
  /\ current_frame' = Repeat(Taken)
  /\ frame_queued' = None
  /\ dropped_frame' = FALSE
  /\ shown' = (shown /\ frame_queued = None)
  /\ rendering' = TRUE
  /\ hasframe_rendered' = TRUE
  /\ redraw_at_start' = request_redraw
  /\ vpc' = IF CanQueue(current_frame') THEN "kick" ELSE "draw"
  /\ UNCHANGED <<hasframe, request_redraw, want_redraw, driver_want, osd,
                 timing, vo_paused, core, wakeup, others, core_woken>>

Kick == /\ vpc = "kick"
        /\ WakeupCore
        /\ vpc' = "draw"
        /\ UNCHANGED <<frames, redraw, timing, vo_paused, rendering, core, wakeup, others>>

\* draw_frame of the driver, with the OSD as it is now.
DrawFrame == /\ vpc = "draw"
             /\ shown' = TRUE /\ osd' = "drawn"
             /\ vpc' = "flip"
             /\ UNCHANGED <<frame_queued, current_frame, hasframe, hasframe_rendered,
                            dropped_frame, request_redraw, want_redraw, driver_want,
                            redraw_at_start, timing, vo_paused, rendering, core, wakeup,
                            others, core_woken>>

\* wait_until() the frame's time, flip_page, and the second critical section.
FrameDue == current_frame.pts = 0

\* The driver may have counted a dropped frame (vo_increment_drop_count).
ClearRequest(dropped) == request_redraw /\ (dropped \/ ~redraw_at_start)

EndRender ==
  /\ vpc = "flip" /\ FrameDue
  /\ rendering' = FALSE
  /\ dropped_frame' \in BOOLEAN
  /\ request_redraw' = ClearRequest(dropped_frame')
  /\ Broadcast
  /\ UNCHANGED <<frame_queued, current_frame, hasframe>>
  /\ FrameDone(FALSE)
  /\ redraw_at_start' = FALSE
  /\ UNCHANGED <<hasframe_rendered, shown, want_redraw, driver_want, osd, wakeup_pts, vo_paused, core, others>>

\* vo_thread() after render_frame(): timers, wishes of the driver, and what has
\* changed meanwhile.  VOCTRL_RESET and VOCTRL_PAUSE may make it wish a redraw.
TimerDue == wakeup_pts = 0
Check ==
  /\ vpc = "check"
  /\ wakeup_pts' = IF TimerDue THEN Unset ELSE wakeup_pts
  /\ core_woken' = (core_woken \/ TimerDue \/ (driver_want /\ ~want_redraw))
  /\ want_redraw' = (want_redraw \/ driver_want)
  /\ driver_want' \in {FALSE, "wish" \in uses /\ (send_reset \/ paused # vo_paused)}
  /\ send_reset' = FALSE
  /\ vo_paused' = paused
  /\ LET wait == IF until = Never /\ wakeup_pts > 0 THEN wakeup_pts ELSE until
     IN IF wait # 0 /\ request_redraw
          THEN vpc' = "redraw" /\ until' = wait
          ELSE vpc' = "wait" /\ until' = IF driver_want' THEN 0 ELSE wait
  /\ UNCHANGED <<frames, request_redraw, redraw_at_start, osd, wakeup_on_done,
                 rendering, core, wakeup, paused, config_ok, request>>

\* do_redraw(): the request is cleared before the OSD is drawn.
DoRedraw ==
  /\ vpc = "redraw"
  /\ IF config_ok THEN /\ vpc' = "redrawing"
                       /\ request_redraw' = FALSE
                       /\ dropped_frame' = (dropped_frame /\ current_frame = None)
                  ELSE /\ vpc' = "dispatch"
                       /\ UNCHANGED <<request_redraw, dropped_frame>>
  /\ UNCHANGED <<frame_queued, current_frame, hasframe, hasframe_rendered, shown, want_redraw,
                 driver_want, redraw_at_start, osd, timing, vo_paused, rendering,
                 core, wakeup, others, core_woken>>

DrawAgain == /\ vpc = "redrawing"
             /\ shown' = TRUE /\ osd' = "drawn"
             /\ vpc' = "dispatch"
             /\ UNCHANGED <<frame_queued, current_frame, hasframe, hasframe_rendered,
                            dropped_frame, request_redraw, want_redraw, driver_want,
                            redraw_at_start, timing, vo_paused, rendering, core, wakeup,
                            others, core_woken>>

\* wait_vo() with vo_wait_default().
WaitRegardless == FALSE
MustNotWait == need_wakeup
WaitVo == /\ vpc = "wait"
          /\ IF MustNotWait THEN vpc' = "awake" /\ UNCHANGED waiting
                            ELSE vpc' = "asleep" /\ waiting' = waiting \union {"vo"}
          /\ UNCHANGED <<frames, redraw, timing, vo_paused, rendering, core, need_wakeup,
                         others, core_woken>>

\* The condition variable was signalled, or the timer has run out.
Woken == /\ vpc = "asleep"
         /\ "vo" \notin waiting \/ until = 0
         /\ waiting' = waiting \ {"vo"}
         /\ vpc' = "awake"
         /\ UNCHANGED <<frames, redraw, timing, vo_paused, rendering, core, need_wakeup,
                        others, core_woken>>

Awake == /\ vpc = "awake"
         /\ need_wakeup' = FALSE
         /\ vpc' = "dispatch"
         /\ until' = Never
         /\ UNCHANGED <<frames, redraw, wakeup_on_done, wakeup_pts, vo_paused, rendering, core, waiting,
                        others, core_woken>>
--------------------------------------------------------------------------------
Sooner(t) == IF t > 0 THEN t - 1 ELSE t
FrameSooner(f) == IF f = None THEN None
                  ELSE [f EXCEPT !.pts = Sooner(@), !.end = Sooner(@)]
Tick == /\ \/ wakeup_pts > 0 \/ until > 0 \/ asked > 0
           \/ \E f \in {frame_queued, current_frame} : f # None /\ f.end > 0
        /\ wakeup_pts' = Sooner(wakeup_pts)
        /\ until' = Sooner(until)
        /\ asked' = Sooner(asked)
        /\ frame_queued' = FrameSooner(frame_queued)
        /\ current_frame' = FrameSooner(current_frame)
        /\ UNCHANGED <<hasframe, hasframe_rendered, dropped_frame, shown, redraw,
                       wakeup_on_done, thread, cpc, early, wakeup, others, core_woken>>

SpuriousWakeup(t) == /\ t \in waiting
                     /\ waiting' = waiting \ {t}
                     /\ UNCHANGED <<frames, redraw, timing, thread, core, need_wakeup,
                                    others, core_woken>>

VoThread == \/ Dispatch \/ SkipRender \/ DropFrame \/ StartRender \/ Kick \/ DrawFrame
            \/ EndRender \/ Check \/ DoRedraw \/ DrawAgain \/ WaitVo \/ Woken \/ Awake

Core == \/ \E next \in NextPts : IsReadyForFrame(next)
        \/ \E f \in NewFrame : QueueFrame(f)
        \/ WaitFrame \/ RequestWakeupOnDone \/ Redraw
        \/ \E p \in BOOLEAN : SetPaused(p)
        \/ SeekReset
        \/ \E r \in {"reconfig", "terminate"} : Request(r)
        \/ RequestDone \/ WakeCore

Next == /\ \/ Core \/ VoThread \/ VoWakeup \/ Tick
           \/ \E t \in {"core", "vo"} : SpuriousWakeup(t)
        /\ UNCHANGED uses

Spec == Init /\ [][Next]_vars
--------------------------------------------------------------------------------
TypeOK ==
  /\ frame_queued \in Frame \union {None} /\ current_frame \in Frame \union {None}
  /\ hasframe \in BOOLEAN /\ hasframe_rendered \in BOOLEAN /\ dropped_frame \in BOOLEAN
  /\ request_redraw \in BOOLEAN /\ want_redraw \in BOOLEAN /\ driver_want \in BOOLEAN
  /\ redraw_at_start \in BOOLEAN /\ osd \in {"drawn", "stale", "merged"} /\ shown \in BOOLEAN
  /\ wakeup_on_done \in BOOLEAN /\ wakeup_pts \in NextPts /\ until \in Delays \union {Never}
  /\ paused \in BOOLEAN /\ send_reset \in BOOLEAN /\ config_ok \in BOOLEAN
  /\ request \in {"none", "reconfig", "terminate"}
  /\ vpc \in {"dispatch", "render", "kick", "draw", "flip", "check", "redraw", "redrawing",
              "wait", "asleep", "awake", "out"}
  /\ rendering \in BOOLEAN /\ (rendering <=> vpc \in {"kick", "draw", "flip"})
  /\ vo_paused \in BOOLEAN
  /\ need_wakeup \in BOOLEAN
  /\ waiting \subseteq {"core", "vo"} /\ ("vo" \in waiting => vpc = "asleep")
  /\ cpc \in {"run", "ready", "wantready", "wantdone", "waitframe", "request", "gone"}
  /\ asked \in NextPts /\ early \in BOOLEAN /\ core_woken \in BOOLEAN

\* vo_queue_frame() asserts what vo_is_ready_for_frame() saw, although the VO
\* thread has run since.
QueueIsFree == cpc = "ready" => /\ config_ok /\ frame_queued = None
                                /\ current_frame # None => current_frame.vsyncs = 0

\* The VO thread sleeps on no work: frames, repeats, redraws, resets, pausing,
\* requests of the core, or a timer set after it went to sleep.
Resting == "vo" \in waiting /\ until # 0
VoSleepsJustly ==
  Resting => /\ ~need_wakeup /\ frame_queued = None /\ ~request_redraw
             /\ ~send_reset /\ paused = vo_paused /\ request = "none"
             /\ wakeup_pts > 0 => until \in 0 .. wakeup_pts
             /\ hasframe /\ ~paused /\ VsyncsLeft(current_frame) => ~current_frame.synced

\* Nor does the core wait for the VO in vain: if the VO thread rests and has
\* not woken it, it is not ready for the next frame yet, or still displaying; and it
\* has let vo_wait_frame() return.
CoreSleepsJustly ==
  Resting =>
    /\ cpc = "wantready" /\ ~core_woken => ~(ReadyNow /\ asked <= 0)
    /\ cpc = "wantdone" /\ ~core_woken => StillDisplaying
    /\ cpc = "waitframe" => "core" \notin waiting

\* What one thread concluded about the other before it left the lock still holds: the queue
\* is free for the frame, and no wakeup was lost.
ThreadsAgree ==
  /\ QueueIsFree
  /\ VoSleepsJustly
  /\ CoreSleepsJustly

\* Whoever calls vo_redraw(), also while a request is pending, sees a draw that starts
\* later, or the request for one; except if the call is Overlooked.
RequestsAreDrawn == osd = "stale" => request_redraw \/ vpc = "redrawing"

\* At rest the last frame is on the screen, unless it was dropped as late and the player
\* is not paused.
FrameIsShown ==
  Resting /\ current_frame # None /\ ~shown => dropped_frame /\ ~paused

\* What the user sees does not fall behind what the core asked for.
PictureIsCurrent == RequestsAreDrawn /\ FrameIsShown
================================================================================
