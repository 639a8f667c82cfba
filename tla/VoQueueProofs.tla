---------------------------- MODULE VoQueueProofs ----------------------------
(***************************************************************************)
(* Theorems about VoQueue for any set of delays and number of repeats.     *)
(*                                                                         *)
(* ThreadsAgree says what holds while the VO thread sleeps.  The inductive *)
(* invariant VoInv says how it gets there: as long as need_wakeup is clear *)
(* (every change that matters sets it), what the VO thread saw in this     *)
(* round of its loop is still true (VoKnows); and what the core waits for  *)
(* is a request it has pending (Calls), a time in wakeup_pts (ReadyIsTold, *)
(* EndIsTimed) or wakeup_on_done (DoneIsTold).  PicInv does the same for   *)
(* PictureIsCurrent.                                                       *)
(***************************************************************************)
EXTENDS VoQueue, TLAPS

(* The VO thread, since it called the dispatch queue, took what was queued,  *)
(* ended render_frame(), decided to wait.                                    *)
Working == {"render", "kick", "draw", "flip", "check", "redraw", "redrawing", "wait", "asleep"}
Looked  == {"kick", "draw", "flip", "check", "redraw", "redrawing", "wait", "asleep"}
Settled == {"check", "redraw", "redrawing", "wait", "asleep"}
Sleepy  == {"wait", "asleep"}

Repeats == hasframe /\ ~paused /\ VsyncsLeft(current_frame) /\ current_frame.synced

\* The VO thread gets up in time for wakeup_pts, unless the core has seen it come.
TimerCovered == wakeup_pts >= 0 => until \in 0 .. wakeup_pts \/ (cpc = "ready" /\ wakeup_pts = 0)

VoKnows ==
  ~need_wakeup =>
    /\ vpc \in Working => request = "none"
    /\ vpc \in Looked => frame_queued = None
    /\ vpc \in Settled /\ until # 0 => ~Repeats
    /\ vpc \in Sleepy => /\ ~send_reset /\ paused = vo_paused
                         /\ until # 0 => ~request_redraw
                         /\ TimerCovered

Round == /\ "vo" \in waiting => ~need_wakeup
         /\ vpc = "check" => until \in {0, Never}

\* What the core waits for in the VO thread is still to be done there.
Calls == /\ request # "none" => cpc = "request"
         /\ frame_queued # None => hasframe
         /\ "core" \in waiting => cpc = "waitframe" /\ (frame_queued # None \/ rendering)

\* The core, refused a frame, is told: right now or at a time not after the one it
\* asked for.
ReadyIsTold ==
  cpc = "wantready" /\ ~core_woken /\ ReadyNow => vpc = "kick" \/ wakeup_pts \in 0 .. asked

\* The end of the frame that the core queued last is what wakeup_pts holds, so the
\* end of display is not missed either.
LastFrame == IF frame_queued # None THEN frame_queued ELSE current_frame
EndIsTimed ==
  hasframe /\ ~early /\ cpc # "ready" /\ LastFrame # None /\ ~LastFrame.synced /\ LastFrame.end > 0
    => wakeup_pts = LastFrame.end

DoneIsTold ==
  cpc = "wantdone" => /\ ~early
                      /\ ~core_woken => wakeup_on_done /\ (StillDisplaying \/ wakeup_pts = 0)

VoInv ==
  /\ TypeOK
  /\ Calls
  /\ QueueIsFree
  /\ Round
  /\ VoKnows
  /\ ReadyIsTold
  /\ EndIsTimed
  /\ DoneIsTold
-------------------------------------------------------------------------------
(* Frames, and what the operators on them return. *)
LEMMA FrameFields ==
  \A f \in Frame : /\ f # None
                   /\ f.synced \in BOOLEAN /\ f.vsyncs \in Nat
                   /\ f.end \in Delays /\ f.end \in Nat /\ f.pts \in Nat
                   /\ f.synced => f.end = 0
<1> TAKE f \in Frame
<1>1. f \in [synced : BOOLEAN, vsyncs : 0 .. MaxVsyncs, pts : Delays, end : Delays]
  BY DEF Frame
<1>5. f.synced \in BOOLEAN
  BY <1>1
<1>2. f.vsyncs \in Nat
  BY <1>1, VsyncsAssumption
<1>6. f.end \in Delays /\ f.pts \in Delays
  BY <1>1
<1>7. f.end \in Nat /\ f.pts \in Nat
  BY <1>6, DelaysAssumption
<1>3. f.synced => f.end = 0
  BY DEF Frame
<1>4. QED
  BY <1>2, <1>3, <1>5, <1>6, <1>7, NoneAssumption

LEMMA Repeated ==
  ASSUME NEW f \in Frame
  PROVE  /\ Repeat(f) \in Frame /\ Repeat(f).synced = f.synced /\ Repeat(f).end = f.end
         /\ Repeat(f).vsyncs = IF f.vsyncs > 0 THEN f.vsyncs - 1 ELSE 0
  BY DelaysAssumption, VsyncsAssumption DEF Frame, Repeat

LEMMA Forgotten ==
  ASSUME current_frame \in Frame \union {None}
  PROVE  /\ ForgetRepeats \in Frame \union {None}
         /\ ForgetRepeats = None <=> current_frame = None
         /\ ForgetRepeats # None => /\ ForgetRepeats.vsyncs = 0 /\ ~ForgetRepeats.synced
                                    /\ ForgetRepeats.end = current_frame.end
<1>1. CASE current_frame = None
  BY <1>1, NoneAssumption DEF ForgetRepeats
<1>2. CASE current_frame # None
  <2>1. current_frame \in Frame
    BY <1>2
  <2> DEFINE g == [current_frame EXCEPT !.vsyncs = 0, !.synced = FALSE]
  <2>2. ForgetRepeats \in Frame
    <3>1. g \in [synced : BOOLEAN, vsyncs : 0 .. MaxVsyncs, pts : Delays, end : Delays]
      <4>1. current_frame \in [synced : BOOLEAN, vsyncs : 0 .. MaxVsyncs, pts : Delays, end : Delays]
        BY <2>1 DEF Frame
      <4>2. FALSE \in BOOLEAN /\ 0 \in 0 .. MaxVsyncs
        BY VsyncsAssumption
      <4>3. QED
        BY <4>1, <4>2
    <3>2. ~g.synced /\ g.vsyncs = 0 /\ g.pts = current_frame.pts /\ g.end = current_frame.end
      BY <2>1 DEF Frame
    <3>3. current_frame.pts <= current_frame.end
      BY <2>1 DEF Frame
    <3>4. g \in Frame
      <4>1. g.vsyncs <= 1 /\ g.pts <= g.end
        BY <3>2, <3>3
      <4>2. QED
        BY <3>1, <3>2, <4>1 DEF Frame
    <3>5. QED
      BY <3>4, <1>2 DEF ForgetRepeats
  <2>3. ForgetRepeats # None
    BY <2>2, NoneAssumption
  <2>4. /\ ForgetRepeats.vsyncs = 0 /\ ~ForgetRepeats.synced
        /\ ForgetRepeats.end = current_frame.end
    BY <2>1, <1>2 DEF Frame, ForgetRepeats
  <2>5. QED
    BY <2>2, <2>3, <2>4, <1>2
<1>3. QED
  BY <1>1, <1>2

LEMMA SoonerDelay == \A d \in Delays : Sooner(d) \in Delays
  BY DelaysAssumption DEF Sooner

LEMMA SoonerFrame ==
  ASSUME NEW f \in Frame \union {None}
  PROVE  /\ FrameSooner(f) \in Frame \union {None}
         /\ FrameSooner(f) = None <=> f = None
         /\ f # None => /\ FrameSooner(f).vsyncs = f.vsyncs
                        /\ FrameSooner(f).synced = f.synced
                        /\ FrameSooner(f).end = Sooner(f.end)
<1>1. CASE f = None
  BY <1>1, NoneAssumption DEF FrameSooner
<1>2. CASE f # None
  <2> DEFINE g == [f EXCEPT !.pts = Sooner(@), !.end = Sooner(@)]
  <2>1. f \in Frame /\ FrameSooner(f) = g
    BY <1>2 DEF FrameSooner
  <2>2. Sooner(f.pts) \in Delays /\ Sooner(f.end) \in Delays
    BY <2>1, SoonerDelay DEF Frame
  <2>3. f.synced => Sooner(f.pts) = 0 /\ Sooner(f.end) = 0
    BY <2>1 DEF Frame, Sooner
  <2>4. ~f.synced => f.vsyncs <= 1 /\ Sooner(f.pts) <= Sooner(f.end)
    BY <2>1, DelaysAssumption DEF Frame, Sooner
  <2>5. g \in [synced : BOOLEAN, vsyncs : 0 .. MaxVsyncs, pts : Delays, end : Delays]
    BY <2>1, <2>2 DEF Frame
  <2>6. g.synced = f.synced /\ g.vsyncs = f.vsyncs /\ g.pts = Sooner(f.pts) /\ g.end = Sooner(f.end)
    BY <2>1 DEF Frame
  <2>7. g \in Frame
    BY <2>3, <2>4, <2>5, <2>6 DEF Frame
  <2>8. QED
    BY <2>1, <2>6, <2>7, <1>2, NoneAssumption
<1>3. QED
  BY <1>1, <1>2

-------------------------------------------------------------------------------
(* One lemma per action, with a step for each conjunct of VoInv. *)
LEMMA IsReadyForFrameKeeps ==
  ASSUME VoInv, NEW next \in NextPts, IsReadyForFrame(next)
  PROVE  VoInv'
<1>1. TypeOK'
  <2>1. early' \in BOOLEAN
    BY DEF IsReadyForFrame, TypeOK, VoInv
  <2>2. need_wakeup' \in BOOLEAN
    BY DEF wakeup, WakeupLocked, IsReadyForFrame, TypeOK, VoInv
  <2>3. wakeup_pts' \in NextPts /\ asked' \in NextPts
    BY DEF IsReadyForFrame, TypeOK, VoInv
  <2>4. waiting' \subseteq {"core", "vo"} /\ ("vo" \in waiting' => vpc' = "asleep")
    BY DEF thread, wakeup, WakeupLocked, IsReadyForFrame, TypeOK, VoInv
  <2>5. cpc' \in {"run", "ready", "wantready"}
    BY DEF IsReadyForFrame, VoInv
  <2>6. QED
    BY <2>1, <2>2, <2>3, <2>4, <2>5
    DEF frames, redraw, thread, wakeup, others, WakeupLocked, IsReadyForFrame, TypeOK, VoInv
<1>2. Calls'
  BY DEF frames, thread, wakeup, others, WakeupLocked, IsReadyForFrame, Calls, VoInv
<1>3. QueueIsFree'
  BY FrameFields
  DEF Unset, frames, redraw, thread, wakeup, others, WakeupLocked, VsyncsLeft, ReadyNow,
      IsReadyForFrame, TypeOK, QueueIsFree, VoInv
<1>4. Round'
  BY DEF Never, thread, wakeup, WakeupLocked, IsReadyForFrame, Round, VoInv
<1>5. VoKnows'
  BY FrameFields, DelaysAssumption
  DEF Unset, frames, redraw, thread, wakeup, others, WakeupLocked, VsyncsLeft, ReadyNow,
      NextPts, IsReadyForFrame, TypeOK, Working, Looked, Settled, Sleepy, Repeats, TimerCovered,
      VoKnows, VoInv
<1>6. ReadyIsTold'
  BY FrameFields, DelaysAssumption
  DEF Unset, frames, redraw, thread, wakeup, others, WakeupLocked, VsyncsLeft, ReadyNow,
      NextPts, IsReadyForFrame, TypeOK, ReadyIsTold, VoInv
<1>7. EndIsTimed'
  BY DEF Unset, frames, redraw, thread, wakeup, others, WakeupLocked, VsyncsLeft, ReadyNow,
         IsReadyForFrame, TypeOK, LastFrame, EndIsTimed, VoInv
<1>8. DoneIsTold'
  BY DEF frames, thread, StillDisplaying, IsReadyForFrame, DoneIsTold, VoInv
<1>9. QED
  BY <1>1, <1>2, <1>3, <1>4, <1>5, <1>6, <1>7, <1>8 DEF VoInv

LEMMA QueueFrameKeeps ==
  ASSUME VoInv, NEW f \in NewFrame, QueueFrame(f)
  PROVE  VoInv'
<1>1. TypeOK'
  <2>1. hasframe' \in BOOLEAN /\ early' \in BOOLEAN /\ need_wakeup' \in BOOLEAN
    BY DEF WakeupLocked, QueueFrame, VoInv
  <2>2. f \in Frame
    BY DEF NewFrame
  <2>3. wakeup_pts' \in NextPts
    <3>1. CASE f.synced
      BY <3>1 DEF QueueFrame, NextPts
    <3>2. CASE ~f.synced
      BY <3>2, <2>2, FrameFields DEF QueueFrame, NextPts
    <3>3. QED
      BY <3>1, <3>2
  <2>4. QED
    BY <2>1, <2>2, <2>3 DEF redraw, thread, others, WakeupLocked, QueueFrame, TypeOK, VoInv
<1>2. Calls'
  BY DEF thread, others, WakeupLocked, QueueFrame, Calls, VoInv
<1>3. QueueIsFree'
  BY DEF others, QueueFrame, QueueIsFree, VoInv
<1>4. Round'
  BY DEF Never, thread, WakeupLocked, QueueFrame, Round, VoInv
<1>5. VoKnows'
  BY DEF redraw, thread, others, WakeupLocked, VsyncsLeft, QueueFrame, Working, Looked, Settled,
         Sleepy, Repeats, TimerCovered, VoKnows, VoInv
<1>6. ReadyIsTold'
  BY DEF thread, others, VsyncsLeft, ReadyNow, QueueFrame, ReadyIsTold, VoInv
<1>7. EndIsTimed'
  <2>1. f \in Frame
    BY DEF NewFrame
  <2>2. f # None /\ frame_queued' = f
    BY <2>1, FrameFields DEF QueueFrame
  <2>3. ~f.synced => wakeup_pts' = f.end
    BY DEF QueueFrame
  <2>4. QED
    BY <2>2, <2>3 DEF EndIsTimed, LastFrame
<1>8. DoneIsTold'
  BY DEF thread, StillDisplaying, QueueFrame, DoneIsTold, VoInv
<1>9. QED
  BY <1>1, <1>2, <1>3, <1>4, <1>5, <1>6, <1>7, <1>8 DEF VoInv

LEMMA WaitFrameKeeps ==
  ASSUME VoInv, WaitFrame
  PROVE  VoInv'
<1>1. TypeOK'
  <2>1. cpc' \in {"run", "waitframe"}
    BY DEF WaitFrame, VoInv
  <2>2. waiting' \subseteq {"core", "vo"} /\ ("vo" \in waiting' => vpc' = "asleep")
    BY DEF thread, WaitFrame, TypeOK, VoInv
  <2>3. QED
    BY <2>1, <2>2 DEF frames, redraw, timing, thread, others, WaitFrame, TypeOK, VoInv
<1>2. Calls'
  BY DEF frames, thread, others, WaitFrame, Calls, VoInv
<1>3. QueueIsFree'
  BY DEF frames, others, WaitFrame, QueueIsFree, VoInv
<1>4. Round'
  BY DEF Never, timing, thread, WaitFrame, Round, VoInv
<1>5. VoKnows'
  BY DEF frames, redraw, timing, thread, others, VsyncsLeft, WaitFrame, Working, Looked,
         Settled, Sleepy, Repeats, TimerCovered, VoKnows, VoInv
<1>6. ReadyIsTold'
  BY DEF frames, timing, thread, others, VsyncsLeft, ReadyNow, WaitFrame, ReadyIsTold, VoInv
<1>7. EndIsTimed'
  BY DEF frames, timing, WaitFrame, LastFrame, EndIsTimed, VoInv
<1>8. DoneIsTold'
  BY DEF frames, timing, thread, StillDisplaying, WaitFrame, DoneIsTold, VoInv
<1>9. QED
  BY <1>1, <1>2, <1>3, <1>4, <1>5, <1>6, <1>7, <1>8 DEF VoInv

LEMMA RequestWakeupOnDoneKeeps ==
  ASSUME VoInv, RequestWakeupOnDone
  PROVE  VoInv'
<1>1. TypeOK'
  <2>1. wakeup_on_done' \in BOOLEAN
    BY DEF RequestWakeupOnDone, TypeOK, VoInv
  <2>2. core_woken' \in BOOLEAN
    BY DEF WakeupCore, RequestWakeupOnDone, TypeOK, VoInv
  <2>3. QED
    BY <2>1, <2>2
    DEF frames, redraw, thread, wakeup, others, WakeupCore, RequestWakeupOnDone, TypeOK, VoInv
<1>2. Calls'
  BY DEF frames, thread, wakeup, others, RequestWakeupOnDone, Calls, VoInv
<1>3. QueueIsFree'
  BY DEF frames, others, RequestWakeupOnDone, QueueIsFree, VoInv
<1>4. Round'
  BY DEF Never, thread, wakeup, RequestWakeupOnDone, Round, VoInv
<1>5. VoKnows'
  BY DEF frames, redraw, thread, wakeup, others, VsyncsLeft, RequestWakeupOnDone, Working,
         Looked, Settled, Sleepy, Repeats, TimerCovered, VoKnows, VoInv
<1>6. ReadyIsTold'
  BY DEF frames, thread, others, WakeupCore, VsyncsLeft, ReadyNow, RequestWakeupOnDone,
         ReadyIsTold, VoInv
<1>7. EndIsTimed'
  BY DEF frames, RequestWakeupOnDone, LastFrame, EndIsTimed, VoInv
<1>8. DoneIsTold'
  BY DEF frames, thread, WakeupCore, StillDisplaying, RequestWakeupOnDone, DoneIsTold, VoInv
<1>9. QED
  BY <1>1, <1>2, <1>3, <1>4, <1>5, <1>6, <1>7, <1>8 DEF VoInv

LEMMA RedrawKeeps ==
  ASSUME VoInv, Redraw
  PROVE  VoInv'
<1>1. TypeOK'
  <2>1. request_redraw' \in BOOLEAN /\ want_redraw' \in BOOLEAN
    BY DEF Redraw, TypeOK, VoInv
  <2>2. need_wakeup' \in BOOLEAN
    BY DEF wakeup, WakeupLocked, Redraw, TypeOK, VoInv
  <2>3. osd' \in {"drawn", "stale", "merged"}
    BY DEF Redraw, TypeOK, VoInv
  <2>4. waiting' \subseteq {"core", "vo"} /\ ("vo" \in waiting' => vpc' = "asleep")
    BY DEF thread, wakeup, WakeupLocked, Redraw, TypeOK, VoInv
  <2>5. QED
    BY <2>1, <2>2, <2>3, <2>4
    DEF frames, timing, thread, core, wakeup, others, WakeupLocked, Redraw, TypeOK, VoInv
<1>2. Calls'
  BY DEF frames, thread, core, wakeup, others, WakeupLocked, Redraw, Calls, VoInv
<1>3. QueueIsFree'
  BY DEF frames, core, others, Redraw, QueueIsFree, VoInv
<1>4. Round'
  BY DEF Never, timing, thread, wakeup, WakeupLocked, Redraw, Round, VoInv
<1>5. VoKnows'
  BY DEF frames, timing, thread, core, wakeup, others, WakeupLocked, VsyncsLeft, Redraw,
         Working, Looked, Settled, Sleepy, Repeats, TimerCovered, VoKnows, VoInv
<1>6. ReadyIsTold'
  BY DEF frames, timing, thread, core, others, VsyncsLeft, ReadyNow, Redraw, ReadyIsTold, VoInv
<1>7. EndIsTimed'
  BY DEF frames, timing, core, Redraw, LastFrame, EndIsTimed, VoInv
<1>8. DoneIsTold'
  BY DEF frames, timing, thread, core, StillDisplaying, Redraw, DoneIsTold, VoInv
<1>9. QED
  BY <1>1, <1>2, <1>3, <1>4, <1>5, <1>6, <1>7, <1>8 DEF VoInv

LEMMA SetPausedKeeps ==
  ASSUME VoInv, NEW p \in BOOLEAN, SetPaused(p)
  PROVE  VoInv'
<1>1. TypeOK'
  <2>1. paused' \in BOOLEAN /\ request_redraw' \in BOOLEAN /\ core_woken' \in BOOLEAN
    BY DEF WakeupCore, SetPaused, TypeOK, VoInv
  <2>2. need_wakeup' \in BOOLEAN
    BY DEF WakeupLocked, SetPaused, VoInv
  <2>3. osd' \in {"drawn", "stale", "merged"}
    BY DEF SetPaused, TypeOK, VoInv
  <2>4. QED
    BY <2>1, <2>2, <2>3
    DEF frames, timing, thread, core, WakeupLocked, WakeupCore, SetPaused, TypeOK, VoInv
<1>2. Calls'
  BY DEF frames, thread, core, WakeupLocked, SetPaused, Calls, VoInv
<1>3. QueueIsFree'
  BY DEF frames, core, SetPaused, QueueIsFree, VoInv
<1>4. Round'
  BY DEF Never, timing, thread, WakeupLocked, SetPaused, Round, VoInv
<1>5. VoKnows'
  BY DEF frames, timing, thread, core, WakeupLocked, VsyncsLeft, SetPaused, Working, Looked,
         Settled, Sleepy, Repeats, TimerCovered, VoKnows, VoInv
<1>6. ReadyIsTold'
  BY DEF frames, timing, thread, core, WakeupCore, VsyncsLeft, ReadyNow, SetPaused, ReadyIsTold,
         VoInv
<1>7. EndIsTimed'
  BY DEF frames, timing, core, SetPaused, LastFrame, EndIsTimed, VoInv
<1>8. DoneIsTold'
  BY DEF frames, timing, thread, core, WakeupCore, StillDisplaying, SetPaused, DoneIsTold, VoInv
<1>9. QED
  BY <1>1, <1>2, <1>3, <1>4, <1>5, <1>6, <1>7, <1>8 DEF VoInv

LEMMA SeekResetKeeps ==
  ASSUME VoInv, SeekReset
  PROVE  VoInv'
<1>1. TypeOK'
  <2>1. hasframe' \in BOOLEAN /\ hasframe_rendered' \in BOOLEAN /\ send_reset' \in BOOLEAN
    BY DEF ForgetFrames, SeekReset, VoInv
  <2>2. early' \in BOOLEAN /\ need_wakeup' \in BOOLEAN
    BY DEF WakeupLocked, SeekReset, VoInv
  <2>3. QED
    BY <2>1, <2>2, FrameFields, Forgotten
    DEF redraw, timing, thread, WakeupLocked, ForgetFrames, SeekReset, TypeOK, VoInv
<1>2. Calls'
  BY DEF thread, WakeupLocked, ForgetFrames, SeekReset, Calls, VoInv
<1>3. QueueIsFree'
  BY DEF ForgetFrames, SeekReset, QueueIsFree, VoInv
<1>4. Round'
  BY DEF Never, timing, thread, WakeupLocked, SeekReset, Round, VoInv
<1>5. VoKnows'
  BY DEF redraw, timing, thread, WakeupLocked, VsyncsLeft, ForgetFrames, SeekReset, Working,
         Looked, Settled, Sleepy, Repeats, TimerCovered, VoKnows, VoInv
<1>6. ReadyIsTold'
  BY DEF timing, thread, VsyncsLeft, ReadyNow, ForgetFrames, SeekReset, ReadyIsTold, VoInv
<1>7. EndIsTimed'
  BY DEF timing, ForgetFrames, SeekReset, LastFrame, EndIsTimed, VoInv
<1>8. DoneIsTold'
  BY DEF timing, thread, ForgetFrames, StillDisplaying, SeekReset, DoneIsTold, VoInv
<1>9. QED
  BY <1>1, <1>2, <1>3, <1>4, <1>5, <1>6, <1>7, <1>8 DEF VoInv

LEMMA RequestKeeps ==
  ASSUME VoInv, NEW r \in {"reconfig", "terminate"}, Request(r)
  PROVE  VoInv'
<1>1. TypeOK'
  <2>1. need_wakeup' \in BOOLEAN
    BY DEF WakeupLocked, Request, VoInv
  <2>2. QED
    BY <2>1 DEF frames, redraw, timing, thread, WakeupLocked, Request, TypeOK, VoInv
<1>2. Calls'
  BY DEF frames, thread, WakeupLocked, Request, Calls, VoInv
<1>3. QueueIsFree'
  BY DEF frames, Request, QueueIsFree, VoInv
<1>4. Round'
  BY DEF Never, timing, thread, WakeupLocked, Request, Round, VoInv
<1>5. VoKnows'
  BY DEF frames, redraw, timing, thread, WakeupLocked, VsyncsLeft, Request, Working, Looked,
         Settled, Sleepy, Repeats, TimerCovered, VoKnows, VoInv
<1>6. ReadyIsTold'
  BY DEF frames, timing, thread, VsyncsLeft, ReadyNow, Request, ReadyIsTold, VoInv
<1>7. EndIsTimed'
  BY DEF frames, timing, Request, LastFrame, EndIsTimed, VoInv
<1>8. DoneIsTold'
  BY DEF frames, timing, thread, StillDisplaying, Request, DoneIsTold, VoInv
<1>9. QED
  BY <1>1, <1>2, <1>3, <1>4, <1>5, <1>6, <1>7, <1>8 DEF VoInv

LEMMA RequestDoneKeeps ==
  ASSUME VoInv, RequestDone
  PROVE  VoInv'
<1>1. TypeOK'
  <2>1. cpc' \in {"run", "gone"}
    BY DEF RequestDone, VoInv
  <2>2. QED
    BY <2>1 DEF frames, redraw, timing, thread, wakeup, others, RequestDone, TypeOK, VoInv
<1>2. Calls'
  BY DEF frames, thread, wakeup, others, RequestDone, Calls, VoInv
<1>3. QueueIsFree'
  BY DEF frames, others, RequestDone, QueueIsFree, VoInv
<1>4. Round'
  BY DEF Never, timing, thread, wakeup, RequestDone, Round, VoInv
<1>5. VoKnows'
  BY DEF frames, redraw, timing, thread, wakeup, others, VsyncsLeft, RequestDone, Working,
         Looked, Settled, Sleepy, Repeats, TimerCovered, VoKnows, VoInv
<1>6. ReadyIsTold'
  BY DEF frames, timing, thread, others, VsyncsLeft, ReadyNow, RequestDone, ReadyIsTold, VoInv
<1>7. EndIsTimed'
  BY DEF frames, timing, RequestDone, LastFrame, EndIsTimed, VoInv
<1>8. DoneIsTold'
  BY DEF frames, timing, thread, StillDisplaying, RequestDone, DoneIsTold, VoInv
<1>9. QED
  BY <1>1, <1>2, <1>3, <1>4, <1>5, <1>6, <1>7, <1>8 DEF VoInv

LEMMA WakeCoreKeeps ==
  ASSUME VoInv, WakeCore
  PROVE  VoInv'
<1>1. TypeOK'
  <2>1. core_woken' \in BOOLEAN
    BY DEF WakeCore, VoInv
  <2>2. asked' \in NextPts
    BY FrameFields, DelaysAssumption
    DEF Unset, frames, redraw, timing, thread, wakeup, others, NextPts, WakeCore, TypeOK, VoInv
  <2>3. QED
    BY <2>1, <2>2 DEF frames, redraw, timing, thread, wakeup, others, WakeCore, TypeOK, VoInv
<1>2. Calls'
  BY DEF frames, thread, wakeup, others, WakeCore, Calls, VoInv
<1>3. QueueIsFree'
  BY DEF frames, others, WakeCore, QueueIsFree, VoInv
<1>4. Round'
  BY DEF Never, timing, thread, wakeup, WakeCore, Round, VoInv
<1>5. VoKnows'
  BY DEF frames, redraw, timing, thread, wakeup, others, VsyncsLeft, WakeCore, Working, Looked,
         Settled, Sleepy, Repeats, TimerCovered, VoKnows, VoInv
<1>6. ReadyIsTold'
  BY DEF frames, timing, thread, others, VsyncsLeft, ReadyNow, WakeCore, ReadyIsTold, VoInv
<1>7. EndIsTimed'
  BY DEF frames, timing, WakeCore, LastFrame, EndIsTimed, VoInv
<1>8. DoneIsTold'
  BY DEF frames, timing, thread, StillDisplaying, WakeCore, DoneIsTold, VoInv
<1>9. QED
  BY <1>1, <1>2, <1>3, <1>4, <1>5, <1>6, <1>7, <1>8 DEF VoInv

LEMMA DispatchKeeps ==
  ASSUME VoInv, Dispatch
  PROVE  VoInv'
<1>1. TypeOK'
  <2>1. hasframe' \in BOOLEAN /\ hasframe_rendered' \in BOOLEAN
    BY DEF frames, ForgetFrames, Dispatch, TypeOK, VoInv
  <2>2. config_ok' \in BOOLEAN
    BY DEF Dispatch, TypeOK, VoInv
  <2>3. driver_want' \in BOOLEAN
    <3>1. ("wish" \in uses) \in BOOLEAN
      OBVIOUS
    <3>4. driver_want \in BOOLEAN
      BY DEF VoInv, TypeOK
    <3>2. driver_want' = driver_want \/ driver_want' = ("wish" \in uses)
      BY Zenon DEF Dispatch
    <3>3. QED
      BY <3>1, <3>2, <3>4, Zenon
  <2>4. frame_queued' \in Frame \union {None} /\ current_frame' \in Frame \union {None}
    BY DEF frames, ForgetFrames, Dispatch, TypeOK, VoInv
  <2>5. QED
    BY <2>1, <2>2, <2>3, <2>4
    DEF frames, timing, core, wakeup, ForgetFrames, Dispatch, TypeOK, VoInv
<1>2. Calls'
  BY DEF frames, core, wakeup, ForgetFrames, Dispatch, Calls, VoInv
<1>3. QueueIsFree'
  <2>1. SUFFICES ASSUME cpc' = "ready" PROVE (config_ok /\ frame_queued = None /\ (current_frame # None => current_frame.vsyncs = 0))'
    BY DEF QueueIsFree
  <2>2. cpc = "ready" /\ request = "none"
    BY <2>1 DEF Dispatch, core, VoInv, Calls
  <2>3. UNCHANGED <<frames, config_ok>>
    BY <2>2 DEF Dispatch
  <2>4. QED
    BY <2>2, <2>3 DEF frames, VoInv, QueueIsFree
<1>4. Round'
  BY DEF Never, timing, wakeup, Dispatch, Round, VoInv
<1>5. VoKnows'
  BY DEF frames, timing, core, wakeup, VsyncsLeft, ForgetFrames, Dispatch, Working, Looked,
         Settled, Sleepy, Repeats, TimerCovered, VoKnows, VoInv
<1>6. ReadyIsTold'
  BY FrameFields, DelaysAssumption
  DEF Unset, Never, frames, timing, core, wakeup, VsyncsLeft, ReadyNow, ForgetFrames, NextPts,
      Dispatch, TypeOK, Calls, ReadyIsTold, VoInv
<1>7. EndIsTimed'
  BY DEF frames, timing, core, ForgetFrames, Dispatch, LastFrame, EndIsTimed, VoInv
<1>8. DoneIsTold'
  BY FrameFields, DelaysAssumption
  DEF Unset, Never, frames, timing, core, wakeup, ForgetFrames, StillDisplaying, NextPts,
      Dispatch, TypeOK, Calls, LastFrame, EndIsTimed, DoneIsTold, VoInv
<1>9. QED
  BY <1>1, <1>2, <1>3, <1>4, <1>5, <1>6, <1>7, <1>8 DEF VoInv

LEMMA SkipRenderKeeps ==
  ASSUME VoInv, SkipRender
  PROVE  VoInv'
<1>1. TypeOK'
  <2>1. wakeup_on_done' \in BOOLEAN
    BY DEF SkipRender, VoInv
  <2>2. core_woken' \in BOOLEAN
    BY DEF SkipRender, VoInv
  <2>3. QED
    BY <2>1, <2>2 DEF frames, redraw, core, wakeup, others, SkipRender, TypeOK, VoInv
<1>2. Calls'
  BY DEF frames, core, wakeup, others, SkipRender, Calls, VoInv
<1>3. QueueIsFree'
  BY DEF frames, core, others, SkipRender, QueueIsFree, VoInv
<1>4. Round'
  BY DEF Never, wakeup, SkipRender, Round, VoInv
<1>5. VoKnows'
  BY DEF Never, frames, redraw, core, wakeup, others, VsyncsLeft, StillDisplaying,
         NothingToRender, SkipRender, Working, Looked, Settled, Sleepy, Repeats, TimerCovered,
         VoKnows, VoInv
<1>6. ReadyIsTold'
  BY DEF frames, core, others, VsyncsLeft, ReadyNow, SkipRender, ReadyIsTold, VoInv
<1>7. EndIsTimed'
  BY DEF frames, core, SkipRender, LastFrame, EndIsTimed, VoInv
<1>8. DoneIsTold'
  BY DEF frames, core, StillDisplaying, SkipRender, DoneIsTold, VoInv
<1>9. QED
  BY <1>1, <1>2, <1>3, <1>4, <1>5, <1>6, <1>7, <1>8 DEF VoInv

LEMMA DropFrameKeeps ==
  ASSUME VoInv, DropFrame
  PROVE  VoInv'
<1>1. TypeOK'
  <2>1. dropped_frame' \in BOOLEAN
    BY DEF DropFrame, VoInv
  <2>2. shown' \in BOOLEAN
    BY DEF DropFrame, VoInv
  <2>3. wakeup_on_done' \in BOOLEAN
    BY DEF FrameDone, DropFrame, VoInv
  <2>4. core_woken' \in BOOLEAN
    BY DEF FrameDone, DropFrame, VoInv
  <2>5. current_frame' \in Frame
    BY FrameFields, Repeated
    DEF Never, redraw, core, others, Broadcast, VsyncsLeft, StillDisplaying, MoreFrames,
        FrameDone, Taken, NothingToRender, Late, MayDrop, DropFrame, TypeOK, VoInv
  <2>6. QED
    BY <2>1, <2>2, <2>3, <2>4, <2>5, FrameFields, Repeated
    DEF Never, redraw, core, others, Broadcast, VsyncsLeft, StillDisplaying, MoreFrames,
        FrameDone, Taken, NothingToRender, Late, MayDrop, DropFrame, TypeOK, VoInv
<1>2. Calls'
  BY DEF core, others, Broadcast, DropFrame, Calls, VoInv
<1>3. QueueIsFree'
  BY DEF Never, redraw, core, others, Broadcast, VsyncsLeft, StillDisplaying, MoreFrames,
         FrameDone, Taken, NothingToRender, Late, MayDrop, DropFrame, QueueIsFree, VoInv
<1>4. Round'
  BY DEF Never, Broadcast, FrameDone, DropFrame, Round, VoInv
<1>5. VoKnows'
  BY DEF Never, redraw, core, others, Broadcast, VsyncsLeft, StillDisplaying, MoreFrames,
         FrameDone, Taken, NothingToRender, Late, MayDrop, DropFrame, Working, Looked, Settled,
         Sleepy, Repeats, TimerCovered, VoKnows, VoInv
<1>6. ReadyIsTold'
  BY DEF core, others, VsyncsLeft, ReadyNow, FrameDone, DropFrame, ReadyIsTold, VoInv
<1>7. EndIsTimed'
  BY FrameFields, Repeated
  DEF Never, redraw, core, others, Broadcast, VsyncsLeft, StillDisplaying, MoreFrames,
      FrameDone, Taken, NothingToRender, Late, MayDrop, DropFrame, TypeOK, LastFrame,
      EndIsTimed, VoInv
<1>8. DoneIsTold'
  BY DEF core, StillDisplaying, FrameDone, DropFrame, DoneIsTold, VoInv
<1>9. QED
  BY <1>1, <1>2, <1>3, <1>4, <1>5, <1>6, <1>7, <1>8 DEF VoInv

LEMMA StartRenderKeeps ==
  ASSUME VoInv, StartRender
  PROVE  VoInv'
<1>1. TypeOK'
  <2>1. dropped_frame' \in BOOLEAN
    BY DEF StartRender, VoInv
  <2>2. shown' \in BOOLEAN
    BY DEF StartRender, VoInv
  <2>3. hasframe_rendered' \in BOOLEAN /\ redraw_at_start' \in BOOLEAN
    BY DEF StartRender, TypeOK, VoInv
  <2>4. current_frame' \in Frame
    BY FrameFields, Repeated
    DEF timing, core, wakeup, others, VsyncsLeft, Taken, NothingToRender, Late, MayDrop,
        CanQueue, StartRender, TypeOK, VoInv
  <2>5. vpc' \in {"kick", "draw"}
    BY DEF StartRender, VoInv
  <2>6. rendering' \in BOOLEAN /\ rendering'
    BY DEF StartRender, VoInv
  <2>7. QED
    BY <2>1, <2>2, <2>3, <2>4, <2>5, <2>6
    DEF timing, core, wakeup, others, StartRender, TypeOK, VoInv
<1>2. Calls'
  BY DEF core, wakeup, others, StartRender, Calls, VoInv
<1>3. QueueIsFree'
  BY DEF timing, core, wakeup, others, VsyncsLeft, Taken, NothingToRender, Late, MayDrop,
         CanQueue, StartRender, QueueIsFree, VoInv
<1>4. Round'
  BY DEF Never, timing, wakeup, StartRender, Round, VoInv
<1>5. VoKnows'
  BY DEF timing, core, wakeup, others, VsyncsLeft, StartRender, Working, Looked, Settled,
         Sleepy, Repeats, TimerCovered, VoKnows, VoInv
<1>6. ReadyIsTold'
  BY FrameFields, Repeated
  DEF timing, core, wakeup, others, VsyncsLeft, ReadyNow, Taken, NothingToRender, Late, MayDrop,
      CanQueue, StartRender, TypeOK, ReadyIsTold, VoInv
<1>7. EndIsTimed'
  BY FrameFields, Repeated
  DEF timing, core, wakeup, others, VsyncsLeft, Taken, NothingToRender, Late, MayDrop, CanQueue,
      StartRender, TypeOK, LastFrame, EndIsTimed, VoInv
<1>8. DoneIsTold'
  BY DEF timing, core, StillDisplaying, StartRender, DoneIsTold, VoInv
<1>9. QED
  BY <1>1, <1>2, <1>3, <1>4, <1>5, <1>6, <1>7, <1>8 DEF VoInv

LEMMA KickKeeps ==
  ASSUME VoInv, Kick
  PROVE  VoInv'
<1>1. TypeOK'
  <2>1. core_woken' \in BOOLEAN
    BY DEF WakeupCore, Kick, VoInv
  <2>2. QED
    BY <2>1 DEF frames, redraw, timing, core, wakeup, others, WakeupCore, Kick, TypeOK, VoInv
<1>2. Calls'
  BY DEF frames, core, wakeup, others, Kick, Calls, VoInv
<1>3. QueueIsFree'
  BY DEF frames, core, others, Kick, QueueIsFree, VoInv
<1>4. Round'
  BY DEF Never, timing, wakeup, Kick, Round, VoInv
<1>5. VoKnows'
  BY DEF frames, redraw, timing, core, wakeup, others, VsyncsLeft, Kick, Working, Looked,
         Settled, Sleepy, Repeats, TimerCovered, VoKnows, VoInv
<1>6. ReadyIsTold'
  BY DEF frames, timing, core, others, WakeupCore, VsyncsLeft, ReadyNow, Kick, ReadyIsTold,
         VoInv
<1>7. EndIsTimed'
  BY DEF frames, timing, core, Kick, LastFrame, EndIsTimed, VoInv
<1>8. DoneIsTold'
  BY DEF frames, timing, core, WakeupCore, StillDisplaying, Kick, DoneIsTold, VoInv
<1>9. QED
  BY <1>1, <1>2, <1>3, <1>4, <1>5, <1>6, <1>7, <1>8 DEF VoInv

LEMMA DrawFrameKeeps ==
  ASSUME VoInv, DrawFrame
  PROVE  VoInv'
<1>1. TypeOK'
  <2>1. shown' \in BOOLEAN
    BY DEF DrawFrame, VoInv
  <2>2. QED
    BY <2>1 DEF timing, core, wakeup, others, DrawFrame, TypeOK, VoInv
<1>2. Calls'
  BY DEF core, wakeup, others, DrawFrame, Calls, VoInv
<1>3. QueueIsFree'
  BY DEF core, others, DrawFrame, QueueIsFree, VoInv
<1>4. Round'
  BY DEF Never, timing, wakeup, DrawFrame, Round, VoInv
<1>5. VoKnows'
  BY DEF timing, core, wakeup, others, VsyncsLeft, DrawFrame, Working, Looked, Settled, Sleepy,
         Repeats, TimerCovered, VoKnows, VoInv
<1>6. ReadyIsTold'
  BY DEF timing, core, others, VsyncsLeft, ReadyNow, DrawFrame, ReadyIsTold, VoInv
<1>7. EndIsTimed'
  BY DEF timing, core, DrawFrame, LastFrame, EndIsTimed, VoInv
<1>8. DoneIsTold'
  BY DEF timing, core, StillDisplaying, DrawFrame, DoneIsTold, VoInv
<1>9. QED
  BY <1>1, <1>2, <1>3, <1>4, <1>5, <1>6, <1>7, <1>8 DEF VoInv

LEMMA EndRenderKeeps ==
  ASSUME VoInv, EndRender
  PROVE  VoInv'
<1>1. TypeOK'
  <2>1. dropped_frame' \in BOOLEAN
    BY DEF EndRender, VoInv
  <2>2. request_redraw' \in BOOLEAN
    BY DEF Never, core, others, Broadcast, VsyncsLeft, StillDisplaying, MoreFrames, FrameDone,
           FrameDue, ClearRequest, EndRender, VoInv
  <2>3. wakeup_on_done' \in BOOLEAN
    BY DEF FrameDone, EndRender, VoInv
  <2>4. core_woken' \in BOOLEAN
    BY DEF FrameDone, EndRender, VoInv
  <2>5. redraw_at_start' \in BOOLEAN
    BY DEF EndRender, VoInv
  <2>6. until' \in Delays \union {Never}
    BY FrameFields
    DEF Never, core, others, Broadcast, VsyncsLeft, StillDisplaying, MoreFrames, FrameDone,
        FrameDue, ClearRequest, EndRender, TypeOK, VoInv
  <2>7. rendering' \in BOOLEAN /\ ~rendering' /\ vpc' = "check"
    BY DEF FrameDone, EndRender, VoInv
  <2>8. waiting' = {}
    BY DEF Broadcast, EndRender, VoInv
  <2>9. QED
    BY <2>1, <2>2, <2>3, <2>4, <2>5, <2>6, <2>7, <2>8
    DEF core, others, Broadcast, FrameDone, EndRender, TypeOK, VoInv
<1>2. Calls'
  BY DEF core, others, Broadcast, EndRender, Calls, VoInv
<1>3. QueueIsFree'
  BY DEF core, others, EndRender, QueueIsFree, VoInv
<1>4. Round'
  BY DEF Never, Broadcast, FrameDone, EndRender, Round, VoInv
<1>5. VoKnows'
  BY DEF Never, core, others, Broadcast, VsyncsLeft, StillDisplaying, MoreFrames, FrameDone,
         FrameDue, ClearRequest, EndRender, Working, Looked, Settled, Sleepy, Repeats,
         TimerCovered, VoKnows, VoInv
<1>6. ReadyIsTold'
  BY DEF core, others, VsyncsLeft, ReadyNow, FrameDone, EndRender, ReadyIsTold, VoInv
<1>7. EndIsTimed'
  BY DEF core, EndRender, LastFrame, EndIsTimed, VoInv
<1>8. DoneIsTold'
  BY DEF core, StillDisplaying, FrameDone, EndRender, DoneIsTold, VoInv
<1>9. QED
  BY <1>1, <1>2, <1>3, <1>4, <1>5, <1>6, <1>7, <1>8 DEF VoInv

LEMMA CheckKeeps ==
  ASSUME VoInv, Check
  PROVE  VoInv'
<1>1. TypeOK'
  <2>1. want_redraw' \in BOOLEAN
    BY DEF Check, VoInv
  <2>2. core_woken' \in BOOLEAN
    BY DEF Check, VoInv
  <2>3. driver_want' \in BOOLEAN
    BY DEF Check, VoInv
  <2>4. send_reset' \in BOOLEAN /\ vo_paused' \in BOOLEAN
    BY DEF Check, TypeOK, VoInv
  <2>5. wakeup_pts' \in NextPts /\ until' \in Delays \union {Never}
    BY FrameFields, DelaysAssumption
    DEF Unset, Never, frames, core, wakeup, NextPts, TimerDue, Check, TypeOK, VoInv
  <2>6. vpc' \in {"redraw", "wait"}
    BY DEF Check, VoInv
  <2>7. QED
    BY <2>1, <2>2, <2>3, <2>4, <2>5, <2>6 DEF frames, core, wakeup, Check, TypeOK, VoInv
<1>2. Calls'
  BY DEF frames, core, wakeup, Check, Calls, VoInv
<1>3. QueueIsFree'
  BY DEF frames, core, Check, QueueIsFree, VoInv
<1>4. Round'
  BY DEF Never, wakeup, Check, Round, VoInv
<1>5. VoKnows'
  BY FrameFields, DelaysAssumption
  DEF Unset, Never, frames, core, wakeup, VsyncsLeft, NextPts, TimerDue, Check, TypeOK, Working,
      Looked, Settled, Sleepy, Repeats, TimerCovered, VoKnows, Round, Calls, VoInv
<1>6. ReadyIsTold'
  BY DEF frames, core, VsyncsLeft, ReadyNow, Check, ReadyIsTold, VoInv
<1>7. EndIsTimed'
  BY DEF Unset, Never, frames, core, wakeup, TimerDue, Check, LastFrame, EndIsTimed, VoInv
<1>8. DoneIsTold'
  BY DEF frames, core, StillDisplaying, Check, DoneIsTold, VoInv
<1>9. QED
  BY <1>1, <1>2, <1>3, <1>4, <1>5, <1>6, <1>7, <1>8 DEF VoInv

LEMMA DoRedrawKeeps ==
  ASSUME VoInv, DoRedraw
  PROVE  VoInv'
<1>1. TypeOK'
  <2>1. request_redraw' \in BOOLEAN /\ dropped_frame' \in BOOLEAN
    BY DEF DoRedraw, TypeOK, VoInv
  <2>2. vpc' \in {"redrawing", "dispatch"}
    BY DEF DoRedraw, VoInv
  <2>3. QED
    BY <2>1, <2>2 DEF timing, core, wakeup, others, DoRedraw, TypeOK, VoInv
<1>2. Calls'
  BY DEF core, wakeup, others, DoRedraw, Calls, VoInv
<1>3. QueueIsFree'
  BY DEF core, others, DoRedraw, QueueIsFree, VoInv
<1>4. Round'
  BY DEF Never, timing, wakeup, DoRedraw, Round, VoInv
<1>5. VoKnows'
  BY DEF timing, core, wakeup, others, VsyncsLeft, DoRedraw, Working, Looked, Settled, Sleepy,
         Repeats, TimerCovered, VoKnows, VoInv
<1>6. ReadyIsTold'
  BY DEF timing, core, others, VsyncsLeft, ReadyNow, DoRedraw, ReadyIsTold, VoInv
<1>7. EndIsTimed'
  BY DEF timing, core, DoRedraw, LastFrame, EndIsTimed, VoInv
<1>8. DoneIsTold'
  BY DEF timing, core, StillDisplaying, DoRedraw, DoneIsTold, VoInv
<1>9. QED
  BY <1>1, <1>2, <1>3, <1>4, <1>5, <1>6, <1>7, <1>8 DEF VoInv

LEMMA DrawAgainKeeps ==
  ASSUME VoInv, DrawAgain
  PROVE  VoInv'
<1>1. TypeOK'
  <2>1. shown' \in BOOLEAN
    BY DEF DrawAgain, VoInv
  <2>2. QED
    BY <2>1 DEF timing, core, wakeup, others, DrawAgain, TypeOK, VoInv
<1>2. Calls'
  BY DEF core, wakeup, others, DrawAgain, Calls, VoInv
<1>3. QueueIsFree'
  BY DEF core, others, DrawAgain, QueueIsFree, VoInv
<1>4. Round'
  BY DEF Never, timing, wakeup, DrawAgain, Round, VoInv
<1>5. VoKnows'
  BY DEF timing, core, wakeup, others, VsyncsLeft, DrawAgain, Working, Looked, Settled, Sleepy,
         Repeats, TimerCovered, VoKnows, VoInv
<1>6. ReadyIsTold'
  BY DEF timing, core, others, VsyncsLeft, ReadyNow, DrawAgain, ReadyIsTold, VoInv
<1>7. EndIsTimed'
  BY DEF timing, core, DrawAgain, LastFrame, EndIsTimed, VoInv
<1>8. DoneIsTold'
  BY DEF timing, core, StillDisplaying, DrawAgain, DoneIsTold, VoInv
<1>9. QED
  BY <1>1, <1>2, <1>3, <1>4, <1>5, <1>6, <1>7, <1>8 DEF VoInv

LEMMA WaitVoKeeps ==
  ASSUME VoInv, WaitVo
  PROVE  VoInv'
<1>1. TypeOK'
  <2>1. vpc' \in {"awake", "asleep"}
    BY DEF WaitVo, VoInv
  <2>2. rendering' \in BOOLEAN /\ ~rendering'
    BY DEF WaitVo, TypeOK, VoInv
  <2>3. waiting' \subseteq {"core", "vo"} /\ ("vo" \in waiting' => vpc' = "asleep")
    BY DEF WaitVo, TypeOK, VoInv
  <2>4. QED
    BY <2>1, <2>2, <2>3 DEF frames, redraw, timing, core, others, WaitVo, TypeOK, VoInv
<1>2. Calls'
  BY DEF frames, core, others, WaitVo, Calls, VoInv
<1>3. QueueIsFree'
  BY DEF frames, core, others, WaitVo, QueueIsFree, VoInv
<1>4. Round'
  BY DEF Never, frames, redraw, timing, core, others, MustNotWait, WaitVo, Round, VoInv
<1>5. VoKnows'
  BY DEF frames, redraw, timing, core, others, VsyncsLeft, WaitVo, Working, Looked, Settled,
         Sleepy, Repeats, TimerCovered, VoKnows, VoInv
<1>6. ReadyIsTold'
  BY DEF frames, timing, core, others, VsyncsLeft, ReadyNow, WaitVo, ReadyIsTold, VoInv
<1>7. EndIsTimed'
  BY DEF frames, timing, core, WaitVo, LastFrame, EndIsTimed, VoInv
<1>8. DoneIsTold'
  BY DEF frames, timing, core, StillDisplaying, WaitVo, DoneIsTold, VoInv
<1>9. QED
  BY <1>1, <1>2, <1>3, <1>4, <1>5, <1>6, <1>7, <1>8 DEF VoInv

LEMMA WokenKeeps ==
  ASSUME VoInv, Woken
  PROVE  VoInv'
<1>1. TypeOK'
  BY DEF frames, redraw, timing, core, others, Woken, TypeOK, VoInv
<1>2. Calls'
  BY DEF frames, core, others, Woken, Calls, VoInv
<1>3. QueueIsFree'
  BY DEF frames, core, others, Woken, QueueIsFree, VoInv
<1>4. Round'
  BY DEF Never, timing, Woken, Round, VoInv
<1>5. VoKnows'
  BY DEF frames, redraw, timing, core, others, VsyncsLeft, Woken, Working, Looked, Settled,
         Sleepy, Repeats, TimerCovered, VoKnows, VoInv
<1>6. ReadyIsTold'
  BY DEF frames, timing, core, others, VsyncsLeft, ReadyNow, Woken, ReadyIsTold, VoInv
<1>7. EndIsTimed'
  BY DEF frames, timing, core, Woken, LastFrame, EndIsTimed, VoInv
<1>8. DoneIsTold'
  BY DEF frames, timing, core, StillDisplaying, Woken, DoneIsTold, VoInv
<1>9. QED
  BY <1>1, <1>2, <1>3, <1>4, <1>5, <1>6, <1>7, <1>8 DEF VoInv

LEMMA AwakeKeeps ==
  ASSUME VoInv, Awake
  PROVE  VoInv'
<1>1. TypeOK'
  <2>1. need_wakeup' \in BOOLEAN
    BY DEF Awake, VoInv
  <2>2. QED
    BY <2>1 DEF frames, redraw, core, others, Awake, TypeOK, VoInv
<1>2. Calls'
  BY DEF frames, core, others, Awake, Calls, VoInv
<1>3. QueueIsFree'
  BY DEF frames, core, others, Awake, QueueIsFree, VoInv
<1>4. Round'
  BY DEF Never, Awake, Round, VoInv
<1>5. VoKnows'
  BY DEF frames, redraw, core, others, VsyncsLeft, Awake, Working, Looked, Settled, Sleepy,
         Repeats, TimerCovered, VoKnows, VoInv
<1>6. ReadyIsTold'
  BY DEF frames, core, others, VsyncsLeft, ReadyNow, Awake, ReadyIsTold, VoInv
<1>7. EndIsTimed'
  BY DEF frames, core, Awake, LastFrame, EndIsTimed, VoInv
<1>8. DoneIsTold'
  BY DEF frames, core, StillDisplaying, Awake, DoneIsTold, VoInv
<1>9. QED
  BY <1>1, <1>2, <1>3, <1>4, <1>5, <1>6, <1>7, <1>8 DEF VoInv

LEMMA VoWakeupKeeps ==
  ASSUME VoInv, VoWakeup
  PROVE  VoInv'
<1>1. TypeOK'
  <2>1. need_wakeup' \in BOOLEAN
    BY DEF WakeupLocked, VoWakeup, VoInv
  <2>2. QED
    BY <2>1
    DEF frames, redraw, timing, thread, core, others, WakeupLocked, VoWakeup, TypeOK, VoInv
<1>2. Calls'
  BY DEF frames, thread, core, others, WakeupLocked, VoWakeup, Calls, VoInv
<1>3. QueueIsFree'
  BY DEF frames, core, others, VoWakeup, QueueIsFree, VoInv
<1>4. Round'
  BY DEF Never, timing, thread, WakeupLocked, VoWakeup, Round, VoInv
<1>5. VoKnows'
  BY DEF frames, redraw, timing, thread, core, others, WakeupLocked, VsyncsLeft, VoWakeup,
         Working, Looked, Settled, Sleepy, Repeats, TimerCovered, VoKnows, VoInv
<1>6. ReadyIsTold'
  BY DEF frames, timing, thread, core, others, VsyncsLeft, ReadyNow, VoWakeup, ReadyIsTold,
         VoInv
<1>7. EndIsTimed'
  BY DEF frames, timing, core, VoWakeup, LastFrame, EndIsTimed, VoInv
<1>8. DoneIsTold'
  BY DEF frames, timing, thread, core, StillDisplaying, VoWakeup, DoneIsTold, VoInv
<1>9. QED
  BY <1>1, <1>2, <1>3, <1>4, <1>5, <1>6, <1>7, <1>8 DEF VoInv

LEMMA TickKeeps ==
  ASSUME VoInv, Tick
  PROVE  VoInv'
<1>1. TypeOK'
  <2>1. wakeup_pts' \in NextPts /\ asked' \in NextPts
    BY FrameFields, SoonerFrame, SoonerDelay, DelaysAssumption
    DEF Unset, Never, redraw, thread, wakeup, others, NextPts, Sooner, Tick, TypeOK, VoInv
  <2>2. until' \in Delays \union {Never}
    BY FrameFields, SoonerFrame, SoonerDelay, DelaysAssumption
    DEF Unset, Never, redraw, thread, wakeup, others, NextPts, Sooner, Tick, TypeOK, VoInv
  <2>3. frame_queued' \in Frame \union {None} /\ current_frame' \in Frame \union {None}
    BY FrameFields, SoonerFrame, SoonerDelay
    DEF redraw, thread, wakeup, others, Sooner, Tick, TypeOK, VoInv
  <2>4. QED
    BY <2>1, <2>2, <2>3 DEF redraw, thread, wakeup, others, Tick, TypeOK, VoInv
<1>2. Calls'
  BY FrameFields, SoonerFrame, SoonerDelay
  DEF redraw, thread, wakeup, others, Sooner, Tick, TypeOK, Calls, VoInv
<1>3. QueueIsFree'
  BY FrameFields, SoonerFrame, SoonerDelay
  DEF redraw, thread, wakeup, others, Sooner, Tick, TypeOK, QueueIsFree, VoInv
<1>4. Round'
  BY DEF Never, redraw, thread, wakeup, others, Sooner, Tick, Round, VoInv
<1>5. VoKnows'
  BY FrameFields, SoonerFrame, SoonerDelay, DelaysAssumption
  DEF redraw, thread, wakeup, others, VsyncsLeft, NextPts, Sooner, Tick, TypeOK, Working,
      Looked, Settled, Sleepy, Repeats, TimerCovered, VoKnows, VoInv
<1>6. ReadyIsTold'
  <2>1. SUFFICES ASSUME (cpc = "wantready" /\ ~core_woken /\ ReadyNow)'
                 PROVE  (vpc = "kick" \/ wakeup_pts \in 0 .. asked)'
    BY DEF ReadyIsTold
  <2>2. cpc = "wantready" /\ ~core_woken
    BY <2>1 DEF Tick
  <2>3. ReadyNow
    <3>1. (frame_queued' = None <=> frame_queued = None) /\ (current_frame' = None <=> current_frame = None)
      BY SoonerFrame DEF VoInv, TypeOK, Tick
    <3>2. current_frame # None => current_frame'.vsyncs = current_frame.vsyncs
      BY SoonerFrame DEF VoInv, TypeOK, Tick
    <3>3. QED
      BY <2>1, <3>1, <3>2 DEF ReadyNow, VsyncsLeft, Tick, others
  <2>4. vpc = "kick" \/ wakeup_pts \in 0 .. asked
    BY <2>2, <2>3 DEF VoInv, ReadyIsTold
  <2>5. QED
    BY <2>4, DelaysAssumption DEF Tick, thread, Sooner, VoInv, TypeOK, NextPts, Unset
<1>7. EndIsTimed'
  BY FrameFields, SoonerFrame, SoonerDelay
  DEF redraw, thread, wakeup, others, Sooner, Tick, TypeOK, LastFrame, EndIsTimed, VoInv
<1>8. DoneIsTold'
  BY FrameFields, SoonerFrame, SoonerDelay, DelaysAssumption
  DEF Unset, Never, redraw, thread, wakeup, others, StillDisplaying, NextPts, Sooner, Tick,
      TypeOK, Calls, LastFrame, EndIsTimed, DoneIsTold, VoInv
<1>9. QED
  BY <1>1, <1>2, <1>3, <1>4, <1>5, <1>6, <1>7, <1>8 DEF VoInv

LEMMA SpuriousWakeupKeeps ==
  ASSUME VoInv, NEW t \in {"core","vo"}, SpuriousWakeup(t)
  PROVE  VoInv'
<1>1. TypeOK'
  BY DEF frames, redraw, timing, thread, core, others, SpuriousWakeup, TypeOK, VoInv
<1>2. Calls'
  BY DEF frames, thread, core, others, SpuriousWakeup, Calls, VoInv
<1>3. QueueIsFree'
  BY DEF frames, core, others, SpuriousWakeup, QueueIsFree, VoInv
<1>4. Round'
  BY DEF Never, timing, thread, SpuriousWakeup, Round, VoInv
<1>5. VoKnows'
  BY DEF frames, redraw, timing, thread, core, others, VsyncsLeft, SpuriousWakeup, Working,
         Looked, Settled, Sleepy, Repeats, TimerCovered, VoKnows, VoInv
<1>6. ReadyIsTold'
  BY DEF frames, timing, thread, core, others, VsyncsLeft, ReadyNow, SpuriousWakeup,
         ReadyIsTold, VoInv
<1>7. EndIsTimed'
  BY DEF frames, timing, core, SpuriousWakeup, LastFrame, EndIsTimed, VoInv
<1>8. DoneIsTold'
  BY DEF frames, timing, thread, core, StillDisplaying, SpuriousWakeup, DoneIsTold, VoInv
<1>9. QED
  BY <1>1, <1>2, <1>3, <1>4, <1>5, <1>6, <1>7, <1>8 DEF VoInv

-------------------------------------------------------------------------------
LEMMA VoInvInit == Init => VoInv
<1> SUFFICES ASSUME Init PROVE VoInv
  OBVIOUS
<1>1. TypeOK
  BY DEF Init, TypeOK, NextPts
<1>2. Calls /\ QueueIsFree /\ Round /\ VoKnows
  BY DEF Init, Calls, QueueIsFree, Round, VoKnows, Working, Looked, Settled, Sleepy
<1>3. ReadyIsTold /\ EndIsTimed /\ DoneIsTold
  BY DEF Init, ReadyIsTold, EndIsTimed, DoneIsTold
<1>4. QED
  BY <1>1, <1>2, <1>3 DEF VoInv

LEMMA VoInvNext == VoInv /\ [Next]_vars => VoInv'
<1> SUFFICES ASSUME VoInv, [Next]_vars PROVE VoInv'
  OBVIOUS
<1>1. CASE Core
  BY <1>1, IsReadyForFrameKeeps, QueueFrameKeeps, WaitFrameKeeps, RequestWakeupOnDoneKeeps,
     RedrawKeeps, SetPausedKeeps, SeekResetKeeps, RequestKeeps, RequestDoneKeeps,
     WakeCoreKeeps DEF Core
<1>2. CASE VoThread
  BY <1>2, DispatchKeeps, SkipRenderKeeps, DropFrameKeeps, StartRenderKeeps, KickKeeps,
     DrawFrameKeeps, EndRenderKeeps, CheckKeeps, DoRedrawKeeps, DrawAgainKeeps,
     WaitVoKeeps, WokenKeeps, AwakeKeeps DEF VoThread
<1>3. CASE VoWakeup \/ Tick \/ \E t \in {"core", "vo"} : SpuriousWakeup(t)
  BY <1>3, VoWakeupKeeps, TickKeeps, SpuriousWakeupKeeps
<1>4. CASE UNCHANGED vars
  <2>1. UNCHANGED <<frame_queued, current_frame, hasframe, hasframe_rendered, rendering,
                    dropped_frame, paused, request_redraw, want_redraw, driver_want>>
    BY <1>4 DEF vars, frames, redraw, thread, others
  <2>2. UNCHANGED <<send_reset, wakeup_on_done, wakeup_pts, need_wakeup, config_ok, waiting,
                    request, vpc, vo_paused, until>>
    BY <1>4 DEF vars, timing, thread, wakeup, others
  <2>3. UNCHANGED <<redraw_at_start, cpc, asked, early, core_woken, shown, osd>>
    BY <1>4 DEF vars, frames, redraw, core
  <2>4. TypeOK'
    BY <2>1, <2>2, <2>3 DEF VoInv, TypeOK
  <2>5. (Calls /\ QueueIsFree /\ Round)'
    BY <2>1, <2>2, <2>3 DEF VoInv, Calls, QueueIsFree, Round
  <2>6. VoKnows'
    BY <2>1, <2>2, <2>3 DEF VoInv, VoKnows, Repeats, VsyncsLeft, TimerCovered
  <2>7. (ReadyIsTold /\ EndIsTimed)'
    BY <2>1, <2>2, <2>3 DEF VoInv, ReadyIsTold, EndIsTimed, ReadyNow, VsyncsLeft, LastFrame
  <2>8. DoneIsTold'
    BY <2>1, <2>2, <2>3 DEF VoInv, DoneIsTold, StillDisplaying
  <2>9. QED
    BY <2>4, <2>5, <2>6, <2>7, <2>8 DEF VoInv
<1>5. QED
  BY <1>1, <1>2, <1>3, <1>4 DEF Next

(* What each thread relies on about the other holds at every step. *)
THEOREM VoInvariant == Spec => []VoInv
  BY VoInvInit, VoInvNext, PTL DEF Spec

(* The fields of struct vo_internal that the two threads share keep their    *)
(* types; in_rendering is set exactly while the VO thread draws or flips,    *)
(* and the VO thread is asleep on the condition only in vo_wait_default().   *)
THEOREM VoTypeOK == Spec => []TypeOK
<1>1. VoInv => TypeOK
  BY DEF VoInv
<1>2. QED
  BY <1>1, VoInvariant, PTL

(* A VO thread that rests has nothing to do and has told the core all there  *)
(* was to tell.                                                              *)
LEMMA RestingVoKnows ==
  ASSUME VoInv, Resting
  PROVE  /\ vpc = "asleep" /\ ~rendering /\ ~need_wakeup /\ until # 0
         /\ frame_queued = None /\ request = "none" /\ ~Repeats
         /\ ~send_reset /\ paused = vo_paused /\ ~request_redraw /\ TimerCovered
<1>1. vpc = "asleep" /\ ~need_wakeup /\ until # 0
  BY DEF VoInv, TypeOK, Round, Resting
<1>2. ~rendering
  BY <1>1 DEF VoInv, TypeOK
<1>3. QED
  BY <1>1, <1>2 DEF VoInv, VoKnows, Working, Looked, Settled, Sleepy

LEMMA VoSleepIsJust == VoInv => VoSleepsJustly
<1> SUFFICES ASSUME VoInv, Resting
             PROVE  /\ ~need_wakeup /\ frame_queued = None /\ ~request_redraw
                    /\ ~send_reset /\ paused = vo_paused /\ request = "none"
                    /\ wakeup_pts > 0 => until \in 0 .. wakeup_pts
                    /\ hasframe /\ ~paused /\ VsyncsLeft(current_frame) => ~current_frame.synced
  BY DEF VoSleepsJustly
<1>1. wakeup_pts > 0 => until \in 0 .. wakeup_pts
  BY RestingVoKnows, DelaysAssumption DEF TimerCovered, VoInv, TypeOK, NextPts, Unset
<1>2. QED
  BY <1>1, RestingVoKnows DEF Repeats

LEMMA CoreSleepIsJust == VoInv => CoreSleepsJustly
<1> SUFFICES ASSUME VoInv, Resting
             PROVE  /\ cpc = "wantready" /\ ~core_woken => ~(ReadyNow /\ asked <= 0)
                    /\ cpc = "wantdone" /\ ~core_woken => StillDisplaying
                    /\ cpc = "waitframe" => "core" \notin waiting
  BY DEF CoreSleepsJustly
<1>1. /\ vpc = "asleep" /\ ~rendering /\ until # 0 /\ frame_queued = None /\ TimerCovered
  BY RestingVoKnows
<1>2. wakeup_pts \in Int /\ asked \in Int /\ (wakeup_pts = 0 => cpc = "ready")
  BY <1>1, DelaysAssumption DEF TimerCovered, VoInv, TypeOK, NextPts, Unset
<1>3. ASSUME cpc = "wantready", ~core_woken, ReadyNow PROVE ~(asked <= 0)
  BY <1>1, <1>2, <1>3 DEF VoInv, ReadyIsTold
<1>4. ASSUME cpc = "wantdone", ~core_woken PROVE StillDisplaying
  BY <1>2, <1>4 DEF VoInv, DoneIsTold
<1>5. ASSUME cpc = "waitframe" PROVE "core" \notin waiting
  BY <1>1 DEF VoInv, Calls
<1>6. QED
  BY <1>3, <1>4, <1>5

(* vo_queue_frame() finds the queue free, the VO thread never sleeps on      *)
(* work, and never while the core waits for a frame to be taken or to end    *)
(* that has been taken or has ended.                                         *)
THEOREM VoAgrees == Spec => []ThreadsAgree
<1>1. VoInv => ThreadsAgree
  BY VoSleepIsJust, CoreSleepIsJust DEF ThreadsAgree, VoInv
<1>2. QED
  BY <1>1, VoInvariant, PTL
-------------------------------------------------------------------------------
(* What is on the screen.  A request that was there when rendering started   *)
(* is still there, and drawn once the frame is flipped, except for calls of  *)
(* vo_redraw() in between; a frame that was not drawn was dropped or is      *)
(* about to be drawn, and while paused its redraw is requested.              *)
Drawing == {"kick", "draw", "redrawing"}

PicInv ==
  /\ RequestsAreDrawn
  /\ redraw_at_start => rendering /\ request_redraw
  /\ vpc = "flip" => shown /\ (redraw_at_start => osd # "stale")
  /\ current_frame # None /\ ~shown => \/ vpc \in Drawing
                                       \/ dropped_frame /\ (paused => request_redraw)

LEMMA PicInvInit == Init => PicInv
  BY DEF Init, PicInv, RequestsAreDrawn

LEMMA PicInvNext == VoInv /\ PicInv /\ [Next]_vars => PicInv'
<1> SUFFICES ASSUME VoInv, PicInv, [Next]_vars PROVE PicInv'
  OBVIOUS
<1> USE DEF PicInv, RequestsAreDrawn
<1>0. TypeOK
  BY DEF VoInv
<1>1. CASE \E next \in NextPts : IsReadyForFrame(next)
  BY <1>0, <1>1 DEF IsReadyForFrame, frames, redraw, thread, others
<1>2. CASE \E f \in NewFrame : QueueFrame(f)
  BY <1>0, <1>2 DEF QueueFrame, redraw, thread, others
<1>3. CASE WaitFrame
  BY <1>0, <1>3 DEF WaitFrame, frames, redraw, thread, others
<1>4. CASE RequestWakeupOnDone
  BY <1>0, <1>4 DEF RequestWakeupOnDone, frames, redraw, thread, others
<1>5. CASE Redraw
  BY <1>0, <1>5 DEF Redraw, Overlooked, frames, thread, others
<1>6. CASE \E p \in BOOLEAN : SetPaused(p)
  BY <1>0, <1>6 DEF SetPaused, PauseNeedsDraw, frames, thread
<1>7. CASE SeekReset
  BY <1>0, <1>7, Forgotten DEF SeekReset, ForgetFrames, redraw, thread, TypeOK
<1>8. CASE \E r \in {"reconfig", "terminate"} : Request(r)
  BY <1>0, <1>8 DEF Request, frames, redraw, thread
<1>9. CASE RequestDone \/ WakeCore \/ VoWakeup
  BY <1>0, <1>9 DEF RequestDone, WakeCore, VoWakeup, frames, redraw, thread, others
<1>10. CASE Dispatch
  BY <1>0, <1>10 DEF Dispatch, ForgetFrames, frames, Drawing, TypeOK
<1>11. CASE SkipRender
  BY <1>0, <1>11 DEF SkipRender, frames, redraw, others, Drawing, TypeOK
<1>12. CASE DropFrame
  BY <1>0, <1>12 DEF DropFrame, MayDrop, FrameDone, redraw, others, Drawing, TypeOK
<1>13. CASE StartRender
  BY <1>0, <1>13 DEF StartRender, others, Drawing, TypeOK
<1>14. CASE Kick
  BY <1>0, <1>14 DEF Kick, frames, redraw, others, Drawing
<1>15. CASE DrawFrame
  BY <1>0, <1>15 DEF DrawFrame, others, Drawing, TypeOK
<1>16. CASE EndRender
  BY <1>0, <1>16 DEF EndRender, FrameDone, ClearRequest, others, Drawing, TypeOK
<1>17. CASE Check
  BY <1>0, <1>17 DEF Check, frames, Drawing, TypeOK
<1>18. CASE DoRedraw
  BY <1>0, <1>18 DEF DoRedraw, others, Drawing, TypeOK
<1>19. CASE DrawAgain
  BY <1>0, <1>19 DEF DrawAgain, others, Drawing, TypeOK
<1>20. CASE WaitVo \/ Woken \/ Awake
  BY <1>0, <1>20 DEF WaitVo, Woken, Awake, frames, redraw, others, Drawing
<1>21. CASE Tick
  BY <1>0, <1>21, SoonerFrame DEF Tick, redraw, thread, others, TypeOK
<1>22. CASE \E t \in {"core", "vo"} : SpuriousWakeup(t)
  BY <1>0, <1>22 DEF SpuriousWakeup, frames, redraw, thread, others
<1>23. CASE UNCHANGED vars
  BY <1>0, <1>23 DEF vars, frames, redraw, thread, others
<1>24. QED
  BY <1>1, <1>2, <1>3, <1>4, <1>5, <1>6, <1>7, <1>8, <1>9, <1>10, <1>11, <1>12,
     <1>13, <1>14, <1>15, <1>16, <1>17, <1>18, <1>19, <1>20, <1>21, <1>22, <1>23
     DEF Next, Core, VoThread

(* Every call of vo_redraw(), also one that finds a request pending, sees a  *)
(* draw that starts later or the request for one, except if it comes while   *)
(* render_frame() flips the frame it drew for an earlier request; and when   *)
(* the VO thread rests, the last frame is on the screen, or it was dropped   *)
(* as late and the player is not paused.                                     *)
THEOREM PictureCurrent == Spec => []PictureIsCurrent
<1>1. VoInv /\ PicInv => PictureIsCurrent
  <2>1. SUFFICES ASSUME VoInv, PicInv PROVE RequestsAreDrawn /\ FrameIsShown
    BY DEF PictureIsCurrent
  <2>2. FrameIsShown
    BY <2>1, RestingVoKnows DEF PicInv, FrameIsShown, Drawing
  <2>3. QED
    BY <2>1, <2>2 DEF PicInv
<1>2. Spec => []PicInv
  BY PicInvInit, PicInvNext, VoInvariant, PTL DEF Spec
<1>3. QED
  BY <1>1, <1>2, VoInvariant, PTL
===============================================================================
