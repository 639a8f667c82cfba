----------------------------- MODULE RenderApi ------------------------------
(***************************************************************************)
(* Video drawn by the application: video/out/vo_libmpv.c, with direct      *)
(* rendering images (video/out/dr_helper.c) and the end of the video       *)
(* (kill_video_async() in player/client.c, uninit_video_out()).            *)
(*                                                                         *)
(* Five threads meet here.  The VO thread offers a frame, waits for its    *)
(* time and flips it, and gives up on an application that does not render; *)
(* the application's render thread renders the frame and waits until it is *)
(* presented, serves the requests in ctx->dispatch, and destroys the       *)
(* context; the core creates and destroys the VO; the decoder asks the     *)
(* render thread for images; a screenshot keeps the current frame while it *)
(* is written.  A section under ctx->lock is one step, with update() of    *)
(* the images it frees; other calls of update() are a step of their own,   *)
(* as they come after the lock of the dispatch queue is released.          *)
(* Reported swaps end a wait of flip_page(), as does the timeout, and have *)
(* no other effect: they are no actions of the model.                      *)
(* Left out: frames without an image, resizing, reconfiguration, options   *)
(* and performance data, VOCTRLs that go to ctx->control_cb, rendering.    *)
(***************************************************************************)
EXTENDS Naturals, Sequences, FiniteSets

CONSTANTS
  MaxImages,        \* bound: frames that are decoded
  MaxDraws,         \* bound: frames and redraws that are offered
  MaxShots,         \* bound: screenshots
  Advanced          \* MPV_RENDER_PARAM_ADVANCED_CONTROL: a set of BOOLEAN

ASSUME ConstantsAssumption ==
  /\ MaxImages \in Nat /\ MaxDraws \in Nat /\ MaxShots \in Nat
  /\ Advanced \subseteq BOOLEAN /\ Advanced # {}

None == 0
Images == 1 .. MaxImages

(* Who may hold a reference to an image: the decoder, the queue before the *)
(* VO, vo->in->current_frame, ctx->next_frame, ctx->cur_frame, the frame   *)
(* that is rendered, a screenshot.                                         *)
Holders == {"decoder", "queue", "vo", "next", "cur", "render", "shot"}

VARIABLES
  advanced,         \* ctx->advanced_control, and ctx->dr
  ctx,              \* struct mpv_render_context, and whether it is registered
  images,           \* [refs, inFlight, items]: images, dr_in_flight, ctx->dispatch
  interrupted,      \* of ctx->dispatch
  told,             \* the application's callback was called, and not yet heeded
  wants,            \* mpv_render_context_update() returned UPDATE_FRAME
  renderPc,         \* where the render thread is
  waitPresent,      \* its wait_present_count, less ctx->present_count
  voPc,             \* where the VO thread is
  current,          \* vo->in->current_frame
  queued,           \* frames on their way to it
  stopVo,           \* vo_destroy() was called
  corePc,           \* where the core is
  kill,             \* do_kill() is in the core's dispatch queue
  decPc,            \* where the decoder is
  shotPc,           \* where the screenshot is
  waking,           \* threads that have update() yet to call
  counts            \* what is bounded: images, draws and screenshots so far

renderVars == <<wants, renderPc, waitPresent>>
voVars == <<voPc, current, queued>>
coreVars == <<stopVo, corePc, kill>>
vars == <<advanced, ctx, images, interrupted, told, renderVars, voVars, coreVars,
          decPc, shotPc, waking, counts>>

(***************************************************************************)
(* Images: the last reference to one queues dr_thread_free(), unless the   *)
(* DR thread itself lets go of it.                                         *)
(***************************************************************************)

Hold(d, i, h) == IF i = None THEN d ELSE [d EXCEPT !.refs[i] = @ \cup {h}]

Drop(d, i, h) ==
  IF i = None THEN d
  ELSE LET e == [d EXCEPT !.refs[i] = @ \ {h}]
       IN  IF e.refs[i] = {} /\ advanced
             THEN [e EXCEPT !.items = Append(@, "free")] ELSE e

DropDirectly(d, i, h) ==
  IF i = None THEN d
  ELSE LET e == [d EXCEPT !.refs[i] = @ \ {h}]
       IN  IF e.refs[i] = {} /\ advanced
             THEN [e EXCEPT !.inFlight = @ - 1] ELSE e

(* ctx->next_frame becomes ctx->cur_frame.                                 *)
MakeCur(d) ==
  Drop(Hold(Drop(d, ctx.cur, "cur"), ctx.next, "cur"), ctx.next, "next")

TakenKept == [ctx EXCEPT !.cur = ctx.next]
Taken == [ctx EXCEPT !.cur = ctx.next, !.next = None]

Requested(d) == Len(d.items) > Len(images.items)

(* Inside a section under ctx->lock, and outside of it.                    *)
DropsLocked(d) == images' = d /\ told' = (told \/ Requested(d))

Drops(thread, d) ==
  /\ images' = d
  /\ waking' = IF Requested(d) THEN waking \cup {thread} ELSE waking

Free(thread) == thread \notin waking

WakesToServe(thread) ==
  waking' = IF advanced THEN waking \cup {thread} ELSE waking
Wakes(thread) == waking' = waking \cup {thread}

(* update(), called with no lock held.                                     *)
Update(thread) ==
  /\ thread \in waking
  /\ told' = TRUE
  /\ waking' = waking \ {thread}
  /\ UNCHANGED <<advanced, ctx, images, interrupted, renderVars, voVars, coreVars,
                 decPc, shotPc, counts>>

(***************************************************************************)
(* The VO thread.                                                          *)
(***************************************************************************)

FlipFrame == <<advanced, coreVars, wants, renderPc, decPc, shotPc>>
VoFrame == <<FlipFrame, waitPresent>>

(* preinit(), mp_client_api_acquire_render_context().                      *)
Preinit ==
  /\ voPc = "preinit"
  /\ IF ctx.set /\ ~ctx.inUse
       THEN ctx' = [ctx EXCEPT !.inUse = TRUE] /\ voPc' = "loop"
       ELSE voPc' = "failed" /\ UNCHANGED ctx
  /\ UNCHANGED <<VoFrame, images, interrupted, told, current, queued, waking, counts>>

(* render_frame(): the next frame becomes the current one.                 *)
NextFrame ==
  /\ voPc = "loop" /\ Free("vo")
  /\ queued # <<>>
  /\ counts.draws < MaxDraws
  /\ LET taken == Hold(images, Head(queued), "vo")
     IN  Drops("vo", Drop(Drop(taken, Head(queued), "queue"), current, "vo"))
  /\ current' = Head(queued)
  /\ queued' = Tail(queued)
  /\ voPc' = "frame"
  /\ UNCHANGED <<VoFrame, ctx, interrupted, told, counts>>

(* draw_frame() of it, or of the current frame again: a redraw, unless the *)
(* frame is repeated or had been dropped.                                  *)
Overwrites == ctx.overwrites \/ ctx.next # None

DrawFrame ==
  /\ voPc \in {"frame", "loop"} /\ Free("vo")
  /\ current # None
  /\ counts.draws < MaxDraws
  /\ images' = Hold(images, current, "next")
  /\ \E redraw \in IF voPc = "loop" THEN BOOLEAN ELSE {FALSE} :
        ctx' = [ctx EXCEPT !.next = current, !.redrawing = redraw,
                           !.overwrites = Overwrites]
  /\ voPc' = "drawn"
  /\ Wakes("vo")
  /\ counts' = [counts EXCEPT !.draws = @ + 1]
  /\ UNCHANGED <<VoFrame, interrupted, told, current, queued>>

(* The target time comes, and flip_page() is called.                       *)
FlipPage ==
  /\ voPc = "drawn" /\ Free("vo")
  /\ voPc' = "flip"
  /\ UNCHANGED <<VoFrame, ctx, images, interrupted, told, current, queued, waking, counts>>

(* ctx->present_count += n                                                 *)
Present(n) == waitPresent' = IF waitPresent > n THEN waitPresent - n ELSE 0

(* flip_page() finds the frame rendered; if the application reports swaps, *)
(* it also waits for that of a new frame.                                  *)
Presented ==
  /\ voPc = "flip"
  /\ ctx.next = None
  /\ Present(1)
  /\ voPc' \in IF ctx.redrawing THEN {"loop"} ELSE {"loop", "swap"}
  /\ UNCHANGED <<FlipFrame, ctx, images, interrupted, told, current, queued, waking, counts>>

(* 0.2 seconds went by, and nobody rendered it.                            *)
GiveUp ==
  /\ voPc = "flip"
  /\ ctx.next # None
  /\ DropsLocked(MakeCur(images))
  /\ ctx' = Taken
  /\ Present(2)
  /\ voPc' = "loop"
  /\ UNCHANGED <<FlipFrame, interrupted, current, queued, waking, counts>>

(* The frame was shown, or the rest of the 0.2 seconds is over.            *)
Swapped ==
  /\ voPc = "swap"
  /\ voPc' = "loop"
  /\ UNCHANGED <<VoFrame, ctx, images, interrupted, told, current, queued, waking, counts>>

(* control(VOCTRL_SCREENSHOT): the render thread takes it.                 *)
Control ==
  /\ corePc = "control"
  /\ voPc = "loop" /\ Free("vo")
  /\ images' = [images EXCEPT !.items = Append(@, "screenshot")]
  /\ Wakes("vo")
  /\ voPc' = "control"
  /\ UNCHANGED <<VoFrame, ctx, interrupted, told, current, queued, counts>>

(* vo_destroy(): the VO lets go of its frame, and uninit() of the context. *)
LeaveLoop ==
  /\ voPc = "loop" /\ Free("vo")
  /\ stopVo
  /\ Drops("vo", Drop(images, current, "vo"))
  /\ current' = None
  /\ voPc' = "uninit"
  /\ UNCHANGED <<VoFrame, ctx, interrupted, told, queued, counts>>

(* uninit() with ctx->lock held: the render thread may see in_use before   *)
(* the VO is done with the context.                                        *)
Uninit ==
  /\ voPc = "uninit" /\ Free("vo")
  /\ DropsLocked(Drop(images, ctx.cur, "cur"))
  /\ ctx' = [ctx EXCEPT !.cur = None, !.inUse = FALSE, !.locked = TRUE]
  /\ voPc' = "interrupt"
  /\ UNCHANGED <<VoFrame, interrupted, current, queued, waking, counts>>

NoInterrupt == UNCHANGED interrupted
Interrupt == interrupted' = TRUE

UninitInterrupt ==
  /\ voPc = "interrupt"
  /\ Interrupt
  /\ ctx' = [ctx EXCEPT !.locked = FALSE]
  /\ voPc' = "done"
  /\ UNCHANGED <<VoFrame, images, told, current, queued, waking, counts>>

Vo ==
  \/ Preinit \/ NextFrame \/ (voPc = "frame" /\ DrawFrame) \/ FlipPage \/ Presented
  \/ GiveUp \/ Swapped \/ Control \/ LeaveLoop \/ Uninit \/ UninitInterrupt
  \/ Update("vo")

(***************************************************************************)
(* The decoder, and the core.                                              *)
(***************************************************************************)

(* dr_helper_get_image(): from the render thread, if it does that at all.  *)
GetImage ==
  /\ decPc = "idle" /\ Free("decoder")
  /\ corePc \in {"run", "control", "chain"} /\ voPc \notin {"none", "preinit", "failed"}
  /\ counts.images < MaxImages
  /\ counts' = [counts EXCEPT !.images = @ + 1]
  /\ IF advanced
       THEN /\ images' = [images EXCEPT !.items = Append(@, "image")]
            /\ Wakes("decoder")
            /\ decPc' = "request"
       ELSE /\ images' = Hold(images, counts.images + 1, "decoder")
            /\ decPc' = "decoded"
            /\ UNCHANGED waking
  /\ UNCHANGED <<advanced, ctx, interrupted, told, renderVars, voVars, coreVars, shotPc>>

(* The decoded frame goes to the VO.                                       *)
QueueFrame ==
  /\ decPc = "decoded" /\ Free("decoder")
  /\ images' = Drop(Hold(images, counts.images, "queue"), counts.images, "decoder")
  /\ queued' = Append(queued, counts.images)
  /\ decPc' = "idle"
  /\ UNCHANGED <<advanced, ctx, interrupted, told, renderVars, voPc, current, coreVars,
                 shotPc, waking, counts>>

Decoder == QueueFrame \/ Update("decoder")

CoreFrame == <<advanced, ctx, interrupted, told, renderVars, shotPc, counts>>

(* vo_create() in init_best_video_out(); it may fail.                      *)
CreateVo ==
  /\ corePc = "run"
  /\ voPc = "none"
  /\ voPc' = "preinit"
  /\ corePc' = "create"
  /\ UNCHANGED <<CoreFrame, images, current, queued, stopVo, kill, decPc, waking>>

VoCreated ==
  /\ corePc = "create"
  /\ voPc \in {"loop", "failed"}
  /\ voPc' = IF voPc = "failed" THEN "none" ELSE voPc
  /\ corePc' = "run"
  /\ UNCHANGED <<CoreFrame, images, current, queued, stopVo, kill, decPc, waking>>

(* uninit_video_out(), because the file ended or by do_kill(): first the   *)
(* chain with its decoder, which is joined, then the VO.                   *)
UninitVideoOut ==
  /\ corePc = "run"
  /\ corePc' = "chain"
  /\ kill' = FALSE
  /\ UNCHANGED <<CoreFrame, images, voVars, stopVo, decPc, waking>>

FreeChain ==
  /\ corePc = "chain" /\ Free("core")
  /\ decPc = "idle" /\ Free("decoder")
  /\ queued # <<>>
  /\ Drops("core", Drop(images, Head(queued), "queue"))
  /\ queued' = Tail(queued)
  /\ UNCHANGED <<CoreFrame, voPc, current, coreVars, decPc>>

DestroyVo ==
  /\ corePc = "chain" /\ Free("core")
  /\ decPc = "idle" /\ Free("decoder")
  /\ queued = <<>>
  /\ stopVo' = (voPc # "none")
  /\ corePc' = "vo"
  /\ UNCHANGED <<CoreFrame, images, voVars, kill, decPc, waking>>

VoDestroyed ==
  /\ corePc = "vo"
  /\ voPc \in {"none", "done"}
  /\ stopVo' = FALSE
  /\ voPc' = "none"
  /\ corePc' = "run"
  /\ UNCHANGED <<CoreFrame, images, current, queued, kill, decPc, waking>>

Core ==
  \/ VoCreated \/ (kill /\ UninitVideoOut) \/ FreeChain \/ DestroyVo \/ VoDestroyed
  \/ Update("core")

(* screenshot_get(): vo_control() waits for the VO thread, ...             *)
ScreenshotGet ==
  /\ corePc = "run"
  /\ voPc # "none" /\ advanced
  /\ counts.shots < MaxShots
  /\ counts' = [counts EXCEPT !.shots = @ + 1]
  /\ corePc' = "control"
  /\ UNCHANGED <<advanced, ctx, images, interrupted, told, renderVars, voVars, stopVo,
                 kill, decPc, shotPc, waking>>

(* ... and without it the screenshot is the VO's current frame, which the  *)
(* command writes to a file with the core unlocked (write_screenshot()).   *)
CurrentFrame ==
  /\ shotPc = "idle"
  /\ corePc = "run"
  /\ current # None
  /\ counts.shots < MaxShots
  /\ counts' = [counts EXCEPT !.shots = @ + 1]
  /\ images' = Hold(images, current, "shot")
  /\ shotPc' = "write"
  /\ UNCHANGED <<advanced, ctx, interrupted, told, renderVars, voVars, coreVars,
                 decPc, waking>>

ShotWritten ==
  /\ shotPc = "write" /\ Free("shot")
  /\ \E i \in Images : "shot" \in images.refs[i] /\ Drops("shot", Drop(images, i, "shot"))
  /\ shotPc' = "idle"
  /\ UNCHANGED <<advanced, ctx, interrupted, told, renderVars, voVars, coreVars,
                 decPc, counts>>

Shot == ShotWritten \/ Update("shot")

(***************************************************************************)
(* The application's render thread.                                        *)
(***************************************************************************)

RenderThreadFrame == <<advanced, current, queued, stopVo, kill, shotPc, waking, counts>>
RenderFrame == <<RenderThreadFrame, corePc>>

(* mp_dispatch_queue_process() runs an item.                               *)
Processing == renderPc \in {"update", "serve", "rest"}

RunItem ==
  /\ Processing
  /\ images.items # <<>>
  /\ LET item == Head(images.items)
         d == [images EXCEPT !.items = Tail(@)]
     IN  /\ images' = CASE item = "image" ->
                             [Hold(d, counts.images, "decoder") EXCEPT !.inFlight = @ + 1]
                        [] item = "free" -> [d EXCEPT !.inFlight = @ - 1]
                        [] item = "screenshot" -> d
         /\ decPc' = IF item = "image" THEN "decoded" ELSE decPc
         /\ voPc' = IF item = "screenshot" THEN "loop" ELSE voPc
         /\ corePc' = IF item = "screenshot" THEN "run" ELSE corePc
  /\ UNCHANGED <<RenderThreadFrame, ctx, interrupted, told, renderVars>>

(* mpv_render_context_update().                                            *)
CallUpdate ==
  /\ renderPc = "idle"
  /\ told' = FALSE
  /\ renderPc' = "update"
  /\ UNCHANGED <<RenderFrame, ctx, images, interrupted, wants, waitPresent, voPc, decPc>>

UpdateReturns ==
  /\ renderPc = "update"
  /\ images.items = <<>>
  /\ ~ctx.locked
  /\ wants' = (ctx.next # None)
  /\ interrupted' = FALSE
  /\ renderPc' = "idle"
  /\ UNCHANGED <<RenderFrame, ctx, images, told, waitPresent, voPc, decPc>>

(* mpv_render_context_render(): the section that takes the frame, ...      *)
WaitsForPresent == ctx.next # None /\ ~ctx.redrawing

Render ==
  /\ renderPc = "idle"
  /\ ~ctx.locked
  /\ wants' = FALSE
  /\ waitPresent' = IF WaitsForPresent THEN 1 ELSE 0
  /\ IF ctx.next # None
       THEN /\ DropsLocked(MakeCur(Hold(images, ctx.next, "render")))
            /\ ctx' = Taken
       ELSE DropsLocked(Hold(images, ctx.cur, "render")) /\ UNCHANGED ctx
  /\ renderPc' = "render"
  /\ UNCHANGED <<RenderFrame, interrupted, voPc, decPc>>

(* ... the rendering, after which the frame is freed, ...                  *)
Rendered ==
  /\ renderPc = "render"
  /\ IF \E i \in Images : "render" \in images.refs[i]
       THEN \E i \in Images : /\ "render" \in images.refs[i]
                              /\ DropsLocked(Drop(images, i, "render"))
       ELSE UNCHANGED <<images, told>>
  /\ renderPc' \in {"present", "idle"}      \* BLOCK_FOR_TARGET_TIME
  /\ UNCHANGED <<RenderFrame, ctx, interrupted, wants, waitPresent, voPc, decPc>>

(* ... and the wait until it is presented.                                 *)
RenderReturns ==
  /\ renderPc = "present"
  /\ ~ctx.locked
  /\ waitPresent = 0
  /\ renderPc' = "idle"
  /\ UNCHANGED <<RenderFrame, ctx, images, interrupted, told, wants, waitPresent, voPc, decPc>>

(* mpv_render_context_free(): the context becomes invisible, ...           *)
FreeContext ==
  /\ renderPc = "idle"
  /\ ctx.set
  /\ ctx' = [ctx EXCEPT !.set = FALSE]
  /\ renderPc' = "kill"
  /\ UNCHANGED <<RenderFrame, images, interrupted, told, wants, waitPresent, voPc, decPc>>

ServedOnce == "barrier"
Served == IF ctx.inUse THEN "serve" ELSE "barrier"

(* ... a VO that uses it is destroyed, ...                                 *)
KillVideo ==
  /\ renderPc = "kill"
  /\ kill' = (kill \/ ctx.inUse)
  /\ renderPc' = IF ctx.inUse THEN "serve" ELSE "barrier"
  /\ UNCHANGED <<advanced, ctx, images, interrupted, told, wants, waitPresent, voVars,
                 stopVo, corePc, decPc, shotPc, waking, counts>>

(* ... while ctx->dispatch is served, ...                                  *)
Serve ==
  /\ renderPc = "serve"
  /\ images.items = <<>>
  /\ interrupted
  /\ interrupted' = FALSE
  /\ renderPc' = Served
  /\ UNCHANGED <<RenderFrame, ctx, images, told, wants, waitPresent, voPc, decPc>>

(* ... until uninit() has left its section; what is left is done here, ... *)
Barrier ==
  /\ renderPc = "barrier"
  /\ ~ctx.locked
  /\ renderPc' = "rest"
  /\ UNCHANGED <<RenderFrame, ctx, images, interrupted, told, wants, waitPresent, voPc, decPc>>

(* ... and everything is freed.  An image that is left is a failed         *)
(* assertion (dr_helper_destroy()).                                        *)
Destroyed ==
  /\ renderPc = "rest"
  /\ images.items = <<>>
  /\ images' = DropDirectly(images, ctx.cur, "cur")
  /\ ctx' = [ctx EXCEPT !.cur = None]
  /\ renderPc' = IF images'.inFlight = 0 THEN "freed" ELSE "aborted"
  /\ UNCHANGED <<RenderFrame, interrupted, told, wants, waitPresent, voPc, decPc>>

RenderThread ==
  \/ RunItem \/ UpdateReturns \/ Rendered \/ RenderReturns \/ KillVideo \/ Serve
  \/ Barrier \/ Destroyed

(* With advanced control the application must call update() when told.     *)
HeedUpdate == advanced /\ told /\ CallUpdate

(* What may happen, and need not.                                          *)
Environment ==
  \/ DrawFrame \/ CallUpdate \/ Render \/ FreeContext
  \/ CreateVo \/ UninitVideoOut \/ GetImage \/ ScreenshotGet \/ CurrentFrame

Init ==
  /\ advanced \in Advanced
  /\ ctx = [set |-> TRUE, inUse |-> FALSE, locked |-> FALSE, next |-> None, cur |-> None,
            redrawing |-> FALSE, overwrites |-> FALSE]
  /\ images = [refs |-> [i \in Images |-> {}], inFlight |-> 0, items |-> <<>>]
  /\ interrupted = FALSE /\ told = FALSE /\ wants = FALSE
  /\ renderPc = "idle" /\ waitPresent = 0
  /\ voPc = "none" /\ current = None /\ queued = <<>>
  /\ stopVo = FALSE /\ corePc = "run" /\ kill = FALSE
  /\ decPc = "idle" /\ shotPc = "idle" /\ waking = {}
  /\ counts = [images |-> 0, draws |-> 0, shots |-> 0]

Aborted == renderPc = "aborted" /\ UNCHANGED vars

Next ==
  \/ renderPc # "aborted" /\ (Vo \/ Decoder \/ Core \/ Shot \/ RenderThread \/ Environment)
  \/ Aborted

Fairness ==
  /\ WF_vars(Vo) /\ WF_vars(Decoder) /\ WF_vars(Core) /\ WF_vars(Shot)
  /\ SF_vars(RenderThread) /\ SF_vars(HeedUpdate)

Spec == Init /\ [][Next]_vars
FairSpec == Spec /\ Fairness

-----------------------------------------------------------------------------
(***************************************************************************)
(* Properties.                                                             *)
(***************************************************************************)

ContextState == [set : BOOLEAN, inUse : BOOLEAN, locked : BOOLEAN, redrawing : BOOLEAN,
                 overwrites : {FALSE}, next : Images \cup {None},
                 cur : Images \cup {None}]
ImageState == [refs : [Images -> SUBSET Holders], inFlight : 0 .. MaxImages,
               items : Seq({"image", "free", "screenshot"})]
Counts == [images : 0 .. MaxImages, draws : 0 .. MaxDraws, shots : 0 .. MaxShots]

(* Types, and what is asserted: no frame is offered on top of another      *)
(* (draw_frame()), and dr_in_flight does not underflow (dr_thread_free()). *)
TypeOK ==
  /\ advanced \in BOOLEAN /\ interrupted \in BOOLEAN /\ told \in BOOLEAN
  /\ wants \in BOOLEAN /\ stopVo \in BOOLEAN /\ kill \in BOOLEAN
  /\ ctx \in ContextState /\ images \in ImageState /\ counts \in Counts
  /\ renderPc \in {"idle", "update", "render", "present", "kill", "serve", "barrier",
                   "rest", "freed", "aborted"}
  /\ waitPresent \in {0, 1}
  /\ voPc \in {"none", "preinit", "failed", "loop", "frame", "drawn", "flip", "swap",
               "control", "uninit", "interrupt", "done"}
  /\ corePc \in {"run", "create", "control", "chain", "vo"}
  /\ decPc \in {"idle", "request", "decoded"} /\ shotPc \in {"idle", "write"}
  /\ current \in Images \cup {None} /\ queued \in Seq(Images)
  /\ waking \subseteq {"vo", "core", "decoder", "shot"}

(* "All references must have been freed on destruction, or we'll have      *)
(* dangling pointers." (dr_helper_destroy())  All were, but for a software *)
(* screenshot that is being written.                                       *)
ReferencesAreFreed ==
  renderPc = "aborted" => \A i \in Images : images.refs[i] \subseteq {"shot"}

(* mpv_render_context_free() returns only when nobody will touch the       *)
(* context again: the VO has left uninit(), the dispatch queue is empty    *)
(* and nobody is about to call update(), no frame is forgotten in the      *)
(* context, and all DR images were freed by the render thread, whatever    *)
(* VO, decoder and core were doing when the application called it.  Except *)
(* for a software screenshot: nobody waits for the one that writes it.     *)
ContextOutlivesUse ==
  /\ ReferencesAreFreed
  /\ renderPc = "freed" =>
       /\ ~ctx.inUse /\ ~ctx.locked
       /\ voPc \in {"none", "preinit", "failed", "done"}
       /\ images.items = <<>> /\ waking \subseteq {"shot"} /\ decPc # "request"
       /\ ctx.next = None /\ ctx.cur = None

(* A frame that waits to be rendered is known to the application, or its   *)
(* update callback will be called; and so are requests in ctx->dispatch,   *)
(* if the application serves them: neither is slept over.                  *)
ApplicationIsTold ==
  LET toldOf(known) == told \/ known \/ waking # {} \/ renderPc = "update"
  IN  /\ ctx.next # None => toldOf(wants)
      /\ images.items # <<>> => toldOf(renderPc \in {"kill", "serve", "barrier", "rest"})

(* No thread waits for ever on another: render() for flip_page(),          *)
(* flip_page() for render(), get_image and screenshots for update(), the   *)
(* core for its VO, and mpv_render_context_free() for the end of the       *)
(* video, to which the others may need the thread that called it.          *)
EverybodyReturns ==
  LET aborted == renderPc = "aborted"
  IN  /\ (renderPc # "idle") ~> (renderPc \in {"idle", "freed"} \/ aborted)
      /\ (voPc \in {"drawn", "control"}) ~> (voPc = "loop" \/ aborted)
      /\ (decPc # "idle") ~> (decPc = "idle" \/ aborted)
      /\ (corePc # "run") ~> (corePc = "run" \/ aborted)
=============================================================================
