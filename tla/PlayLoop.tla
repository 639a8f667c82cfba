------------------------------- MODULE PlayLoop --------------------------------
(***************************************************************************)
(* The playback loop of a file: player/playloop.c with the parts of        *)
(* video.c and audio.c it calls.  Audio and video start together after a   *)
(* seek, drain and end one by one; seeks are queued, combined, delayed and *)
(* executed; at the end of the file the player stops, loops or stays.      *)
(*                                                                         *)
(* The core runs run_playloop() in steps.  The decoders, the VO thread and *)
(* the audio output are reduced to what the core sees of them, as the      *)
(* modules DecoderThread, VoQueue and AudioOutput have it.  Times are      *)
(* counted in frames: video frame t is shown from t to t+1, and audio t is *)
(* heard meanwhile.                                                        *)
(***************************************************************************)
EXTENDS Integers, FiniteSets, SequencesExt

CONSTANTS Setups,
          VideoLengths, \* numbers of video frames
          Keyframes,
          AudioSpans,   \* where the audio of a file starts and ends
          QueueSize,    \* ao->buffer
          Targets,      \* where the user seeks to
          Amounts,      \* and by how much
          MaxCommands   \* bound

\* tracks: what is selected; frames, audio: what there is of them; end: what happens at the end of the file; gapless:
\* --gapless-audio; slow: data may have to be waited for; stalls: it may stay away;
\* uses: what the
\* user does, and most: how often.
Ends == {"stop", "loop", "keep_open"}
Commands == {"absolute", "keyframe", "relative", "exact", "pause", "step", "backstep"}
ASSUME SetupsAssumption ==
  Setups \subseteq [tracks : SUBSET {"audio", "video"} \ {{}}, frames : VideoLengths,
                   audio : AudioSpans, end : Ends, gapless : BOOLEAN, slow : BOOLEAN, stalls : BOOLEAN,
                   uses : SUBSET Commands, most : 0 .. MaxCommands]
ASSUME FileAssumption ==
  /\ VideoLengths \subseteq Nat \ {0} /\ 0 \in Keyframes
  /\ \A n \in VideoLengths : Keyframes \subseteq 0 .. n - 1
  /\ AudioSpans \subseteq Nat \X Nat /\ \A span \in AudioSpans : span[1] < span[2]
  /\ QueueSize \in Nat \ {0} /\ Targets \subseteq Nat /\ Amounts \subseteq Int
  /\ MaxCommands \in Nat

VARIABLES setup,    \* never changes
          mp,       \* struct MPContext, and where run_playloop() is
          ac,       \* struct ao_chain
          ao,       \* the audio output and the queue in front of it
          vo,       \* the video output
          src,      \* demuxers, decoders and filters
          goal,     \* ghost: what the last executed seek asked for
          commands  \* how often the user did something, for the bound

vars == <<setup, mp, ac, ao, vo, src, goal, commands>>

\* enum playback_status and enum seek_precision.
Syncing == 0
Ready == 1
Playing == 2
Draining == 3
Eof == 4
Default == 0
Keyframe == 1
Exact == 2
VeryExact == 3
None == -1         \* MP_NOPTS_VALUE, and no frame
EndMark == -2      \* MP_EOF_FRAME in the audio queue
Frames == setup.frames
AudioFrom == setup.audio[1]
AudioTo == setup.audio[2]
Max2(a, b) == IF a > b THEN a ELSE b
Min2(a, b) == IF a < b THEN a ELSE b
Length == Max2(Frames, AudioTo)
Infinite == Length + 100

Video == "video" \in setup.tracks
Audio == "audio" \in setup.tracks
NoSeek == [type |-> "none", amount |-> 0, exact |-> Default, delay |-> FALSE, noflush |-> FALSE]
AtRest == [pin |-> "none", got_eof |-> FALSE, a_eof |-> FALSE, stalled |-> FALSE]
NewChain == [last_out |-> None, out_eof |-> FALSE, start_known |-> FALSE, start_pts |-> None,
             underrun |-> FALSE, ao_underrun |-> FALSE, needs_update |-> FALSE]
StatusAnyway(selected) == Syncing
StatusIf(selected) == IF selected THEN Syncing ELSE Eof

Init ==
  /\ setup \in Setups
  /\ mp = [pc |-> "audio", video_status |-> StatusIf(Video), audio_status |-> StatusIf(Audio),
           restart_complete |-> FALSE, hrseek_active |-> FALSE, hrseek_pts |-> 0,
           hrseek_lastframe |-> FALSE, hrseek_backstep |-> FALSE, video_pts |-> None,
           playback_pts |-> None, last_seek_pts |-> 0, next_frames |-> <<>>,
           saved_frame |-> None, logical_eof |-> FALSE, time_frame |-> FALSE,
           seek |-> NoSeek, recent |-> FALSE, stop_play |-> "keep_playing", pause |-> FALSE,
           step_frames |-> 0, loop_file |-> setup.end = "loop", shown |-> FALSE,
           woken |-> FALSE, timer |-> FALSE]
  /\ ac = NewChain
  /\ ao = [open |-> FALSE, playing |-> FALSE, queue |-> <<>>]
  /\ vo = [queued |-> None, shown |-> None, has_frame |-> FALSE, early |-> FALSE]
  /\ src = [v |-> 0, a |-> AudioFrom, a_ready |-> ~setup.slow] @@ AtRest
  /\ goal = [pts |-> 0, kind |-> "exact"]
  /\ commands = 0
--------------------------------------------------------------------------------
(* What several steps share. *)

To(m, pc) == [m EXCEPT !.pc = pc]
Woken(m) == [m EXCEPT !.woken = TRUE]
Samples(q) == Len(SelectSeq(q, LAMBDA s : s # EndMark))
Full == Samples(ao.queue) >= QueueSize
Between(status, low, high) == low <= status /\ status <= high

SetPause(m, pause) ==
  IF m.pause = pause THEN m
  ELSE Woken([m EXCEPT !.pause = pause, !.step_frames = IF pause THEN 0 ELSE @])

\* get_playback_time(): while nothing is played, where the last seek went.
PlaybackTime(m) ==
  IF m.playback_pts # None THEN m.playback_pts ELSE Max2(0, Min2(m.last_seek_pts, Length))

\* get_sync_pts(): where audio has to start, once that is known.
SyncKnown(m) == ~Video \/ m.video_status = Eof \/ m.video_status >= Ready
SyncPts(m) == IF Video /\ m.video_status # Eof THEN m.video_pts
              ELSE IF m.hrseek_active THEN m.hrseek_pts ELSE m.playback_pts

\* playing_audio_pts()
PlayingPts == IF ac.last_out = None THEN None ELSE ac.last_out - Samples(ao.queue)

\* audio_start_ao(), in three cases: not ready, ready but too early, and now.
CanStart(m) == Audio /\ ao.open /\ m.audio_status = Ready /\ SyncKnown(m)
TooEarlyAnyway(m) ==
  SyncPts(m) # None /\ PlayingPts # None /\ SyncPts(m) < PlayingPts
TooEarly(m) == /\ SyncPts(m) # None /\ PlayingPts # None
               /\ SyncPts(m) < PlayingPts /\ m.video_status # Eof
Starts(m) == CanStart(m) /\ ~TooEarly(m)
AudioStart(m) ==
  IF Starts(m) THEN Woken([m EXCEPT !.audio_status = IF ac.out_eof THEN Draining ELSE Playing])
  ELSE IF CanStart(m) /\ ~m.pause THEN [m EXCEPT !.timer = TRUE] ELSE m

\* handle_playback_time()
SetTime(m) ==
  IF Video /\ Between(m.video_status, Playing, Draining)
    THEN [m EXCEPT !.playback_pts = m.video_pts]
  ELSE IF Between(m.audio_status, Playing, Draining)
    THEN [m EXCEPT !.playback_pts = PlayingPts]
  ELSE IF m.video_status = Eof /\ m.audio_status = Eof
    THEN [m EXCEPT !.playback_pts =
            LET last == Max2(m.video_pts, IF Audio THEN ac.last_out ELSE None)
            IN IF last = None THEN @ ELSE last]
  ELSE m
--------------------------------------------------------------------------------
(* Seeks. *)

\* queue_seek() combines a seek with the one that waits.
Combined(old, k) ==
  IF k.type # "relative" THEN k
  ELSE [old EXCEPT !.amount = @ + k.amount, !.exact = Max2(@, k.exact),
                   !.delay = @ \/ k.delay, !.noflush = @ \/ k.noflush,
                   !.type = IF @ = "absolute" THEN @ ELSE "relative"]
QueueSeek(m, k) ==
  Woken([m EXCEPT !.seek = Combined(@, k),
                  !.stop_play = IF @ = "at_end" THEN "keep_playing" ELSE @])

\* mp_seek(): where it goes, and whether it is precise.
Target(m, k) == CASE k.type = "absolute" -> k.amount
                  [] k.type = "backstep" -> PlaybackTime(m)
                  [] k.type = "relative" -> PlaybackTime(m) + k.amount
HrSeek(k) == k.exact # Keyframe /\ (k.exact >= Exact \/ k.type = "absolute" \/ ~Video)
DemuxTarget(m, k) == Target(m, k)
DemuxPts(m, k) == Target(m, k) - (IF HrSeek(k) /\ k.exact = VeryExact THEN 1 ELSE 0)

\* Where the demuxer goes (external): to a keyframe at or before the target, or after
\* it for a relative seek forward; behind the last keyframe there may be nothing.
Landings(pts, forward) ==
  IF ~Video THEN {Max2(AudioFrom, Min2(pts, AudioTo))}
  ELSE LET before == {t \in Keyframes : t <= pts}
           after == {t \in Keyframes : t >= pts}
       IN IF forward
            THEN IF after = {} THEN {Max(Keyframes), Frames} ELSE {Min(after)}
            ELSE {IF before = {} THEN 0 ELSE Max(before)}

\* The queued frame goes, what is shown stays.
SeekReset == vo' = [vo EXCEPT !.queued = None, !.has_frame = FALSE, !.early = FALSE]

\* The rest of mp_seek() with reset_playback_state(), as far as MPContext goes.
Sought(m, k) ==
  Woken([m EXCEPT
    !.video_status = StatusIf(Video), !.audio_status = StatusIf(Audio),
    !.next_frames = <<>>, !.saved_frame = None, !.video_pts = None, !.time_frame = FALSE,
    !.playback_pts = None, !.step_frames = 0, !.restart_complete = FALSE,
    !.hrseek_lastframe = FALSE, !.last_seek_pts = Target(m, k),
    !.hrseek_active = HrSeek(k), !.hrseek_backstep = HrSeek(k) /\ k.type = "backstep",
    !.hrseek_pts = IF HrSeek(k) THEN Target(m, k) ELSE @,
    !.stop_play = IF @ = "at_end" THEN "keep_playing" ELSE @, !.recent = TRUE])

\* And the other components: demuxer and filters, the audio and video output.
SeekOthers(m, k) ==
  /\ \E t \in Landings(DemuxPts(m, k), k.type = "relative" /\ k.amount > 0 /\ ~HrSeek(k)) :
       src' = [v |-> t, a |-> Max2(AudioFrom, Min2(t, AudioTo)), a_ready |-> ~setup.slow]
              @@ [AtRest EXCEPT !.stalled = src.stalled]
  /\ ac' = [NewChain EXCEPT !.ao_underrun = ac.ao_underrun, !.needs_update = ac.needs_update]
  /\ ao' = IF k.noflush THEN ao ELSE [ao EXCEPT !.playing = FALSE, !.queue = <<>>]
  /\ SeekReset
  /\ goal' = [pts |-> Target(m, k),
              kind |-> IF ~HrSeek(k) THEN "keyframe"
                       ELSE IF k.type = "backstep" THEN "backstep" ELSE "exact"]
SeekNothing == UNCHANGED <<src, ac, ao, vo, goal>>

\* execute_queued_seek(): a seek the user repeats quickly waits for the result of the
\* one before.
StillRecent(m) == m.recent /\ ~(m.hrseek_active /\ m.seek.exact = Keyframe)
Delayed(m) ==
  /\ m.seek.delay /\ StillRecent(m)
  /\ \/ m.video_status < Playing
     \/ /\ m.hrseek_active /\ m.seek.exact # Keyframe /\ Video /\ Audio
        /\ ~m.restart_complete
Executed(m) == [Sought(m, m.seek) EXCEPT !.seek = NoSeek]
--------------------------------------------------------------------------------
(* fill_audio_out_buffers(). *)

\* The output is created with the first data.  While audio waits for its start, what it
\* waits for is looked up again.
OldAudioPlays == ao.open /\ ao.playing /\ mp.video_status # Eof
FillAudio ==
  /\ mp.pc = "audio"
  /\ LET open == ao.open \/ ac.needs_update
         syncing == Audio /\ mp.audio_status = Syncing
         known == SyncKnown(mp) /\ ~OldAudioPlays
         buffered == syncing /\ ((open /\ Full) \/ ac.out_eof)
     IN /\ ao' = [ao EXCEPT !.open = open]
        /\ ac' = [ac EXCEPT !.needs_update = FALSE,
                            !.start_known = IF syncing THEN known ELSE @,
                            !.start_pts = IF ~syncing THEN @
                                          ELSE IF SyncKnown(mp) THEN SyncPts(mp) ELSE None]
        /\ mp' = To(IF buffered THEN Woken([mp EXCEPT !.audio_status = Ready]) ELSE mp,
                    IF Audio THEN "recover" ELSE "video")
  /\ UNCHANGED <<vo, src, goal>>

\* The output should be playing but is not: that is the end, or an underrun, from which
\* it restarts when the queue is full again.
ShouldPlay == /\ ao.open /\ ~ao.playing /\ ~ac.underrun
              /\ Between(mp.audio_status, Playing, Draining)
RecoverAudio ==
  /\ mp.pc = "recover"
  /\ LET ends == ac.out_eof /\ ao.queue = <<>>
         refilled == ac.out_eof \/ Full
     IN \/ /\ ~ShouldPlay
           /\ mp' = To(mp, "drain")
           /\ UNCHANGED <<ac, ao>>
        \/ /\ ShouldPlay /\ ends
           /\ mp' = Woken(To([mp EXCEPT !.audio_status = Eof], "drain"))
           /\ UNCHANGED <<ac, ao>>
        \/ /\ ShouldPlay /\ ~ends /\ refilled
           /\ ao' = [ao EXCEPT !.playing = TRUE]
           /\ ac' = [ac EXCEPT !.underrun = FALSE, !.ao_underrun = FALSE]
           /\ mp' = Woken(To(mp, "drain"))
        \/ /\ ShouldPlay /\ ~ends /\ ~refilled
           /\ ac' = [ac EXCEPT !.underrun = @ \/ ~ac.ao_underrun, !.ao_underrun = TRUE]
           /\ mp' = [To(mp, "drain") EXCEPT !.woken = @ \/ ~ac.ao_underrun]
           /\ UNCHANGED ao
  /\ UNCHANGED <<vo, src, goal>>

\* After the last data audio drains, and a start that was delayed is tried again.
DrainAudio ==
  /\ mp.pc = "drain"
  /\ LET drains == mp.audio_status = Draining \/ (mp.audio_status = Playing /\ ac.out_eof)
         ended == drains /\ (~ao.open \/ ~ao.playing \/ setup.gapless)
         m == IF ended THEN Woken([mp EXCEPT !.audio_status = Eof])
              ELSE IF drains THEN [mp EXCEPT !.audio_status = Draining,
                                             !.woken = @ \/ mp.audio_status = Playing]
              ELSE mp
         starts == m.restart_complete /\ Starts(m)
     IN /\ mp' = To(IF m.restart_complete THEN AudioStart(m) ELSE m, "video")
        /\ ao' = [ao EXCEPT !.playing = @ \/ starts]
        /\ ac' = [ac EXCEPT !.underrun = @ /\ ~starts]
  /\ UNCHANGED <<vo, src, goal>>
--------------------------------------------------------------------------------
(* write_video(). *)

VideoRests == ~Video \/ mp.video_status = Ready \/ (mp.pause /\ mp.video_status >= Ready)
HrSeeking == mp.video_status = Syncing /\ mp.hrseek_active

SkipVideo ==
  /\ mp.pc = "video" /\ VideoRests
  /\ mp' = To(mp, "restart")
  /\ UNCHANGED <<ac, ao, vo, src, goal>>

\* video_output_image(), by what comes out of the filters.  Two frames are wanted, so
\* that the first has a duration; at the end one will do.
Kept(m) == [m EXCEPT !.saved_frame = IF HrSeeking THEN @ ELSE None]
PlaysAgain(m) == [m EXCEPT !.video_status = Min2(@, Playing)]
ReadVideo == mp.pc = "video" /\ ~VideoRests /\ UNCHANGED <<ac, ao, vo, goal>>

EnoughFrames ==
  /\ ReadVideo /\ Len(mp.next_frames) >= 2
  /\ mp' = To(PlaysAgain([mp EXCEPT !.logical_eof = FALSE]), "frame")
  /\ UNCHANGED src

WaitForFrame ==
  /\ ReadVideo /\ Len(mp.next_frames) < 2
  /\ src.pin \in {"none", "asked"} /\ ~src.got_eof
  /\ src' = [src EXCEPT !.pin = "asked"]
  /\ mp' = To(Kept(mp), "restart")

\* A precise seek skips frames before its target; stepping back shows the last of them.
NewFrame ==
  /\ ReadVideo /\ Len(mp.next_frames) < 2 /\ src.pin = "frame"
  /\ src' = [src EXCEPT !.pin = "none", !.v = @ + 1]
  /\ LET skip == HrSeeking /\ (src.v < mp.hrseek_pts \/ mp.hrseek_lastframe)
         back == IF HrSeeking /\ mp.hrseek_backstep /\ mp.saved_frame # None
                   THEN <<mp.saved_frame>> ELSE <<>>
         m == IF skip THEN [mp EXCEPT !.saved_frame = src.v]
              ELSE [mp EXCEPT !.saved_frame = None,
                              !.hrseek_backstep = @ /\ ~HrSeeking,
                              !.next_frames = @ \o back \o <<src.v>>]
         enough == Len(m.next_frames) >= 2
     IN mp' = LET p == PlaysAgain([m EXCEPT !.logical_eof = FALSE])
              IN IF enough THEN To(p, "frame") ELSE Woken(To(p, "restart"))

EndOfFrames ==
  /\ ReadVideo /\ Len(mp.next_frames) < 2
  /\ src.pin = "eof" \/ src.got_eof
  /\ src' = [src EXCEPT !.pin = "none", !.got_eof = TRUE]
  /\ LET m == Kept(mp)
         frames == m.next_frames \o (IF m.saved_frame = None THEN <<>> ELSE <<m.saved_frame>>)
         n == [m EXCEPT !.next_frames = frames, !.saved_frame = None, !.logical_eof = TRUE]
     IN mp' = IF frames = <<>> THEN To(n, "eof") ELSE To(PlaysAgain(n), "frame")

\* vo_is_ready_for_frame(), for any frame, and for one whose time has to come.
VoReady == vo.queued = None
ReadyForFrame == VoReady /\ ~vo.early

\* No more frames: the last one is shown for its time.
DrainVideo ==
  /\ mp.pc = "eof"
  /\ LET first == mp.video_status <= Playing
         left == IF first THEN mp.video_pts # None ELSE mp.time_frame
         m == [mp EXCEPT !.video_status = IF first THEN Draining ELSE @, !.time_frame = left]
         over == m.video_status = Draining /\ (VoReady \/ ~vo.has_frame)
     IN mp' = [To(m, "restart") EXCEPT
                 !.timer = @ \/ over,
                 !.video_status = IF over /\ (~left \/ ~vo.has_frame) THEN Eof ELSE @]
  /\ UNCHANGED <<ac, ao, vo, src, goal>>

VoNotReady ==
  /\ mp.pc = "frame" /\ ~ReadyForFrame
  /\ mp' = To(mp, "restart")
  /\ UNCHANGED <<ac, ao, vo, src, goal>>

\* vo_queue_frame().  The first frame after a seek is waited for (vo_wait_frame()).
QueueFrame ==
  /\ mp.pc = "frame" /\ ReadyForFrame
  /\ vo' = [vo EXCEPT !.queued = Head(mp.next_frames), !.has_frame = TRUE, !.early = TRUE]
  /\ mp' = [To(mp, "queued") EXCEPT !.video_pts = Head(mp.next_frames), !.shown = TRUE,
                                    !.next_frames = Tail(@)]
  /\ UNCHANGED <<ac, ao, src, goal>>

FrameQueued ==
  /\ mp.pc = "queued" /\ (mp.video_status = Syncing => VoReady)
  /\ LET ends == mp.logical_eof /\ mp.next_frames = <<>> /\ Audio
         m == [mp EXCEPT !.video_status = IF ends THEN Eof
                                          ELSE IF @ = Syncing THEN Ready ELSE @,
                         !.step_frames = IF ends THEN @ ELSE Max2(@ - 1, 0)]
         stepped == ~ends /\ mp.step_frames = 1
     IN mp' = To(IF stepped THEN SetPause(m, TRUE)
                 ELSE [m EXCEPT !.woken = @ \/ ends], "restart")
  /\ UNCHANGED <<ac, ao, vo, src, goal>>
--------------------------------------------------------------------------------
(* handle_playback_restart(), with clear_underruns(). *)

BothReady == mp.audio_status >= Ready /\ mp.video_status >= Ready
VideoStarted == IF mp.video_status = Ready
                  THEN Woken([mp EXCEPT !.video_status = Playing]) ELSE mp
SeekInstead == /\ mp.audio_status = Ready /\ mp.seek.type # "none"
               /\ VideoStarted.video_status = Playing
Cleared == [VideoStarted EXCEPT !.woken = @ \/ ac.underrun]

NotRestarting ==
  /\ mp.pc = "restart" /\ ~BothReady
  /\ mp' = To(SetTime(mp), "end")
  /\ SeekNothing

\* A new seek is queued: audio is not started, the seek follows at once.
RestartBySeek ==
  /\ mp.pc = "restart" /\ BothReady /\ SeekInstead
  /\ mp' = To(Executed(SetTime(Cleared)), "end")
  /\ SeekOthers(SetTime(Cleared), mp.seek)

Restart ==
  /\ mp.pc = "restart" /\ BothReady /\ ~SeekInstead
  /\ LET m == AudioStart(Cleared)
         completes == ~m.restart_complete
         atEnd == m.video_status = Eof /\ m.audio_status = Eof
         pastEnd == completes /\ atEnd /\ m.seek.type = "relative" /\ m.seek.amount > 0
         n == IF ~completes THEN m
              ELSE Woken([m EXCEPT !.hrseek_active = FALSE, !.restart_complete = TRUE,
                                   !.last_seek_pts = Max2(0, Min2(@, Length)),
                                   !.seek = IF pastEnd THEN NoSeek ELSE @])
     IN mp' = To(SetTime(n), "end")
  /\ ao' = [ao EXCEPT !.playing = @ \/ Starts(Cleared)]
  /\ ac' = [ac EXCEPT !.underrun = FALSE]
  /\ UNCHANGED <<vo, src, goal>>
--------------------------------------------------------------------------------
(* The end of the file. *)

\* handle_eof(): not while a seek waits, and not while paused on the last frame.
AtEnd == /\ mp.seek.type = "none" /\ ~(mp.pause /\ Video /\ vo.has_frame)
         /\ mp.audio_status = Eof /\ mp.video_status = Eof
Ended == mp.stop_play = "at_end" \/ (AtEnd /\ mp.stop_play = "keep_playing")

\* handle_sstep(), the last of the handlers: a step that meets the end of the video pauses.
Stepped(m) ==
  IF /\ m.stop_play = "keep_playing" /\ m.restart_complete
     /\ m.video_status = Eof /\ m.step_frames > 0
    THEN SetPause(m, TRUE) ELSE m

GoOn ==
  /\ mp.pc = "end" /\ ~(Ended /\ setup.end = "keep_open")
  /\ ~(Ended /\ mp.loop_file)
  /\ mp' = To(Stepped(IF Ended THEN [mp EXCEPT !.stop_play = "at_end"] ELSE mp), "seek")
  /\ SeekNothing

\* handle_loop_file(): the audio that is queued plays on.
LoopFile ==
  /\ mp.pc = "end" /\ Ended /\ mp.loop_file
  /\ LET m == [mp EXCEPT !.loop_file = FALSE, !.stop_play = "at_end"]
         sought == QueueSeek(m, [NoSeek EXCEPT !.type = "absolute", !.noflush = TRUE])
     IN mp' = To(Stepped(IF mp.shown THEN sought ELSE m), "seek")
  /\ SeekNothing

\* handle_keep_open() with seek_to_last_frame().
LastFrameSeek == [NoSeek EXCEPT !.type = "absolute", !.amount = Length, !.exact = VeryExact]
SeeksBack == Video /\ ~vo.has_frame /\ ~mp.hrseek_lastframe
KeepOpen ==
  /\ mp.pc = "end" /\ Ended /\ setup.end = "keep_open"
  /\ LET sought == IF SeeksBack
                     THEN [Sought(mp, LastFrameSeek) EXCEPT !.hrseek_pts = Infinite,
                                                            !.hrseek_lastframe = TRUE]
                     ELSE mp
         m == [sought EXCEPT !.stop_play = "keep_playing",
                             !.audio_status = Eof, !.video_status = Eof]
     IN mp' = To(Stepped(IF ao.playing /\ ~SeeksBack THEN m ELSE SetPause(m, TRUE)), "seek")
  /\ IF SeeksBack THEN SeekOthers(mp, LastFrameSeek) ELSE SeekNothing
--------------------------------------------------------------------------------
(* execute_queued_seek(), and whether the loop goes on. *)

Onwards(m) == To(m, IF m.stop_play = "keep_playing" THEN "graph" ELSE "done")

KeepSeek ==
  /\ mp.pc = "seek" /\ (mp.seek.type = "none" \/ Delayed(mp))
  /\ mp' = Onwards([mp EXCEPT !.recent = IF mp.seek.type = "none" THEN @ ELSE StillRecent(mp)])
  /\ SeekNothing

ExecuteSeek ==
  /\ mp.pc = "seek" /\ mp.seek.type # "none" /\ ~Delayed(mp)
  /\ mp' = Onwards(Executed(mp))
  /\ SeekOthers(mp, mp.seek)
--------------------------------------------------------------------------------
(* mp_filter_graph_run(): ao_process() passes audio on to the queue. *)

AudioData == mp.pc = "graph" /\ Audio /\ src.a_ready /\ ~src.a_eof
AudioLeft == src.a < AudioTo
Accepts == ao.open /\ ~(mp.audio_status = Syncing /\ ~ac.start_known) /\ ~Full
NextData == src' = [src EXCEPT !.a = @ + 1, !.a_ready = ~setup.slow]
KeepGraph == UNCHANGED <<vo, goal>>

\* Data before there is an output makes the core create one; the end without data ends
\* audio.
FirstData ==
  /\ AudioData /\ ~ao.open /\ ~ac.needs_update
  /\ IF AudioLeft
       THEN /\ ac' = [ac EXCEPT !.needs_update = TRUE]
            /\ mp' = Woken(mp)
            /\ UNCHANGED src
       ELSE /\ ac' = [ac EXCEPT !.out_eof = TRUE]
            /\ mp' = Woken([mp EXCEPT !.audio_status = Draining])
            /\ src' = [src EXCEPT !.a_eof = TRUE]
  /\ UNCHANGED ao /\ KeepGraph

\* What lies before the start is cut off.
ClipData ==
  /\ AudioData /\ Accepts /\ AudioLeft
  /\ mp.audio_status = Syncing /\ src.a < ac.start_pts
  /\ NextData
  /\ UNCHANGED <<mp, ac, ao>> /\ KeepGraph

\* Data after the end: first find out again where to start.
DataAfterEnd ==
  /\ AudioData /\ Accepts /\ AudioLeft
  /\ mp.audio_status \in {Draining, Eof}
  /\ ac' = [ac EXCEPT !.out_eof = FALSE, !.start_known = FALSE]
  /\ mp' = Woken([mp EXCEPT !.audio_status = Syncing])
  /\ UNCHANGED <<ao, src>> /\ KeepGraph

\* Whoever waits for a full queue is woken, but not while audio is PLAYING.
QueueData ==
  /\ AudioData /\ Accepts /\ AudioLeft
  /\ mp.audio_status \in Syncing .. Playing
  /\ mp.audio_status = Syncing => src.a >= ac.start_pts
  /\ NextData
  /\ ac' = [ac EXCEPT !.out_eof = FALSE, !.last_out = src.a + 1]
  /\ ao' = [ao EXCEPT !.queue = Append(@, src.a)]
  /\ LET continues == mp.audio_status = Syncing /\ ao.playing
         m == [mp EXCEPT !.shown = TRUE, !.audio_status = IF continues THEN Ready ELSE @]
         full == Samples(ao.queue) + 1 >= QueueSize /\ m.audio_status # Playing
     IN mp' = [m EXCEPT !.woken = @ \/ continues \/ full]
  /\ KeepGraph

QueueEnd ==
  /\ AudioData /\ Accepts /\ ~AudioLeft
  /\ src' = [src EXCEPT !.a_eof = TRUE]
  /\ ac' = [ac EXCEPT !.out_eof = TRUE]
  /\ ao' = [ao EXCEPT !.queue = Append(@, EndMark)]
  /\ mp' = Woken(mp)
  /\ KeepGraph

GraphRests ==
  /\ mp.pc = "graph"
  /\ ~(AudioData /\ (Accepts \/ (~ao.open /\ ~ac.needs_update)))
  /\ mp' = To(mp, "wait")
  /\ SeekNothing
--------------------------------------------------------------------------------
(* mp_wait_events(), and what the user does meanwhile. *)

\* While the demuxer still reads, handle_update_cache() looks at it every 0.25 s.
Reading == src.stalled
Proceed ==
  /\ mp.pc = "wait" /\ (mp.woken \/ mp.timer \/ Reading)
  /\ mp' = [To(mp, "audio") EXCEPT !.timer = FALSE, !.woken = ac.underrun]
  /\ ac' = [ac EXCEPT !.underrun = FALSE]
  /\ UNCHANGED <<ao, vo, src, goal>>

Does(command) == /\ mp.pc = "wait" /\ command \in setup.uses /\ commands < setup.most
                 /\ commands' = commands + 1
                 /\ SeekNothing
\* cmd_seek()
UserSeek(type, amount, exact) ==
  mp' = QueueSeek(mp, [type |-> type, amount |-> amount, exact |-> exact,
                       delay |-> TRUE, noflush |-> FALSE])
SeekCommand ==
  \/ Does("absolute") /\ \E t \in Targets : UserSeek("absolute", t, Default)
  \/ Does("keyframe") /\ \E t \in Targets : UserSeek("absolute", t, Keyframe)
  \/ Does("relative") /\ \E d \in Amounts : UserSeek("relative", d, Default)
  \/ Does("exact") /\ \E d \in Amounts : UserSeek("relative", d, Exact)
PauseCommand == Does("pause") /\ mp' = SetPause(mp, ~mp.pause)
\* add_step_frame()
StepCommand ==
  /\ Does("step") /\ Video
  /\ mp' = SetPause([mp EXCEPT !.step_frames = @ + 1], FALSE)
BackstepCommand ==
  /\ Does("backstep") /\ Video /\ ~mp.hrseek_active
  /\ mp' = SetPause(QueueSeek(mp, [NoSeek EXCEPT !.type = "backstep", !.exact = VeryExact]), TRUE)
UserCommand == SeekCommand \/ PauseCommand \/ StepCommand \/ BackstepCommand
--------------------------------------------------------------------------------
(* The other threads, and time. *)

Wake == mp' = Woken(mp)

\* The VO shows the frame, and wakes the core for the next.
ShowFrame ==
  /\ vo.queued # None
  /\ vo' = [vo EXCEPT !.shown = vo.queued, !.queued = None]
  /\ Wake /\ UNCHANGED <<ac, ao, src, goal>>

\* Or when its time has come (wakeup_pts).
FrameDue ==
  /\ vo.early /\ ~mp.pause
  /\ vo' = [vo EXCEPT !.early = FALSE]
  /\ Wake /\ UNCHANGED <<ac, ao, src, goal>>

\* The output plays a frame, or the end before more audio; or has nothing left.
PlayAudio ==
  /\ ao.playing /\ ~mp.pause /\ ao.queue # <<>>
  /\ ao' = [ao EXCEPT !.queue = Tail(@)]
  /\ Wake /\ UNCHANGED <<ac, vo, src, goal>>
RunOut ==
  /\ ao.playing /\ ~mp.pause /\ ao.queue = <<>>
  /\ ao' = [ao EXCEPT !.playing = FALSE]
  /\ Wake /\ UNCHANGED <<ac, vo, src, goal>>

VideoArrives ==
  /\ src.pin = "asked" /\ ~src.stalled
  /\ src' = [src EXCEPT !.pin = IF src.v < Frames THEN "frame" ELSE "eof"]
  /\ Wake /\ UNCHANGED <<ac, ao, vo, goal>>
AudioArrives ==
  /\ Audio /\ ~src.a_ready /\ ~src.stalled
  /\ src' = [src EXCEPT !.a_ready = TRUE]
  /\ Wake /\ UNCHANGED <<ac, ao, vo, goal>>
Stall ==
  /\ setup.stalls /\ ~src.stalled
  /\ src' = [src EXCEPT !.stalled = TRUE]
  /\ UNCHANGED <<mp, ac, ao, vo, goal>>

\* The time of the last frame ends; a seek is no longer recent.
FrameEnds ==
  /\ mp.time_frame /\ ~mp.pause
  /\ mp' = [mp EXCEPT !.time_frame = FALSE]
  /\ SeekNothing
TimePasses ==
  /\ mp.recent
  /\ mp' = [mp EXCEPT !.recent = FALSE]
  /\ SeekNothing
--------------------------------------------------------------------------------
RunPlayloop ==
  \/ FillAudio \/ RecoverAudio \/ DrainAudio
  \/ SkipVideo \/ EnoughFrames \/ WaitForFrame \/ NewFrame \/ EndOfFrames
  \/ DrainVideo \/ VoNotReady \/ QueueFrame \/ FrameQueued
  \/ NotRestarting \/ RestartBySeek \/ Restart
  \/ GoOn \/ LoopFile \/ KeepOpen \/ KeepSeek \/ ExecuteSeek
  \/ FirstData \/ ClipData \/ DataAfterEnd \/ QueueData \/ QueueEnd \/ GraphRests
  \/ Proceed
Surroundings ==
  \/ ShowFrame \/ FrameDue \/ PlayAudio \/ RunOut \/ VideoArrives \/ AudioArrives \/ Stall
  \/ FrameEnds \/ TimePasses

Undisturbed == UNCHANGED <<setup, commands>>
Next == \/ (RunPlayloop \/ Surroundings) /\ Undisturbed
        \/ UserCommand /\ UNCHANGED setup

\* The core runs, the outputs show and play, data arrives unless it stalls, and time
\* passes.  Nobody has to give commands.
Fairness ==
  /\ WF_vars(RunPlayloop /\ Undisturbed) /\ WF_vars(ShowFrame /\ Undisturbed)
  /\ WF_vars(FrameDue /\ Undisturbed)
  /\ WF_vars((PlayAudio \/ RunOut) /\ Undisturbed)
  /\ WF_vars(VideoArrives /\ Undisturbed) /\ WF_vars(AudioArrives /\ Undisturbed)
  /\ WF_vars(FrameEnds /\ Undisturbed) /\ WF_vars(TimePasses /\ Undisturbed)

Spec == Init /\ [][Next]_vars /\ Fairness
--------------------------------------------------------------------------------
Status == Syncing .. Eof
\* Types, and that a track that is not selected counts as ended.
TypeOK ==
  /\ setup \in Setups /\ commands \in 0 .. setup.most
  /\ mp.video_status \in Status /\ mp.audio_status \in Status
  /\ mp.seek.type \in {"none", "absolute", "relative", "backstep"}
  /\ mp.seek.exact \in Default .. VeryExact
  /\ mp.stop_play \in {"keep_playing", "at_end"}
  /\ Len(mp.next_frames) <= 3
  /\ {mp.video_pts, mp.saved_frame, vo.queued, vo.shown} \subseteq 0 .. Frames - 1 \union {None}
  /\ Samples(ao.queue) <= QueueSize
  /\ src.pin \in {"none", "asked", "frame", "eof"}
  /\ src.v \in 0 .. Frames /\ src.a \in AudioFrom .. AudioTo
  /\ Video \/ mp.video_status = Eof
  /\ Audio \/ mp.audio_status = Eof

\* SeekIsExact: when playback has restarted, a precise seek (--hr-seek) shows the frame it
\* asked for, or the last one if there is none; a step back shows the frame before.
\* StartTogether: audio starts with what belongs to the frame that is shown.
\* Together: the many steps of a restart, with seeks combined, delayed and executed
\* between any two of them, lose or duplicate nothing.
Wanted == CASE goal.kind = "exact" -> Max2(0, Min2(goal.pts, Frames - 1))
            [] goal.kind = "backstep" -> Max2(0, Min2(goal.pts - 1, Frames - 1))
SeekIsExact ==
  (mp'.restart_complete /\ ~mp.restart_complete /\ Video /\ goal.kind # "keyframe"
   /\ ~mp.hrseek_lastframe) => mp'.video_pts = Wanted
StartTogether ==
  (ao'.playing /\ ~ao.playing /\ mp.audio_status = Ready /\ Video
   /\ mp'.video_status = Playing /\ Samples(ao.queue) > 0)
  => Head(ao.queue) = mp'.video_pts
RestartIsExact == [][SeekIsExact /\ StartTogether]_vars

\* The loop sleeps only when it may: after a seek, and at the start, playback restarts;
\* a seek the user asked for is executed; and the file ends, is paused, or waits for data
\* that stays away.  Two cases are left out: the player stays paused with audio from before
\* a loop in the output (the loop seeks without a flush), so that the start of the new
\* audio waits for an output that does not move; and when the queue is filled again after
\* an underrun while audio is PLAYING, nobody wakes the core to restart the output
\* (QueueData).
PausedInLoop ==
  mp.pause /\ ao.playing /\ ~mp.restart_complete /\ mp.audio_status = Syncing
PlaybackRestarts ==
  \/ []<>(mp.restart_complete \/ mp.stop_play # "keep_playing" \/ src.stalled)
  \/ <>[]PausedInLoop
SeeksAreHeeded == []<>(mp.seek.type = "none" \/ mp.pc = "done") \/ <>[]PausedInLoop
Unrecovered == mp.audio_status = Playing /\ ~ao.playing /\ Full
FileEnds == []<>(mp.pause \/ src.stalled \/ mp.pc = "done" \/ Unrecovered)
PlaybackGoesOn == PlaybackRestarts /\ SeeksAreHeeded /\ FileEnds
================================================================================
