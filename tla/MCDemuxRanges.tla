--------------------------- MODULE MCDemuxRanges ---------------------------
(***************************************************************************)
(* A file of six seconds with a video, an audio and a subtitle stream, of  *)
(* which each setup uses one or two: enough packets for three keyframe     *)
(* ranges behind the one that is sought, so that two ranges form, touch    *)
(* and are joined while the reader is anywhere in them.                    *)
(***************************************************************************)
EXTENDS DemuxRanges

Video(t, k) == [stream |-> 1, pts |-> t, keyframe |-> k]
Audio(t) == [stream |-> 2, pts |-> t, keyframe |-> TRUE]
Sub(t) == [stream |-> 3, pts |-> t, keyframe |-> TRUE]

MCTypes == <<"video", "audio", "sub">>
MCFile == <<Video(0, TRUE), Audio(0), Video(2, FALSE), Sub(2), Video(4, TRUE), Audio(4),
            Video(6, TRUE), Sub(6), Video(8, TRUE), Audio(8), Video(10, TRUE)>>

Setup(selected, switches, most, forward, backward) ==
  [selected |-> selected, targets |-> {0, 6}, switches |-> switches, most |-> most,
   max_bytes |-> forward, max_bytes_bw |-> backward]

\* Seeks: two ranges of video and subtitles, which meet and are joined.
Joining == Setup({1, 3}, {}, 2, 5, 20)
\* The same with caches so small that both ends are pruned.
PruningSubs == Setup({1, 3}, {}, 2, 4, 0)
PruningAudio == Setup({1, 2}, {}, 2, 4, 2)
PruningRanges == Setup({1}, {}, 3, 3, 3)
\* Seeks and switches of the video itself and of subtitles; of the video beside audio.
SwitchingSubs == Setup({1}, {1, 3}, 2, 4, 20)
SwitchingVideo == Setup({2}, {1}, 3, 4, 20)

MCSetups == {Joining, PruningSubs, PruningAudio, PruningRanges, SwitchingSubs, SwitchingVideo}
=============================================================================
