------------------------------ MODULE MCDemuxThread ------------------------------
(* A short file with video, audio and subtitles, interleaved. *)
EXTENDS DemuxThread
CONSTANTS v, a, sub
MCFile == <<v, sub, a, v>>
MCStarts == {{v}, {v, sub}}
MCTargets == {1, 3}
==================================================================================
