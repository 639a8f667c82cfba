-------------------------- MODULE MCDecoderThread ---------------------------
EXTENDS DecoderThread

(* Two timeline segments, the second with one packet.                      *)
TwoSegments == <<1, 1, 2>>
=============================================================================
