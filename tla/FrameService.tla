---------------------------- MODULE FrameService ----------------------------
(***************************************************************************)
(* What a decoder wrapper promises its user (filters/f_decoder_wrapper.h   *)
(* and the data flow rules of filters/filter.h), whatever threads, queues  *)
(* and filters are behind the pin: after a seek the frames of the new      *)
(* position come from the first to the last, each once and none of an      *)
(* earlier position, and then EOF, once.                                   *)
(***************************************************************************)
EXTENDS Naturals, Sequences

CONSTANT NumFrames      \* frames from a position to the end of the stream

EOF == [type |-> "eof"] \* MP_FRAME_EOF

VARIABLES
  position,             \* how many seeks there were
  got                   \* the frames received since the last one

sVars == <<position, got>>

(* The i-th frame after the p-th seek.                                     *)
Frame(p, i) == [type |-> "packet", position |-> p, index |-> i]

ServiceInit == position = 0 /\ got = <<>>

Seek == position' = position + 1 /\ got' = <<>>

Deliver ==
  /\ Len(got) < NumFrames
  /\ got' = Append(got, Frame(position, Len(got) + 1))
  /\ UNCHANGED position

DeliverEof ==
  /\ Len(got) = NumFrames
  /\ got' = Append(got, EOF)
  /\ UNCHANGED position

ServiceNext == Seek \/ Deliver \/ DeliverEof

ServiceSpec == ServiceInit /\ [][ServiceNext]_sVars
=============================================================================
