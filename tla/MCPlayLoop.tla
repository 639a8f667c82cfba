------------------------------ MODULE MCPlayLoop -------------------------------
EXTENDS PlayLoop

Setup(tracks, frames, audio, end, gapless, slow, stalls, uses, most) ==
  [tracks |-> tracks, frames |-> frames, audio |-> audio, end |-> end, gapless |-> gapless,
   slow |-> slow, stalls |-> stalls, uses |-> uses, most |-> most]
AV == {"audio", "video"}
MCAmounts == {-1, 2}
MCSpans == {<<0, 3>>, <<2, 3>>, <<0, 2>>}

\* Each case brings together what may disturb one another.
Cases == {
  Setup(AV, 3, <<0, 3>>, "stop", FALSE, FALSE, FALSE, {"absolute", "pause"}, 2),
  Setup(AV, 3, <<0, 2>>, "stop", TRUE, TRUE, FALSE, {"keyframe"}, 1),
  Setup(AV, 3, <<0, 3>>, "stop", TRUE, FALSE, TRUE, {}, 0),
  Setup(AV, 3, <<2, 3>>, "keep_open", FALSE, FALSE, FALSE, {"relative", "keyframe"}, 1),
  Setup(AV, 3, <<0, 3>>, "keep_open", FALSE, FALSE, FALSE, {"pause", "backstep"}, 1),
  Setup(AV, 3, <<0, 3>>, "loop", TRUE, FALSE, FALSE, {"step", "pause"}, 1),
  Setup(AV, 3, <<2, 3>>, "loop", TRUE, FALSE, FALSE, {"exact"}, 1),
  Setup({"video"}, 3, <<0, 3>>, "loop", TRUE, FALSE, FALSE, {"absolute", "backstep"}, 2),
  Setup({"video"}, 4, <<0, 3>>, "keep_open", FALSE, FALSE, FALSE, Commands, 1),
  Setup({"audio"}, 3, <<0, 3>>, "loop", TRUE, FALSE, FALSE, {"relative", "pause"}, 2)}
============================================================================
