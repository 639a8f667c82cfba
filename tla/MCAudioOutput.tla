----------------------------- MODULE MCAudioOutput -----------------------------
(* A device that can pause, one that is stopped instead, one that takes what it  *)
(* gets at once, and one that is fed silence all the time; the user seeks, or    *)
(* pauses and unpauses.                                                          *)
EXTENDS AudioOutput

Plain == [untimed |-> FALSE, can_pause |-> TRUE, stream_silence |-> FALSE,
          gapless |-> FALSE, slow |-> FALSE, seeks |-> 0, pauses |-> 0]
MCSetups == {[Plain EXCEPT !.seeks = 1],
             [Plain EXCEPT !.pauses = 2, !.gapless = TRUE],
             [Plain EXCEPT !.pauses = 2, !.can_pause = FALSE],
             [Plain EXCEPT !.slow = TRUE],
             [Plain EXCEPT !.untimed = TRUE],
             [Plain EXCEPT !.pauses = 1, !.stream_silence = TRUE]}
================================================================================
