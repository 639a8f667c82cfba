------------------------------ MODULE MCVoQueue ------------------------------
(* The bounds are in the cfgs: points in time up to two ticks ahead, frames   *)
(* shown up to twice in a row, and what else the core does besides playing:   *)
(* end or seek, pause and redraw, or follow the wishes of the driver.         *)
EXTENDS VoQueue
==============================================================================
