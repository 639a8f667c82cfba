------------------------------ MODULE MCDispatch ------------------------------
(* Instances of Dispatch for TLC: threads are interchangeable where only     *)
(* safety is checked.                                                        *)
EXTENDS Dispatch, TLC

MCSymmetry == Permutations(Threads)
===============================================================================
