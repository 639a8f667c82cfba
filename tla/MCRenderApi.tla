---------------------------- MODULE MCRenderApi -----------------------------
(* RenderApi for TLC.                                                      *)
EXTENDS RenderApi

BothModes == BOOLEAN
=============================================================================
