-------------------------- MODULE MCReplayCapture --------------------------
(***************************************************************************)
(* TLC instance of ReplayCapture.                                          *)
(***************************************************************************)
EXTENDS ReplayCapture
=============================================================================
