----------------------------- MODULE MCIbkrProbe -----------------------------
(***************************************************************************)
(* TLC instance of IbkrProbe.                                              *)
(***************************************************************************)
EXTENDS IbkrProbe
=============================================================================
