--------------------------- MODULE MCInterruptIO ---------------------------
(***************************************************************************)
(* The instances of InterruptIO for TLC.                                   *)
(***************************************************************************)
EXTENDS InterruptIO
=============================================================================
