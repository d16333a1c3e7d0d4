------------------------------ MODULE MCBwrapRun ------------------------------
(***************************************************************************)
(* A small instance of BwrapRun for TLC: two signals, at most three sent.   *)
(***************************************************************************)
EXTENDS BwrapRun
==============================================================================
