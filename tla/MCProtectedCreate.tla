--------------------------- MODULE MCProtectedCreate ---------------------------
(***************************************************************************)
(* Small instances of ProtectedCreate for TLC.                             *)
(***************************************************************************)
EXTENDS ProtectedCreate
==============================================================================
