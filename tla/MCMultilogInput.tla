-------------------------- MODULE MCMultilogInput --------------------------
(***************************************************************************)
(* Instances of MultilogInput for TLC: its constants are numbers, given in   *)
(* the .cfg files.                                                          *)
(***************************************************************************)
EXTENDS MultilogInput, TLC
=============================================================================
