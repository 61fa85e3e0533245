------------------------------ MODULE MCCWrite ------------------------------
(***************************************************************************)
(* Instances of CWrite for TLC: its constants are numbers, given in the      *)
(* .cfg files.                                                              *)
(***************************************************************************)
EXTENDS CWrite, TLC
=============================================================================
