------------------------------ MODULE MCCyclog ------------------------------
(***************************************************************************)
(* Instances of Cyclog for TLC: logs whose run script always asks for a      *)
(* processor, and logs whose run script is edited.                          *)
(***************************************************************************)
EXTENDS Cyclog, TLC

AllScripts == {{TRUE}, BOOLEAN}
=============================================================================
