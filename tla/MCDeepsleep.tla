---------------------------- MODULE MCDeepsleep ----------------------------
(***************************************************************************)
(* Instances of Deepsleep for TLC: a second of four milliseconds, and        *)
(* pauses below and beyond what one poll() can wait.                         *)
(***************************************************************************)
EXTENDS Deepsleep

Pauses == {0, 1, 3}
=============================================================================
