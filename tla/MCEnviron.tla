----------------------------- MODULE MCEnviron -----------------------------
(***************************************************************************)
(* Instances of Environ for TLC.                                           *)
(***************************************************************************)
EXTENDS Environ

TwoNames == {"A", "B"}
AllKinds == {"letter", "space", "newline", "nul"}

\* Up to three strings, a name more than once among them.
Old == [name : TwoNames, value : {<<>>, <<"space">>}]
Environments == UNION {[1..k -> Old] : k \in 0..3}
=============================================================================
