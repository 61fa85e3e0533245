---------------------------- MODULE MCSupervise ----------------------------
(***************************************************************************)
(* Instances of Supervise for TLC.                                         *)
(***************************************************************************)
EXTENDS Supervise, TLC

CONSTANTS p1, p2

TwoPids   == {p1, p2}
OneStray  == {p2}
NoStray   == {}

\* With no stray the process identifiers are alike.
Alike == Permutations(TwoPids)

\* Single options of svc; t stands for a, h and i, too.
Singles == {<<c>> : c \in {"d", "u", "o", "p", "c", "x", "t"}}

\* Options of svc, single and combined.
Combined == {<<"d">>, <<"u">>, <<"p">>, <<"k">>, <<"d", "x">>}
UpOrDown == {<<"d">>, <<"u">>}
=============================================================================
