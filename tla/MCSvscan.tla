------------------------------ MODULE MCSvscan ------------------------------
(***************************************************************************)
(* Instances of Svscan for TLC.                                            *)
(***************************************************************************)
EXTENDS Svscan, TLC

CONSTANTS n1, n2

\* Two directories with the same inode on two devices.
d1 == [dev |-> 1, ino |-> 7]
d2 == [dev |-> 2, ino |-> 7]
d3 == [dev |-> 1, ino |-> 8]

TwoNames == {n1, n2}
OneName  == {n1}
OneDir   == {d1}
AllDirs  == {d1, d2, d3}
OneLog   == {d1}

\* A directory may have either name, and another one the same name after it; or
\* there is but one of each.
Renamed   == n1 :> {d1, d3} @@ n2 :> {d1, d2}
Single    == n1 :> {d1}
=============================================================================
