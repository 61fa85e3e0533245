----------------------------- MODULE CyclicLog -----------------------------
(***************************************************************************)
(* What an automatically rotated log promises, without its files: lines are *)
(* numbered as they are written; the oldest are forgotten, never others; an *)
(* outage loses lines, but none that was safe on disk before it.            *)
(***************************************************************************)
EXTENDS Integers

VARIABLES
  n,      \* lines written
  kept,   \* those that can be read
  safe    \* those of them that would survive an outage

vars == <<n, kept, safe>>

Init == n = 0 /\ kept = {} /\ safe = {}

Append ==
  /\ n' = n + 1
  /\ kept' = kept \cup {n'}
  /\ UNCHANGED safe

Sync ==
  /\ safe \subseteq safe' /\ safe' \subseteq kept
  /\ UNCHANGED <<n, kept>>

\* Forgetting takes a prefix of what is kept.
Forget ==
  /\ \E k \in kept : kept' = {l \in kept : l > k}
  /\ safe' = safe \cap kept'
  /\ UNCHANGED n

Outage ==
  /\ safe \subseteq kept' /\ kept' \subseteq kept
  /\ safe' = kept'
  /\ UNCHANGED n

Next == Append \/ Sync \/ Forget \/ Outage

Spec == Init /\ [][Next]_vars
=============================================================================
