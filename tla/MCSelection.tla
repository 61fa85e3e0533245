---------------------------- MODULE MCSelection ----------------------------
(***************************************************************************)
(* An instance of Selection for TLC: every short pattern against every short *)
(* text, and scripts of several actions.                                    *)
(***************************************************************************)
EXTENDS Selection

CONSTANTS a, b0, star, nl, stamp

AllBytes == {a, b0, star, nl, stamp}

Act(kind, arg) == [kind |-> kind, arg |-> arg]

Strings(chars, max) == UNION {[1..k -> chars] : k \in 0..max}

Texts == Strings({a, b0, nl}, 5) \cup Strings({a, star, nl}, 4)

\* One pattern.
Single(kind, pat) ==
  IF kind = "-" THEN <<Act("-", pat), Act("dir", 1)>>
  ELSE <<Act("-", <<star>>), Act("+", pat), Act("dir", 1)>>
Singles == {Single(kind, pat) : kind \in {"-", "+"},
                                pat \in Strings({a, b0, star}, 4)}

\* Two logs, stderr and a status file, two patterns, and settings in between.
Patterns == {<<a>>, <<star>>, <<a, star>>, <<star, b0>>}
Several(k1, q1, k2, q2, n, s) ==
  <<Act("s", s), Act(k1, q1), Act("=", 0), Act("dir", 1), Act("n", n),
    Act("!", "program"), Act(k2, q2), Act("e", 0), Act("dir", 2)>>
Many == {Several(k1, q1, k2, q2, 5, 3) :
           k1 \in {"-"}, k2 \in {"+", "-"}, q1 \in Patterns, q2 \in Patterns}

\* The same with time stamps, with another e that gets every line, and with
\* numbers that are too small or too large.
Others == {<<Act("t", 0), Act("e", 0)>> \o Several("-", q1, "+", q2, 1, s) :
             q1 \in Patterns, q2 \in {<<star, a>>, <<star>>}, s \in {1, 8}}

AllInputs == [script : Singles, text : Strings({a, b0, nl}, 4)]
             \cup [script : Many, text : Texts]
             \cup [script : Others, text : Texts]
             \cup [script : {Single("+", q) : q \in Strings({a, star}, 3)},
                   text : Strings({a, star, nl}, 4)]
=============================================================================
