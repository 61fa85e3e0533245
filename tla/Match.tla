------------------------------- MODULE Match -------------------------------
(***************************************************************************)
(* match() (match.c), by which multilog selects lines: one step for each     *)
(* time round one of its loops.  A pattern is compared in one pass, with no   *)
(* way back.  Selection calls it.                                           *)
(***************************************************************************)
EXTENDS Integers, Sequences

CONSTANT Star

VARIABLES
  pattern, buf,  \* the arguments
  p, b,          \* the next character of each
  seeking,       \* in the inner loop, after a star
  result         \* "none" until it returns

match == <<pattern, buf, p, b, seeking, result>>

\* Nobody has called it yet.
NotCalled ==
  /\ pattern = <<>> /\ buf = <<>>
  /\ p = 1 /\ b = 1 /\ seeking = FALSE
  /\ result = "none"

Call(pat, line) ==
  /\ pattern' = pat /\ buf' = line
  /\ p' = 1 /\ b' = 1 /\ seeking' = FALSE
  /\ result' = "none"

\* The pattern and the line are used up.
NoPattern == p > Len(pattern)
NoLine    == b > Len(buf)

Return(r) == result' = r /\ UNCHANGED <<pattern, buf, p, b, seeking>>

\* (mutant) What follows the match is not looked at.
Whole_Any == TRUE

\* A pattern that is used up matches an empty rest.
Whole == NoLine

Ended ==
  /\ ~seeking /\ NoPattern
  /\ Return(IF Whole THEN "yes" ELSE "no")

\* A star at the end matches the rest.
LastStar ==
  /\ ~seeking /\ p = Len(pattern) /\ pattern[p] = Star
  /\ Return("yes")

\* Another star goes on to the first place of the character after it.
OpenStar ==
  /\ ~seeking /\ p < Len(pattern) /\ pattern[p] = Star
  /\ p' = p + 1 /\ seeking' = TRUE
  /\ UNCHANGED <<pattern, buf, b, result>>

Seek ==
  /\ seeking
  /\ \/ NoLine /\ Return("no")
     \/ /\ ~NoLine /\ buf[b] = pattern[p]
        /\ seeking' = FALSE
        /\ UNCHANGED <<pattern, buf, p, b, result>>
     \/ /\ ~NoLine /\ buf[b] # pattern[p]
        /\ b' = b + 1
        /\ UNCHANGED <<pattern, buf, p, seeking, result>>

Literal ==
  /\ ~seeking /\ ~NoPattern /\ pattern[p] # Star
  /\ IF NoLine \/ buf[b] # pattern[p] THEN Return("no")
     ELSE /\ p' = p + 1 /\ b' = b + 1
          /\ UNCHANGED <<pattern, buf, seeking, result>>

MatchStep ==
  /\ result = "none"
  /\ Ended \/ LastStar \/ OpenStar \/ Seek \/ Literal

(***************************************************************************)
(* Properties.                                                             *)
(***************************************************************************)

\* The line can be cut into pieces, one for each character of the pattern,
\* cut[i] bytes before the i-th: a character matches itself, a star at the end
\* matches anything, and a star before another character (be it a star) matches
\* what has not got that character, up to one.
Matches(pat, line) ==
  \E cut \in [1..(Len(pat) + 1) -> 0..Len(line)] :
    /\ cut[1] = 0 /\ cut[Len(pat) + 1] = Len(line)
    /\ \A i \in DOMAIN pat :
         LET piece == (cut[i] + 1)..cut[i + 1] IN
         IF pat[i] # Star
         THEN cut[i + 1] = cut[i] + 1 /\ line[cut[i] + 1] = pat[i]
         ELSE /\ cut[i] =< cut[i + 1]
              /\ i < Len(pat) =>
                   /\ \A j \in piece : line[j] # pat[i + 1]
                   /\ cut[i + 1] < Len(line)
                   /\ line[cut[i + 1] + 1] = pat[i + 1]

\* Whatever pattern and line match() is called with, its one pass, with no way
\* back, finds the cut if there is one.
Verdict ==
  result # "none" => (result = "yes" <=> Matches(pattern, buf))
=============================================================================
