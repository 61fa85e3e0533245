--------------------------- MODULE SelectionProofs ---------------------------
(***************************************************************************)
(* Proofs about Match and Selection, for scripts, patterns and texts of any *)
(* length.                                                                  *)
(***************************************************************************)
EXTENDS Selection, FiniteSetTheorems, NaturalsInduction, SequenceTheorems, TLAPS

(***************************************************************************)
(* match(): how far it has come.                                           *)
(***************************************************************************)

\* The m-th character of the pattern matches what lies between the first x and
\* the first y bytes.
Piece(m, x, y) ==
  IF pattern[m] # Star
  THEN y = x + 1 /\ buf[x + 1] = pattern[m]
  ELSE /\ x =< y
       /\ m < Len(pattern) => /\ \A j \in (x + 1)..y : buf[j] # pattern[m + 1]
                              /\ y < Len(buf)
                              /\ buf[y + 1] = pattern[m + 1]

\* The cuts for the first k characters of the pattern.
Cuts(k) ==
  {cut \in [1..(k + 1) -> 0..Len(buf)] :
     cut[1] = 0 /\ \A m \in 1..k : Piece(m, cut[m], cut[m + 1])}

FullCuts == {cut \in Cuts(Len(pattern)) : cut[Len(pattern) + 1] = Len(buf)}

MatchTypes ==
  /\ pattern \in Seq(Bytes) /\ buf \in Seq(Bytes)
  /\ p \in 1..(Len(pattern) + 1) /\ b \in 1..(Len(buf) + 1)
  /\ seeking \in BOOLEAN /\ result \in {"none", "yes", "no"}

\* Between two characters of the pattern: there is a cut that ends here, and
\* there is no cut of the whole line that does not come by here.
Between ==
  /\ \E cut \in Cuts(p - 1) : cut[p] = b - 1
  /\ \A cut \in FullCuts : cut[p] = b - 1

\* Behind a star: where it begins is certain, and none of the bytes since then
\* is the character that ends it.
Searching ==
  /\ p > 1 /\ p =< Len(pattern) /\ pattern[p - 1] = Star
  /\ \E cut \in Cuts(p - 2) : /\ cut[p - 1] < b
                             /\ \A j \in (cut[p - 1] + 1)..(b - 1) :
                                  buf[j] # pattern[p]
  /\ \A cut \in FullCuts : cut[p - 1] < b /\ b - 1 =< cut[p]

MatchInv ==
  /\ MatchTypes /\ Verdict
  /\ result = "none" => IF seeking THEN Searching ELSE Between

\* Matches() in the words of the invariant.
LEMMA MatchesCuts ==
  ASSUME MatchTypes
  PROVE  Matches(pattern, buf) <=> FullCuts # {}
<1>1. /\ DOMAIN pattern = 1..Len(pattern) /\ Len(pattern) \in Nat
  BY DEF MatchTypes
<1>2. ASSUME NEW cut \in [1..(Len(pattern) + 1) -> 0..Len(buf)],
             NEW m \in 1..Len(pattern)
      PROVE  Piece(m, cut[m], cut[m + 1]) <=>
               LET piece == (cut[m] + 1)..cut[m + 1] IN
               IF pattern[m] # Star
               THEN cut[m + 1] = cut[m] + 1 /\ buf[cut[m] + 1] = pattern[m]
               ELSE /\ cut[m] =< cut[m + 1]
                    /\ m < Len(pattern) =>
                         /\ \A j \in piece : buf[j] # pattern[m + 1]
                         /\ cut[m + 1] < Len(buf)
                         /\ buf[cut[m + 1] + 1] = pattern[m + 1]
  BY Zenon DEF Piece
<1>3. Matches(pattern, buf) <=>
        \E cut \in [1..(Len(pattern) + 1) -> 0..Len(buf)] :
          /\ cut[1] = 0 /\ cut[Len(pattern) + 1] = Len(buf)
          /\ \A m \in 1..Len(pattern) : Piece(m, cut[m], cut[m + 1])
  BY <1>1, <1>2 DEF Matches
<1> QED
  BY <1>3, Zenon DEF FullCuts, Cuts

\* What is known of a cut.
LEMMA CutFacts ==
  ASSUME MatchTypes, NEW k \in 0..Len(pattern), NEW cut \in Cuts(k)
  PROVE  /\ cut \in [1..(k + 1) -> 0..Len(buf)] /\ cut[1] = 0
         /\ \A m \in 1..k : Piece(m, cut[m], cut[m + 1])
  BY DEF Cuts

\* A cut is made longer by a piece.
LEMMA LongerCut ==
  ASSUME MatchTypes, NEW k \in 0..(Len(pattern) - 1), NEW cut \in Cuts(k),
         NEW y \in 0..Len(buf), Piece(k + 1, cut[k + 1], y)
  PROVE  \E more \in Cuts(k + 1) : more[k + 2] = y
<1> DEFINE more == [m \in 1..(k + 2) |-> IF m = k + 2 THEN y ELSE cut[m]]
<1>1. k \in Nat /\ k + 1 + 1 = k + 2
  BY DEF MatchTypes
<1>2. /\ cut \in [1..(k + 1) -> 0..Len(buf)] /\ cut[1] = 0
      /\ \A m \in 1..k : Piece(m, cut[m], cut[m + 1])
  <2>1. k \in 0..Len(pattern)
    BY DEF MatchTypes
  <2> QED
    BY <2>1, CutFacts
<1>3. /\ \A m \in 1..(k + 1) : more[m] = cut[m]
      /\ more[k + 2] = y
      /\ more \in [1..(k + 2) -> 0..Len(buf)]
  BY <1>1, <1>2
<1> HIDE DEF more
<1>4. \A m \in 1..(k + 1) : Piece(m, more[m], more[m + 1])
  <2> SUFFICES ASSUME NEW m \in 1..(k + 1)
               PROVE  Piece(m, more[m], more[m + 1])
    OBVIOUS
  <2>1. CASE m = k + 1
    BY <1>1, <1>3, <2>1
  <2>2. CASE m # k + 1
    <3>1. m \in 1..k /\ m + 1 \in 1..(k + 1)
      BY <1>1, <2>2
    <3> QED
      BY <1>2, <1>3, <3>1
  <2> QED
    BY <2>1, <2>2
<1>5. more[1] = 0
  BY <1>1, <1>2, <1>3
<1> QED
  BY <1>1, <1>3, <1>4, <1>5 DEF Cuts

\* The pieces of a cut of the whole line.
LEMMA FullPieces ==
  ASSUME MatchTypes, NEW cut \in FullCuts
  PROVE  /\ \A m \in 1..(Len(pattern) + 1) : cut[m] \in 0..Len(buf)
         /\ cut[1] = 0 /\ cut[Len(pattern) + 1] = Len(buf)
         /\ \A m \in 1..Len(pattern) : Piece(m, cut[m], cut[m + 1])
<1>1. Len(pattern) \in Nat
  BY DEF MatchTypes
<1> QED
  BY <1>1, CutFacts DEF FullCuts

(***************************************************************************)
(* The steps of match().                                                   *)
(***************************************************************************)

SameCall == UNCHANGED <<pattern, buf>>

\* The cuts do not depend on how far match() has come.
LEMMA SameCuts ==
  ASSUME SameCall
  PROVE  /\ FullCuts' = FullCuts /\ \A k : Cuts(k)' = Cuts(k)
         /\ Matches(pattern, buf)' = Matches(pattern, buf)
  BY DEF SameCall, FullCuts, Cuts, Piece, Matches

\* The pattern is used up: the one cut there may be ends here.
LEMMA EndedStep ==
  ASSUME MatchInv, result = "none", Ended
  PROVE  MatchInv'
<1> USE DEF Ended, Return
<1>1. /\ SameCall /\ UNCHANGED <<p, b, seeking>> /\ ~seeking
      /\ MatchTypes /\ Between /\ result' = IF Whole THEN "yes" ELSE "no"
  BY DEF MatchInv, SameCall
<1>2. p = Len(pattern) + 1 /\ Len(pattern) \in Nat /\ Len(buf) \in Nat
  BY <1>1 DEF MatchTypes, NoPattern
<1>3. Whole <=> FullCuts # {}
  <2>1. Whole <=> b - 1 = Len(buf)
    BY <1>1, <1>2 DEF Whole, NoLine, MatchTypes
  <2>2. b - 1 = Len(buf) => FullCuts # {}
    BY <1>1, <1>2 DEF Between, FullCuts
  <2>3. FullCuts # {} => b - 1 = Len(buf)
    BY <1>1, <1>2 DEF Between, FullCuts
  <2> QED
    BY <2>1, <2>2, <2>3
<1>4. Verdict'
  BY <1>1, <1>3, MatchesCuts, SameCuts DEF Verdict
<1> QED
  BY <1>1, <1>4 DEF MatchInv, MatchTypes, SameCall

\* A star at the end takes the rest of the line as its piece.
LEMMA LastStarStep ==
  ASSUME MatchInv, result = "none", LastStar
  PROVE  MatchInv'
<1> USE DEF LastStar, Return
<1>1. /\ SameCall /\ UNCHANGED <<p, b, seeking>> /\ ~seeking
      /\ MatchTypes /\ Between /\ result' = "yes"
      /\ p = Len(pattern) /\ pattern[p] = Star
  BY DEF MatchInv, SameCall
<1>2. p \in Nat /\ p - 1 \in 0..(Len(pattern) - 1) /\ Len(buf) \in Nat
      /\ (p - 1) + 1 = p /\ (p - 1) + 2 = p + 1 /\ b - 1 =< Len(buf)
  BY <1>1 DEF MatchTypes
<1>3. PICK cut \in Cuts(p - 1) : cut[p] = b - 1
  BY <1>1 DEF Between
<1>4. Piece(p, cut[p], Len(buf))
  BY <1>1, <1>2, <1>3 DEF Piece
<1>5. \E more \in Cuts(p) : more[p + 1] = Len(buf)
  BY <1>1, <1>2, <1>4, LongerCut
<1>6. FullCuts # {}
  BY <1>1, <1>5 DEF FullCuts
<1>7. Verdict'
  BY <1>1, <1>6, MatchesCuts, SameCuts DEF Verdict
<1> QED
  BY <1>1, <1>7 DEF MatchInv, MatchTypes, SameCall

\* Behind a star the search begins where every cut has it begin.
LEMMA OpenStarStep ==
  ASSUME MatchInv, result = "none", OpenStar
  PROVE  MatchInv'
<1> USE DEF OpenStar
<1>1. /\ SameCall /\ b' = b /\ result' = "none" /\ p' = p + 1 /\ seeking'
      /\ MatchTypes /\ Between /\ p < Len(pattern) /\ pattern[p] = Star
      /\ seeking' = TRUE
  BY DEF MatchInv, SameCall
<1>2. /\ p \in Nat /\ p > 0 /\ Len(pattern) \in Nat /\ b \in Nat
      /\ Len(buf) \in Nat /\ b - 1 =< Len(buf)
      /\ p' - 1 = p /\ p' - 2 = p - 1
  BY <1>1 DEF MatchTypes
<1>3. MatchTypes'
  BY <1>1, <1>2 DEF MatchTypes, SameCall
<1>4. PICK cut \in Cuts(p - 1) : cut[p] = b - 1
  BY <1>1 DEF Between
<1>5. Searching'
  <2>1. p' > 1 /\ p' =< Len(pattern') /\ pattern'[p' - 1] = Star
    BY <1>1, <1>2 DEF SameCall
  <2>2. /\ cut \in Cuts(p' - 2) /\ cut[p' - 1] < b'
        /\ \A j \in (cut[p' - 1] + 1)..(b' - 1) : buf'[j] # pattern'[p']
    BY <1>1, <1>2, <1>4 DEF SameCall
  <2>3. ASSUME NEW full \in FullCuts
        PROVE  full[p] < b /\ b - 1 =< full[p + 1]
    <3>1. full[p] = b - 1
      BY <1>1 DEF Between
    <3>2. Piece(p, full[p], full[p + 1])
      BY <1>1, <1>2, FullPieces
    <3> QED
      BY <1>1, <1>2, <3>1, <3>2 DEF Piece
  <2> QED
    BY <1>1, <1>2, <2>1, <2>2, <2>3, SameCuts DEF Searching
<1> QED
  BY <1>1, <1>3, <1>5 DEF MatchInv, Verdict

\* The search for the character behind a star: no cut of the whole line has
\* its end before b, and none has it behind the first place that is found.
LEMMA SeekStep ==
  ASSUME MatchInv, result = "none", Seek
  PROVE  MatchInv'
<1>1. /\ SameCall /\ p' = p /\ seeking = TRUE
      /\ MatchTypes /\ Searching
      /\ \/ NoLine /\ b' = b /\ seeking' = seeking /\ result' = "no"
         \/ /\ ~NoLine /\ buf[b] = pattern[p]
            /\ b' = b /\ seeking' = FALSE /\ result' = result
         \/ /\ ~NoLine /\ buf[b] # pattern[p]
            /\ b' = b + 1 /\ seeking' = seeking /\ result' = result
  BY DEF MatchInv, MatchTypes, SameCall, Seek, Return
<1>2. /\ p \in Nat /\ p > 1 /\ p =< Len(pattern) /\ pattern[p - 1] = Star
      /\ Len(pattern) \in Nat /\ Len(buf) \in Nat
      /\ b \in Nat /\ b > 0 /\ b - 1 =< Len(buf)
      /\ NoLine <=> b = Len(buf) + 1
      /\ p - 1 \in 1..Len(pattern) /\ (p - 1) + 1 = p
      /\ p - 2 \in 0..(Len(pattern) - 1) /\ (p - 2) + 1 = p - 1
      /\ (p - 2) + 2 = p
  <2>1. Len(pattern) \in Nat /\ Len(buf) \in Nat
    BY <1>1, LenProperties DEF MatchTypes
  <2>2. /\ p \in 1..(Len(pattern) + 1) /\ b \in 1..(Len(buf) + 1)
        /\ p > 1 /\ p =< Len(pattern) /\ pattern[p - 1] = Star
        /\ NoLine <=> b > Len(buf)
    BY <1>1 DEF MatchTypes, Searching, NoLine
  <2> QED
    BY <2>1, <2>2
<1>3. PICK cut \in Cuts(p - 2) :
        /\ cut[p - 1] < b
        /\ \A j \in (cut[p - 1] + 1)..(b - 1) : buf[j] # pattern[p]
  BY <1>1 DEF Searching
<1>4. cut[p - 1] \in 0..Len(buf)
  BY <1>1, <1>2, CutFacts
<1>5. ASSUME NEW full \in FullCuts
      PROVE  /\ full[p - 1] \in Nat /\ full[p] \in Nat /\ full[p] < Len(buf)
             /\ full[p - 1] < b /\ b - 1 =< full[p]
             /\ \A j \in (full[p - 1] + 1)..full[p] : buf[j] # pattern[p]
             /\ buf[full[p] + 1] = pattern[p]
  <2>1. Piece(p - 1, full[p - 1], full[p])
    BY <1>1, <1>2, FullPieces
  <2>2. full[p - 1] \in 0..Len(buf) /\ full[p] \in 0..Len(buf)
    BY <1>1, <1>2, FullPieces
  <2>3. full[p - 1] < b /\ b - 1 =< full[p]
    BY <1>1 DEF Searching
  <2>4. p - 1 < Len(pattern)
    BY <1>2
  <2>5. /\ \A j \in (full[p - 1] + 1)..full[p] : buf[j] # pattern[p]
        /\ full[p] < Len(buf) /\ buf[full[p] + 1] = pattern[p]
    BY <1>2, <2>1, <2>4, Zenon DEF Piece
  <2> QED
    BY <2>2, <2>3, <2>5
<1>6. CASE NoLine
  <2>1. FullCuts = {}
    <3> SUFFICES ASSUME NEW full \in FullCuts PROVE FALSE
      OBVIOUS
    <3>1. full[p] \in Nat /\ full[p] < Len(buf) /\ b - 1 =< full[p]
      BY <1>5
    <3> QED
      BY <1>2, <1>6, <3>1
  <2>2. result' = "no" /\ b' = b /\ seeking' = seeking
    BY <1>1, <1>6
  <2>3. Verdict'
    BY <1>1, <2>1, <2>2, MatchesCuts, SameCuts DEF Verdict
  <2> QED
    BY <1>1, <2>2, <2>3 DEF MatchInv, MatchTypes, SameCall
<1>7. CASE ~NoLine /\ buf[b] = pattern[p]
  <2>1. b' = b /\ seeking' = FALSE /\ result' = result
    BY <1>1, <1>7
  <2>2. Piece(p - 1, cut[p - 1], b - 1)
    BY <1>2, <1>3, <1>4, <1>7 DEF Piece
  <2>3. \E more \in Cuts(p - 1) : more[p] = b - 1
    <3>1. \E more \in Cuts((p - 2) + 1) : more[(p - 2) + 2] = b - 1
      <4>1. b - 1 \in 0..Len(buf)
        BY <1>2
      <4>2. Piece((p - 2) + 1, cut[(p - 2) + 1], b - 1)
        BY <1>2, <2>2
      <4> QED
        BY <1>1, <1>2, <1>3, <4>1, <4>2, LongerCut, Zenon
    <3> QED
      BY <1>2, <3>1
  <2>4. \A full \in FullCuts : full[p] = b - 1
    BY <1>2, <1>5, <1>7
  <2>5. Between'
    BY <1>1, <2>1, <2>3, <2>4, SameCuts DEF Between
  <2> QED
    BY <1>1, <2>1, <2>5 DEF MatchInv, MatchTypes, SameCall, Verdict
<1>8. CASE ~NoLine /\ buf[b] # pattern[p]
  <2>1. b' = b + 1 /\ seeking' = seeking /\ result' = result
    BY <1>1, <1>8
  <2>2. /\ cut[p - 1] < b'
        /\ \A j \in (cut[p - 1] + 1)..(b' - 1) : buf[j] # pattern[p]
    BY <1>2, <1>3, <1>4, <1>8, <2>1
  <2>3. \A full \in FullCuts : full[p - 1] < b' /\ b' - 1 =< full[p]
    BY <1>2, <1>5, <1>8, <2>1
  <2>4. Searching'
    <3>1. pattern' = pattern /\ buf' = buf
      BY <1>1 DEF SameCall
    <3> QED
      BY <1>1, <1>2, <1>3, <2>2, <2>3, <3>1, SameCuts DEF Searching
  <2>5. MatchTypes'
    <3>1. b + 1 \in 1..(Len(buf) + 1)
      <4>1. b # Len(buf) + 1
        BY <1>2, <1>8
      <4>2. b \in Nat /\ Len(buf) \in Nat /\ b > 0 /\ b - 1 =< Len(buf)
        BY <1>2
      <4> QED
        BY <4>1, <4>2
    <3> QED
      BY <1>1, <2>1, <3>1 DEF MatchTypes, SameCall
  <2> QED
    BY <1>1, <2>1, <2>4, <2>5 DEF MatchInv, Verdict
<1> QED
  BY <1>1, <1>6, <1>7, <1>8

\* A character that is not a star matches itself, or there is no cut.
LEMMA LiteralStep ==
  ASSUME MatchInv, result = "none", Literal
  PROVE  MatchInv'
<1>1. /\ SameCall /\ seeking = FALSE /\ seeking' = seeking
      /\ MatchTypes /\ Between /\ ~NoPattern /\ pattern[p] # Star
      /\ IF NoLine \/ buf[b] # pattern[p]
         THEN result' = "no" /\ UNCHANGED <<p, b>>
         ELSE p' = p + 1 /\ b' = b + 1 /\ result' = result
  BY DEF MatchInv, MatchTypes, SameCall, Literal, Return
<1>2. /\ p \in 1..Len(pattern) /\ p \in Nat
      /\ Len(pattern) \in Nat /\ Len(buf) \in Nat
      /\ b \in Nat /\ b > 0 /\ b - 1 =< Len(buf)
      /\ NoLine <=> b = Len(buf) + 1
      /\ p - 1 \in 0..(Len(pattern) - 1)
      /\ (p - 1) + 1 = p /\ (p - 1) + 2 = p + 1
  <2>1. Len(pattern) \in Nat /\ Len(buf) \in Nat
    BY <1>1, LenProperties DEF MatchTypes
  <2>2. /\ p \in 1..(Len(pattern) + 1) /\ b \in 1..(Len(buf) + 1)
        /\ ~(p > Len(pattern))
        /\ NoLine <=> b > Len(buf)
    BY <1>1 DEF MatchTypes, NoPattern, NoLine
  <2> QED
    BY <2>1, <2>2
<1>3. PICK cut \in Cuts(p - 1) : cut[p] = b - 1
  BY <1>1 DEF Between
<1>4. ASSUME NEW full \in FullCuts
      PROVE  full[p + 1] = b /\ b \in 1..Len(buf) /\ buf[b] = pattern[p]
  <2>1. Piece(p, full[p], full[p + 1]) /\ full[p + 1] \in 0..Len(buf)
    <3>1. p + 1 \in 1..(Len(pattern) + 1)
      BY <1>2
    <3> QED
      BY <1>1, <1>2, <3>1, FullPieces, Zenon
  <2>2. full[p] = b - 1
    BY <1>1 DEF Between
  <2>3. full[p + 1] = full[p] + 1 /\ buf[full[p] + 1] = pattern[p]
    BY <1>1, <2>1, Zenon DEF Piece
  <2> QED
    BY <1>2, <2>1, <2>2, <2>3
<1>5. CASE NoLine \/ buf[b] # pattern[p]
  <2>1. FullCuts = {}
    BY <1>2, <1>4, <1>5
  <2>2. result' = "no" /\ UNCHANGED <<p, b>>
    BY <1>1, <1>5
  <2>3. Verdict'
    BY <1>1, <2>1, <2>2, MatchesCuts, SameCuts DEF Verdict
  <2> QED
    BY <1>1, <2>2, <2>3 DEF MatchInv, MatchTypes, SameCall
<1>6. CASE ~(NoLine \/ buf[b] # pattern[p])
  <2>1. p' = p + 1 /\ b' = b + 1 /\ result' = result
    BY <1>1, <1>6
  <2>2. \E more \in Cuts(p) : more[p + 1] = b
    <3>1. \E more \in Cuts((p - 1) + 1) : more[(p - 1) + 2] = b
      <4>1. b \in 0..Len(buf)
        BY <1>2, <1>6
      <4>2. Piece((p - 1) + 1, cut[(p - 1) + 1], b)
        BY <1>1, <1>2, <1>3, <1>6 DEF Piece
      <4> QED
        BY <1>1, <1>2, <1>3, <4>1, <4>2, LongerCut, Zenon
    <3> QED
      BY <1>2, <3>1
  <2>3. Between'
    <3>1. p' - 1 = p /\ b' - 1 = b
      BY <1>2, <2>1
    <3> QED
      BY <1>1, <1>4, <2>1, <2>2, <3>1, SameCuts DEF Between
  <2>4. MatchTypes'
    BY <1>1, <1>2, <1>6, <2>1 DEF MatchTypes, SameCall
  <2> QED
    BY <1>1, <2>1, <2>3, <2>4 DEF MatchInv, Verdict
<1> QED
  BY <1>5, <1>6

\* match() is called.
LEMMA CallStep ==
  ASSUME NEW pat \in Seq(Bytes), NEW text0 \in Seq(Bytes), Call(pat, text0)
  PROVE  MatchInv'
<1>1. /\ pattern' = pat /\ buf' = text0 /\ p' = 1 /\ b' = 1
      /\ seeking' = FALSE /\ result' = "none"
  BY DEF Call
<1>2. MatchTypes'
  <2>1. 1 \in 1..(Len(pat) + 1) /\ 1 \in 1..(Len(text0) + 1)
    <3>1. Len(pat) \in Nat /\ Len(text0) \in Nat
      BY LenProperties
    <3> QED
      BY <3>1
  <2> QED
    BY <1>1, <2>1, Zenon DEF MatchTypes
<1>3. Between'
  <2> DEFINE cut == [m \in 1..1 |-> 0]
  <2>1. cut \in [1..1 -> 0..Len(text0)] /\ cut[1] = 0
    BY LenProperties
  <2> HIDE DEF cut
  <2>2. cut \in Cuts(0)'
    BY <1>1, <2>1 DEF Cuts
  <2>3. \A full \in FullCuts' : full[1] = 0
    BY DEF FullCuts, Cuts
  <2> QED
    BY <1>1, <2>1, <2>2, <2>3 DEF Between
<1> QED
  BY <1>1, <1>2, <1>3 DEF MatchInv, Verdict

\* Each step of match() keeps the invariant.
LEMMA MatchStepInv ==
  ASSUME MatchInv, MatchStep
  PROVE  MatchInv'
<1>1. result = "none"
  BY DEF MatchStep
<1>2. CASE Ended
  BY <1>1, <1>2, EndedStep
<1>3. CASE LastStar
  BY <1>1, <1>3, LastStarStep
<1>4. CASE OpenStar
  BY <1>1, <1>4, OpenStarStep
<1>5. CASE Seek
  BY <1>1, <1>5, SeekStep
<1>6. CASE Literal
  BY <1>1, <1>6, LiteralStep
<1> QED
  BY <1>2, <1>3, <1>4, <1>5, <1>6 DEF MatchStep

(***************************************************************************)
(* multilog: what match() is called with.                                  *)
(***************************************************************************)

\* The patterns of the script.
Patterned ==
  /\ script \in Seq(Range(script))
  /\ \A k \in DOMAIN script :
       /\ script[k].kind \in {"+", "-"} => script[k].arg \in Seq(Bytes)
       /\ script[k].kind \in {"s", "n"} => script[k].arg \in Nat

\* The line that is held, of which there is never more than LineSize bytes.
LineHeld ==
  /\ text \in Seq(Bytes) /\ got \in 0..Len(text)
  /\ line \in [1..(LineSize + 1) -> Bytes]
  /\ linelen \in 0..LineSize
  /\ pc \in {"init", "get"} => linelen < LineSize

Counted == i \in Nat /\ i > 0

SelectionInv == Patterned /\ LineHeld /\ Counted /\ MatchInv

\* Before the first call match() has nothing to match, and nothing is held.
LEMMA InitInv ==
  ASSUME Init
  PROVE  SelectionInv
<1>1. PICK input \in Inputs : script = input.script /\ text = input.text
  BY DEF Init
<1>2. /\ input.text \in Seq(Bytes) /\ input.script \in Seq(Range(input.script))
      /\ \A k \in DOMAIN input.script :
           /\ input.script[k].kind \in {"+", "-"}
                => input.script[k].arg \in Seq(Bytes)
           /\ input.script[k].kind \in {"s", "n"} => input.script[k].arg \in Nat
  BY <1>1, SelectionAssumption
<1>3. Patterned
  BY <1>1, <1>2 DEF Patterned
<1>4. LineHeld
  <2>1. got = 0 /\ linelen = 0 /\ line = Blank
    BY DEF Init
  <2>2. LineSize \in Nat /\ 1 < LineSize /\ Newline \in Bytes
    BY SelectionAssumption
  <2>3. line \in [1..(LineSize + 1) -> Bytes]
    BY <2>1, <2>2 DEF Blank
  <2>4. text \in Seq(Bytes) /\ got \in 0..Len(text)
    <3>1. text \in Seq(Bytes)
      BY <1>1, <1>2
    <3>2. Len(text) \in Nat
      BY <3>1, LenProperties
    <3> QED
      BY <2>1, <3>1, <3>2
  <2> QED
    BY <2>1, <2>2, <2>3, <2>4 DEF LineHeld
<1>5. Counted
  BY DEF Init, Counted
<1>6. MatchInv
  <2>1. /\ pattern = <<>> /\ buf = <<>> /\ p = 1 /\ b = 1 /\ seeking = FALSE
        /\ result = "none"
    BY DEF Init, NotCalled
  <2>2. MatchTypes
    <3>1. pattern \in Seq(Bytes) /\ Len(pattern) = 0
      BY <2>1, EmptySeq
    <3>2. buf \in Seq(Bytes) /\ Len(buf) = 0
      BY <2>1, EmptySeq
    <3>3. 1 \in 1..(Len(pattern) + 1) /\ 1 \in 1..(Len(buf) + 1)
      BY <3>1, <3>2
    <3> QED
      BY <2>1, <3>1, <3>2, <3>3, Zenon DEF MatchTypes
  <2>3. Between
    <3> DEFINE cut == [k \in 1..1 |-> 0]
    <3>1. cut \in [1..1 -> 0..Len(buf)] /\ cut[1] = 0
      BY <2>1
    <3> HIDE DEF cut
    <3>2. cut \in Cuts(0)
      BY <2>1, <3>1 DEF Cuts
    <3>3. \A full \in FullCuts : full[1] = 0
      BY DEF FullCuts, Cuts
    <3> QED
      BY <2>1, <3>1, <3>2, <3>3 DEF Between
  <2> QED
    BY <2>1, <2>2, <2>3 DEF MatchInv, Verdict
<1> QED
  BY <1>3, <1>4, <1>5, <1>6 DEF SelectionInv

\* What a step that goes on with the same line leaves.
LEMMA SameLine ==
  ASSUME LineHeld, UNCHANGED <<text, got, line, linelen>>,
         pc' = pc \/ pc' \notin {"init", "get"}
  PROVE  LineHeld'
BY DEF LineHeld

\* A byte is held only where there is room for it.
LEMMA GetByteLine ==
  ASSUME LineHeld, GetByte
  PROVE  LineHeld'
<1> DEFINE ch == text[got']
           stamped == linelen = 0 /\ flagtimestamp
           l == IF stamped THEN [line EXCEPT ![1] = Stamp] ELSE line
           n == IF stamped THEN 1 ELSE linelen
<1>1. LineSize \in Nat /\ 1 < LineSize /\ Newline \in Bytes /\ Stamp \in Bytes
  BY SelectionAssumption
<1>2. /\ pc = "get" /\ got < Len(text) /\ got' = got + 1 /\ text' = text
      /\ IF ch = Newline
         THEN line' = l /\ linelen' = n /\ Look
         ELSE /\ line' = [l EXCEPT ![n + 1] = ch] /\ linelen' = n + 1
              /\ IF n + 1 = LineSize THEN Look
                 ELSE UNCHANGED <<pc, i, flagselected>>
  BY DEF GetByte, given
<1>3. /\ text \in Seq(Bytes) /\ got \in 0..Len(text) /\ Len(text) \in Nat
      /\ line \in [1..(LineSize + 1) -> Bytes] /\ linelen \in Nat
      /\ linelen < LineSize
  BY <1>1, <1>2, LenProperties DEF LineHeld
<1>4. got' \in 0..Len(text) /\ got' \in 1..Len(text)
  BY <1>2, <1>3
<1>5. ch \in Bytes
  BY <1>3, <1>4, ElementOfSeq
<1>6. /\ l \in [1..(LineSize + 1) -> Bytes]
      /\ n \in Nat /\ n < LineSize
  BY <1>1, <1>3
<1> HIDE DEF ch, stamped, l, n
<1>7. CASE ch = Newline
  BY <1>1, <1>2, <1>3, <1>4, <1>6, <1>7 DEF LineHeld, Look
<1>8. CASE ch # Newline
  <2>1. line' = [l EXCEPT ![n + 1] = ch] /\ linelen' = n + 1
    BY <1>2, <1>8
  <2>2. pc' \in {"init", "get"} => linelen' < LineSize
    BY <1>1, <1>2, <1>6, <1>8, <2>1 DEF Look
  <2>3. line' \in [1..(LineSize + 1) -> Bytes]
    BY <1>5, <1>6, <2>1
  <2> QED
    BY <1>1, <1>2, <1>3, <1>4, <1>6, <2>1, <2>2, <2>3 DEF LineHeld
<1> QED
  BY <1>7, <1>8

\* A line that is cleared is still a line of bytes.
LEMMA EndLineHeld ==
  ASSUME LineHeld, EndLine
  PROVE  LineHeld'
<1>1. LineSize \in Nat /\ 1 < LineSize /\ Newline \in Bytes
  BY SelectionAssumption
<1>2. /\ UNCHANGED <<text, got>>
      /\ \/ pc' = "done" /\ UNCHANGED <<line, linelen>>
         \/ line' = Cleared /\ linelen' = 0
  BY DEF EndLine, given, held
<1>3. Cleared \in [1..(LineSize + 1) -> Bytes]
  BY <1>1 DEF Cleared, LineHeld
<1>4. CASE pc' = "done" /\ UNCHANGED <<line, linelen>>
  BY <1>2, <1>4, SameLine
<1>5. CASE line' = Cleared /\ linelen' = 0
  BY <1>1, <1>2, <1>3, <1>5 DEF LineHeld
<1> QED
  BY <1>2, <1>4, <1>5

\* The bytes behind LineSize go by what is held.
LEMMA LongByteHeld ==
  ASSUME LineHeld, LongByte
  PROVE  LineHeld'
<1>1. /\ pc = "long" /\ UNCHANGED <<text, line, linelen>>
      /\ pc' \in {"end", "long"}
      /\ \/ got' = got
         \/ got # Len(text) /\ got' = got + 1
  BY DEF LongByte, given, held
<1>2. got \in 0..Len(text) /\ Len(text) \in Nat
  BY LenProperties DEF LineHeld
<1>3. got' \in 0..Len(text)
  BY <1>1, <1>2
<1> QED
  BY <1>1, <1>3 DEF LineHeld

\* match() is called with a pattern of the script and the line that is held.
LEMMA CallMatchInv ==
  ASSUME SelectionInv, CallMatch
  PROVE  MatchInv'
<1>1. i \in 1..Len(script) /\ script[i].kind \in {"+", "-"}
  <2>1. Len(script) \in Nat
    BY LenProperties DEF SelectionInv, Patterned
  <2> QED
    BY <2>1 DEF CallMatch, Action, SelectionInv, Counted
<1>2. script[i].arg \in Seq(Bytes)
  <2>1. DOMAIN script = 1..Len(script)
    BY LenProperties DEF SelectionInv, Patterned
  <2> QED
    BY <1>1, <2>1 DEF SelectionInv, Patterned
<1>3. FirstBytes(linelen) \in Seq(Bytes)
  <2>1. LineSize \in Nat
    BY SelectionAssumption
  <2>2. line \in [1..(LineSize + 1) -> Bytes] /\ linelen \in 0..LineSize
    BY DEF SelectionInv, LineHeld
  <2>3. \A k \in 1..linelen : line[k] \in Bytes
    BY <2>1, <2>2
  <2> QED
    BY <2>1, <2>2, <2>3, SubSeqProperties DEF FirstBytes
<1>4. Call(script[i].arg, FirstBytes(linelen))
  BY DEF CallMatch
<1> QED
  BY <1>2, <1>3, <1>4, CallStep

\* Outside of match() nothing of it changes.
LEMMA SameMatch ==
  ASSUME MatchInv, UNCHANGED match
  PROVE  MatchInv'
<1>1. SameCall /\ UNCHANGED <<p, b, seeking, result>>
  BY DEF match, SameCall
<1>2. MatchTypes'
  BY <1>1 DEF SameCall, MatchInv, MatchTypes
<1>3. Verdict'
  BY <1>1, SameCuts DEF MatchInv, Verdict
<1>4. Searching' <=> Searching
  BY <1>1, SameCuts DEF SameCall, Searching
<1>5. Between' <=> Between
  BY <1>1, SameCuts DEF Between
<1> QED
  BY <1>1, <1>2, <1>3, <1>4, <1>5 DEF MatchInv

\* Each step of multilog keeps the invariant.
LEMMA StepInv ==
  ASSUME SelectionInv, [Next]_vars
  PROVE  SelectionInv'
<1>1. UNCHANGED given
  BY DEF Next, vars, Prepare, Prepared, GetByte, NoByte, CallMatch, InMatch,
         Matched, Skip, ToStderr, ToStatus, ToLog, PutLine, LongByte, EndLine,
         Passed
<1>2. Patterned'
  BY <1>1 DEF given, SelectionInv, Patterned, Range
<1>3. Counted'
  <2>1. i' \in {i, i + 1, 1}
    BY DEF Next, vars, Prepare, Prepared, GetByte, NoByte, CallMatch, InMatch,
           Matched, Skip, ToStderr, ToStatus, ToLog, PutLine, LongByte, EndLine,
           Passed, Look
  <2> QED
    BY <2>1 DEF SelectionInv, Counted
<1>4. LineHeld'
  <2>1. LineHeld
    BY DEF SelectionInv
  <2>2. CASE GetByte
    BY <2>1, <2>2, GetByteLine
  <2>3. CASE EndLine
    BY <2>1, <2>3, EndLineHeld
  <2>4. CASE LongByte
    BY <2>1, <2>4, LongByteHeld
  <2>5. CASE Prepared
    BY <2>1, <2>5 DEF Prepared, given, held, LineHeld
  <2>6. CASE \/ Prepare \/ NoByte \/ CallMatch \/ InMatch \/ Matched
             \/ Skip \/ ToStderr \/ ToStatus \/ ToLog \/ PutLine
             \/ UNCHANGED vars
    <3>1. /\ UNCHANGED <<text, got, line, linelen>>
          /\ pc' = pc \/ pc' \notin {"init", "get"}
      BY <2>6 DEF given, held, vars, Prepare, NoByte, CallMatch, InMatch,
                  Matched, Skip, ToStderr, ToStatus, ToLog, PutLine, Passed,
                  Look
    <3> QED
      BY <2>1, <3>1, SameLine
  <2> QED
    BY <2>2, <2>3, <2>4, <2>5, <2>6 DEF Next
<1>5. MatchInv'
  <2>1. MatchInv
    BY DEF SelectionInv
  <2>2. CASE CallMatch
    BY <2>2, CallMatchInv
  <2>3. CASE InMatch
    BY <2>1, <2>3, MatchStepInv DEF InMatch
  <2>4. CASE ~CallMatch /\ ~InMatch
    <3>1. UNCHANGED match
      BY <2>4 DEF Next, vars, Prepare, Prepared, GetByte, NoByte, Matched, Skip,
                  ToStderr, ToStatus, ToLog, PutLine, LongByte, EndLine, Passed
    <3> QED
      BY <2>1, <3>1, SameMatch
  <2> QED
    BY <2>2, <2>3, <2>4
<1> QED
  BY <1>2, <1>3, <1>4, <1>5 DEF SelectionInv

\* Whatever the script, the text and the size of a line, the one pass of match()
\* says of every line that is held whether the pattern has a cut of it.
THEOREM VerdictIsRight == Spec => []Verdict
<1>1. Init => SelectionInv
  BY InitInv
<1>2. SelectionInv /\ [Next]_vars => SelectionInv'
  BY StepInv
<1>3. SelectionInv => Verdict
  BY DEF SelectionInv, MatchInv
<1> QED
  BY <1>1, <1>2, <1>3, PTL DEF Spec

(***************************************************************************)
(* Least and greatest numbers.                                             *)
(***************************************************************************)

\* A set of natural numbers has a least one.
LEMMA Least ==
  ASSUME NEW S \in SUBSET Nat, S # {}
  PROVE  Min(S) \in S /\ \A y \in S : Min(S) =< y
<1> DEFINE R == {q \in Nat \X Nat : q[1] < q[2]}
<1>1. IsWellFoundedOn(R, Nat)
  BY NatLessThanWellFounded DEF OpToRel
<1>2. \A d, e \in Nat : <<d, e>> \notin R => e =< d
  OBVIOUS
<1> HIDE DEF R
<1>3. PICK x \in S : \A y \in S : ~(<<y, x>> \in R)
  BY <1>1, WFMin
<1>4. \A y \in S : x =< y
  BY <1>2, <1>3, Zenon
<1> QED
  BY <1>3, <1>4, Zenon DEF Min

\* The one number that is not below another is the maximum.
LEMMA MaxIs ==
  ASSUME NEW S \in SUBSET Int, NEW x \in S, \A y \in S : y =< x
  PROVE  Max(S) = x
<1>1. \A z \in S : (\A y \in S : z >= y) => z = x
  OBVIOUS
<1>2. \A y \in S : x >= y
  OBVIOUS
<1> QED
  BY <1>1, <1>2, Zenon DEF Max

\* The one number that is not above another is the minimum.
LEMMA MinIs ==
  ASSUME NEW S \in SUBSET Int, NEW x \in S, \A y \in S : x =< y
  PROVE  Min(S) = x
<1>1. \A z \in S : (\A y \in S : z =< y) => z = x
  OBVIOUS
<1> QED
  BY <1>1, Zenon DEF Min

\* Of two numbers.
LEMMA OfTwo ==
  ASSUME NEW x \in Int, NEW y \in Int
  PROVE  /\ Min({x, y}) = IF x =< y THEN x ELSE y
         /\ Max({x, y}) = IF x =< y THEN y ELSE x
<1>1. CASE x =< y
  <2>1. Min({x, y}) = x
    BY <1>1, MinIs
  <2>2. Max({x, y}) = y
    BY <1>1, MaxIs
  <2> QED
    BY <1>1, <2>1, <2>2
<1>2. CASE ~(x =< y)
  <2>1. Min({x, y}) = y
    BY <1>2, MinIs
  <2>2. Max({x, y}) = x
    BY <1>2, MaxIs
  <2> QED
    BY <1>2, <2>1, <2>2
<1> QED
  BY <1>1, <1>2

(***************************************************************************)
(* The lines of the text.                                                  *)
(***************************************************************************)

Texted == text \in Seq(Bytes)

StampLen == IF flagtimestamp THEN 1 ELSE 0

\* The text has bytes.
LEMMA TextFacts ==
  ASSUME Texted
  PROVE  /\ Len(text) \in Nat /\ DOMAIN text = 1..Len(text)
         /\ \A x \in 1..Len(text) : text[x] \in Bytes
BY LenProperties, ElementOfSeq DEF Texted

\* Where a line ends.
LEMMA EndFacts ==
  ASSUME Texted, NEW s \in Starts
  PROVE  /\ s \in 1..Len(text) /\ End(s) \in s..(Len(text) + 1)
         /\ \A x \in s..(End(s) - 1) : text[x] # Newline
         /\ End(s) =< Len(text) => text[End(s)] = Newline
<1> DEFINE S == {e \in s..Len(text) : text[e] = Newline} \cup {Len(text) + 1}
<1>1. s \in 1..Len(text) /\ Len(text) \in Nat
  BY TextFacts DEF Starts
<1>2. S \in SUBSET Nat /\ Len(text) + 1 \in S
  BY <1>1
<1>3. End(s) \in S /\ \A y \in S : End(s) =< y
  BY <1>2, Least DEF End
<1>4. End(s) \in s..(Len(text) + 1)
  BY <1>1, <1>3
<1>5. ASSUME NEW x \in s..(End(s) - 1), text[x] = Newline
      PROVE  FALSE
  <2>1. x \in s..Len(text) /\ ~(End(s) =< x)
    BY <1>1, <1>4
  <2> QED
    BY <1>3, <1>5, <2>1
<1>6. End(s) =< Len(text) => text[End(s)] = Newline
  BY <1>1, <1>3
<1> QED
  BY <1>1, <1>4, <1>5, <1>6

\* What the line at s is made of.
LEMMA LineFacts ==
  ASSUME Texted, NEW s \in Starts
  PROVE  /\ Line(s) \in Seq(Bytes) /\ Len(Line(s)) \in Nat
         /\ Len(Line(s)) = StampLen + End(s) - s
         /\ \A x \in 1..Len(Line(s)) :
              Line(s)[x] = IF x =< StampLen THEN Stamp
                           ELSE text[s + x - StampLen - 1]
<1> DEFINE pre == IF flagtimestamp THEN <<Stamp>> ELSE <<>>
           rest == SubSeq(text, s, End(s) - 1)
<1>1. /\ s \in Nat /\ s > 0 /\ s =< Len(text) /\ End(s) \in Nat
      /\ s =< End(s) /\ End(s) =< Len(text) + 1 /\ Len(text) \in Nat
  BY EndFacts, TextFacts
<1>2. /\ rest \in Seq(Bytes) /\ Len(rest) = End(s) - s
      /\ \A x \in 1..(End(s) - s) : rest[x] = text[s + x - 1]
  <2>1. s \in Int /\ End(s) - 1 \in Int
    BY <1>1
  <2>2. \A x \in s..(End(s) - 1) : text[x] \in Bytes
    BY <1>1, TextFacts
  <2>3. /\ rest \in Seq(Bytes)
        /\ Len(rest) = IF s =< End(s) - 1 THEN (End(s) - 1) - s + 1 ELSE 0
        /\ \A x \in 1..((End(s) - 1) - s + 1) : rest[x] = text[s + x - 1]
    BY <2>1, <2>2, SubSeqProperties
  <2> HIDE DEF rest
  <2> QED
    BY <1>1, <2>3
<1>3. /\ pre \in Seq(Bytes) /\ Len(pre) = StampLen
      /\ \A x \in 1..StampLen : pre[x] = Stamp
  <2>1. Stamp \in Bytes
    BY SelectionAssumption
  <2>2. <<Stamp>> \in Seq(Bytes) /\ Len(<<Stamp>>) = 1 /\ <<Stamp>>[1] = Stamp
    BY <2>1
  <2>3. <<>> \in Seq(Bytes) /\ Len(<<>>) = 0
    BY EmptySeq
  <2> QED
    BY <2>2, <2>3 DEF StampLen
<1>4. Line(s) = pre \o rest
  BY DEF Line
<1> HIDE DEF pre, rest
<1>5. StampLen \in Nat
  BY DEF StampLen
<1>6. /\ pre \o rest \in Seq(Bytes)
      /\ Len(pre \o rest) = Len(pre) + Len(rest)
      /\ \A x \in 1..(Len(pre) + Len(rest)) :
           (pre \o rest)[x] = IF x =< Len(pre) THEN pre[x]
                              ELSE rest[x - Len(pre)]
  BY <1>2, <1>3, ConcatProperties
<1>7. ASSUME NEW x \in 1..Len(Line(s))
      PROVE  Line(s)[x] = IF x =< StampLen THEN Stamp
                          ELSE text[s + x - StampLen - 1]
  <2>1. x \in 1..(StampLen + (End(s) - s))
    BY <1>2, <1>3, <1>4, <1>6
  <2>2. Line(s)[x] = IF x =< StampLen THEN pre[x] ELSE rest[x - StampLen]
    BY <1>2, <1>3, <1>4, <1>6, <2>1
  <2>3. CASE x =< StampLen
    BY <1>3, <1>5, <2>1, <2>2, <2>3
  <2>4. CASE ~(x =< StampLen)
    <3>1. x - StampLen \in 1..(End(s) - s)
      BY <1>1, <1>5, <2>1, <2>4
    <3>2. s + (x - StampLen) - 1 = s + x - StampLen - 1
      BY <1>1, <1>5, <2>1
    <3> QED
      BY <1>2, <2>2, <2>4, <3>1, <3>2
  <2> QED
    BY <2>3, <2>4
<1> QED
  BY <1>1, <1>2, <1>3, <1>4, <1>5, <1>6, <1>7

\* The first bytes of a line.
LEMMA FirstFacts ==
  ASSUME Texted, NEW s \in Starts, NEW most \in Nat
  PROVE  /\ FirstOf(s, most) \in Seq(Bytes)
         /\ Len(FirstOf(s, most)) =
              IF Len(Line(s)) =< most THEN Len(Line(s)) ELSE most
         /\ \A x \in 1..Len(FirstOf(s, most)) :
              FirstOf(s, most)[x] = Line(s)[x]
<1> DEFINE n == IF Len(Line(s)) =< most THEN Len(Line(s)) ELSE most
<1>1. Line(s) \in Seq(Bytes) /\ Len(Line(s)) \in Nat
  BY LineFacts
<1>2. Min({Len(Line(s)), most}) = n
  BY <1>1, OfTwo
<1>3. FirstOf(s, most) = SubSeq(Line(s), 1, n)
  BY <1>2 DEF FirstOf
<1>4. n \in Nat /\ n =< Len(Line(s))
  BY <1>1
<1> HIDE DEF n
<1>5. \A x \in 1..n : Line(s)[x] \in Bytes
  BY <1>1, <1>4, ElementOfSeq
<1>6. /\ SubSeq(Line(s), 1, n) \in Seq(Bytes)
      /\ Len(SubSeq(Line(s), 1, n)) = IF 1 =< n THEN n - 1 + 1 ELSE 0
      /\ \A x \in 1..(n - 1 + 1) : SubSeq(Line(s), 1, n)[x] = Line(s)[1 + x - 1]
  BY <1>4, <1>5, SubSeqProperties
<1>7. Len(SubSeq(Line(s), 1, n)) = n
  BY <1>4, <1>6
<1>8. \A x \in 1..n : SubSeq(Line(s), 1, n)[x] = Line(s)[x]
  BY <1>4, <1>6
<1> QED
  BY <1>3, <1>6, <1>7, <1>8 DEF n

\* A line with its newline.
LEMMA WholeFacts ==
  ASSUME Texted, NEW s \in Starts
  PROVE  /\ WholeLine(s) \in Seq(Bytes)
         /\ Len(WholeLine(s)) = Len(Line(s)) + 1
         /\ DOMAIN WholeLine(s) = 1..(Len(Line(s)) + 1)
         /\ \A x \in 1..Len(Line(s)) : WholeLine(s)[x] = Line(s)[x]
         /\ WholeLine(s)[Len(Line(s)) + 1] = Newline
<1>1. Line(s) \in Seq(Bytes) /\ Len(Line(s)) \in Nat
  BY LineFacts
<1>2. Newline \in Bytes
  BY SelectionAssumption
<1>3. /\ WholeLine(s) \in Seq(Bytes)
      /\ Len(WholeLine(s)) = Len(Line(s)) + 1
      /\ \A x \in 1..Len(Line(s)) : WholeLine(s)[x] = Line(s)[x]
      /\ WholeLine(s)[Len(Line(s)) + 1] = Newline
  BY <1>1, <1>2, AppendProperties DEF WholeLine
<1> QED
  BY <1>3, LenProperties

\* Where the line behind s begins, if there is one.
NextLine(s) == IF End(s) =< Len(text) THEN End(s) + 1 ELSE Len(text) + 1

\* The line behind s is the next one of the text.
LEMMA NextFacts ==
  ASSUME Texted, NEW s \in Starts
  PROVE  /\ NextLine(s) \in Starts \cup {Len(text) + 1}
         /\ NextLine(s) \in 1..(Len(text) + 1)
         /\ s < NextLine(s)
         /\ \A t \in Starts : t < NextLine(s) <=> t =< s
<1>1. /\ s \in Nat /\ s > 0 /\ s =< Len(text) /\ End(s) \in Nat
      /\ s =< End(s) /\ End(s) =< Len(text) + 1 /\ Len(text) \in Nat
      /\ DOMAIN text = 1..Len(text)
  BY EndFacts, TextFacts
<1>2. s < NextLine(s) /\ NextLine(s) \in 1..(Len(text) + 1)
  BY <1>1 DEF NextLine
<1>3. NextLine(s) \in Starts \cup {Len(text) + 1}
  <2>1. CASE End(s) < Len(text)
    <3>1. End(s) + 1 \in DOMAIN text /\ (End(s) + 1) - 1 = End(s)
      BY <1>1, <2>1
    <3>2. text[End(s)] = Newline
      BY <1>1, <2>1, EndFacts
    <3> QED
      BY <1>1, <2>1, <3>1, <3>2 DEF Starts, NextLine
  <2>2. CASE ~(End(s) < Len(text))
    BY <1>1, <2>2 DEF NextLine
  <2> QED
    BY <2>1, <2>2
<1>4. ASSUME NEW t \in Starts, s < t
      PROVE  ~(t < NextLine(s))
  <2>1. t \in 1..Len(text) /\ t - 1 \in Nat /\ s =< t - 1
    BY <1>1, <1>4 DEF Starts
  <2>2. text[t - 1] = Newline
    BY <1>1, <1>4, <2>1 DEF Starts
  <2>3. ~(t - 1 < End(s))
    BY <1>1, <2>1, <2>2, EndFacts
  <2> QED
    BY <1>1, <2>1, <2>3 DEF NextLine
<1>5. \A t \in Starts : t \in Nat
  BY <1>1 DEF Starts
<1> QED
  BY <1>1, <1>2, <1>3, <1>4, <1>5

(***************************************************************************)
(* The script.                                                             *)
(***************************************************************************)

\* The script is numbered from 1.
LEMMA ScriptFacts ==
  ASSUME Patterned
  PROVE  /\ Len(script) \in Nat /\ DOMAIN script = 1..Len(script)
         /\ \A kind : Of(kind) \subseteq 1..Len(script)
BY LenProperties DEF Patterned, Of

\* The logs are counted in the order of the script.
LEMMA PlaceFacts ==
  ASSUME Patterned
  PROVE  /\ Place(0) = 0
         /\ \A k \in 0..Len(script) : Place(k) \in Nat
         /\ \A k \in 1..Len(script) :
              Place(k) = Place(k - 1) + IF k \in Of("dir") THEN 1 ELSE 0
         /\ \A k, m \in 0..Len(script) : k =< m => Place(k) =< Place(m)
         /\ Cardinality(Of("dir")) = Place(Len(script))
<1> DEFINE P(k) == {m \in 1..k : script[m].kind = "dir"}
<1>1. Len(script) \in Nat /\ DOMAIN script = 1..Len(script)
  BY ScriptFacts
<1>2. \A k \in 0..Len(script) : Place(k) = Cardinality(P(k))
  BY DEF Place
<1>3. ASSUME NEW k \in 0..Len(script)
      PROVE  IsFiniteSet(P(k)) /\ Cardinality(P(k)) \in Nat
  <2>1. k \in Int
    BY <1>1
  <2>2. IsFiniteSet(1..k)
    BY <2>1, FS_Interval
  <2>3. P(k) \in SUBSET (1..k)
    OBVIOUS
  <2> HIDE DEF P
  <2> QED
    BY <2>2, <2>3, FS_Subset, FS_CardinalityType
<1>4. P(0) = {}
  OBVIOUS
<1>5. ASSUME NEW k \in 1..Len(script)
      PROVE  Place(k) = Place(k - 1) + IF k \in Of("dir") THEN 1 ELSE 0
  <2>1. k - 1 \in 0..Len(script) /\ k \in 0..Len(script)
    BY <1>1
  <2>2. k \in Of("dir") <=> script[k].kind = "dir"
    BY <1>1 DEF Of
  <2>3. CASE script[k].kind = "dir"
    <3>1. P(k) = P(k - 1) \cup {k} /\ k \notin P(k - 1)
      BY <1>1, <2>3
    <3> HIDE DEF P
    <3>2. Cardinality(P(k)) = Cardinality(P(k - 1)) + 1
      BY <1>3, <2>1, <3>1, FS_AddElement
    <3> QED
      BY <1>2, <2>1, <2>2, <2>3, <3>2
  <2>4. CASE script[k].kind # "dir"
    <3>1. P(k) = P(k - 1)
      BY <1>1, <2>4
    <3> HIDE DEF P
    <3>2. Cardinality(P(k - 1)) \in Nat
      BY <1>3, <2>1
    <3> QED
      BY <1>2, <2>1, <2>2, <2>4, <3>1, <3>2
  <2> QED
    BY <2>3, <2>4
<1>6. ASSUME NEW k \in 0..Len(script), NEW m \in 0..Len(script), k =< m
      PROVE  Place(k) =< Place(m)
  <2>1. P(k) \in SUBSET P(m)
    BY <1>1, <1>6
  <2> HIDE DEF P
  <2> QED
    BY <1>2, <1>3, <2>1, FS_Subset
<1>7. Cardinality(Of("dir")) = Place(Len(script))
  <2>1. Of("dir") = P(Len(script))
    BY <1>1 DEF Of
  <2> HIDE DEF P
  <2> QED
    BY <1>1, <1>2, <2>1
<1> HIDE DEF P
<1>8. Place(0) = 0
  <2>1. Cardinality(P(0)) = 0
    BY <1>4, FS_EmptySet
  <2> QED
    BY <1>1, <1>2, <2>1
<1>9. \A k \in 0..Len(script) : Place(k) \in Nat
  BY <1>2, <1>3
<1> QED
  BY <1>5, <1>6, <1>7, <1>8, <1>9, Zenon

\* No two logs are at one place.
LEMMA PlaceOrder ==
  ASSUME Patterned, NEW k \in Of("dir"), NEW m \in 0..Len(script)
  PROVE  /\ Place(k) \in 1..Place(Len(script))
         /\ k =< m => Place(k) =< Place(m)
         /\ m < k => Place(m) < Place(k)
<1>1. Len(script) \in Nat /\ k \in 1..Len(script)
  BY ScriptFacts
<1>2. k - 1 \in 0..Len(script) /\ k \in 0..Len(script)
  BY <1>1
<1>3. Place(k) = Place(k - 1) + 1
  <2>1. Place(k) = Place(k - 1) + IF k \in Of("dir") THEN 1 ELSE 0
    BY <1>1, PlaceFacts, Zenon
  <2> QED
    BY <2>1
<1>4. /\ Place(k - 1) \in Nat /\ Place(k) \in Nat /\ Place(m) \in Nat
      /\ Place(Len(script)) \in Nat /\ Place(k) =< Place(Len(script))
  BY <1>1, <1>2, PlaceFacts
<1>5. k =< m => Place(k) =< Place(m)
  BY <1>2, PlaceFacts
<1>6. ASSUME m < k
      PROVE  Place(m) < Place(k)
  <2>1. m =< k - 1
    BY <1>1, <1>6
  <2>2. Place(m) =< Place(k - 1)
    BY <1>2, <2>1, PlaceFacts
  <2> QED
    BY <1>3, <1>4, <2>2
<1> QED
  BY <1>3, <1>4, <1>5, <1>6

\* A setting holds from the action behind it on.
LEMMA BeforeNext ==
  ASSUME Patterned, NEW k \in 1..Len(script), NEW kind, NEW default
  PROVE  Before(k + 1, kind, default) =
           IF script[k].kind = kind THEN script[k].arg
           ELSE Before(k, kind, default)
<1> DEFINE S(m) == {l \in Of(kind) : l < m}
<1>1. k \in Nat /\ Of(kind) \subseteq Nat /\ DOMAIN script = 1..Len(script)
  BY ScriptFacts
<1>2. \A m : Before(m, kind, default) =
               IF S(m) = {} THEN default ELSE script[Max(S(m))].arg
  BY DEF Before
<1>3. CASE script[k].kind = kind
  <2>1. k \in S(k + 1) /\ S(k + 1) \in SUBSET Int
        /\ \A y \in S(k + 1) : y =< k
    BY <1>1, <1>3 DEF Of
  <2> HIDE DEF S
  <2>2. Max(S(k + 1)) = k
    BY <2>1, MaxIs
  <2> QED
    BY <1>2, <1>3, <2>1, <2>2
<1>4. CASE script[k].kind # kind
  <2>1. S(k + 1) = S(k)
    BY <1>1, <1>4 DEF Of
  <2> HIDE DEF S
  <2> QED
    BY <1>2, <1>4, <2>1
<1> QED
  BY <1>3, <1>4

\* Before the first action the default holds.
LEMMA BeforeFirst ==
  ASSUME Patterned, NEW kind, NEW default
  PROVE  Before(1, kind, default) = default
<1>1. {m \in Of(kind) : m < 1} = {}
  BY ScriptFacts
<1> QED
  BY <1>1 DEF Before

\* Whether a line is selected changes with a pattern that matches it.
LEMMA SelectedNext ==
  ASSUME Patterned, NEW k \in 1..Len(script), NEW s
  PROVE  Selected(k + 1, s) <=>
           IF /\ script[k].kind \in {"+", "-"}
              /\ Matches(script[k].arg, Beginning(s))
           THEN script[k].kind = "+" ELSE Selected(k, s)
<1> DEFINE Hit(m) == Matches(script[m].arg, Beginning(s))
           S(m) == {l \in Of("+") \cup Of("-") : l < m /\ Hit(l)}
<1>1. /\ k \in Nat /\ Of("+") \subseteq Nat /\ Of("-") \subseteq Nat
      /\ DOMAIN script = 1..Len(script)
  BY ScriptFacts
<1>2. \A m : Selected(m, s) <=> S(m) = {} \/ script[Max(S(m))].kind = "+"
  BY DEF Selected
<1> HIDE DEF Hit
<1>3. CASE script[k].kind \in {"+", "-"} /\ Hit(k)
  <2>1. k \in S(k + 1) /\ S(k + 1) \in SUBSET Int
        /\ \A y \in S(k + 1) : y =< k
    BY <1>1, <1>3 DEF Of
  <2> HIDE DEF S
  <2>2. Max(S(k + 1)) = k
    BY <2>1, MaxIs
  <2>3. Selected(k + 1, s) <=> script[k].kind = "+"
    BY <1>2, <2>1, <2>2
  <2> QED
    BY <1>3, <2>3 DEF Hit
<1>4. CASE ~(script[k].kind \in {"+", "-"} /\ Hit(k))
  <2>1. S(k + 1) = S(k)
    BY <1>1, <1>4 DEF Of
  <2> HIDE DEF S
  <2>2. Selected(k + 1, s) <=> Selected(k, s)
    BY <1>2, <2>1
  <2> QED
    BY <1>4, <2>2 DEF Hit
<1> QED
  BY <1>3, <1>4

\* A line is selected until an action says otherwise.
LEMMA SelectedFirst ==
  ASSUME Patterned, NEW s
  PROVE  Selected(1, s)
<1>1. /\ \A m \in Of("+") \cup Of("-") : ~(m < 1)
  BY ScriptFacts
<1> QED
  BY <1>1 DEF Selected

(***************************************************************************)
(* What a log has of the lines before s, and n bytes of s.                  *)
(***************************************************************************)

Holds(ss, share, s, n) ==
  /\ Len(ss) = Cardinality(Ahead(share, s)) + n
  /\ \A t \in share : t < s =>
       \A x \in DOMAIN WholeLine(t) :
         ss[Cardinality(Ahead(share, t)) + x] = WholeLine(t)[x]
  /\ \A x \in 1..n : ss[Cardinality(Ahead(share, s)) + x] = WholeLine(s)[x]

\* There are only so many bytes ahead of a line.
LEMMA AheadFinite ==
  ASSUME Texted, NEW share \in SUBSET Starts, NEW s \in Nat
  PROVE  IsFiniteSet(Ahead(share, s)) /\ Cardinality(Ahead(share, s)) \in Nat
<1> DEFINE B == (1..Len(text)) \X (1..(Len(text) + 3))
<1>1. Len(text) \in Nat
  BY TextFacts
<1>2. IsFiniteSet(B)
  <2>1. 1 \in Int /\ Len(text) \in Int /\ Len(text) + 3 \in Int
    BY <1>1
  <2>2. IsFiniteSet(1..Len(text)) /\ IsFiniteSet(1..(Len(text) + 3))
    BY <2>1, FS_Interval
  <2> QED
    BY <2>2, FS_Product
<1>3. ASSUME NEW t \in share
      PROVE  {t} \X DOMAIN WholeLine(t) \subseteq B
  <2>1. t \in Starts
    OBVIOUS
  <2>2. /\ t \in 1..Len(text) /\ End(t) \in Nat /\ End(t) =< Len(text) + 1
        /\ DOMAIN WholeLine(t) = 1..(Len(Line(t)) + 1)
        /\ Len(Line(t)) = StampLen + End(t) - t
    BY <1>1, <2>1, EndFacts, LineFacts, WholeFacts
  <2>3. Len(Line(t)) + 1 =< Len(text) + 3 /\ Len(Line(t)) \in Int
    BY <1>1, <2>2 DEF StampLen
  <2> QED
    BY <1>1, <2>2, <2>3
<1> HIDE DEF B
<1>4. Ahead(share, s) \in SUBSET B
  BY <1>3 DEF Ahead
<1> QED
  BY <1>2, <1>4, FS_Subset, FS_CardinalityType

\* Nothing is ahead of the first line.
LEMMA AheadFirst ==
  ASSUME Texted, NEW share \in SUBSET Starts
  PROVE  Ahead(share, 1) = {} /\ Cardinality(Ahead(share, 1)) = 0
<1>1. \A t \in share : ~(t < 1)
  BY TextFacts DEF Starts
<1>2. Ahead(share, 1) = {}
  BY <1>1 DEF Ahead
<1> QED
  BY <1>2, FS_EmptySet

\* A line adds its bytes for those who get it.
LEMMA AheadNext ==
  ASSUME Texted, NEW share \in SUBSET Starts, NEW s \in Starts
  PROVE  Cardinality(Ahead(share, NextLine(s))) =
           Cardinality(Ahead(share, s))
             + IF s \in share THEN Len(WholeLine(s)) ELSE 0
<1> DEFINE Bytes0(t) == {t} \X DOMAIN WholeLine(t)
<1>1. s \in Nat /\ \A t \in share : t \in Nat
  BY TextFacts DEF Starts
<1>6. \A t \in share : t < NextLine(s) <=> (t < s \/ t = s)
  <2>1. \A t \in share : t < NextLine(s) <=> t =< s
    BY NextFacts
  <2> QED
    BY <1>1, <2>1
<1>2. \A m : Ahead(share, m) = UNION {Bytes0(t) : t \in {t \in share : t < m}}
  BY DEF Ahead
<1>3. IsFiniteSet(Ahead(share, s)) /\ Cardinality(Ahead(share, s)) \in Nat
  BY <1>1, AheadFinite
<1>4. CASE s \in share
  <2>1. {t \in share : t < NextLine(s)} = {t \in share : t < s} \cup {s}
    BY <1>4, <1>6, Zenon
  <2>2. Ahead(share, NextLine(s)) = Ahead(share, s) \cup Bytes0(s)
    <3> HIDE DEF Bytes0
    <3> QED
      BY <1>2, <2>1
  <2>3. Ahead(share, s) \cap Bytes0(s) = {}
    <3>1. \A u \in Ahead(share, s) : u[1] # s
      <4>1. \A t \in share : t < s => t # s
        BY <1>1
      <4>2. \A t \in share : \A u \in Bytes0(t) : u[1] = t
        OBVIOUS
      <4>3. ASSUME NEW u \in Ahead(share, s)
            PROVE  u[1] # s
        <5> HIDE DEF Bytes0
        <5>1. u \in UNION {Bytes0(t) : t \in {t \in share : t < s}}
          BY <1>2
        <5>2. PICK t \in {t \in share : t < s} : u \in Bytes0(t)
          BY <5>1
        <5> QED
          BY <4>1, <4>2, <5>2
      <4> QED
        BY <4>3
    <3>2. \A u \in Bytes0(s) : u[1] = s
      OBVIOUS
    <3> HIDE DEF Bytes0
    <3> QED
      BY <3>1, <3>2
  <2>4. IsFiniteSet(Bytes0(s)) /\ Cardinality(Bytes0(s)) = Len(WholeLine(s))
    <3>1. /\ DOMAIN WholeLine(s) = 1..Len(WholeLine(s))
          /\ Len(WholeLine(s)) \in Nat
      BY WholeFacts, LenProperties
    <3>2. /\ IsFiniteSet(DOMAIN WholeLine(s))
          /\ Cardinality(DOMAIN WholeLine(s)) = Len(WholeLine(s))
      <4>1. 1 \in Int /\ Len(WholeLine(s)) \in Int
        BY <3>1
      <4>2. /\ IsFiniteSet(1..Len(WholeLine(s)))
            /\ Cardinality(1..Len(WholeLine(s))) =
                 IF 1 > Len(WholeLine(s)) THEN 0 ELSE Len(WholeLine(s)) - 1 + 1
        BY <4>1, FS_Interval
      <4> QED
        BY <3>1, <4>2
    <3>3. IsFiniteSet({s}) /\ Cardinality({s}) = 1
      BY FS_Singleton
    <3>4. /\ IsFiniteSet(Bytes0(s))
          /\ Cardinality(Bytes0(s)) = 1 * Len(WholeLine(s))
      <4>1. /\ IsFiniteSet(Bytes0(s))
            /\ Cardinality(Bytes0(s)) =
                 Cardinality({s}) * Cardinality(DOMAIN WholeLine(s))
        BY <3>2, <3>3, FS_Product
      <4> HIDE DEF Bytes0
      <4> QED
        BY <3>2, <3>3, <4>1
    <3>5. \A n \in Nat : 1 * n = n
      OBVIOUS
    <3> HIDE DEF Bytes0
    <3> QED
      BY <3>1, <3>4, <3>5, Zenon
  <2> HIDE DEF Bytes0
  <2>5. Cardinality(Ahead(share, s) \cup Bytes0(s)) =
          Cardinality(Ahead(share, s)) + Cardinality(Bytes0(s))
    <3>1. Cardinality(Ahead(share, s) \cap Bytes0(s)) = 0
      BY <2>3, FS_EmptySet
    <3>2. Cardinality(Ahead(share, s) \cup Bytes0(s)) =
            Cardinality(Ahead(share, s)) + Cardinality(Bytes0(s))
              - Cardinality(Ahead(share, s) \cap Bytes0(s))
      BY <1>3, <2>4, FS_Union
    <3>3. Cardinality(Bytes0(s)) \in Nat
      BY <2>4, FS_CardinalityType
    <3> QED
      BY <1>3, <3>1, <3>2, <3>3
  <2> QED
    BY <1>4, <2>2, <2>4, <2>5
<1>5. CASE s \notin share
  <2>1. {t \in share : t < NextLine(s)} = {t \in share : t < s}
    BY <1>5, <1>6, Zenon
  <2>2. Ahead(share, NextLine(s)) = Ahead(share, s)
    BY <1>2, <2>1, Zenon
  <2> QED
    BY <1>3, <1>5, <2>2
<1> QED
  BY <1>4, <1>5

\* A line that is ahead has its bytes ahead.
LEMMA AheadGrows ==
  ASSUME Texted, NEW share \in SUBSET Starts, NEW s \in Nat,
         NEW t \in share, t < s
  PROVE  /\ Cardinality(Ahead(share, t)) \in Nat
         /\ Cardinality(Ahead(share, s)) \in Nat
         /\ Len(WholeLine(t)) \in Nat
         /\ DOMAIN WholeLine(t) = 1..Len(WholeLine(t))
         /\ Cardinality(Ahead(share, t)) + Len(WholeLine(t)) =<
              Cardinality(Ahead(share, s))
<1>1. t \in Starts /\ t \in Nat
  BY TextFacts DEF Starts
<1>2. NextLine(t) \in Nat /\ \A u \in share : u < NextLine(t) => u < s
  <2>1. \A u \in share : u \in Nat /\ (u < NextLine(t) <=> u =< t)
    BY <1>1, NextFacts, TextFacts DEF Starts
  <2>2. NextLine(t) \in Nat
    BY <1>1, NextFacts
  <2> QED
    BY <1>1, <2>1, <2>2
<1>3. Ahead(share, NextLine(t)) \subseteq Ahead(share, s)
  BY <1>2, Zenon DEF Ahead
<1>4. Cardinality(Ahead(share, NextLine(t))) =< Cardinality(Ahead(share, s))
  BY <1>2, <1>3, AheadFinite, FS_Subset
<1>5. Cardinality(Ahead(share, NextLine(t))) =
        Cardinality(Ahead(share, t)) + Len(WholeLine(t))
  BY <1>1, AheadNext
<1>6. /\ Cardinality(Ahead(share, t)) \in Nat
      /\ Cardinality(Ahead(share, s)) \in Nat
  BY <1>1, AheadFinite
<1> QED
  BY <1>1, <1>4, <1>5, <1>6, WholeFacts, LenProperties

\* The next bytes of the line are written behind what the log holds.
LEMMA HoldsMore ==
  ASSUME Texted, NEW share \in SUBSET Starts, NEW s \in Starts, NEW n \in Nat,
         NEW ss \in Seq(Bytes), NEW bytes \in Seq(Bytes),
         Holds(ss, share, s, n),
         \A x \in 1..Len(bytes) : bytes[x] = WholeLine(s)[n + x]
  PROVE  /\ ss \o bytes \in Seq(Bytes)
         /\ Holds(ss \o bytes, share, s, n + Len(bytes))
<1> DEFINE B == Cardinality(Ahead(share, s))
           more == ss \o bytes
<1>1. s \in Nat /\ B \in Nat /\ Len(ss) = B + n /\ Len(bytes) \in Nat
  BY AheadFinite, TextFacts, LenProperties DEF Holds, Starts
<1>2. /\ more \in Seq(Bytes) /\ Len(more) = Len(ss) + Len(bytes)
      /\ \A x \in 1..(Len(ss) + Len(bytes)) :
           more[x] = IF x =< Len(ss) THEN ss[x] ELSE bytes[x - Len(ss)]
  BY ConcatProperties
<1> HIDE DEF more
<1>3. ASSUME NEW t \in share, t < s, NEW x \in DOMAIN WholeLine(t)
      PROVE  more[Cardinality(Ahead(share, t)) + x] = WholeLine(t)[x]
  <2> DEFINE y == Cardinality(Ahead(share, t)) + x
  <2>1. ss[y] = WholeLine(t)[x]
    BY <1>3 DEF Holds
  <2>2. y \in 1..B
    <3>1. /\ Cardinality(Ahead(share, t)) \in Nat
          /\ Len(WholeLine(t)) \in Nat /\ x \in 1..Len(WholeLine(t))
          /\ Cardinality(Ahead(share, t)) + Len(WholeLine(t)) =< B
      BY <1>1, <1>3, AheadGrows
    <3> QED
      BY <1>1, <3>1
  <2> HIDE DEF y, B
  <2>3. y \in 1..(Len(ss) + Len(bytes)) /\ y =< Len(ss)
    BY <1>1, <2>2
  <2>4. more[y] = ss[y]
    BY <1>2, <2>3
  <2> QED
    BY <2>1, <2>4 DEF y
<1>4. ASSUME NEW x \in 1..(n + Len(bytes))
      PROVE  more[B + x] = WholeLine(s)[x]
  <2>1. CASE x =< n
    <3>1. x \in 1..n /\ ss[B + x] = WholeLine(s)[x]
      BY <2>1 DEF Holds
    <3> HIDE DEF B
    <3>2. B + x \in 1..(Len(ss) + Len(bytes)) /\ B + x =< Len(ss)
      BY <1>1, <3>1
    <3> QED
      BY <1>2, <3>1, <3>2
  <2>2. CASE ~(x =< n)
    <3> HIDE DEF B
    <3>1. /\ B + x \in 1..(Len(ss) + Len(bytes)) /\ ~(B + x =< Len(ss))
          /\ (B + x) - Len(ss) = x - n /\ x - n \in 1..Len(bytes)
          /\ n + (x - n) = x
      BY <1>1, <2>2
    <3>2. more[B + x] = bytes[x - n]
      BY <1>2, <3>1
    <3> QED
      BY <3>1, <3>2
  <2> QED
    BY <2>1, <2>2
<1>5. Len(more) = B + (n + Len(bytes))
  <2> HIDE DEF B
  <2> QED
    BY <1>1, <1>2
<1>6. Holds(more, share, s, n + Len(bytes))
  BY <1>3, <1>4, <1>5 DEF Holds
<1> QED
  BY <1>2, <1>6 DEF more

\* The line has gone to those who get it, and the next one begins.
LEMMA HoldsNext ==
  ASSUME Texted, NEW share \in SUBSET Starts, NEW s \in Starts,
         NEW ss \in Seq(Bytes),
         Holds(ss, share, s, IF s \in share THEN Len(WholeLine(s)) ELSE 0)
  PROVE  Holds(ss, share, NextLine(s), 0)
<1> DEFINE n == IF s \in share THEN Len(WholeLine(s)) ELSE 0
<1>1. s \in Nat /\ Cardinality(Ahead(share, s)) \in Nat
  BY AheadFinite, TextFacts DEF Starts
<1>2. /\ WholeLine(s) \in Seq(Bytes) /\ Len(WholeLine(s)) \in Nat
      /\ DOMAIN WholeLine(s) = 1..Len(WholeLine(s))
  BY WholeFacts, LenProperties
<1>3. Len(ss) = Cardinality(Ahead(share, NextLine(s))) + 0
  BY <1>1, <1>2, AheadNext DEF Holds
<1>4. ASSUME NEW t \in share, t < NextLine(s), NEW x \in DOMAIN WholeLine(t)
      PROVE  ss[Cardinality(Ahead(share, t)) + x] = WholeLine(t)[x]
  <2>1. t \in Nat /\ t =< s
    BY <1>4, NextFacts, TextFacts DEF Starts
  <2>2. CASE t < s
    BY <1>4, <2>2 DEF Holds
  <2>3. CASE t = s
    BY <1>2, <1>4, <2>3 DEF Holds
  <2> QED
    BY <1>1, <2>1, <2>2, <2>3
<1>5. 1..0 = {}
  OBVIOUS
<1> QED
  BY <1>3, <1>4, <1>5 DEF Holds

(***************************************************************************)
(* What multilog has done by the time it is at the line s.                  *)
(***************************************************************************)

\* The line s has begun, and the script goes through it.
Working == pc \in {"act", "match", "long", "end"}

\* The end of the line has been read.
LineRead(s) ==
  IF flageof THEN got = Len(text) /\ End(s) = Len(text) + 1 ELSE got = End(s)

\* The first LineSize bytes have been read, but not the end of the line.
LineFull(s) ==
  /\ linelen = LineSize /\ ~flageof /\ got < End(s)
  /\ got >= s + LineSize - StampLen - 1

\* How far the text has been read.
Position(s) ==
  /\ s \in Starts \cup {Len(text) + 1}
  /\ pc = "done" => s = Len(text) + 1
  /\ pc \in {"init", "get"} /\ linelen = 0 => s = got + 1
  /\ pc = "init" => got = 0 /\ linelen = 0
  /\ pc \in {"init", "get"} => ~flageof
  /\ pc = "get" /\ linelen > 0 =>
       /\ s \in Starts /\ s =< got /\ got < End(s)
       /\ linelen = StampLen + got - s + 1
  /\ Working => s \in Starts /\ linelen = Len(Beginning(s))
  /\ pc \in {"act", "match"} =>
       IF linelen = LineSize
       THEN LineFull(s) /\ got = s + LineSize - StampLen - 1 ELSE LineRead(s)
  /\ pc = "long" => LineFull(s)
  /\ pc = "end" => LineRead(s)

\* line[] has the line as far as it was read, and nothing of another.
LineRight(s) ==
  pc # "done" =>
    \A x \in 1..(LineSize + 1) :
      line[x] = IF x =< linelen THEN Line(s)[x] ELSE Newline

\* The next action of the script that gets the line.
Reached == IF Working THEN i ELSE 1

Places ==
  /\ pc \in {"init", "get", "act", "match", "long", "end", "done"}
  /\ i \in 1..(Len(script) + 1)
  /\ pc \in {"long", "end"} => i = Len(script) + 1
  /\ pc = "match" => i =< Len(script)

\* What has been decided of the line.
Choice(s) ==
  /\ pc \in {"act", "match"} => flagselected = Selected(i, s)
  /\ pc = "match" => /\ script[i].kind = (IF flagselected THEN "-" ELSE "+")
                     /\ pattern = script[i].arg /\ buf = Beginning(s)
  /\ Working => \A k \in Of("dir") :
                  k < i => c[Place(k)].flagselected = Selected(k, s)

\* The bytes of s that a log which has selected it has got.
Sent(s) == CASE pc = "long" -> StampLen + got - s + 1
             [] pc = "end"  -> Len(Line(s))
             [] OTHER       -> 0

LogsAt(s) ==
  pc # "init" =>
    \A k \in Of("dir") :
      Holds(c[Place(k)].ss, Share(k), s, IF s \in Share(k) THEN Sent(s) ELSE 0)

\* What a status file is to have of the line s.
Shown(s) == [m \in DOMAIN Blank |->
               IF m =< Len(Beginning(s)) THEN Beginning(s)[m] ELSE Newline]

\* The lines of the action k, when the action r of s comes.
Given(k, s, r) == {t \in Share(k) : Sooner(t, k, s, r)}

StatusHas(st, s, r) ==
  \A k \in Of("=") :
    st[k] = IF Given(k, s, r) = {} THEN <<>> ELSE Shown(Max(Given(k, s, r)))

StatusAt(s) == StatusHas(status, s, Reached)

Told(s) == <<FirstOf(s, ErrSize), IF Len(Line(s)) > ErrSize THEN "..." ELSE "">>

ErrHas(e, s, r) ==
  /\ Len(e) = Cardinality(Said(s, r))
  /\ \A said \in Said(s, r) :
       e[Cardinality(Said(said[1], said[2])) + 1] = Told(said[1])

ErrAt(s) == ErrHas(err, s, Reached)

\* The settings that hold at k.
Settings(k, n, z, prog) ==
  /\ n = Max({MinNum, Before(k, "n", DefaultNum)})
  /\ z = Min({MaxSize, Max({MinSize, Before(k, "s", DefaultSize)})})
  /\ prog = Before(k, "!", "none")

\* The actions of the script that c_init() has prepared.
Made == IF pc = "init" THEN i - 1 ELSE Len(script)

SettingsAt ==
  /\ pc = "init" => Settings(i, num, size, processor)
  /\ Len(c) = Place(Made)
  /\ \A k \in Of("dir") : k =< Made =>
       LET log == c[Place(k)] IN Settings(k, log.num, log.size, log.processor)
  /\ pc = "init" => \A j \in DOMAIN c : c[j].ss = <<>>

Programs == {"none"} \cup {script[k].arg : k \in Of("!")}

Log == [num : Nat, size : Nat, processor : Programs, flagselected : BOOLEAN,
        ss : Seq(Bytes)]

\* What is kept of the text is made of its bytes.
Kept ==
  /\ num \in Nat /\ size \in Nat /\ processor \in Programs
  /\ c \in Seq(Log) /\ flagselected \in BOOLEAN
  /\ status \in [Of("=") -> Seq(Bytes)]
  /\ err \in Seq(Seq(Bytes) \X {"...", ""})

At(s) ==
  /\ Position(s) /\ LineRight(s) /\ Choice(s) /\ LogsAt(s)
  /\ StatusAt(s) /\ ErrAt(s)

ObeyInv ==
  SelectionInv /\ Places /\ Kept /\ SettingsAt /\ \E s \in Nat : At(s)

\* The text and the script stay as they are.
LEMMA SameGiven ==
  ASSUME UNCHANGED given
  PROVE  /\ Starts' = Starts /\ StampLen' = StampLen /\ Programs' = Programs
         /\ \A kind : Of(kind)' = Of(kind)
         /\ \A k : Place(k)' = Place(k) /\ Share(k)' = Share(k)
         /\ \A s : /\ End(s)' = End(s) /\ Line(s)' = Line(s)
                   /\ Beginning(s)' = Beginning(s) /\ Shown(s)' = Shown(s)
                   /\ WholeLine(s)' = WholeLine(s) /\ Told(s)' = Told(s)
                   /\ NextLine(s)' = NextLine(s)
         /\ \A k, s : (Selected(k, s)' <=> Selected(k, s))
                      /\ Said(s, k)' = Said(s, k)
BY DEF given, Starts, StampLen, flagtimestamp, Of, Place, Share, End, Line,
       Beginning, FirstOf, Shown, WholeLine, Told, Selected, Said, Programs,
       NextLine, Sooner

\* What is said of the next state, in terms of this one.
LEMMA NextReading ==
  ASSUME UNCHANGED given, NEW s
  PROVE  /\ LineRead(s)' <=>
              IF flageof' THEN got' = Len(text) /\ End(s) = Len(text) + 1
              ELSE got' = End(s)
         /\ LineFull(s)' <=>
              /\ linelen' = LineSize /\ ~flageof' /\ got' < End(s)
              /\ got' >= s + LineSize - StampLen - 1
         /\ LineRight(s)' <=>
              (pc' # "done" =>
                 \A x \in 1..(LineSize + 1) :
                   line'[x] = IF x =< linelen' THEN Line(s)[x] ELSE Newline)
BY SameGiven DEF given, LineRead, LineFull, LineRight

\* The same for what is decided of the line.
LEMMA NextChoice ==
  ASSUME UNCHANGED given, NEW s
  PROVE  Choice(s)' <=>
           /\ pc' \in {"act", "match"} => flagselected' = Selected(i', s)
           /\ pc' = "match" =>
                /\ script[i'].kind = (IF flagselected' THEN "-" ELSE "+")
                /\ pattern' = script[i'].arg /\ buf' = Beginning(s)
           /\ Working' => \A k \in Of("dir") :
                k < i' => c'[Place(k)].flagselected = Selected(k, s)
BY DEF given, Choice, Starts, flagtimestamp, Of, Place, End, Line,
       Beginning, FirstOf, Selected

\* The same for what the logs, the status files and stderr have.
LEMMA NextOutput ==
  ASSUME UNCHANGED given, NEW s
  PROVE  /\ LogsAt(s)' <=>
              (pc' # "init" =>
                 \A k \in Of("dir") :
                   Holds(c'[Place(k)].ss, Share(k), s,
                         IF s \in Share(k) THEN Sent(s)' ELSE 0))
         /\ StatusAt(s)' <=> StatusHas(status', s, Reached')
         /\ ErrAt(s)' <=> ErrHas(err', s, Reached')
BY DEF given, LogsAt, Holds, Starts, StampLen, flagtimestamp, Of, Place, Share,
       End, Line, Beginning, FirstOf, WholeLine, Selected, Ahead, StatusAt,
       StatusHas, Given, Sooner, Shown, ErrAt, ErrHas, Told, Said

\* The same for the settings.
LEMMA NextSettings ==
  ASSUME UNCHANGED given
  PROVE  SettingsAt' <=>
           /\ pc' = "init" => Settings(i', num', size', processor')
           /\ Len(c') = Place(Made')
           /\ \A k \in Of("dir") : k =< Made' =>
                Settings(k, c'[Place(k)].num, c'[Place(k)].size,
                         c'[Place(k)].processor)
           /\ pc' = "init" => \A j \in DOMAIN c' : c'[j].ss = <<>>
BY DEF given, SettingsAt, Settings, Before, Of, Place

(***************************************************************************)
(* The steps: how far the text has been read.                              *)
(***************************************************************************)

\* What Position() says of the next state, in terms of this one.
LEMMA NextPosition ==
  ASSUME UNCHANGED given, NEW s
  PROVE  Position(s)' <=>
           /\ s \in Starts \cup {Len(text) + 1}
           /\ pc' = "done" => s = Len(text) + 1
           /\ pc' \in {"init", "get"} /\ linelen' = 0 => s = got' + 1
           /\ pc' = "init" => got' = 0 /\ linelen' = 0
           /\ pc' \in {"init", "get"} => ~flageof'
           /\ pc' = "get" /\ linelen' > 0 =>
                /\ s \in Starts /\ s =< got' /\ got' < End(s)
                /\ linelen' = StampLen + got' - s + 1
           /\ pc' \in {"act", "match", "long", "end"} =>
                s \in Starts /\ linelen' = Len(Beginning(s))
           /\ pc' \in {"act", "match"} =>
                IF linelen' = LineSize
                THEN LineFull(s)' /\ got' = s + LineSize - StampLen - 1
                ELSE LineRead(s)'
           /\ pc' = "long" => LineFull(s)'
           /\ pc' = "end" => LineRead(s)'
<1>1. /\ Starts' = Starts /\ StampLen' = StampLen /\ Len(text)' = Len(text)
      /\ End(s)' = End(s) /\ Beginning(s)' = Beginning(s)
  BY SameGiven DEF given
<1> QED
  BY <1>1 DEF Position, Working

\* Nothing is read, and the place in doit() tells the same of it.
LEMMA ReadingKept ==
  ASSUME UNCHANGED given, NEW s, Position(s), LineRight(s),
         UNCHANGED <<got, line, linelen, flageof>>,
         \/ pc' = pc
         \/ pc \in {"act", "match"} /\ pc' \in {"act", "match"}
         \/ pc = "init" /\ pc' = "get"
  PROVE  Position(s)' /\ LineRight(s)'
<1>1. LineRight(s)'
  BY NextReading DEF LineRight
<1>2. (LineRead(s)' <=> LineRead(s)) /\ (LineFull(s)' <=> LineFull(s))
  BY NextReading DEF LineRead, LineFull
<1>3. Position(s)'
  <2>1. CASE pc' = pc
    BY <1>2, <2>1, NextPosition DEF Position, Working
  <2>2. CASE pc \in {"act", "match"} /\ pc' \in {"act", "match"}
    BY <1>2, <2>2, NextPosition DEF Position, Working
  <2>3. CASE pc = "init" /\ pc' = "get"
    BY <1>2, <2>3, NextPosition DEF Position, Working
  <2> QED
    BY <2>1, <2>2, <2>3
<1> QED
  BY <1>1, <1>3

\* The line that is held when its end has come.
LEMMA HeldLine ==
  ASSUME Texted, NEW s \in Starts
  PROVE  /\ Len(Beginning(s)) =
              IF StampLen + End(s) - s =< LineSize
              THEN StampLen + End(s) - s ELSE LineSize
         /\ Beginning(s) \in Seq(Bytes)
         /\ \A x \in 1..Len(Beginning(s)) : Beginning(s)[x] = Line(s)[x]
<1>1. LineSize \in Nat
  BY SelectionAssumption
<1> QED
  BY <1>1, LineFacts, FirstFacts DEF Beginning

\* A byte is read into line[], a time stamp before the first one.
LEMMA GetByteReading ==
  ASSUME Texted, LineHeld, NEW s \in Nat, Position(s), LineRight(s), GetByte
  PROVE  Position(s)' /\ LineRight(s)'
<1> DEFINE ch == text[got + 1]
           stamped == linelen = 0 /\ flagtimestamp
           l == IF stamped THEN [line EXCEPT ![1] = Stamp] ELSE line
           n == IF stamped THEN 1 ELSE linelen
<1>1. /\ LineSize \in Nat /\ 1 < LineSize
      /\ StampLen \in Nat /\ StampLen =< 1
      /\ (StampLen = 1 <=> flagtimestamp)
  BY SelectionAssumption DEF StampLen
<1>2. /\ pc = "get" /\ got < Len(text) /\ got' = got + 1
      /\ UNCHANGED given /\ flageof' = flageof
      /\ IF ch = Newline
         THEN line' = l /\ linelen' = n /\ pc' = "act"
         ELSE /\ line' = [l EXCEPT ![n + 1] = ch] /\ linelen' = n + 1
              /\ IF n + 1 = LineSize THEN pc' = "act" ELSE pc' = pc
  <2>1. text' = text /\ got' = got + 1
    BY DEF GetByte, given
  <2> QED
    BY <2>1 DEF GetByte, Look
<1>3. /\ Len(text) \in Nat /\ got \in Nat /\ linelen \in Nat
      /\ linelen < LineSize
      /\ line \in [1..(LineSize + 1) -> Bytes]
  BY <1>1, <1>2, TextFacts DEF LineHeld
<1>4. /\ s \in Starts /\ s =< got + 1 /\ got < End(s) /\ ~flageof
      /\ n = StampLen + (got + 1) - s /\ n < LineSize /\ n \in Nat
  <2>1. CASE linelen = 0
    <3>1. s = got + 1 /\ s \in Starts \cup {Len(text) + 1} /\ ~flageof
      BY <1>2, <2>1 DEF Position
    <3>2. s \in Starts
      BY <1>2, <1>3, <3>1
    <3>3. n = StampLen
      BY <1>1, <2>1 DEF StampLen
    <3> QED
      BY <1>1, <1>2, <1>3, <3>1, <3>2, <3>3, EndFacts
  <2>2. CASE linelen # 0
    <3>1. /\ s \in Starts /\ s =< got /\ got < End(s) /\ ~flageof
          /\ linelen = StampLen + got - s + 1
      BY <1>2, <1>3, <2>2 DEF Position
    <3> QED
      BY <1>1, <1>3, <2>2, <3>1
  <2> QED
    BY <2>1, <2>2
<1>5. /\ End(s) \in Nat /\ got + 1 =< End(s) /\ End(s) =< Len(text) + 1
      /\ ch = Newline <=> End(s) = got + 1
  <2>1. End(s) \in Nat /\ got + 1 =< End(s) /\ End(s) =< Len(text) + 1
    BY <1>3, <1>4, EndFacts
  <2>2. ASSUME ch = Newline
        PROVE  End(s) = got + 1
    <3>1. ~(got + 1 \in s..(End(s) - 1))
      BY <1>4, <2>2, EndFacts
    <3> QED
      BY <1>3, <1>4, <2>1, <3>1
  <2>3. ASSUME End(s) = got + 1
        PROVE  ch = Newline
    <3>1. End(s) =< Len(text)
      BY <1>2, <1>3, <2>3
    <3> QED
      BY <1>4, <2>3, <3>1, EndFacts
  <2> QED
    BY <2>1, <2>2, <2>3
<1>6. /\ Len(Line(s)) = StampLen + End(s) - s
      /\ \A x \in 1..Len(Line(s)) :
           Line(s)[x] = IF x =< StampLen THEN Stamp
                        ELSE text[s + x - StampLen - 1]
  BY <1>4, LineFacts
<1>7. /\ l \in [1..(LineSize + 1) -> Bytes]
      /\ \A x \in 1..(LineSize + 1) :
           l[x] = IF x =< n THEN Line(s)[x] ELSE Newline
  <2>1. \A x \in 1..(LineSize + 1) :
          line[x] = IF x =< linelen THEN Line(s)[x] ELSE Newline
    BY <1>2 DEF LineRight
  <2>2. CASE stamped
    <3>1. l = [line EXCEPT ![1] = Stamp] /\ n = 1 /\ linelen = 0 /\ StampLen = 1
      BY <1>1, <2>2
    <3>2. Line(s)[1] = Stamp
      BY <1>3, <1>4, <1>5, <1>6, <3>1
    <3>3. Stamp \in Bytes
      BY SelectionAssumption
    <3> QED
      BY <1>1, <1>3, <2>1, <3>1, <3>2, <3>3
  <2>3. CASE ~stamped
    BY <1>3, <2>1, <2>3
  <2> QED
    BY <2>2, <2>3
<1> HIDE DEF l, n, stamped
<1>8. /\ Starts' = Starts /\ StampLen' = StampLen /\ Len(text)' = Len(text)
      /\ End(s)' = End(s) /\ Beginning(s)' = Beginning(s)
  BY <1>2, SameGiven DEF given
<1>9. CASE ch = Newline
  <2>1. /\ line' = l /\ linelen' = n /\ pc' = "act" /\ flageof' = FALSE
        /\ got' = End(s) /\ n = Len(Line(s))
    BY <1>2, <1>3, <1>4, <1>5, <1>6, <1>9
  <2>2. LineRight(s)'
    BY <1>2, <1>7, <2>1, NextReading
  <2>3. linelen' = Len(Beginning(s)) /\ linelen' # LineSize
    BY <1>1, <1>4, <1>6, <2>1, HeldLine
  <2>4. LineRead(s)'
    BY <1>2, <2>1, NextReading
  <2>5. Position(s)'
    BY <1>4, <1>8, <2>1, <2>3, <2>4 DEF Position, Working
  <2> QED
    BY <2>2, <2>5
<1>10. CASE ch # Newline
  <2>1. /\ line' = [l EXCEPT ![n + 1] = ch] /\ linelen' = n + 1
        /\ flageof' = FALSE /\ got' = got + 1 /\ got + 1 < End(s)
        /\ pc' = IF n + 1 = LineSize THEN "act" ELSE "get"
    BY <1>2, <1>3, <1>4, <1>5, <1>10
  <2>2. n + 1 \in 1..Len(Line(s)) /\ Line(s)[n + 1] = ch
    <3>1. n + 1 \in 1..Len(Line(s)) /\ ~(n + 1 =< StampLen)
          /\ s + (n + 1) - StampLen - 1 = got + 1
      BY <1>1, <1>3, <1>4, <1>5, <1>6, <2>1
    <3> QED
      BY <1>6, <3>1
  <2>3. LineRight(s)'
    <3>1. \A x \in 1..(LineSize + 1) :
            line'[x] = IF x =< linelen' THEN Line(s)[x] ELSE Newline
      BY <1>1, <1>4, <1>7, <2>1, <2>2
    <3> QED
      BY <1>2, <3>1, NextReading
  <2>4. linelen' = StampLen + got' - s + 1 /\ linelen' > 0 /\ s =< got'
    BY <1>1, <1>3, <1>4, <2>1
  <2>5. CASE n + 1 = LineSize
    <3>1. linelen' = Len(Beginning(s)) /\ linelen' = LineSize
      BY <1>1, <1>3, <1>4, <1>5, <1>6, <2>1, <2>2, <2>5, HeldLine
    <3>2. got' = s + LineSize - StampLen - 1
      BY <1>1, <1>3, <1>4, <2>1, <2>5
    <3>3. LineFull(s)'
      BY <1>1, <1>2, <1>3, <2>1, <3>1, <3>2, NextReading
    <3> QED
      BY <1>4, <1>8, <2>1, <2>3, <2>5, <3>1, <3>2, <3>3 DEF Position, Working
  <2>6. CASE n + 1 # LineSize
    BY <1>4, <1>8, <2>1, <2>3, <2>4, <2>6 DEF Position, Working
  <2> QED
    BY <2>5, <2>6
<1> QED
  BY <1>9, <1>10

\* The text ends, within a line or behind one.
LEMMA NoByteReading ==
  ASSUME Texted, LineHeld, NEW s \in Nat, Position(s), LineRight(s), NoByte
  PROVE  Position(s)' /\ LineRight(s)'
<1>1. /\ LineSize \in Nat /\ StampLen \in Nat /\ Len(text) \in Nat
      /\ linelen \in Nat
  BY SelectionAssumption, TextFacts DEF StampLen, LineHeld
<1>2. /\ pc = "get" /\ got = Len(text)
      /\ UNCHANGED <<given, got, line, linelen>>
      /\ linelen < LineSize
      /\ IF linelen = 0 THEN pc' = "done" /\ flageof' = flageof
         ELSE pc' = "act" /\ flageof' = TRUE
  BY DEF NoByte, Look, held, LineHeld
<1>3. /\ Starts' = Starts /\ StampLen' = StampLen /\ Len(text)' = Len(text)
      /\ End(s)' = End(s) /\ Beginning(s)' = Beginning(s)
  BY <1>2, SameGiven DEF given
<1>4. LineRight(s)'
  BY <1>2, NextReading DEF LineRight
<1>5. CASE linelen = 0
  <2>1. s = Len(text) + 1
    BY <1>2, <1>5 DEF Position
  <2> QED
    BY <1>2, <1>3, <1>4, <1>5, <2>1 DEF Position, Working
<1>6. CASE linelen # 0
  <2>1. /\ s \in Starts /\ s =< got /\ got < End(s)
        /\ linelen = StampLen + got - s + 1
    BY <1>1, <1>2, <1>6 DEF Position
  <2>2. End(s) = Len(text) + 1
    BY <1>1, <1>2, <2>1, EndFacts
  <2>3. LineRead(s)'
    BY <1>2, <1>6, <2>2, NextReading
  <2>4. linelen = Len(Beginning(s))
    <3>1. linelen = StampLen + End(s) - s
      BY <1>1, <1>2, <2>1, <2>2
    <3>2. Len(Beginning(s)) =
            IF StampLen + End(s) - s =< LineSize
            THEN StampLen + End(s) - s ELSE LineSize
      BY <2>1, HeldLine, Zenon
    <3> QED
      BY <1>1, <1>2, <3>1, <3>2
  <2>5. linelen' # LineSize /\ pc' = "act" /\ linelen' = Len(Beginning(s))
    BY <1>1, <1>2, <1>6, <2>4
  <2>6. Position(s)' <=>
          /\ s \in Starts
          /\ linelen' = Len(Beginning(s))
          /\ IF linelen' = LineSize
             THEN LineFull(s)' /\ got' = s + LineSize - StampLen - 1
             ELSE LineRead(s)'
    BY <1>2, <2>1, <2>5, NextPosition
  <2> QED
    BY <1>4, <2>1, <2>3, <2>5, <2>6
<1> QED
  BY <1>5, <1>6

\* The line is whole, or its rest is still to come.
LEMMA PutLineReading ==
  ASSUME Texted, LineHeld, NEW s \in Nat, Position(s), LineRight(s), PutLine
  PROVE  Position(s)' /\ LineRight(s)'
<1>1. /\ pc = "act" /\ UNCHANGED <<given, got, line, linelen, flageof>>
      /\ pc' = IF linelen = LineSize THEN "long" ELSE "end"
  BY DEF PutLine, held
<1>2. (LineRead(s)' <=> LineRead(s)) /\ (LineFull(s)' <=> LineFull(s))
  BY <1>1, NextReading DEF LineRead, LineFull
<1>3. /\ Starts' = Starts /\ StampLen' = StampLen /\ Len(text)' = Len(text)
      /\ End(s)' = End(s) /\ Beginning(s)' = Beginning(s)
  BY <1>1, SameGiven DEF given
<1>4. LineRight(s)'
  BY <1>1, NextReading DEF LineRight
<1>5. /\ s \in Starts /\ linelen = Len(Beginning(s))
      /\ IF linelen = LineSize THEN LineFull(s) ELSE LineRead(s)
  BY <1>1 DEF Position, Working
<1> QED
  BY <1>1, <1>2, <1>3, <1>4, <1>5 DEF Position, Working

\* The rest of a long line goes by line[].
LEMMA LongByteReading ==
  ASSUME Texted, LineHeld, NEW s \in Nat, Position(s), LineRight(s), LongByte
  PROVE  Position(s)' /\ LineRight(s)'
<1>1. /\ pc = "long" /\ UNCHANGED <<given, line, linelen>>
      /\ IF got = Len(text) THEN flageof' = TRUE /\ pc' = "end" /\ got' = got
         ELSE /\ got' = got + 1 /\ flageof' = flageof
              /\ pc' = IF text[got + 1] = Newline THEN "end" ELSE "long"
  <2>1. text' = text /\ (got # Len(text) => got' = got + 1)
    BY DEF LongByte, given
  <2> QED
    BY <2>1 DEF LongByte, held
<1>2. /\ Starts' = Starts /\ StampLen' = StampLen /\ Len(text)' = Len(text)
      /\ End(s)' = End(s) /\ Beginning(s)' = Beginning(s)
  BY <1>1, SameGiven DEF given
<1>3. LineRight(s)'
  BY <1>1, NextReading DEF LineRight
<1>4. /\ s \in Starts /\ linelen = Len(Beginning(s)) /\ LineFull(s)
  BY <1>1 DEF Position, Working
<1>5. /\ Len(text) \in Nat /\ got \in Nat /\ got =< Len(text)
      /\ LineSize \in Nat /\ StampLen \in Nat
      /\ End(s) \in Nat /\ got < End(s) /\ End(s) =< Len(text) + 1
      /\ linelen = LineSize /\ flageof = FALSE
      /\ got >= s + LineSize - StampLen - 1
  <2>1. flageof = FALSE \/ flageof # FALSE
    OBVIOUS
  <2> QED
    BY <1>4, SelectionAssumption, TextFacts, EndFacts
       DEF LineHeld, LineFull, StampLen
<1>6. CASE got = Len(text)
  <2>1. End(s) = Len(text) + 1
    BY <1>5, <1>6
  <2>2. LineRead(s)'
    BY <1>1, <1>6, <2>1, NextReading
  <2> QED
    BY <1>1, <1>2, <1>3, <1>4, <1>6, <2>2 DEF Position, Working
<1>7. CASE got # Len(text) /\ text[got + 1] = Newline
  <2>1. ~(got + 1 \in s..(End(s) - 1)) /\ s =< got + 1
    <3>1. s =< got + 1
      BY <1>5, SelectionAssumption DEF StampLen
    <3> QED
      BY <1>4, <1>7, <3>1, EndFacts
  <2>2. got' = End(s)
    BY <1>1, <1>5, <1>7, <2>1
  <2>3. LineRead(s)'
    BY <1>1, <1>5, <1>7, <2>2, NextReading
  <2> QED
    BY <1>1, <1>2, <1>3, <1>4, <1>7, <2>3 DEF Position, Working
<1>8. CASE got # Len(text) /\ text[got + 1] # Newline
  <2>1. got + 1 < End(s)
    <3>1. got + 1 = End(s) => text[got + 1] = Newline
      BY <1>4, <1>5, <1>8, EndFacts
    <3> QED
      BY <1>5, <1>8, <3>1
  <2>2. LineFull(s)'
    BY <1>1, <1>5, <1>8, <2>1, NextReading
  <2> QED
    BY <1>1, <1>2, <1>3, <1>4, <1>8, <2>2 DEF Position, Working
<1> QED
  BY <1>6, <1>7, <1>8

\* The line ends, and line[] is ready for the next one.
LEMMA EndLineReading ==
  ASSUME Texted, LineHeld, NEW s \in Nat, Position(s), LineRight(s), EndLine,
         NEW n \in Nat, n = NextLine(s)
  PROVE  Position(n)' /\ LineRight(n)'
<1>1. /\ pc = "end" /\ UNCHANGED <<given, got, flageof>>
      /\ IF flageof THEN pc' = "done" /\ UNCHANGED <<line, linelen>>
         ELSE pc' = "get" /\ line' = Cleared /\ linelen' = 0
  BY DEF EndLine, held
<1>2. s \in Starts /\ LineRead(s)
  BY <1>1 DEF Position, Working
<1>3. /\ Len(text) \in Nat /\ got \in Nat /\ got =< Len(text)
      /\ LineSize \in Nat /\ linelen \in Nat
      /\ line \in [1..(LineSize + 1) -> Bytes]
  BY SelectionAssumption, TextFacts DEF LineHeld
<1>4. n \in Starts \cup {Len(text) + 1}
  BY <1>2, NextFacts
<1>5. n = got + 1
  BY <1>2, <1>3 DEF LineRead, NextLine
<1>6. flageof => n = Len(text) + 1
  BY <1>2, <1>3, <1>5 DEF LineRead
<1>7. Position(n)'
  <2>1. CASE flageof
    <3>1. pc' = "done" /\ n = Len(text) + 1
      BY <1>1, <1>6, <2>1
    <3> QED
      BY <1>1, <1>4, <3>1, NextPosition
  <2>2. CASE ~flageof
    <3>1. pc' = "get" /\ linelen' = 0 /\ ~flageof' /\ got' = got
      BY <1>1, <2>2
    <3>2. Position(n)' <=> n = got' + 1
      BY <1>1, <1>4, <3>1, NextPosition
    <3> QED
      BY <1>5, <3>1, <3>2
  <2> QED
    BY <2>1, <2>2
<1>8. LineRight(n)'
  <2>1. CASE flageof
    BY <1>1, <2>1, NextReading
  <2>2. CASE ~flageof
    <3>1. \A x \in 1..(LineSize + 1) : Cleared[x] = Newline
      BY <1>1, <1>3 DEF Cleared, LineRight
    <3> QED
      BY <1>1, <2>2, <3>1, NextReading
  <2> QED
    BY <2>1, <2>2
<1> QED
  BY <1>7, <1>8

(***************************************************************************)
(* The steps: what is decided of the line.                                 *)
(***************************************************************************)

\* What line[] has is the beginning of the line.
LEMMA FirstBytesAre ==
  ASSUME Texted, LineHeld, NEW s \in Nat, Position(s), LineRight(s), Working
  PROVE  /\ FirstBytes(linelen) = Beginning(s) /\ line = Shown(s)
         /\ IF linelen > ErrSize
            THEN FirstBytes(ErrSize) = FirstOf(s, ErrSize)
                 /\ Len(Line(s)) > ErrSize
            ELSE FirstBytes(linelen) = FirstOf(s, ErrSize)
                 /\ Len(Line(s)) =< ErrSize
<1>1. /\ LineSize \in Nat /\ ErrSize \in Nat /\ ErrSize < LineSize
  BY SelectionAssumption
<1>2. /\ linelen \in 0..LineSize /\ line \in [1..(LineSize + 1) -> Bytes]
      /\ s \in Starts /\ linelen = Len(Beginning(s)) /\ linelen \in Nat
  BY <1>1 DEF LineHeld, Position
<1>3. \A x \in 1..(LineSize + 1) :
        line[x] = IF x =< linelen THEN Line(s)[x] ELSE Newline
  BY DEF LineRight, Working
<1>4. ASSUME NEW n \in Nat, n =< linelen
      PROVE  /\ FirstBytes(n) \in Seq(Bytes) /\ Len(FirstBytes(n)) = n
             /\ \A x \in 1..n : FirstBytes(n)[x] = Line(s)[x]
  <2>1. FirstBytes(n) = [x \in 1..n |-> line[1 + x - 1]]
    BY <1>2, <1>4 DEF FirstBytes
  <2>2. \A x \in 1..n : line[1 + x - 1] = line[x] /\ line[x] \in Bytes
                        /\ line[x] = Line(s)[x]
    BY <1>1, <1>2, <1>3, <1>4
  <2> QED
    BY <1>4, <2>1, <2>2
<1>5. /\ Len(Line(s)) \in Nat
      /\ linelen = IF Len(Line(s)) =< LineSize THEN Len(Line(s)) ELSE LineSize
  BY <1>1, <1>2, LineFacts, FirstFacts DEF Beginning
<1>6. ASSUME NEW n \in Nat, NEW most \in Nat,
             n = IF Len(Line(s)) =< most THEN Len(Line(s)) ELSE most,
             n =< linelen
      PROVE  FirstBytes(n) = FirstOf(s, most)
  <2>1. /\ FirstOf(s, most) \in Seq(Bytes) /\ Len(FirstOf(s, most)) = n
        /\ \A x \in 1..n : FirstOf(s, most)[x] = Line(s)[x]
    BY <1>2, <1>6, FirstFacts
  <2> QED
    BY <1>4, <1>6, <2>1, SeqEqual
<1>7. FirstBytes(linelen) = Beginning(s)
  BY <1>1, <1>2, <1>5, <1>6 DEF Beginning
<1>8. line = Shown(s)
  <2>1. \A x \in 1..linelen : Beginning(s)[x] = Line(s)[x]
    BY <1>2, HeldLine
  <2>2. DOMAIN Blank = 1..(LineSize + 1)
    BY DEF Blank
  <2>3. \A x \in 1..(LineSize + 1) :
          line[x] = IF x =< Len(Beginning(s)) THEN Beginning(s)[x] ELSE Newline
    BY <1>1, <1>2, <1>3, <2>1
  <2> QED
    BY <1>2, <2>2, <2>3 DEF Shown
<1>9. CASE linelen > ErrSize
  BY <1>1, <1>2, <1>5, <1>6, <1>7, <1>8, <1>9
<1>10. CASE ~(linelen > ErrSize)
  <2>1. linelen = Len(Line(s)) /\ linelen =< ErrSize
    BY <1>1, <1>2, <1>5, <1>10
  <2> QED
    BY <1>1, <1>2, <1>6, <1>7, <1>8, <1>10, <2>1
<1> QED
  BY <1>9, <1>10

\* A line of which the script begins.
LEMMA LookChoice ==
  ASSUME Patterned, UNCHANGED given, NEW s, Look
  PROVE  Choice(s)'
<1>1. pc' = "act" /\ i' = 1 /\ flagselected' = TRUE
  BY DEF Look
<1>2. Selected(1, s)
  BY SelectedFirst
<1>3. ASSUME NEW k \in Of("dir")
      PROVE  ~(k < 1)
  BY ScriptFacts
<1> QED
  BY <1>1, <1>2, <1>3, NextChoice

\* No line is worked on.
LEMMA NoChoice ==
  ASSUME UNCHANGED given, NEW s, ~Working'
  PROVE  Choice(s)'
BY NextChoice DEF Working

\* The next action of the script comes, and this one was not for a log.
LEMMA PassedChoice ==
  ASSUME Patterned, UNCHANGED given, NEW s, Choice(s), Working,
         i \in 1..Len(script), script[i].kind # "dir",
         pc' = "act", i' = i + 1, c' = c, flagselected' = Selected(i + 1, s)
  PROVE  Choice(s)'
<1>1. ASSUME NEW k \in Of("dir"), k < i + 1
      PROVE  c[Place(k)].flagselected = Selected(k, s)
  <2>1. k \in 1..Len(script) /\ Len(script) \in Nat /\ script[k].kind = "dir"
    BY ScriptFacts DEF Of
  <2>2. k < i
    BY <1>1, <2>1
  <2> QED
    BY <2>2 DEF Choice
<1> QED
  BY <1>1, NextChoice

\* An action of the script that selects by no pattern leaves what is selected.
LEMMA OtherSelected ==
  ASSUME Patterned, NEW s, i \in 1..Len(script),
         \/ script[i].kind \notin {"+", "-"}
         \/ script[i].kind = (IF Selected(i, s) THEN "+" ELSE "-")
  PROVE  Selected(i + 1, s) = Selected(i, s)
<1>1. Selected(i + 1, s) <=>
           IF /\ script[i].kind \in {"+", "-"}
              /\ Matches(script[i].arg, Beginning(s))
           THEN script[i].kind = "+" ELSE Selected(i, s)
  BY SelectedNext
<1>2. Selected(i + 1, s) \in BOOLEAN /\ Selected(i, s) \in BOOLEAN
  BY DEF Selected
<1> QED
  BY <1>1, <1>2

\* match() is called, goes on, and is done: a pattern that matches changes what
\* is decided.
LEMMA MatchChoice ==
  ASSUME ObeyInv, NEW s \in Nat, At(s), CallMatch \/ InMatch \/ Matched
  PROVE  Choice(s)'
<1>1. /\ Texted /\ Patterned /\ LineHeld /\ Position(s) /\ LineRight(s)
      /\ Choice(s) /\ MatchInv /\ i \in Nat /\ i > 0
      /\ pc = "match" => i =< Len(script)
  BY DEF ObeyInv, SelectionInv, LineHeld, Texted, Counted, At, Places
<1>2. CASE CallMatch
  <2>1. /\ UNCHANGED given /\ pc = "act" /\ pc' = "match"
        /\ UNCHANGED <<i, c, flagselected>>
        /\ script[i].kind = (IF flagselected THEN "-" ELSE "+")
        /\ pattern' = script[i].arg /\ buf' = FirstBytes(linelen)
    BY <1>2 DEF CallMatch, Action, Wanted, Call
  <2>2. FirstBytes(linelen) = Beginning(s)
    BY <1>1, <2>1, FirstBytesAre DEF Working
  <2> QED
    BY <1>1, <2>1, <2>2, NextChoice DEF Choice, Working
<1>3. CASE InMatch
  <2>1. UNCHANGED given /\ pc = "match" /\ UNCHANGED <<pc, i, c, flagselected>>
    BY <1>3 DEF InMatch
  <2>2. UNCHANGED <<pattern, buf>>
    BY <1>3 DEF InMatch, MatchStep, Ended, LastStar, OpenStar, Seek, Literal,
                Return
  <2> QED
    BY <1>1, <2>1, <2>2, NextChoice DEF Choice, Working
<1>4. CASE Matched
  <2>1. /\ UNCHANGED given /\ pc = "match" /\ pc' = "act"
        /\ i' = i + 1 /\ c' = c
        /\ flagselected' = IF result = "yes" THEN ~flagselected
                           ELSE flagselected
        /\ result # "none"
    BY <1>4 DEF Matched
  <2>2. /\ flagselected = Selected(i, s)
        /\ script[i].kind = (IF flagselected THEN "-" ELSE "+")
        /\ pattern = script[i].arg /\ buf = Beginning(s)
    BY <1>1, <2>1 DEF Choice
  <2>3. result = "yes" <=> Matches(script[i].arg, Beginning(s))
    BY <1>1, <2>1, <2>2 DEF MatchInv, Verdict
  <2>4. i \in 1..Len(script)
    BY <1>1, <2>1, ScriptFacts
  <2>5. Selected(i + 1, s) <=>
          IF /\ script[i].kind \in {"+", "-"}
             /\ Matches(script[i].arg, Beginning(s))
          THEN script[i].kind = "+" ELSE Selected(i, s)
    BY <1>1, <2>4, SelectedNext
  <2>6. Selected(i + 1, s) \in BOOLEAN /\ Selected(i, s) \in BOOLEAN
    BY DEF Selected
  <2>7. flagselected' = Selected(i + 1, s)
    <3>1. CASE result = "yes"
      <4>1. Selected(i + 1, s) <=> script[i].kind = "+"
        BY <2>2, <2>3, <2>5, <3>1
      <4>2. Selected(i + 1, s) = ~flagselected
        BY <2>2, <2>6, <4>1
      <4> QED
        BY <2>1, <3>1, <4>2
    <3>2. CASE result # "yes"
      <4>1. Selected(i + 1, s) <=> Selected(i, s)
        BY <2>3, <2>5, <3>2
      <4> QED
        BY <2>1, <2>2, <2>6, <3>2, <4>1
    <3> QED
      BY <3>1, <3>2
  <2>8. script[i].kind # "dir"
    BY <2>2
  <2> QED
    BY <1>1, <2>1, <2>4, <2>7, <2>8, PassedChoice DEF Working
<1> QED
  BY <1>2, <1>3, <1>4

\* An action that is passed by, or that is for stderr or a status file.
LEMMA OutputChoice ==
  ASSUME ObeyInv, NEW s \in Nat, At(s), Skip \/ ToStderr \/ ToStatus
  PROVE  Choice(s)'
<1>1. /\ Patterned /\ Choice(s) /\ i \in Nat /\ i > 0
  BY DEF ObeyInv, SelectionInv, Counted, At
<1>2. /\ UNCHANGED given /\ pc = "act" /\ pc' = "act" /\ i' = i + 1 /\ c' = c
      /\ flagselected' = flagselected /\ i =< Len(script)
      /\ \/ script[i].kind \in {"t", "s", "n", "!", "e", "="}
         \/ script[i].kind = (IF flagselected THEN "+" ELSE "-")
  <2>1. CASE ToStderr \/ ToStatus
    BY <2>1 DEF ToStderr, ToStatus, Action, Passed
  <2>2. CASE Skip
    BY <2>2 DEF Skip, Action, Passed, Wanted
  <2> QED
    BY <2>1, <2>2
<1>3. i \in 1..Len(script) /\ script[i].kind # "dir"
  BY <1>1, <1>2, ScriptFacts
<1>4. flagselected = Selected(i, s)
  BY <1>1, <1>2 DEF Choice
<1>5. Selected(i + 1, s) = Selected(i, s)
  BY <1>1, <1>2, <1>3, <1>4, OtherSelected
<1> QED
  BY <1>1, <1>2, <1>3, <1>4, <1>5, PassedChoice DEF Working

(***************************************************************************)
(* The steps: what the logs get.                                           *)
(***************************************************************************)

\* Each log of the script is there once c_init() is done.
LEMMA LogFacts ==
  ASSUME Patterned, Kept, SettingsAt, pc # "init", NEW k \in Of("dir")
  PROVE  /\ k \in 1..Len(script) /\ Len(c) = Place(Len(script))
         /\ Place(k) \in 1..Len(c) /\ Place(k) \in DOMAIN c
         /\ c[Place(k)] \in Log
<1>1. k \in 1..Len(script) /\ Len(script) \in Nat
  BY ScriptFacts
<1>2. Len(c) = Place(Len(script))
  BY DEF SettingsAt, Made
<1>3. Place(k) \in 1..Len(c)
  BY <1>1, <1>2, PlaceOrder
<1>4. c \in Seq(Log)
  BY DEF Kept
<1> QED
  BY <1>1, <1>2, <1>3, <1>4, ElementOfSeq, LenProperties

\* What the logs have when bytes were put.
LEMMA PutFacts ==
  ASSUME c \in Seq(Log), NEW bytes \in Seq(Bytes), Put(bytes)
  PROVE  /\ c' \in Seq(Log) /\ Len(c') = Len(c)
         /\ \A j \in 1..Len(c) :
              /\ c'[j].flagselected = c[j].flagselected
              /\ c'[j].num = c[j].num /\ c'[j].size = c[j].size
              /\ c'[j].processor = c[j].processor
              /\ c'[j].ss = IF c[j].flagselected THEN c[j].ss \o bytes
                            ELSE c[j].ss
<1>1. DOMAIN c = 1..Len(c) /\ Len(c) \in Nat
  BY LenProperties
<1>2. c' = [j \in 1..Len(c) |-> IF c[j].flagselected
                                THEN [c[j] EXCEPT !.ss = @ \o bytes] ELSE c[j]]
  BY <1>1 DEF Put
<1>3. ASSUME NEW j \in 1..Len(c)
      PROVE  /\ c'[j] \in Log
             /\ c'[j].flagselected = c[j].flagselected
             /\ c'[j].num = c[j].num /\ c'[j].size = c[j].size
             /\ c'[j].processor = c[j].processor
             /\ c'[j].ss = IF c[j].flagselected THEN c[j].ss \o bytes
                           ELSE c[j].ss
  <2>1. c[j] \in Log
    BY ElementOfSeq
  <2>2. c[j].ss \in Seq(Bytes)
    BY <2>1 DEF Log
  <2>3. c[j].ss \o bytes \in Seq(Bytes)
    BY <2>2, ConcatProperties
  <2>4. c'[j] = IF c[j].flagselected
                THEN [c[j] EXCEPT !.ss = c[j].ss \o bytes] ELSE c[j]
    BY <1>2
  <2> HIDE DEF Put
  <2> QED
    BY <2>1, <2>3, <2>4 DEF Log
<1>4. c' \in Seq(Log) /\ Len(c') = Len(c)
  <2>1. DOMAIN c' = 1..Len(c) /\ c' = [j \in DOMAIN c' |-> c'[j]]
    BY <1>2
  <2>2. c' \in [1..Len(c) -> Log]
    BY <1>3, <2>1, Zenon
  <2>3. c' \in Seq(Log)
    BY <1>1, <2>2, SeqDef
  <2> QED
    BY <1>1, <2>1, <2>3, LenProperties
<1> QED
  BY <1>3, <1>4

\* The lines of the log at k are among those of the text.
LEMMA ShareFacts ==
  ASSUME NEW k, NEW s
  PROVE  /\ Share(k) \in SUBSET Starts
         /\ s \in Starts => (s \in Share(k) <=> Selected(k, s))
BY DEF Share

\* The next bytes of the line go to those who get it.
LEMMA PutHolds ==
  ASSUME Texted, Patterned, Kept, SettingsAt, pc # "init",
         NEW s \in Starts, LogsAt(s),
         \A k \in Of("dir") : c[Place(k)].flagselected = Selected(k, s),
         NEW n \in Nat, Sent(s) = n, NEW bytes \in Seq(Bytes), Put(bytes),
         \A x \in 1..Len(bytes) : bytes[x] = WholeLine(s)[n + x]
  PROVE  \A k \in Of("dir") :
           /\ c'[Place(k)].ss \in Seq(Bytes)
           /\ Holds(c'[Place(k)].ss, Share(k), s,
                    IF s \in Share(k) THEN n + Len(bytes) ELSE 0)
<1> SUFFICES ASSUME NEW k \in Of("dir")
             PROVE  /\ c'[Place(k)].ss \in Seq(Bytes)
                    /\ Holds(c'[Place(k)].ss, Share(k), s,
                             IF s \in Share(k) THEN n + Len(bytes) ELSE 0)
  OBVIOUS
<1>1. Place(k) \in 1..Len(c) /\ c[Place(k)].ss \in Seq(Bytes)
  BY LogFacts DEF Log
<1>2. c'[Place(k)].ss = IF c[Place(k)].flagselected THEN c[Place(k)].ss \o bytes
                        ELSE c[Place(k)].ss
  BY <1>1, PutFacts DEF Kept
<1>3. Holds(c[Place(k)].ss, Share(k), s, IF s \in Share(k) THEN n ELSE 0)
  BY DEF LogsAt
<1>4. Share(k) \in SUBSET Starts /\ (s \in Share(k) <=> Selected(k, s))
  BY ShareFacts
<1>5. CASE s \in Share(k)
  <2>1. c'[Place(k)].ss = c[Place(k)].ss \o bytes
    BY <1>2, <1>4, <1>5
  <2>2. Holds(c[Place(k)].ss, Share(k), s, n)
    BY <1>3, <1>5
  <2>3. /\ c[Place(k)].ss \o bytes \in Seq(Bytes)
        /\ Holds(c[Place(k)].ss \o bytes, Share(k), s, n + Len(bytes))
    BY <1>1, <1>4, <2>2, HoldsMore
  <2> QED
    BY <1>5, <2>1, <2>3
<1>6. CASE s \notin Share(k)
  <2>1. c'[Place(k)].ss = c[Place(k)].ss
    BY <1>2, <1>4, <1>6
  <2> QED
    BY <1>1, <1>3, <1>6, <2>1
<1> QED
  BY <1>5, <1>6

\* What is wanted of the logs, when none of them gets anything of the line.
LEMMA SameLogs ==
  ASSUME Patterned, UNCHANGED given, NEW s, LogsAt(s), pc # "init",
         \A k \in Of("dir") : c'[Place(k)].ss = c[Place(k)].ss,
         Sent(s)' = Sent(s)
  PROVE  LogsAt(s)'
<1>1. \A k \in Of("dir") :
        Holds(c[Place(k)].ss, Share(k), s,
              IF s \in Share(k) THEN Sent(s) ELSE 0)
  BY DEF LogsAt
<1>2. LogsAt(s)' <=>
        (pc' # "init" =>
           \A k \in Of("dir") :
             Holds(c'[Place(k)].ss, Share(k), s,
                   IF s \in Share(k) THEN Sent(s)' ELSE 0))
  BY NextOutput
<1> QED
  BY <1>1, <1>2

\* A step between the lines, or through the script, that leaves the logs.
LEMMA QuietLogs ==
  ASSUME ObeyInv, NEW s \in Nat, At(s), UNCHANGED <<given, c>>,
         pc \in {"get", "act", "match"},
         pc' \in {"get", "act", "match", "done"}
  PROVE  LogsAt(s)'
<1>1. Sent(s)' = 0 /\ Sent(s) = 0
  BY DEF Sent
<1>2. Patterned /\ LogsAt(s)
  BY DEF ObeyInv, SelectionInv, At
<1> QED
  BY <1>1, <1>2, SameLogs

\* c_init() has only prepared the logs.
LEMMA PreparedLogs ==
  ASSUME ObeyInv, NEW s \in Nat, At(s), Prepared
  PROVE  LogsAt(s)'
<1>1. /\ Texted /\ Patterned /\ Kept /\ SettingsAt /\ Position(s) /\ Places
  BY DEF ObeyInv, SelectionInv, LineHeld, Texted, At
<1>2. UNCHANGED <<given, c>> /\ pc = "init" /\ pc' = "get" /\ i > Len(script)
  BY DEF Prepared
<1>3. s = 1
  BY <1>1, <1>2 DEF Position
<1>4. Sent(s)' = 0
  BY <1>2 DEF Sent
<1>5. i = Len(script) + 1 /\ i - 1 = Len(script) /\ Len(script) \in Nat
  BY <1>1, <1>2, ScriptFacts DEF Places
<1>6. Len(c) = Place(Len(script)) /\ \A j \in DOMAIN c : c[j].ss = <<>>
  <2>1. Made = Len(script)
    BY <1>5 DEF Made
  <2> QED
    BY <1>1, <1>2, <2>1 DEF SettingsAt
<1>7. ASSUME NEW k \in Of("dir")
      PROVE  Holds(c'[Place(k)].ss, Share(k), s,
                   IF s \in Share(k) THEN Sent(s)' ELSE 0)
  <2>1. k \in 1..Len(script)
    BY <1>1, ScriptFacts
  <2>2. Place(k) \in 1..Len(c)
    BY <1>1, <1>5, <1>6, <2>1, PlaceOrder
  <2>3. DOMAIN c = 1..Len(c)
    BY <1>1, LenProperties DEF Kept
  <2>4. c'[Place(k)].ss = <<>>
    BY <1>2, <1>6, <2>2, <2>3
  <2>5. Cardinality(Ahead(Share(k), 1)) = 0 /\ Share(k) \in SUBSET Starts
    BY <1>1, AheadFirst, ShareFacts
  <2>6. \A t \in Share(k) : ~(t < 1)
    <3>1. \A t \in Starts : t \in 1..Len(text) /\ Len(text) \in Nat
      BY <1>1, EndFacts, TextFacts
    <3> QED
      BY <2>5, <3>1
  <2>7. (IF s \in Share(k) THEN Sent(s)' ELSE 0) = 0
    BY <1>4
  <2>8. Holds(<<>>, Share(k), 1, 0)
    BY <2>5, <2>6 DEF Holds
  <2> QED
    BY <1>3, <2>4, <2>7, <2>8
<1> QED
  BY <1>2, <1>7, NextOutput

\* A log is told whether it gets the line, and no other log is.
LEMMA ToLogLogs ==
  ASSUME ObeyInv, NEW s \in Nat, At(s), ToLog
  PROVE  Choice(s)' /\ LogsAt(s)' /\ SettingsAt' /\ c' \in Seq(Log)
<1>1. /\ Patterned /\ Kept /\ SettingsAt /\ Choice(s) /\ LogsAt(s)
      /\ i \in Nat /\ i > 0 /\ c \in Seq(Log) /\ flagselected \in BOOLEAN
  BY DEF ObeyInv, SelectionInv, Counted, At, Kept
<1>2. /\ UNCHANGED given /\ pc = "act" /\ pc' = "act" /\ i' = i + 1
      /\ flagselected' = flagselected /\ i =< Len(script)
      /\ script[i].kind = "dir"
      /\ c' = [c EXCEPT ![Place(i)].flagselected = flagselected]
  BY DEF ToLog, Action, Passed
<1>3. i \in Of("dir") /\ i \in 1..Len(script) /\ Len(script) \in Nat
  BY <1>1, <1>2, ScriptFacts DEF Of
<1>4. /\ Place(i) \in 1..Len(c) /\ Len(c) = Place(Len(script))
      /\ c[Place(i)] \in Log
  BY <1>1, <1>2, <1>3, LogFacts
<1>5. flagselected = Selected(i, s) /\ Selected(i + 1, s) = Selected(i, s)
  BY <1>1, <1>2, <1>3, OtherSelected DEF Choice
<1>6. /\ c' \in Seq(Log) /\ Len(c') = Len(c)
      /\ \A j \in 1..Len(c) :
           c'[j] = IF j = Place(i)
                   THEN [c[j] EXCEPT !.flagselected = flagselected] ELSE c[j]
  <2> DEFINE log == [c[Place(i)] EXCEPT !.flagselected = flagselected]
  <2>1. log \in Log
    <3>1. ASSUME NEW old \in Log, NEW flag \in BOOLEAN
          PROVE  [old EXCEPT !.flagselected = flag] \in Log
      BY DEF Log
    <3> QED
      BY <1>1, <1>4, <3>1, Zenon
  <2>2. c' = [c EXCEPT ![Place(i)] = log]
    BY <1>2
  <2> HIDE DEF log
  <2>3. /\ c' \in Seq(Log) /\ Len(c') = Len(c)
        /\ \A j \in 1..Len(c) : c'[j] = IF j = Place(i) THEN log ELSE c[j]
    <3> DEFINE new == [c EXCEPT ![Place(i)] = log]
    <3>1. c \in Seq(Log) /\ Place(i) \in 1..Len(c)
      BY <1>1, <1>4
    <3>2. /\ new \in Seq(Log) /\ Len(new) = Len(c)
          /\ \A j \in 1..Len(c) : new[j] = IF j = Place(i) THEN log ELSE c[j]
      BY <2>1, <3>1, ExceptSeq
    <3> QED
      BY <2>2, <3>2, Zenon
  <2> QED
    BY <2>3 DEF log
<1>7. ASSUME NEW k \in Of("dir")
      PROVE  LET old == c[Place(k)]
                 new == c'[Place(k)]
             IN  /\ new.num = old.num /\ new.size = old.size
                 /\ new.processor = old.processor /\ new.ss = old.ss
                 /\ new.flagselected = IF k = i THEN flagselected
                                       ELSE old.flagselected
  <2>1. Place(k) \in 1..Len(c) /\ c[Place(k)] \in Log /\ k \in 1..Len(script)
    BY <1>1, <1>2, LogFacts
  <2>2. k # i => Place(k) # Place(i)
    <3>1. k < i => Place(k) < Place(i)
      BY <1>1, <1>3, <2>1, PlaceOrder
    <3>2. i < k => Place(i) < Place(k)
      BY <1>1, <1>3, <2>1, PlaceOrder
    <3> QED
      BY <1>3, <1>4, <2>1, <3>1, <3>2
  <2> QED
    BY <1>4, <1>6, <2>1, <2>2 DEF Log
<1>8. Choice(s)'
  <2>1. ASSUME NEW k \in Of("dir"), k < i + 1
        PROVE  c'[Place(k)].flagselected = Selected(k, s)
    <3>1. k \in 1..Len(script)
      BY <1>1, ScriptFacts
    <3>2. CASE k = i
      BY <1>5, <1>7, <3>2
    <3>3. CASE k # i
      <4>1. k < i
        BY <1>3, <2>1, <3>1, <3>3
      <4>2. c[Place(k)].flagselected = Selected(k, s)
        BY <1>1, <1>2, <4>1 DEF Choice, Working
      <4> QED
        BY <1>7, <3>3, <4>2
    <3> QED
      BY <3>2, <3>3
  <2> QED
    BY <1>2, <1>5, <2>1, NextChoice
<1>9. LogsAt(s)'
  <2>1. Sent(s)' = Sent(s)
    BY <1>2 DEF Sent
  <2> QED
    BY <1>1, <1>2, <1>7, <2>1, SameLogs
<1>10. SettingsAt'
  <2>1. Made' = Len(script) /\ Made = Len(script)
    BY <1>2 DEF Made, given
  <2> QED
    BY <1>1, <1>2, <1>6, <1>7, <2>1, NextSettings DEF SettingsAt
<1> QED
  BY <1>6, <1>8, <1>9, <1>10

\* What the logs get leaves their settings, and what they have selected.
LEMMA PutKeeps ==
  ASSUME ObeyInv, NEW s \in Nat, At(s), pc \in {"act", "long", "end"},
         i = Len(script) + 1, UNCHANGED <<given, i>>,
         pc' \in {"get", "long", "end", "done"},
         NEW bytes \in Seq(Bytes), Put(bytes)
  PROVE  /\ SettingsAt' /\ c' \in Seq(Log) /\ Choice(s)'
         /\ \A k \in Of("dir") : c[Place(k)].flagselected = Selected(k, s)
<1>1. Patterned /\ Kept /\ SettingsAt /\ Choice(s) /\ c \in Seq(Log)
  BY DEF ObeyInv, SelectionInv, At, Kept
<1>2. ASSUME NEW k \in Of("dir")
      PROVE  /\ Place(k) \in 1..Len(c)
             /\ k < i /\ c[Place(k)].flagselected = Selected(k, s)
  <2>1. k \in 1..Len(script) /\ Place(k) \in 1..Len(c)
    BY <1>1, LogFacts
  <2>2. k < i
    BY <1>1, <2>1, ScriptFacts
  <2> QED
    BY <1>1, <2>1, <2>2 DEF Choice, Working
<1>3. /\ c' \in Seq(Log) /\ Len(c') = Len(c)
      /\ \A j \in 1..Len(c) :
           /\ c'[j].flagselected = c[j].flagselected
           /\ c'[j].num = c[j].num /\ c'[j].size = c[j].size
           /\ c'[j].processor = c[j].processor
  BY <1>1, PutFacts
<1>4. Choice(s)'
  BY <1>2, <1>3, NextChoice
<1>5. SettingsAt'
  <2>1. Made' = Len(script) /\ Made = Len(script)
    BY DEF Made, given
  <2> QED
    BY <1>1, <1>2, <1>3, <2>1, NextSettings DEF SettingsAt
<1> QED
  BY <1>2, <1>3, <1>4, <1>5

\* What is known of a line that goes to the logs.
LEMMA PutContext ==
  ASSUME ObeyInv, NEW s \in Nat, At(s), pc \in {"act", "long", "end"}
  PROVE  /\ Texted /\ Patterned /\ LineHeld /\ Kept /\ SettingsAt
         /\ Position(s) /\ LineRight(s) /\ Choice(s) /\ LogsAt(s) /\ Working
         /\ s \in Starts /\ linelen = Len(Beginning(s))
         /\ Len(script) \in Nat /\ i \in 1..(Len(script) + 1)
<1>1. /\ Texted /\ Patterned /\ LineHeld /\ Kept /\ SettingsAt /\ Places
      /\ Position(s) /\ LineRight(s) /\ Choice(s) /\ LogsAt(s) /\ Working
  BY DEF ObeyInv, SelectionInv, LineHeld, Texted, At, Working
<1> QED
  BY <1>1, ScriptFacts DEF Position, Places

\* The logs that have selected the line get what is held of it.
LEMMA PutLineLogs ==
  ASSUME ObeyInv, NEW s \in Nat, At(s), PutLine
  PROVE  Choice(s)' /\ LogsAt(s)' /\ SettingsAt' /\ c' \in Seq(Log)
<1>1. /\ UNCHANGED <<given, i, got>> /\ pc = "act" /\ i > Len(script)
      /\ Put(FirstBytes(linelen))
      /\ pc' = IF linelen = LineSize THEN "long" ELSE "end"
  BY DEF PutLine
<1>2. /\ Texted /\ Patterned /\ LineHeld /\ Kept /\ SettingsAt
      /\ Position(s) /\ LineRight(s) /\ LogsAt(s) /\ Working
      /\ s \in Starts /\ linelen = Len(Beginning(s))
      /\ Len(script) \in Nat /\ i \in 1..(Len(script) + 1)
  BY <1>1, PutContext
<1>3. i = Len(script) + 1
  BY <1>1, <1>2
<1>4. /\ Beginning(s) \in Seq(Bytes) /\ Put(Beginning(s)) /\ linelen \in Nat
      /\ \A x \in 1..linelen : Beginning(s)[x] = WholeLine(s)[0 + x]
  <2>1. /\ Beginning(s) \in Seq(Bytes)
        /\ \A x \in 1..linelen : Beginning(s)[x] = Line(s)[x]
    BY <1>2, HeldLine
  <2>2. Put(Beginning(s))
    BY <1>1, <1>2, FirstBytesAre
  <2>3. /\ Len(Line(s)) \in Nat /\ LineSize \in Nat
        /\ linelen = IF Len(Line(s)) =< LineSize THEN Len(Line(s)) ELSE LineSize
    BY <1>2, SelectionAssumption, LineFacts, FirstFacts DEF Beginning
  <2>4. \A x \in 1..Len(Line(s)) : WholeLine(s)[x] = Line(s)[x]
    BY <1>2, WholeFacts
  <2>5. linelen \in Nat /\ linelen =< Len(Line(s))
    BY <2>3
  <2> QED
    BY <2>1, <2>2, <2>3, <2>4, <2>5
<1>5. /\ SettingsAt' /\ c' \in Seq(Log) /\ Choice(s)'
      /\ \A k \in Of("dir") : c[Place(k)].flagselected = Selected(k, s)
  BY <1>1, <1>3, <1>4, PutKeeps
<1>6. Sent(s) = 0
  BY <1>1 DEF Sent
<1>7. \A k \in Of("dir") :
        Holds(c'[Place(k)].ss, Share(k), s,
              IF s \in Share(k) THEN 0 + Len(Beginning(s)) ELSE 0)
  BY <1>1, <1>2, <1>4, <1>5, <1>6, PutHolds
<1>8. Sent(s)' = linelen
  <2>1. /\ LineSize \in Nat /\ StampLen \in Nat /\ End(s) \in Nat
        /\ Len(Line(s)) = StampLen + End(s) - s
        /\ linelen = IF StampLen + End(s) - s =< LineSize
                     THEN StampLen + End(s) - s ELSE LineSize
        /\ StampLen' = StampLen /\ Len(Line(s))' = Len(Line(s))
    <3>1. LineSize \in Nat /\ StampLen \in Nat
      BY SelectionAssumption DEF StampLen
    <3>2. /\ s \in 1..Len(text) /\ Len(text) \in Nat
          /\ End(s) \in s..(Len(text) + 1)
      BY <1>2, EndFacts, TextFacts
    <3>3. End(s) \in Nat
      BY <3>2
    <3>4. /\ Len(Line(s)) = StampLen + End(s) - s
          /\ Len(Beginning(s)) = IF StampLen + End(s) - s =< LineSize
                                 THEN StampLen + End(s) - s ELSE LineSize
      BY <1>2, LineFacts, HeldLine, Zenon
    <3>5. StampLen' = StampLen /\ Len(Line(s))' = Len(Line(s))
      BY <1>1, SameGiven
    <3> QED
      BY <1>2, <3>1, <3>3, <3>4, <3>5
  <2>2. CASE linelen = LineSize
    <3>1. pc' = "long" /\ got = s + LineSize - StampLen - 1 /\ got' = got
      BY <1>1, <1>2, <2>2 DEF Position
    <3>2. Sent(s)' = StampLen + got - s + 1
      BY <2>1, <3>1 DEF Sent
    <3> QED
      BY <2>1, <2>2, <3>1, <3>2
  <2>3. CASE linelen # LineSize
    <3>1. pc' = "end" /\ linelen = Len(Line(s))
      BY <1>1, <2>1, <2>3
    <3> QED
      BY <2>1, <3>1 DEF Sent
  <2> QED
    BY <2>2, <2>3
<1>9. LogsAt(s)'
  <2>1. 0 + Len(Beginning(s)) = Sent(s)'
    BY <1>2, <1>4, <1>8
  <2> QED
    BY <1>1, <1>7, <2>1, NextOutput
<1> QED
  BY <1>5, <1>9

\* Each byte behind LineSize goes the same way.
LEMMA LongByteLogs ==
  ASSUME ObeyInv, NEW s \in Nat, At(s), LongByte
  PROVE  Choice(s)' /\ LogsAt(s)' /\ SettingsAt' /\ c' \in Seq(Log)
<1>1. /\ UNCHANGED <<given, i>> /\ pc = "long"
      /\ IF got = Len(text) THEN pc' = "end" /\ c' = c /\ got' = got
         ELSE /\ got' = got + 1
              /\ IF text[got + 1] = Newline THEN pc' = "end" /\ c' = c
                 ELSE Put(<<text[got + 1]>>) /\ pc' = "long"
  <2>1. text' = text /\ (got # Len(text) => got' = got + 1)
    BY DEF LongByte, given
  <2> QED
    BY <2>1 DEF LongByte
<1>2. /\ Texted /\ Patterned /\ LineHeld /\ Kept /\ SettingsAt
      /\ Position(s) /\ Choice(s) /\ LogsAt(s) /\ Working /\ s \in Starts
      /\ Len(script) \in Nat
  BY <1>1, PutContext
<1>3. i = Len(script) + 1
  BY <1>1 DEF ObeyInv, Places
<1>4. /\ Len(text) \in Nat /\ got \in Nat /\ got =< Len(text)
      /\ LineSize \in Nat /\ StampLen \in Nat /\ StampLen =< 1 /\ 1 < LineSize
      /\ End(s) \in Nat /\ got < End(s) /\ End(s) =< Len(text) + 1
      /\ got >= s + LineSize - StampLen - 1
      /\ Len(Line(s)) = StampLen + End(s) - s
      /\ StampLen' = StampLen /\ Len(Line(s))' = Len(Line(s))
  <2>1. LineFull(s)
    BY <1>1, <1>2 DEF Position
  <2>2. /\ Len(text) \in Nat /\ got \in 0..Len(text)
        /\ LineSize \in Nat /\ 1 < LineSize
    BY <1>2, SelectionAssumption, TextFacts DEF LineHeld
  <2>3. StampLen \in Nat /\ StampLen =< 1
    BY DEF StampLen
  <2>4. got < End(s) /\ got >= s + LineSize - StampLen - 1
    BY <2>1 DEF LineFull
  <2>5. /\ s \in 1..Len(text) /\ End(s) \in s..(Len(text) + 1)
        /\ Len(Line(s)) = StampLen + End(s) - s
    BY <1>2, EndFacts, LineFacts
  <2>6. StampLen' = StampLen /\ Len(Line(s))' = Len(Line(s))
    BY <1>1, SameGiven
  <2> QED
    BY <2>2, <2>3, <2>4, <2>5, <2>6
<1>5. Sent(s) = StampLen + got - s + 1 /\ Sent(s) \in Nat
  <2>1. Sent(s) = StampLen + got - s + 1
    BY <1>1 DEF Sent
  <2>2. StampLen + got - s + 1 >= LineSize
    BY <1>4
  <2> QED
    BY <1>4, <2>1, <2>2
<1>6. CASE pc' = "end" /\ c' = c
  <2>1. End(s) = got + 1
    <3>1. CASE got = Len(text)
      BY <1>4, <3>1
    <3>2. CASE got # Len(text)
      <4>1. text[got + 1] = Newline
        <5>1. pc' = "long" => FALSE
          BY <1>6
        <5> QED
          BY <1>1, <3>2, <5>1
      <4>2. ~(got + 1 \in s..(End(s) - 1)) /\ s =< got + 1
        <5>1. s =< got + 1
          BY <1>4
        <5> QED
          BY <1>2, <4>1, <5>1, EndFacts
      <4> QED
        BY <1>4, <4>2
    <3> QED
      BY <3>1, <3>2
  <2>2. Sent(s)' = Sent(s)
    BY <1>4, <1>5, <1>6, <2>1 DEF Sent
  <2>3. LogsAt(s)'
    BY <1>1, <1>2, <1>6, <2>2, SameLogs
  <2>4. Choice(s)'
    BY <1>1, <1>2, <1>6, NextChoice DEF Choice, Working
  <2>5. SettingsAt'
    <3>1. Made' = Len(script) /\ Made = Len(script)
      BY <1>1, <1>6 DEF Made, given
    <3> QED
      BY <1>1, <1>2, <1>6, <3>1, NextSettings DEF SettingsAt
  <2> QED
    BY <1>2, <1>6, <2>3, <2>4, <2>5 DEF Kept
<1>7. CASE ~(pc' = "end" /\ c' = c)
  <2>1. /\ got # Len(text) /\ text[got + 1] # Newline /\ got' = got + 1
        /\ Put(<<text[got + 1]>>) /\ pc' = "long"
    BY <1>1, <1>7
  <2>2. text[got + 1] \in Bytes
    <3>1. got + 1 \in 1..Len(text)
      BY <1>4, <2>1
    <3> QED
      BY <1>2, <3>1, TextFacts
  <2> DEFINE bytes == <<text[got + 1]>>
  <2>3. /\ bytes \in Seq(Bytes) /\ Len(bytes) = 1 /\ bytes[1] = text[got + 1]
        /\ Put(bytes)
    BY <2>1, <2>2
  <2> HIDE DEF bytes
  <2>4. /\ SettingsAt' /\ c' \in Seq(Log) /\ Choice(s)'
        /\ \A k \in Of("dir") : c[Place(k)].flagselected = Selected(k, s)
    BY <1>1, <1>3, <2>1, <2>3, PutKeeps
  <2>5. WholeLine(s)[Sent(s) + 1] = text[got + 1]
    <3>1. got + 1 < End(s)
      <4>1. got + 1 = End(s) => text[got + 1] = Newline
        <5>1. got + 1 =< Len(text)
          BY <1>4, <2>1
        <5> QED
          BY <1>2, <5>1, EndFacts
      <4> QED
        BY <1>4, <2>1, <4>1
    <3>2. /\ Sent(s) + 1 \in 1..Len(Line(s)) /\ ~(Sent(s) + 1 =< StampLen)
          /\ s + (Sent(s) + 1) - StampLen - 1 = got + 1
      BY <1>4, <1>5, <3>1
    <3>3. Line(s)[Sent(s) + 1] = text[got + 1]
      BY <1>2, <3>2, LineFacts
    <3> QED
      BY <1>2, <3>2, <3>3, WholeFacts
  <2>6. \A x \in 1..Len(bytes) : bytes[x] = WholeLine(s)[Sent(s) + x]
    BY <2>3, <2>5
  <2>7. \A k \in Of("dir") :
          Holds(c'[Place(k)].ss, Share(k), s,
                IF s \in Share(k) THEN Sent(s) + Len(bytes) ELSE 0)
    BY <1>1, <1>2, <1>5, <2>3, <2>4, <2>6, PutHolds
  <2>8. Sent(s)' = Sent(s) + Len(bytes)
    <3>1. Sent(s)' = StampLen + (got + 1) - s + 1
      BY <1>4, <2>1 DEF Sent
    <3> QED
      BY <1>4, <1>5, <2>3, <3>1
  <2>9. LogsAt(s)'
    BY <1>1, <2>7, <2>8, NextOutput
  <2> QED
    BY <2>4, <2>9
<1> QED
  BY <1>6, <1>7

\* The newline ends the line, and nothing of the next one is there.
LEMMA EndLineLogs ==
  ASSUME ObeyInv, NEW s \in Nat, At(s), EndLine,
         NEW n \in Nat, n = NextLine(s)
  PROVE  Choice(n)' /\ LogsAt(n)' /\ SettingsAt' /\ c' \in Seq(Log)
<1>1. /\ UNCHANGED <<given, i>> /\ pc = "end" /\ pc' \in {"get", "done"}
      /\ Put(<<Newline>>)
  BY DEF EndLine
<1>2. /\ Texted /\ Patterned /\ Kept /\ SettingsAt /\ LogsAt(s) /\ s \in Starts
  BY <1>1, PutContext
<1>3. i = Len(script) + 1
  BY <1>1 DEF ObeyInv, Places
<1> DEFINE bytes == <<Newline>>
<1>4. /\ bytes \in Seq(Bytes) /\ Len(bytes) = 1 /\ bytes[1] = Newline
      /\ Put(bytes)
  BY <1>1, SelectionAssumption
<1> HIDE DEF bytes
<1>5. /\ SettingsAt' /\ c' \in Seq(Log)
      /\ \A k \in Of("dir") : c[Place(k)].flagselected = Selected(k, s)
  BY <1>1, <1>3, <1>4, PutKeeps
<1>6. Choice(n)'
  BY <1>1, NoChoice DEF Working
<1>7. Sent(s) = Len(Line(s)) /\ Len(Line(s)) \in Nat
  BY <1>1, <1>2, LineFacts DEF Sent
<1>8. \A x \in 1..Len(bytes) : bytes[x] = WholeLine(s)[Len(Line(s)) + x]
  BY <1>2, <1>4, WholeFacts
<1>9. \A k \in Of("dir") :
        /\ c'[Place(k)].ss \in Seq(Bytes)
        /\ Holds(c'[Place(k)].ss, Share(k), s,
                 IF s \in Share(k) THEN Len(Line(s)) + Len(bytes) ELSE 0)
  BY <1>1, <1>2, <1>4, <1>5, <1>7, <1>8, PutHolds
<1>10. Len(Line(s)) + Len(bytes) = Len(WholeLine(s))
  BY <1>2, <1>4, <1>7, WholeFacts
<1>11. \A k \in Of("dir") : Holds(c'[Place(k)].ss, Share(k), n, 0)
  BY <1>2, <1>9, <1>10, ShareFacts, HoldsNext
<1>12. Sent(n)' = 0
  BY <1>1 DEF Sent
<1>13. \A k \in Of("dir") :
         Holds(c'[Place(k)].ss, Share(k), n,
               IF n \in Share(k) THEN Sent(n)' ELSE 0)
  BY <1>11, <1>12
<1>14. LogsAt(n)'
  BY <1>1, <1>13, NextOutput
<1> QED
  BY <1>5, <1>6, <1>14

(***************************************************************************)
(* The steps: what the status files and stderr get.                        *)
(***************************************************************************)

\* The lines of the text are numbered by bytes, the actions by their places.
LEMMA Numbers ==
  ASSUME Texted, Patterned
  PROVE  /\ Starts \subseteq Nat /\ \A kind : Of(kind) \subseteq Nat
         /\ \A k : Share(k) \subseteq Starts
         /\ Len(script) \in Nat
<1>1. \A s \in Starts : s \in 1..Len(text) /\ Len(text) \in Nat
  BY EndFacts, TextFacts
<1> QED
  BY <1>1, ScriptFacts DEF Share

\* The action r gets the line at s if it is of its share, and no other does.
LEMMA GivenNext ==
  ASSUME Texted, Patterned, NEW s \in Nat, NEW r \in Nat, NEW k \in Nat
  PROVE  Given(k, s, r + 1) =
           Given(k, s, r) \cup (IF k = r /\ s \in Share(k) THEN {s} ELSE {})
<1>1. Share(k) \subseteq Nat
  BY Numbers
<1>2. \A t \in Nat : Sooner(t, k, s, r + 1) <=> Sooner(t, k, s, r)
                                                  \/ (t = s /\ k = r)
  BY DEF Sooner
<1> QED
  BY <1>1, <1>2 DEF Given

\* The same for stderr, which gets the lines of all actions e.
LEMMA SaidNext ==
  ASSUME Texted, Patterned, NEW s \in Nat, NEW r \in Nat
  PROVE  Said(s, r + 1) =
           Said(s, r) \cup (IF r \in Of("e") /\ s \in Share(r)
                            THEN {<<s, r>>} ELSE {})
<1>1. Starts \subseteq Nat /\ Of("e") \subseteq Nat /\ Share(r) \subseteq Starts
  BY Numbers
<1>2. \A t, k \in Nat : Sooner(t, k, s, r + 1) <=> Sooner(t, k, s, r)
                                                     \/ (t = s /\ k = r)
  BY DEF Sooner
<1>3. ASSUME NEW x \in Starts \X Of("e")
      PROVE  /\ x = <<x[1], x[2]>> /\ x[1] \in Nat /\ x[2] \in Nat
             /\ Sooner(x[1], x[2], s, r + 1) <=>
                  Sooner(x[1], x[2], s, r) \/ (x[1] = s /\ x[2] = r)
  <2>1. x = <<x[1], x[2]>> /\ x[1] \in Starts /\ x[2] \in Of("e")
    OBVIOUS
  <2>2. x[1] \in Nat /\ x[2] \in Nat
    BY <1>1, <2>1
  <2> QED
    BY <1>2, <2>1, <2>2, Zenon
<1>4. ASSUME r \in Of("e"), s \in Share(r)
      PROVE  <<s, r>> \in Starts \X Of("e") /\ Sooner(s, r, s, r + 1)
  BY <1>1, <1>4 DEF Sooner
<1>5. Said(s, r + 1) \subseteq
        Said(s, r) \cup (IF r \in Of("e") /\ s \in Share(r)
                         THEN {<<s, r>>} ELSE {})
  BY <1>3 DEF Said
<1>6. Said(s, r) \subseteq Said(s, r + 1)
  BY <1>3 DEF Said
<1>7. ASSUME r \in Of("e"), s \in Share(r)
      PROVE  <<s, r>> \in Said(s, r + 1)
  BY <1>4, <1>7 DEF Said
<1> QED
  BY <1>5, <1>6, <1>7

\* What comes after the last action of the line comes before the next line.
LEMMA LineDone ==
  ASSUME Texted, Patterned, NEW s \in Starts, NEW n \in Nat, n = NextLine(s)
  PROVE  /\ \A k \in 1..Len(script) :
              Given(k, s, Len(script) + 1) = Given(k, n, 1)
         /\ Said(s, Len(script) + 1) = Said(n, 1)
<1>1. /\ Starts \subseteq Nat /\ Of("e") \subseteq 1..Len(script)
      /\ \A k : Share(k) \subseteq Starts
      /\ Len(script) \in Nat
  BY Numbers, ScriptFacts
<1>2. ASSUME NEW t \in Starts, NEW k \in 1..Len(script)
      PROVE  Sooner(t, k, s, Len(script) + 1) <=> Sooner(t, k, n, 1)
  <2>1. t < n <=> t =< s
    BY NextFacts
  <2>2. t \in Nat /\ s \in Nat /\ k \in Nat /\ k >= 1 /\ k < Len(script) + 1
    BY <1>1
  <2> QED
    BY <2>1, <2>2 DEF Sooner
<1>3. \A k \in 1..Len(script) :
        Given(k, s, Len(script) + 1) = Given(k, n, 1)
  BY <1>1, <1>2 DEF Given
<1>4. Said(s, Len(script) + 1) = Said(n, 1)
  <2>1. \A x \in Starts \X Of("e") :
          Sooner(x[1], x[2], s, Len(script) + 1) <=> Sooner(x[1], x[2], n, 1)
    BY <1>1, <1>2
  <2> QED
    BY <2>1 DEF Said
<1> QED
  BY <1>3, <1>4

\* The script goes past an action that is not for a status file or stderr.
LEMMA StatusNext ==
  ASSUME Texted, Patterned, NEW s \in Nat, NEW r \in Nat, NEW st,
         StatusHas(st, s, r), r \notin Of("=") \/ s \notin Share(r)
  PROVE  StatusHas(st, s, r + 1)
<1> SUFFICES ASSUME NEW k \in Of("=")
             PROVE  Given(k, s, r + 1) = Given(k, s, r)
  BY DEF StatusHas
<1>1. k \in Nat
  BY Numbers
<1>2. Given(k, s, r + 1) = Given(k, s, r)
                             \cup (IF k = r /\ s \in Share(k) THEN {s} ELSE {})
  BY <1>1, GivenNext
<1> QED
  BY <1>2

\* The script goes past an action that says nothing.
LEMMA ErrNext ==
  ASSUME Texted, Patterned, NEW s \in Nat, NEW r \in Nat, NEW e,
         ErrHas(e, s, r), r \notin Of("e") \/ s \notin Share(r)
  PROVE  ErrHas(e, s, r + 1)
<1>1. Said(s, r + 1) =
        Said(s, r) \cup (IF r \in Of("e") /\ s \in Share(r)
                         THEN {<<s, r>>} ELSE {})
  BY SaidNext
<1>2. Said(s, r + 1) = Said(s, r)
  BY <1>1
<1> QED
  BY <1>2 DEF ErrHas

\* The status file has the line that it got last.
LEMMA StatusMore ==
  ASSUME Texted, Patterned, NEW s \in Starts, NEW r \in Of("="), s \in Share(r),
         StatusHas(status, s, r), NEW st, st = [status EXCEPT ![r] = Shown(s)],
         DOMAIN status = Of("=")
  PROVE  StatusHas(st, s, r + 1)
<1>1. s \in Nat /\ r \in Nat
  BY Numbers
<1> SUFFICES ASSUME NEW k \in Of("=")
             PROVE  st[k] = IF Given(k, s, r + 1) = {} THEN <<>>
                            ELSE Shown(Max(Given(k, s, r + 1)))
  BY DEF StatusHas
<1>2. k \in Nat
  BY Numbers
<1>3. Given(k, s, r + 1) = Given(k, s, r)
                             \cup (IF k = r /\ s \in Share(k) THEN {s} ELSE {})
  BY <1>1, <1>2, GivenNext
<1>4. CASE k = r
  <2>1. s \in Given(k, s, r + 1) /\ st[k] = Shown(s)
    BY <1>3, <1>4
  <2>2. \A t \in Given(k, s, r + 1) : t \in Nat /\ t =< s
    BY <1>1, Numbers DEF Given, Sooner
  <2>3. Max(Given(k, s, r + 1)) = s
    BY <2>1, <2>2, MaxIs
  <2> QED
    BY <2>1, <2>3
<1>5. CASE k # r
  BY <1>3, <1>5 DEF StatusHas
<1> QED
  BY <1>4, <1>5

\* There is only so much to be said, and what is said later comes behind.
LEMMA SaidFinite ==
  ASSUME Texted, Patterned, NEW s \in Nat, NEW r \in Nat
  PROVE  IsFiniteSet(Said(s, r)) /\ Cardinality(Said(s, r)) \in Nat
<1>1. IsFiniteSet(1..Len(text)) /\ IsFiniteSet(1..Len(script))
  <2>1. 1 \in Int /\ Len(text) \in Int /\ Len(script) \in Int
    BY TextFacts, ScriptFacts
  <2> QED
    BY <2>1, FS_Interval
<1>2. IsFiniteSet((1..Len(text)) \X (1..Len(script)))
  BY <1>1, FS_Product
<1>3. Starts \subseteq 1..Len(text) /\ Of("e") \subseteq 1..Len(script)
  BY EndFacts, ScriptFacts
<1>4. Said(s, r) \subseteq (1..Len(text)) \X (1..Len(script))
  BY <1>3 DEF Said
<1>5. IsFiniteSet(Said(s, r))
  BY <1>2, <1>4, FS_Subset
<1> QED
  BY <1>5, FS_CardinalityType

\* What is said sooner is less.
LEMMA SaidBehind ==
  ASSUME Texted, Patterned, NEW s \in Nat, NEW r \in Nat, NEW x \in Said(s, r)
  PROVE  /\ x[1] \in Nat /\ x[2] \in Nat
         /\ Cardinality(Said(x[1], x[2])) \in Nat
         /\ Cardinality(Said(x[1], x[2])) < Cardinality(Said(s, r))
<1>1. /\ x \in Starts \X Of("e") /\ x[1] \in Share(x[2])
      /\ Sooner(x[1], x[2], s, r)
  BY DEF Said
<1>2. /\ Starts \subseteq Nat /\ Of("e") \subseteq Nat
      /\ x[1] \in Nat /\ x[2] \in Nat
  BY <1>1, Numbers
<1>3. Said(x[1], x[2]) \subseteq Said(s, r)
  <2> SUFFICES ASSUME NEW y \in Starts \X Of("e"),
                      Sooner(y[1], y[2], x[1], x[2])
               PROVE  Sooner(y[1], y[2], s, r)
    BY DEF Said
  <2>1. y[1] \in Nat /\ y[2] \in Nat
    BY <1>2
  <2> QED
    BY <1>1, <1>2, <2>1 DEF Sooner
<1>4. x \notin Said(x[1], x[2])
  BY <1>2 DEF Said, Sooner
<1>5. IsFiniteSet(Said(s, r))
  BY SaidFinite
<1>6. /\ Cardinality(Said(x[1], x[2])) \in Nat
      /\ Cardinality(Said(s, r)) \in Nat
      /\ IsFiniteSet(Said(x[1], x[2]))
  BY <1>2, SaidFinite
<1>7. /\ Cardinality(Said(x[1], x[2])) =< Cardinality(Said(s, r))
      /\ Cardinality(Said(x[1], x[2])) = Cardinality(Said(s, r))
           => Said(x[1], x[2]) = Said(s, r)
  BY <1>3, <1>5, FS_Subset
<1>8. Cardinality(Said(x[1], x[2])) # Cardinality(Said(s, r))
  BY <1>4, <1>7
<1> QED
  BY <1>2, <1>6, <1>7, <1>8

\* stderr gets the line behind all that it had.
LEMMA ErrMore ==
  ASSUME Texted, Patterned, NEW s \in Starts, NEW r \in Of("e"), s \in Share(r),
         NEW S, err \in Seq(S), ErrHas(err, s, r), NEW e,
         e = Append(err, Told(s))
  PROVE  ErrHas(e, s, r + 1)
<1>1. s \in Nat /\ r \in Nat
  BY Numbers
<1>2. Said(s, r + 1) = Said(s, r) \cup {<<s, r>>}
  BY <1>1, SaidNext
<1>3. <<s, r>> \notin Said(s, r)
  BY <1>1 DEF Said, Sooner
<1>4. IsFiniteSet(Said(s, r)) /\ Cardinality(Said(s, r)) \in Nat
  BY <1>1, SaidFinite
<1>5. Cardinality(Said(s, r + 1)) = Cardinality(Said(s, r)) + 1
  BY <1>2, <1>3, <1>4, FS_AddElement
<1>6. /\ Len(err) = Cardinality(Said(s, r)) /\ Len(e) = Len(err) + 1
      /\ e[Len(err) + 1] = Told(s)
      /\ \A x \in 1..Len(err) : e[x] = err[x]
  BY <1>4 DEF ErrHas
<1>7. ASSUME NEW x \in Said(s, r + 1)
      PROVE  e[Cardinality(Said(x[1], x[2])) + 1] = Told(x[1])
  <2>1. CASE x = <<s, r>>
    BY <1>6, <2>1
  <2>2. CASE x \in Said(s, r)
    <3>1. /\ Cardinality(Said(x[1], x[2])) \in Nat
          /\ Cardinality(Said(x[1], x[2])) < Len(err)
      BY <1>1, <1>6, <2>2, SaidBehind
    <3>2. Cardinality(Said(x[1], x[2])) + 1 \in 1..Len(err)
      BY <1>4, <1>6, <3>1
    <3>3. err[Cardinality(Said(x[1], x[2])) + 1] = Told(x[1])
      BY <2>2 DEF ErrHas
    <3> QED
      BY <1>6, <3>2, <3>3
  <2> QED
    BY <1>2, <2>1, <2>2
<1> QED
  BY <1>5, <1>6, <1>7 DEF ErrHas

\* Nothing is written, and the script stays where it is.
LEMMA SameOutput ==
  ASSUME UNCHANGED <<given, status, err>>, NEW s, StatusAt(s), ErrAt(s),
         Reached' = Reached
  PROVE  StatusAt(s)' /\ ErrAt(s)'
BY NextOutput DEF StatusAt, ErrAt

\* What is known where the script gets to a status file or to stderr.
LEMMA OutputContext ==
  ASSUME ObeyInv, NEW s \in Nat, At(s), pc \in {"act", "match"},
         i =< Len(script)
  PROVE  /\ Texted /\ Patterned /\ i \in 1..Len(script) /\ i \in Nat
         /\ s \in Starts /\ Reached = i
         /\ StatusHas(status, s, i) /\ ErrHas(err, s, i)
<1>1. /\ Texted /\ Patterned /\ Position(s) /\ StatusAt(s) /\ ErrAt(s)
      /\ i \in Nat /\ i > 0
  BY DEF ObeyInv, SelectionInv, LineHeld, Texted, Counted, At
<1>2. Working /\ Reached = i
  BY DEF Working, Reached
<1>3. i \in 1..Len(script) /\ s \in Starts
  BY <1>1, <1>2, ScriptFacts DEF Position
<1> QED
  BY <1>1, <1>2, <1>3 DEF StatusAt, ErrAt

\* The script goes past an action that writes nothing.
LEMMA PassedStatus ==
  ASSUME ObeyInv, NEW s \in Nat, At(s), pc \in {"act", "match"}, pc' = "act",
         i =< Len(script), i' = i + 1, UNCHANGED <<given, status>>,
         i \notin Of("=") \/ s \notin Share(i)
  PROVE  StatusAt(s)'
<1>1. /\ Texted /\ Patterned /\ i \in Nat /\ StatusHas(status, s, i)
  BY OutputContext
<1>2. StatusHas(status, s, i + 1)
  BY <1>1, StatusNext
<1>3. Reached' = i + 1
  BY DEF Reached, Working
<1> QED
  BY <1>2, <1>3, NextOutput

\* The same for stderr.
LEMMA PassedErr ==
  ASSUME ObeyInv, NEW s \in Nat, At(s), pc \in {"act", "match"}, pc' = "act",
         i =< Len(script), i' = i + 1, UNCHANGED <<given, err>>,
         i \notin Of("e") \/ s \notin Share(i)
  PROVE  ErrAt(s)'
<1>1. /\ Texted /\ Patterned /\ i \in Nat /\ ErrHas(err, s, i)
  BY OutputContext
<1>2. ErrHas(err, s, i + 1)
  BY <1>1, ErrNext
<1>3. Reached' = i + 1
  BY DEF Reached, Working
<1> QED
  BY <1>2, <1>3, NextOutput

\* A status file gets the line if it is selected.
LEMMA ToStatusOutput ==
  ASSUME ObeyInv, NEW s \in Nat, At(s), ToStatus
  PROVE  StatusAt(s)' /\ ErrAt(s)' /\ status' \in [Of("=") -> Seq(Bytes)]
<1>1. /\ UNCHANGED <<given, err>> /\ pc = "act" /\ pc' = "act" /\ i' = i + 1
      /\ i =< Len(script) /\ script[i].kind = "="
      /\ status' = IF flagselected THEN [status EXCEPT ![i] = line] ELSE status
  BY DEF ToStatus, Action, Passed
<1>2. /\ Texted /\ Patterned /\ i \in 1..Len(script) /\ s \in Starts
      /\ StatusHas(status, s, i)
  BY <1>1, OutputContext
<1>3. i \in Of("=") /\ i \notin Of("e")
  BY <1>1, <1>2, ScriptFacts DEF Of
<1>4. /\ status \in [Of("=") -> Seq(Bytes)] /\ flagselected = Selected(i, s)
      /\ LineHeld /\ Position(s) /\ LineRight(s)
  BY <1>1 DEF ObeyInv, SelectionInv, Kept, At, Choice
<1>5. ErrAt(s)'
  BY <1>1, <1>3, PassedErr
<1>6. s \in Share(i) <=> flagselected
  BY <1>2, <1>4, ShareFacts
<1>7. CASE flagselected
  <2>1. status' = [status EXCEPT ![i] = Shown(s)]
    BY <1>1, <1>2, <1>4, <1>7, FirstBytesAre DEF Working
  <2>2. StatusHas(status', s, i + 1)
    BY <1>2, <1>3, <1>4, <1>6, <1>7, <2>1, StatusMore
  <2>3. Reached' = i + 1
    BY <1>1 DEF Reached, Working
  <2>4. Shown(s) \in Seq(Bytes)
    <3>1. LineSize + 1 \in Nat /\ line \in [1..(LineSize + 1) -> Bytes]
      BY <1>4, SelectionAssumption DEF LineHeld
    <3>2. line \in Seq(Bytes)
      BY <3>1, SeqDef
    <3>3. line = Shown(s)
      BY <1>1, <1>2, <1>4, FirstBytesAre DEF Working
    <3> QED
      BY <3>2, <3>3
  <2>5. status' \in [Of("=") -> Seq(Bytes)]
    BY <1>3, <1>4, <2>1, <2>4
  <2> QED
    BY <1>1, <1>5, <2>2, <2>3, <2>5, NextOutput
<1>8. CASE ~flagselected
  <2>1. status' = status
    BY <1>1, <1>8
  <2>2. StatusAt(s)'
    BY <1>1, <1>6, <1>8, <2>1, PassedStatus
  <2> QED
    BY <1>4, <1>5, <2>1, <2>2
<1> QED
  BY <1>7, <1>8

\* stderr gets the beginning of the line if it is selected.
LEMMA ToStderrOutput ==
  ASSUME ObeyInv, NEW s \in Nat, At(s), ToStderr
  PROVE  /\ StatusAt(s)' /\ ErrAt(s)'
         /\ err' \in Seq(Seq(Bytes) \X {"...", ""})
<1>1. /\ UNCHANGED <<given, status>> /\ pc = "act" /\ pc' = "act" /\ i' = i + 1
      /\ i =< Len(script) /\ script[i].kind = "e"
      /\ err' = IF ~flagselected THEN err
                ELSE Append(err, IF linelen > ErrSize
                                 THEN <<FirstBytes(ErrSize), "...">>
                                 ELSE <<FirstBytes(linelen), "">>)
  BY DEF ToStderr, Action, Passed
<1>2. /\ Texted /\ Patterned /\ i \in 1..Len(script) /\ s \in Starts
      /\ ErrHas(err, s, i)
  BY <1>1, OutputContext
<1>3. i \in Of("e") /\ i \notin Of("=")
  BY <1>1, <1>2, ScriptFacts DEF Of
<1>4. /\ err \in Seq(Seq(Bytes) \X {"...", ""}) /\ flagselected = Selected(i, s)
      /\ LineHeld /\ Position(s) /\ LineRight(s)
  BY <1>1 DEF ObeyInv, SelectionInv, Kept, At, Choice
<1>5. StatusAt(s)'
  BY <1>1, <1>3, PassedStatus
<1>6. s \in Share(i) <=> flagselected
  BY <1>2, <1>4, ShareFacts
<1>7. CASE flagselected
  <2>1. Working /\ ErrSize \in Nat
    BY <1>1, SelectionAssumption DEF Working
  <2>2. IF linelen > ErrSize
        THEN FirstBytes(ErrSize) = FirstOf(s, ErrSize) /\ Len(Line(s)) > ErrSize
        ELSE /\ FirstBytes(linelen) = FirstOf(s, ErrSize)
             /\ Len(Line(s)) =< ErrSize
    BY <1>2, <1>4, <2>1, FirstBytesAre
  <2>3. Len(Line(s)) \in Nat
    BY <1>2, LineFacts
  <2>4. err' = Append(err, Told(s))
    <3>1. CASE linelen > ErrSize
      <4>1. Told(s) = <<FirstBytes(ErrSize), "...">>
        BY <2>2, <3>1 DEF Told
      <4> QED
        BY <1>1, <1>7, <3>1, <4>1
    <3>2. CASE ~(linelen > ErrSize)
      <4>1. Told(s) = <<FirstBytes(linelen), "">>
        BY <2>1, <2>2, <2>3, <3>2 DEF Told
      <4> QED
        BY <1>1, <1>7, <3>2, <4>1
    <3> QED
      BY <3>1, <3>2
  <2>5. ErrHas(err', s, i + 1)
    BY <1>2, <1>3, <1>4, <1>6, <1>7, <2>4, ErrMore
  <2>6. Reached' = i + 1
    BY <1>1 DEF Reached, Working
  <2>7. Told(s) \in Seq(Bytes) \X {"...", ""}
    BY <1>2, <2>1, FirstFacts DEF Told
  <2>8. err' \in Seq(Seq(Bytes) \X {"...", ""})
    BY <1>4, <2>4, <2>7, AppendProperties
  <2> QED
    BY <1>1, <1>5, <2>5, <2>6, <2>8, NextOutput
<1>8. CASE ~flagselected
  <2>1. err' = err
    BY <1>1, <1>8
  <2>2. ErrAt(s)'
    BY <1>1, <1>6, <1>8, <2>1, PassedErr
  <2> QED
    BY <1>4, <1>5, <2>1, <2>2
<1> QED
  BY <1>7, <1>8

\* The line is done, and the script begins with the next one.
LEMMA EndLineOutput ==
  ASSUME ObeyInv, NEW s \in Nat, At(s), EndLine,
         NEW n \in Nat, n = NextLine(s)
  PROVE  StatusAt(n)' /\ ErrAt(n)'
<1>1. UNCHANGED <<given, status, err>> /\ pc = "end" /\ pc' \in {"get", "done"}
  BY DEF EndLine, others
<1>2. Texted /\ Patterned /\ s \in Starts
  BY <1>1, PutContext
<1>3. i = Len(script) + 1 /\ StatusAt(s) /\ ErrAt(s)
  BY <1>1 DEF ObeyInv, Places, At
<1>4. Reached = Len(script) + 1 /\ Reached' = 1
  BY <1>1, <1>3 DEF Reached, Working
<1>5. /\ \A k \in 1..Len(script) :
           Given(k, s, Len(script) + 1) = Given(k, n, 1)
      /\ Said(s, Len(script) + 1) = Said(n, 1)
      /\ Of("=") \subseteq 1..Len(script)
  BY <1>2, LineDone, ScriptFacts
<1>6. StatusHas(status, n, 1)
  BY <1>3, <1>4, <1>5 DEF StatusAt, StatusHas
<1>7. ErrHas(err, n, 1)
  BY <1>3, <1>4, <1>5 DEF ErrAt, ErrHas
<1> QED
  BY <1>1, <1>4, <1>6, <1>7, NextOutput

(***************************************************************************)
(* The steps: the settings, and what is kept.                              *)
(***************************************************************************)

\* What a setting comes to.
LEMMA SettingOf ==
  ASSUME NEW x \in Nat
  PROVE  /\ AtLeast(x, MinNum) = Max({MinNum, x})
         /\ AtMost(AtLeast(x, MinSize), MaxSize) =
              Min({MaxSize, Max({MinSize, x})})
         /\ AtLeast(x, MinNum) \in Nat
         /\ AtMost(AtLeast(x, MinSize), MaxSize) \in Nat
<1>1. {MinNum, MinSize, MaxSize} \subseteq Nat
  BY SelectionAssumption
<1>2. /\ AtLeast(x, MinNum) = IF MinNum =< x THEN x ELSE MinNum
      /\ AtLeast(x, MinSize) = IF MinSize =< x THEN x ELSE MinSize
  BY <1>1 DEF AtLeast
<1>3. /\ Max({MinNum, x}) = AtLeast(x, MinNum)
      /\ Max({MinSize, x}) = AtLeast(x, MinSize)
      /\ AtLeast(x, MinSize) \in Nat /\ AtLeast(x, MinNum) \in Nat
  <2>1. /\ Max({MinNum, x}) = IF MinNum =< x THEN x ELSE MinNum
        /\ Max({MinSize, x}) = IF MinSize =< x THEN x ELSE MinSize
    <3>1. MinNum \in Int /\ MinSize \in Int /\ x \in Int
      BY <1>1
    <3> QED
      BY <3>1, OfTwo, Zenon
  <2> QED
    BY <1>1, <1>2, <2>1
<1>4. Min({MaxSize, AtLeast(x, MinSize)}) =
        IF MaxSize =< AtLeast(x, MinSize) THEN MaxSize ELSE AtLeast(x, MinSize)
  BY <1>1, <1>3, OfTwo
<1>5. /\ AtMost(AtLeast(x, MinSize), MaxSize) =
           Min({MaxSize, AtLeast(x, MinSize)})
      /\ AtMost(AtLeast(x, MinSize), MaxSize) \in Nat
  BY <1>1, <1>3, <1>4 DEF AtMost
<1> QED
  BY <1>3, <1>5

\* c_init() takes a setting for the logs behind it.
LEMMA PrepareSettings ==
  ASSUME Patterned, Settings(i, num, size, processor),
         i \in 1..Len(script), Prepare
  PROVE  Settings(i + 1, num', size', processor')
<1>1. /\ size' = IF script[i].kind = "s"
                 THEN AtMost(AtLeast(script[i].arg, MinSize), MaxSize) ELSE size
      /\ num' = IF script[i].kind = "n"
                THEN AtLeast(script[i].arg, MinNum) ELSE num
      /\ processor' = IF script[i].kind = "!" THEN script[i].arg ELSE processor
  BY DEF Prepare
<1>2. \A kind, default :
        Before(i + 1, kind, default) =
          IF script[i].kind = kind THEN script[i].arg
          ELSE Before(i, kind, default)
  BY BeforeNext
<1>3. script[i].kind \in {"s", "n"} => script[i].arg \in Nat
  BY ScriptFacts DEF Patterned
<1>4. /\ num = Max({MinNum, Before(i, "n", DefaultNum)})
      /\ size = Min({MaxSize, Max({MinSize, Before(i, "s", DefaultSize)})})
      /\ processor = Before(i, "!", "none")
  BY DEF Settings
<1>5. num' = Max({MinNum, Before(i + 1, "n", DefaultNum)})
  <2>1. CASE script[i].kind = "n"
    BY <1>1, <1>2, <1>3, <2>1, SettingOf
  <2>2. CASE script[i].kind # "n"
    BY <1>1, <1>2, <1>4, <2>2
  <2> QED
    BY <2>1, <2>2
<1>6. size' = Min({MaxSize, Max({MinSize, Before(i + 1, "s", DefaultSize)})})
  <2>1. CASE script[i].kind = "s"
    BY <1>1, <1>2, <1>3, <2>1, SettingOf
  <2>2. CASE script[i].kind # "s"
    BY <1>1, <1>2, <1>4, <2>2
  <2> QED
    BY <2>1, <2>2
<1>7. processor' = Before(i + 1, "!", "none")
  BY <1>1, <1>2, <1>4
<1> QED
  BY <1>5, <1>6, <1>7 DEF Settings

\* What is kept keeps its type.
LEMMA NextKept ==
  ASSUME UNCHANGED given
  PROVE  Kept' <=>
           /\ num' \in Nat /\ size' \in Nat /\ processor' \in Programs
           /\ c' \in Seq(Log) /\ flagselected' \in BOOLEAN
           /\ status' \in [Of("=") -> Seq(Bytes)]
           /\ err' \in Seq(Seq(Bytes) \X {"...", ""})
BY DEF given, Kept, Log, Programs, Of

\* A log is prepared with the settings there are.
LEMMA PrepareKept ==
  ASSUME ObeyInv, Prepare
  PROVE  SettingsAt' /\ Kept'
<1>1. /\ Patterned /\ Kept /\ SettingsAt /\ i \in Nat /\ i > 0
      /\ c \in Seq(Log)
  BY DEF ObeyInv, SelectionInv, Counted, Kept
<1>2. /\ UNCHANGED <<given, status, err, flagselected>> /\ pc = "init"
      /\ pc' = "init" /\ i' = i + 1 /\ i =< Len(script)
      /\ size' = IF script[i].kind = "s"
                 THEN AtMost(AtLeast(script[i].arg, MinSize), MaxSize) ELSE size
      /\ num' = IF script[i].kind = "n"
                THEN AtLeast(script[i].arg, MinNum) ELSE num
      /\ processor' = IF script[i].kind = "!" THEN script[i].arg ELSE processor
      /\ c' = IF script[i].kind # "dir" THEN c
              ELSE Append(c, [num |-> num, size |-> size,
                              processor |-> processor,
                              flagselected |-> FALSE, ss |-> <<>>])
  BY DEF Prepare, others
<1>3. /\ i \in 1..Len(script) /\ Len(script) \in Nat
      /\ \A kind : i \in Of(kind) <=> script[i].kind = kind
  BY <1>1, <1>2, ScriptFacts DEF Of
<1>4. /\ Settings(i, num, size, processor) /\ Len(c) = Place(i - 1)
      /\ \A k \in Of("dir") : k =< i - 1 =>
           Settings(k, c[Place(k)].num, c[Place(k)].size, c[Place(k)].processor)
      /\ \A j \in DOMAIN c : c[j].ss = <<>>
  BY <1>1, <1>2 DEF SettingsAt, Made
<1>5. Settings(i + 1, num', size', processor')
  BY <1>1, <1>3, <1>4, PrepareSettings
<1> DEFINE log == [num |-> num, size |-> size, processor |-> processor,
                   flagselected |-> FALSE, ss |-> <<>>]
<1>6. /\ log \in Log /\ log.num = num /\ log.size = size
      /\ log.processor = processor /\ log.ss = <<>>
  <2>1. num \in Nat /\ size \in Nat /\ processor \in Programs
    BY <1>1 DEF Kept
  <2>2. <<>> \in Seq(Bytes)
    BY EmptySeq
  <2> QED
    BY <2>1, <2>2 DEF Log
<1>7. c' = IF i \in Of("dir") THEN Append(c, log) ELSE c
  BY <1>2, <1>3
<1> HIDE DEF log
<1>8. /\ c' \in Seq(Log) /\ Len(c') = Place(i) /\ Len(c) \in Nat
      /\ \A j \in 1..Len(c) : c'[j] = c[j]
      /\ i \in Of("dir") => c'[Place(i)] = log
  <2>1. Place(i) = Place(i - 1) + IF i \in Of("dir") THEN 1 ELSE 0
    BY <1>1, <1>3, PlaceFacts
  <2>2. Len(c) \in Nat
    BY <1>1, LenProperties
  <2>3. CASE i \in Of("dir")
    <3>1. /\ c' \in Seq(Log) /\ Len(c') = Len(c) + 1
          /\ \A j \in 1..Len(c) : c'[j] = c[j]
          /\ c'[Len(c) + 1] = log
      BY <1>1, <1>6, <1>7, <2>3, AppendProperties
    <3>2. Place(i) = Len(c) + 1
      BY <1>4, <2>1, <2>3
    <3> QED
      BY <2>2, <3>1, <3>2
  <2>4. CASE i \notin Of("dir")
    BY <1>1, <1>4, <1>7, <2>1, <2>2, <2>4
  <2> QED
    BY <2>3, <2>4
<1>9. ASSUME NEW k \in Of("dir"), k =< i
      PROVE  Settings(k, c'[Place(k)].num, c'[Place(k)].size,
                      c'[Place(k)].processor)
  <2>1. k \in 1..Len(script)
    BY <1>1, ScriptFacts
  <2>2. CASE k = i
    BY <1>4, <1>6, <1>8, <1>9, <2>2
  <2>3. CASE k # i
    <3>1. k =< i - 1 /\ i - 1 \in 0..Len(script)
      BY <1>3, <1>9, <2>1, <2>3
    <3>2. Place(k) =< Place(i - 1) /\ Place(k) \in 1..Place(Len(script))
      BY <1>1, <3>1, PlaceOrder
    <3>3. Place(k) \in 1..Len(c)
      BY <1>4, <1>8, <3>2
    <3> QED
      BY <1>4, <1>8, <3>1, <3>3
  <2> QED
    BY <2>2, <2>3
<1>10. \A j \in DOMAIN c' : c'[j].ss = <<>>
  <2>1. DOMAIN c = 1..Len(c) /\ DOMAIN c' = 1..Len(c')
    BY <1>1, <1>8, LenProperties
  <2>2. ASSUME NEW j \in DOMAIN c', j \notin DOMAIN c
        PROVE  c'[j] = log
    <3>1. Place(i) = Place(i - 1) + IF i \in Of("dir") THEN 1 ELSE 0
      BY <1>1, <1>3, PlaceFacts
    <3>2. i \in Of("dir") /\ j = Place(i)
      BY <1>4, <1>8, <2>1, <2>2, <3>1
    <3> QED
      BY <1>8, <3>2
  <2> QED
    BY <1>4, <1>6, <1>8, <2>1, <2>2
<1>11. SettingsAt'
  <2>1. Made' = i
    BY <1>2, <1>3 DEF Made
  <2> QED
    BY <1>2, <1>5, <1>8, <1>9, <1>10, <2>1, NextSettings
<1>12. num' \in Nat /\ size' \in Nat /\ processor' \in Programs
  <2>1. script[i].kind \in {"s", "n"} => script[i].arg \in Nat
    BY <1>1, <1>3, ScriptFacts DEF Patterned
  <2>2. num \in Nat /\ size \in Nat /\ processor \in Programs
    BY <1>1 DEF Kept
  <2>3. num' \in Nat
    BY <1>2, <2>1, <2>2, SettingOf
  <2>4. size' \in Nat
    BY <1>2, <2>1, <2>2, SettingOf
  <2>5. processor' \in Programs
    BY <1>2, <1>3, <2>2 DEF Programs
  <2> QED
    BY <2>3, <2>4, <2>5
<1>13. Kept'
  BY <1>1, <1>2, <1>8, <1>12, NextKept, Zenon DEF Kept
<1> QED
  BY <1>11, <1>13

(***************************************************************************)
(* Each step of multilog keeps the invariant.                               *)
(***************************************************************************)

\* What a step keeps that leaves the logs and their settings.
LEMMA SameKept ==
  ASSUME ObeyInv, UNCHANGED <<given, settings, c>>, pc # "init", pc' # "init"
  PROVE  /\ SettingsAt'
         /\ UNCHANGED others /\ flagselected' \in BOOLEAN => Kept'
<1>1. SettingsAt /\ Kept
  BY DEF ObeyInv
<1>2. UNCHANGED <<given, num, size, processor, c>>
  BY DEF settings
<1>3. Made' = Made
  BY <1>2 DEF Made, given
<1>4. SettingsAt'
  BY <1>1, <1>2, <1>3, NextSettings DEF SettingsAt
<1>5. UNCHANGED others /\ flagselected' \in BOOLEAN => Kept'
  BY <1>1, <1>2, NextKept DEF Kept, others
<1> QED
  BY <1>4, <1>5

\* What a step keeps that writes to the logs, to stderr or to a status file.
LEMMA WrittenKept ==
  ASSUME ObeyInv, UNCHANGED <<given, settings, flagselected>>,
         c' \in Seq(Log), status' \in [Of("=") -> Seq(Bytes)],
         err' \in Seq(Seq(Bytes) \X {"...", ""})
  PROVE  Kept'
<1>1. UNCHANGED <<given, num, size, processor, flagselected>> /\ Kept
  BY DEF settings, ObeyInv
<1> QED
  BY <1>1, NextKept DEF Kept

\* Where multilog is.
LEMMA PlacesStep ==
  ASSUME ObeyInv, [Next]_vars
  PROVE  Places'
<1>1. Places /\ Len(script) \in Nat /\ i \in Nat /\ i > 0
  BY ScriptFacts DEF ObeyInv, SelectionInv, Counted
<1>2. script' = script
  BY DEF Next, vars, given, Prepare, Prepared, GetByte, NoByte, CallMatch,
         InMatch, Matched, Skip, ToStderr, ToStatus, ToLog, PutLine, LongByte,
         EndLine, Passed
<1>3. CASE Prepare
  BY <1>1, <1>2, <1>3 DEF Prepare, Places
<1>4. CASE Prepared
  BY <1>1, <1>2, <1>4 DEF Prepared, Places
<1>5. CASE GetByte
  <2>1. pc = "get" /\ (UNCHANGED <<pc, i>> \/ (pc' = "act" /\ i' = 1))
    BY <1>5 DEF GetByte, Look
  <2> QED
    BY <1>1, <1>2, <2>1 DEF Places
<1>6. CASE NoByte
  <2>1. (pc' = "done" /\ i' = i) \/ (pc' = "act" /\ i' = 1)
    BY <1>6 DEF NoByte, Look
  <2> QED
    BY <1>1, <1>2, <2>1 DEF Places
<1>7. CASE CallMatch
  BY <1>1, <1>2, <1>7 DEF CallMatch, Action, Places
<1>8. CASE InMatch \/ UNCHANGED vars
  <2>1. UNCHANGED <<pc, i>>
    BY <1>8 DEF InMatch, vars
  <2> QED
    BY <1>1, <1>2, <2>1 DEF Places
<1>9. CASE Matched \/ Skip \/ ToStderr \/ ToStatus \/ ToLog
  <2>1. pc' = "act" /\ i' = i + 1 /\ i =< Len(script)
    BY <1>1, <1>9 DEF Matched, Skip, ToStderr, ToStatus, ToLog, Action, Passed,
                      Places
  <2> QED
    BY <1>1, <1>2, <2>1 DEF Places
<1>10. CASE PutLine
  BY <1>1, <1>2, <1>10 DEF PutLine, Places
<1>11. CASE LongByte
  <2>1. pc = "long" /\ pc' \in {"long", "end"} /\ i' = i
    BY <1>11 DEF LongByte
  <2> QED
    BY <1>1, <1>2, <2>1 DEF Places
<1>12. CASE EndLine
  <2>1. pc' \in {"get", "done"} /\ i' = i
    BY <1>12 DEF EndLine
  <2> QED
    BY <1>1, <1>2, <2>1 DEF Places
<1> QED
  BY <1>3, <1>4, <1>5, <1>6, <1>7, <1>8, <1>9, <1>10, <1>11, <1>12 DEF Next

\* What the steps need of the invariant.
LEMMA ObeyContext ==
  ASSUME ObeyInv, NEW s \in Nat, At(s)
  PROVE  /\ Texted /\ Patterned /\ LineHeld /\ Places /\ Kept /\ SettingsAt
         /\ Position(s) /\ LineRight(s) /\ Choice(s) /\ LogsAt(s)
         /\ StatusAt(s) /\ ErrAt(s) /\ i \in Nat
         /\ flagselected \in BOOLEAN /\ c \in Seq(Log)
         /\ status \in [Of("=") -> Seq(Bytes)]
         /\ err \in Seq(Seq(Bytes) \X {"...", ""})
BY DEF ObeyInv, SelectionInv, LineHeld, Texted, Counted, Kept, At

\* c_init() prepares the logs.
LEMMA InitSteps ==
  ASSUME ObeyInv, NEW s \in Nat, At(s), Prepare \/ Prepared
  PROVE  At(s)' /\ Kept' /\ SettingsAt'
<1>1. /\ UNCHANGED <<given, status, err, got, line, linelen, flageof>>
      /\ flagselected' = flagselected
      /\ pc = "init" /\ pc' \in {"init", "get"}
  BY DEF Prepare, Prepared, others, held
<1>2. Position(s)' /\ LineRight(s)'
  <2>1. pc' = pc \/ (pc = "init" /\ pc' = "get")
    BY <1>1
  <2> QED
    BY <1>1, <2>1, ObeyContext, ReadingKept
<1>3. Choice(s)'
  BY <1>1, NoChoice DEF Working
<1>4. StatusAt(s)' /\ ErrAt(s)'
  <2>1. Reached' = Reached
    BY <1>1 DEF Reached, Working
  <2> QED
    BY <1>1, <2>1, ObeyContext, SameOutput
<1>5. CASE Prepare
  <2>1. pc' = "init"
    BY <1>5, <1>1 DEF Prepare
  <2>2. LogsAt(s)'
    BY <1>1, <2>1, NextOutput
  <2>3. SettingsAt' /\ Kept'
    BY <1>5, PrepareKept
  <2> QED
    BY <1>2, <1>3, <1>4, <2>2, <2>3 DEF At
<1>6. CASE Prepared
  <2>1. LogsAt(s)'
    BY <1>6, PreparedLogs
  <2>2. UNCHANGED <<num, size, processor, c>> /\ pc' = "get" /\ i > Len(script)
    BY <1>6 DEF Prepared, settings
  <2>3. Made' = Made
    <3>1. Len(script) \in Nat /\ i \in 1..(Len(script) + 1)
      BY ObeyContext, ScriptFacts DEF Places
    <3> QED
      BY <1>1, <2>2, <3>1 DEF Made, given
  <2>4. SettingsAt'
    BY <1>1, <2>2, <2>3, ObeyContext, NextSettings DEF SettingsAt
  <2>5. Kept'
    BY <1>1, <2>2, ObeyContext, NextKept DEF Kept
  <2> QED
    BY <1>2, <1>3, <1>4, <2>1, <2>4, <2>5 DEF At
<1> QED
  BY <1>5, <1>6

\* doit() reads a line.
LEMMA GetSteps ==
  ASSUME ObeyInv, NEW s \in Nat, At(s), GetByte \/ NoByte
  PROVE  At(s)' /\ Kept' /\ SettingsAt'
<1>1. /\ UNCHANGED <<given, settings, c, others>> /\ pc = "get"
      /\ \/ Look
         \/ pc' \in {"get", "done"} /\ flagselected' = flagselected
  BY DEF GetByte, NoByte
<1>2. pc' \in {"get", "act", "done"} /\ (pc' = "act" => i' = 1)
  BY <1>1 DEF Look
<1>3. Position(s)' /\ LineRight(s)'
  BY ObeyContext, GetByteReading, NoByteReading
<1>4. Choice(s)'
  <2>1. CASE Look
    BY <1>1, <2>1, ObeyContext, LookChoice
  <2>2. CASE pc' \in {"get", "done"}
    BY <1>1, <2>2, NoChoice DEF Working
  <2> QED
    BY <1>1, <2>1, <2>2
<1>5. LogsAt(s)'
  BY <1>1, <1>2, QuietLogs
<1>6. StatusAt(s)' /\ ErrAt(s)'
  <2>1. Reached' = Reached
    BY <1>1, <1>2 DEF Reached, Working
  <2> QED
    BY <1>1, <2>1, ObeyContext, SameOutput DEF others
<1>7. flagselected' \in BOOLEAN
  BY <1>1, ObeyContext, Zenon DEF Look
<1>8. SettingsAt' /\ Kept'
  BY <1>1, <1>2, <1>7, SameKept
<1> QED
  BY <1>3, <1>4, <1>5, <1>6, <1>8 DEF At

\* match() is called, or an action has nothing to do.
LEMMA MatchSteps ==
  ASSUME ObeyInv, NEW s \in Nat, At(s),
         CallMatch \/ InMatch \/ Matched \/ Skip
  PROVE  At(s)' /\ Kept' /\ SettingsAt'
<1>1. /\ UNCHANGED <<given, settings, c, others, got, line, linelen, flageof>>
      /\ pc \in {"act", "match"} /\ pc' \in {"act", "match"}
  BY DEF CallMatch, InMatch, Matched, Skip, Action, Passed, held
<1>2. Position(s)' /\ LineRight(s)'
  BY <1>1, ObeyContext, ReadingKept
<1>3. Choice(s)'
  BY MatchChoice, OutputChoice
<1>4. LogsAt(s)'
  BY <1>1, QuietLogs
<1>5. StatusAt(s)' /\ ErrAt(s)'
  <2>1. UNCHANGED <<given, status, err>>
    BY <1>1 DEF others
  <2>2. CASE CallMatch \/ InMatch
    <3>1. Reached' = Reached
      BY <1>1, <2>2 DEF CallMatch, InMatch, Reached, Working
    <3> QED
      BY <2>1, <3>1, ObeyContext, SameOutput
  <2>3. CASE Matched \/ Skip
    <3>1. /\ i' = i + 1 /\ pc' = "act" /\ i =< Len(script)
          /\ script[i].kind \in {"+", "-", "t", "s", "n", "!"}
      <4>1. CASE Matched
        <5>1. /\ pc = "match" /\ i' = i + 1 /\ pc' = "act"
          BY <4>1 DEF Matched
        <5>2. i =< Len(script) /\ script[i].kind \in {"+", "-"}
          BY <5>1, ObeyContext DEF Places, Choice
        <5> QED
          BY <5>1, <5>2
      <4>2. CASE Skip
        BY <4>2 DEF Skip, Action, Passed
      <4> QED
        BY <2>3, <4>1, <4>2
    <3>2. i \notin Of("=") /\ i \notin Of("e")
      BY <3>1 DEF Of
    <3> QED
      BY <1>1, <2>1, <3>1, <3>2, PassedStatus, PassedErr
  <2> QED
    BY <2>2, <2>3
<1>6. flagselected' \in BOOLEAN
  <2>1. flagselected' \in {flagselected, ~flagselected}
    BY DEF CallMatch, InMatch, Matched, Skip, Passed
  <2> QED
    BY <2>1, ObeyContext, Zenon
<1>7. SettingsAt' /\ Kept'
  BY <1>1, <1>6, SameKept
<1> QED
  BY <1>2, <1>3, <1>4, <1>5, <1>7 DEF At

\* An action of the script gives the line away.
LEMMA OutputSteps ==
  ASSUME ObeyInv, NEW s \in Nat, At(s), ToStderr \/ ToStatus \/ ToLog
  PROVE  At(s)' /\ Kept' /\ SettingsAt'
<1>1. /\ UNCHANGED <<given, settings, got, line, linelen, flageof,
                     flagselected>>
      /\ pc = "act" /\ pc' = "act" /\ i =< Len(script) /\ i' = i + 1
  BY DEF ToStderr, ToStatus, ToLog, Action, Passed, held
<1>2. Position(s)' /\ LineRight(s)'
  BY <1>1, ObeyContext, ReadingKept
<1>3. CASE ToStderr
  <2>1. UNCHANGED <<c, status>>
    BY <1>3 DEF ToStderr
  <2>2. Choice(s)' /\ LogsAt(s)'
    BY <1>1, <1>3, <2>1, OutputChoice, QuietLogs
  <2>3. /\ StatusAt(s)' /\ ErrAt(s)'
        /\ err' \in Seq(Seq(Bytes) \X {"...", ""})
    BY <1>3, ToStderrOutput
  <2>4. Kept'
    BY <1>1, <2>1, <2>3, ObeyContext, WrittenKept
  <2>5. SettingsAt'
    BY <1>1, <2>1, SameKept
  <2> QED
    BY <1>2, <2>2, <2>3, <2>4, <2>5 DEF At
<1>4. CASE ToStatus
  <2>1. UNCHANGED <<c, err>>
    BY <1>4 DEF ToStatus
  <2>2. Choice(s)' /\ LogsAt(s)'
    BY <1>1, <1>4, <2>1, OutputChoice, QuietLogs
  <2>3. /\ StatusAt(s)' /\ ErrAt(s)'
        /\ status' \in [Of("=") -> Seq(Bytes)]
    BY <1>4, ToStatusOutput
  <2>4. Kept'
    BY <1>1, <2>1, <2>3, ObeyContext, WrittenKept
  <2>5. SettingsAt'
    BY <1>1, <2>1, SameKept
  <2> QED
    BY <1>2, <2>2, <2>3, <2>4, <2>5 DEF At
<1>5. CASE ToLog
  <2>1. UNCHANGED <<status, err>> /\ script[i].kind = "dir"
    BY <1>5 DEF ToLog, Action, others
  <2>2. Choice(s)' /\ LogsAt(s)' /\ SettingsAt' /\ c' \in Seq(Log)
    BY <1>5, ToLogLogs
  <2>3. i \notin Of("=") /\ i \notin Of("e")
    BY <2>1 DEF Of
  <2>4. StatusAt(s)' /\ ErrAt(s)'
    BY <1>1, <2>1, <2>3, PassedStatus, PassedErr
  <2>5. Kept'
    BY <1>1, <2>1, <2>2, ObeyContext, WrittenKept
  <2> QED
    BY <1>2, <2>2, <2>4, <2>5 DEF At
<1> QED
  BY <1>3, <1>4, <1>5

\* The line goes to the logs.
LEMMA PutSteps ==
  ASSUME ObeyInv, NEW s \in Nat, At(s), PutLine \/ LongByte
  PROVE  At(s)' /\ Kept' /\ SettingsAt'
<1>1. /\ UNCHANGED <<given, i, settings, status, err, flagselected>>
      /\ pc \in {"act", "long"} /\ pc' \in {"long", "end"}
  BY DEF PutLine, LongByte, others
<1>2. Position(s)' /\ LineRight(s)'
  BY ObeyContext, PutLineReading, LongByteReading
<1>3. Choice(s)' /\ LogsAt(s)' /\ SettingsAt' /\ c' \in Seq(Log)
  BY PutLineLogs, LongByteLogs
<1>4. StatusAt(s)' /\ ErrAt(s)'
  <2>1. Reached' = Reached
    BY <1>1 DEF Reached, Working
  <2> QED
    BY <1>1, <2>1, ObeyContext, SameOutput
<1>5. Kept'
  BY <1>1, <1>3, ObeyContext, WrittenKept
<1> QED
  BY <1>2, <1>3, <1>4, <1>5 DEF At

\* The line ends.
LEMMA EndLineStep ==
  ASSUME ObeyInv, NEW s \in Nat, At(s), EndLine
  PROVE  (\E n \in Nat : At(n)') /\ Kept' /\ SettingsAt'
<1>1. UNCHANGED <<given, settings, status, err, flagselected>> /\ pc = "end"
  BY DEF EndLine, others
<1>2. s \in Starts /\ Texted
  BY <1>1, PutContext
<1>3. PICK n \in Nat : n = NextLine(s)
  BY <1>2, NextFacts, TextFacts
<1>4. Position(n)' /\ LineRight(n)'
  BY <1>3, ObeyContext, EndLineReading
<1>5. Choice(n)' /\ LogsAt(n)' /\ SettingsAt' /\ c' \in Seq(Log)
  BY <1>3, EndLineLogs
<1>6. StatusAt(n)' /\ ErrAt(n)'
  BY <1>3, EndLineOutput
<1>7. Kept'
  BY <1>1, <1>5, ObeyContext, WrittenKept
<1>8. At(n)'
  BY <1>4, <1>5, <1>6 DEF At
<1> QED
  BY <1>5, <1>7, <1>8

\* Nothing changes.
LEMMA NoStep ==
  ASSUME ObeyInv, NEW s \in Nat, At(s), UNCHANGED vars
  PROVE  At(s)' /\ Kept' /\ SettingsAt'
<1>1. UNCHANGED <<given, pc, i, num, size, processor, c, status, err, got, line,
                  linelen, flagselected, flageof, pattern, buf>>
  BY DEF vars, settings, others, held, match
<1>2. Position(s)' /\ LineRight(s)'
  BY <1>1, ObeyContext, ReadingKept
<1>3. Choice(s)'
  BY <1>1, ObeyContext, NextChoice DEF Choice, Working
<1>4. LogsAt(s)'
  <2>1. CASE pc = "init"
    BY <1>1, <2>1, NextOutput
  <2>2. CASE pc # "init"
    <3>1. Sent(s)' = Sent(s)
      BY <1>1, SameGiven DEF Sent
    <3> QED
      BY <1>1, <2>2, <3>1, ObeyContext, SameLogs
  <2> QED
    BY <2>1, <2>2
<1>5. StatusAt(s)' /\ ErrAt(s)'
  <2>1. Reached' = Reached
    BY <1>1 DEF Reached, Working
  <2> QED
    BY <1>1, <2>1, ObeyContext, SameOutput
<1>6. Kept'
  BY <1>1, ObeyContext, NextKept DEF Kept
<1>7. SettingsAt'
  <2>1. Made' = Made
    BY <1>1 DEF Made, given
  <2> QED
    BY <1>1, <2>1, ObeyContext, NextSettings DEF SettingsAt
<1> QED
  BY <1>2, <1>3, <1>4, <1>5, <1>6, <1>7 DEF At

\* Whatever multilog does, it stays at some line with all that is due by then.
LEMMA ObeyStep ==
  ASSUME ObeyInv, [Next]_vars
  PROVE  ObeyInv'
<1>1. PICK s \in Nat : At(s)
  BY DEF ObeyInv
<1>2. SelectionInv'
  BY StepInv DEF ObeyInv
<1>3. Places'
  BY PlacesStep
<1>4. (\E n \in Nat : At(n)') /\ Kept' /\ SettingsAt'
  BY <1>1, InitSteps, GetSteps, MatchSteps, OutputSteps, PutSteps, EndLineStep,
     NoStep DEF Next
<1> QED
  BY <1>2, <1>3, <1>4 DEF ObeyInv

(***************************************************************************)
(* At the beginning, and at the end.                                        *)
(***************************************************************************)

\* Nothing comes before the first action of the first line.
LEMMA NothingGiven ==
  ASSUME Texted, Patterned
  PROVE  /\ \A k \in 1..Len(script) : Given(k, 1, 1) = {}
         /\ Said(1, 1) = {}
<1>1. \A s \in Starts : s \in Nat /\ s >= 1
  <2>1. Len(text) \in Nat
    BY TextFacts
  <2> QED
    BY <2>1, EndFacts
<1>2. \A s \in Starts, k \in 1..Len(script) : ~Sooner(s, k, 1, 1)
  BY <1>1, ScriptFacts DEF Sooner
<1>3. Share(1) \subseteq Starts /\ \A k : Share(k) \subseteq Starts
  BY Numbers
<1>4. Of("e") \subseteq 1..Len(script)
  BY ScriptFacts
<1>5. \A k \in 1..Len(script) : Given(k, 1, 1) = {}
  BY <1>2, <1>3 DEF Given
<1>6. Said(1, 1) = {}
  BY <1>2, <1>4 DEF Said
<1> QED
  BY <1>5, <1>6

\* multilog begins before the first line.
LEMMA ObeyInit ==
  ASSUME Init
  PROVE  ObeyInv
<1>1. SelectionInv
  BY InitInv
<1>2. Texted /\ Patterned /\ Len(text) \in Nat /\ Len(script) \in Nat
  <2>1. Texted /\ Patterned
    BY <1>1 DEF SelectionInv, LineHeld, Texted
  <2> QED
    BY <2>1, TextFacts, ScriptFacts
<1>3. /\ pc = "init" /\ i = 1
      /\ num = DefaultNum /\ size = DefaultSize /\ processor = "none"
      /\ c = <<>> /\ err = <<>> /\ status = Files
      /\ got = 0 /\ line = Blank /\ linelen = 0
      /\ flagselected = FALSE /\ flageof = FALSE
  BY DEF Init
<1>4. Places
  BY <1>2, <1>3 DEF Places
<1>5. Files = [k \in Of("=") |-> <<>>]
  BY DEF Files, Of
<1>6. Kept
  <2>1. c \in Seq(Log) /\ err \in Seq(Seq(Bytes) \X {"...", ""})
    BY <1>3, EmptySeq
  <2>2. status \in [Of("=") -> Seq(Bytes)]
    <3>1. <<>> \in Seq(Bytes)
      BY EmptySeq
    <3> QED
      BY <1>3, <1>5, <3>1
  <2>3. num \in Nat /\ size \in Nat /\ processor \in Programs
    BY <1>3, SelectionAssumption DEF Programs
  <2>4. flagselected \in BOOLEAN
    BY <1>3
  <2> QED
    BY <2>1, <2>2, <2>3, <2>4 DEF Kept
<1>7. SettingsAt
  <2>1. Settings(i, num, size, processor)
    <3>1. \A kind, default : Before(1, kind, default) = default
      BY <1>2, BeforeFirst
    <3>2. /\ {MinNum, DefaultNum, MinSize, MaxSize, DefaultSize} \subseteq Nat
          /\ MinNum =< DefaultNum
          /\ MinSize =< DefaultSize /\ DefaultSize =< MaxSize
      BY SelectionAssumption
    <3>3. Max({MinNum, DefaultNum}) = DefaultNum
      <4>1. Max({MinNum, DefaultNum}) =
              IF MinNum =< DefaultNum THEN DefaultNum ELSE MinNum
        <5>1. MinNum \in Int /\ DefaultNum \in Int
          BY <3>2
        <5> QED
          BY <5>1, OfTwo, Zenon
      <4> QED
        BY <3>2, <4>1
    <3>4. Max({MinSize, DefaultSize}) = DefaultSize
      <4>1. Max({MinSize, DefaultSize}) =
              IF MinSize =< DefaultSize THEN DefaultSize ELSE MinSize
        <5>1. MinSize \in Int /\ DefaultSize \in Int
          BY <3>2
        <5> QED
          BY <5>1, OfTwo, Zenon
      <4> QED
        BY <3>2, <4>1
    <3>5. Min({MaxSize, DefaultSize}) = DefaultSize
      <4>1. Min({MaxSize, DefaultSize}) =
              IF MaxSize =< DefaultSize THEN MaxSize ELSE DefaultSize
        BY <3>2, OfTwo
      <4> QED
        BY <3>2, <4>1
    <3> QED
      BY <1>3, <3>1, <3>3, <3>4, <3>5 DEF Settings
  <2>2. Made = 0
    BY <1>3 DEF Made
  <2>3. Len(c) = Place(Made)
    BY <1>2, <1>3, <2>2, PlaceFacts
  <2>4. ASSUME NEW k \in Of("dir")
        PROVE  ~(k =< Made)
    BY <1>2, <2>2, ScriptFacts
  <2>5. \A j \in DOMAIN c : FALSE
    BY <1>3
  <2> QED
    BY <1>3, <2>1, <2>3, <2>4, <2>5 DEF SettingsAt
<1>8. At(1)
  <2>1. Position(1)
    <3>1. 1 \in Starts \cup {Len(text) + 1}
      <4>1. CASE Len(text) = 0
        BY <4>1
      <4>2. CASE Len(text) # 0
        BY <1>2, <4>2, TextFacts DEF Starts
      <4> QED
        BY <4>1, <4>2
    <3> QED
      BY <1>3, <3>1 DEF Position, Working
  <2>2. LineRight(1)
    <3>1. \A x \in 1..(LineSize + 1) : line[x] = Newline /\ ~(x =< linelen)
      BY <1>3, SelectionAssumption DEF Blank
    <3> QED
      BY <3>1 DEF LineRight
  <2>3. Choice(1)
    BY <1>3 DEF Choice, Working
  <2>4. LogsAt(1)
    BY <1>3 DEF LogsAt
  <2>5. Reached = 1
    BY <1>3 DEF Reached, Working
  <2>6. StatusAt(1)
    <3>1. Of("=") \subseteq 1..Len(script)
      BY <1>2, ScriptFacts
    <3> QED
      BY <1>2, <1>3, <1>5, <2>5, <3>1, NothingGiven DEF StatusAt, StatusHas
  <2>7. ErrAt(1)
    <3>1. Len(err) = 0
      BY <1>3
    <3>2. Cardinality(Said(1, 1)) = 0
      BY <1>2, NothingGiven, FS_EmptySet
    <3> QED
      BY <1>2, <2>5, <3>1, <3>2, NothingGiven DEF ErrAt, ErrHas
  <2> QED
    BY <2>1, <2>2, <2>3, <2>4, <2>6, <2>7 DEF At
<1> QED
  BY <1>1, <1>4, <1>6, <1>7, <1>8 DEF ObeyInv

\* Once all lines have been done, everyone has what the script gives him.
LEMMA ObeyEnd ==
  ASSUME ObeyInv
  PROVE  ScriptObeyed
<1> SUFFICES ASSUME pc = "done"
             PROVE  LogsRight /\ StatusRight /\ ErrRight /\ SettingsRight
  BY DEF ScriptObeyed
<1>1. PICK s \in Nat : At(s)
  BY DEF ObeyInv
<1>2. /\ Texted /\ Patterned /\ SettingsAt /\ Position(s) /\ LogsAt(s)
      /\ StatusAt(s) /\ ErrAt(s)
  BY <1>1, ObeyContext
<1> DEFINE n == Len(text) + 1
<1>3. s = n
  BY <1>2 DEF Position
<1>4. \A t \in Starts : t \in Nat /\ t < n
  <2>1. Len(text) \in Nat
    BY <1>2, TextFacts
  <2> QED
    BY <1>2, <2>1, EndFacts
<1> HIDE DEF n
<1>5. \A k : Share(k) \subseteq Starts
  BY <1>2, Numbers
<1>6. Reached = 1
  BY DEF Reached, Working
<1>7. LogsRight
  <2>1. ASSUME NEW k \in Of("dir")
        PROVE  Holds(c[Place(k)].ss, Share(k), n, 0)
    <3>1. Sent(s) = 0
      BY DEF Sent
    <3> QED
      BY <1>2, <1>3, <3>1 DEF LogsAt
  <2>2. ASSUME NEW k \in Of("dir")
        PROVE  /\ Len(c[Place(k)].ss) = Cardinality(Ahead(Share(k), n))
               /\ \A t \in Share(k) : \A x \in DOMAIN WholeLine(t) :
                    c[Place(k)].ss[Cardinality(Ahead(Share(k), t)) + x] =
                      WholeLine(t)[x]
    <3>1. Cardinality(Ahead(Share(k), n)) \in Nat
      <4>1. n \in Nat
        BY <1>3
      <4> QED
        BY <1>2, <1>5, <4>1, AheadFinite
    <3> QED
      BY <1>4, <1>5, <2>1, <3>1 DEF Holds
  <2> QED
    BY <2>2 DEF LogsRight, n
<1>8. StatusRight
  <2>1. ASSUME NEW k \in Of("=")
        PROVE  Given(k, n, 1) = Share(k)
    BY <1>4, <1>5 DEF Given, Sooner
  <2>2. ASSUME NEW k \in Of("=")
        PROVE  status[k] = IF Share(k) = {} THEN <<>> ELSE Shown(Max(Share(k)))
    BY <1>2, <1>3, <1>6, <2>1 DEF StatusAt, StatusHas
  <2> QED
    BY <2>2 DEF StatusRight, Shown
<1>9. ErrRight
  <2>1. ErrHas(err, n, 1)
    BY <1>2, <1>3, <1>6 DEF ErrAt
  <2>2. ASSUME NEW k \in Of("e"), NEW t \in Share(k)
        PROVE  err[Cardinality(Said(t, k)) + 1] = Told(t)
    <3>1. <<t, k>> \in Said(n, 1)
      <4>1. t \in Starts /\ t < n
        BY <1>4, <1>5
      <4>2. <<t, k>> \in Starts \X Of("e") /\ Sooner(t, k, n, 1)
        BY <4>1 DEF Sooner
      <4> QED
        BY <4>2 DEF Said
    <3> QED
      BY <2>1, <3>1 DEF ErrHas
  <2> QED
    BY <2>1, <2>2 DEF ErrRight, ErrHas, Told, n
<1>10. SettingsRight
  <2>1. Made = Len(script) /\ Len(script) \in Nat
    BY <1>2, ScriptFacts DEF Made
  <2>2. Len(c) = Cardinality(Of("dir"))
    BY <1>2, <2>1, PlaceFacts DEF SettingsAt
  <2>3. ASSUME NEW k \in Of("dir")
        PROVE  Settings(k, c[Place(k)].num, c[Place(k)].size,
                        c[Place(k)].processor)
    <3>1. k \in 1..Len(script)
      BY <1>2, ScriptFacts
    <3>2. k =< Made
      BY <2>1, <3>1
    <3> QED
      BY <1>2, <3>2 DEF SettingsAt
  <2> QED
    BY <2>2, <2>3 DEF SettingsRight, Settings
<1> QED
  BY <1>7, <1>8, <1>9, <1>10

\* Whatever the script, the text and the sizes: once multilog is done, each log,
\* each status file and stderr has the lines that the script selects for it,
\* whole and in their order, and each log the settings that are before it.
THEOREM ScriptIsObeyed == Spec => []ScriptObeyed
<1>1. Init => ObeyInv
  BY ObeyInit
<1>2. ObeyInv /\ [Next]_vars => ObeyInv'
  BY ObeyStep
<1>3. ObeyInv => ScriptObeyed
  BY ObeyEnd
<1> QED
  BY <1>1, <1>2, <1>3, PTL DEF Spec
=============================================================================
