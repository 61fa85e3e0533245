---------------------------- MODULE CWriteProofs ----------------------------
(***************************************************************************)
(* Proofs about CWrite, for every Size and Margin and every way in which     *)
(* write() takes what it is given.                                          *)
(***************************************************************************)
EXTENDS CWrite, SequenceTheorems, TLAPS

\* A newline that current has in its margin was passed by a write() that took
\* less than it was given: another one is still to come, and there is room.
Owed ==
  bytes - col >= Size - Margin =>
    \E i \in 1..Len(chunk) : chunk[i] /\ bytes + i =< Size

IInv == TypeOK /\ Owed /\ WholeLines

\* The initial states satisfy the invariant.
LEMMA InitIInv == Init => IInv
BY CWriteAssumption, SMT DEF Init, IInv, TypeOK, Owed, WholeLines

\* What is left of chunk when w bytes are taken.
LEMMA Rest ==
  ASSUME NEW s \in Seq(BOOLEAN), NEW w \in 1..Len(s)
  PROVE  LET r == SubSeq(s, w + 1, Len(s)) IN
         /\ r \in Seq(BOOLEAN)
         /\ Len(r) = Len(s) - w
         /\ \A j \in 1..(Len(s) - w) : r[j] = s[w + j]
<1> DEFINE r == SubSeq(s, w + 1, Len(s))
<1>1. Len(s) \in Nat
  BY LenProperties
<1>2. w + 1 \in 1..(Len(s) + 1) /\ Len(s) \in w..Len(s)
  BY <1>1
<1>3. /\ r \in Seq(BOOLEAN)
      /\ Len(r) = Len(s) - w
      /\ \A j \in 1..(Len(s) - w) : r[j] = s[w + j]
  BY <1>1, <1>2, SMT
<1> QED
  BY <1>3

\* write() takes something, and no more than there is and has room.
LEMMA CutBounds ==
  ASSUME TypeOK, chunk # <<>>, bytes < Size, NEW i \in 0..Room
  PROVE  /\ Room \in 1..Len(chunk) /\ bytes + Room =< Size
         /\ Cut(i) \in 1..Room
<1>1. Len(chunk) \in Nat \ {0}
  BY SMT DEF TypeOK
<1> QED
  BY <1>1, CWriteAssumption, SMT DEF TypeOK, Room, Cut

LEMMA WriteStep ==
  ASSUME IInv, Write
  PROVE  IInv'
<1>1. PICK i \in 0..Room :
        /\ LastNewline(Room, i)
        /\ \E w \in 1..Cut(i) :
             /\ chunk' = SubSeq(chunk, w + 1, Len(chunk))
             /\ IF bytes + w >= Size - Margin /\ chunk[w]
                THEN bytes' = 0 /\ col' = 0
                ELSE /\ bytes' = bytes + w
                     /\ \E k \in 0..w :
                          /\ LastNewline(w, k)
                          /\ col' = IF k = 0 THEN col + w ELSE w - k
  BY DEF Write
<1>2. PICK w \in 1..Cut(i) :
        /\ chunk' = SubSeq(chunk, w + 1, Len(chunk))
        /\ IF bytes + w >= Size - Margin /\ chunk[w]
           THEN bytes' = 0 /\ col' = 0
           ELSE /\ bytes' = bytes + w
                /\ \E k \in 0..w :
                     /\ LastNewline(w, k)
                     /\ col' = IF k = 0 THEN col + w ELSE w - k
  BY <1>1
<1>3. /\ chunk # <<>> /\ bytes < Size /\ torn' = torn
      /\ TypeOK /\ Owed /\ WholeLines
  BY DEF Write, IInv
<1>4. /\ Room \in 1..Len(chunk) /\ bytes + Room =< Size
      /\ Cut(i) \in 1..Room
  BY <1>3, CutBounds
<1>5. chunk \in Seq(BOOLEAN) /\ Len(chunk) \in Nat /\ w \in 1..Len(chunk)
  BY <1>3, <1>4, SMT DEF TypeOK
<1>6. /\ chunk' \in Seq(BOOLEAN)
      /\ Len(chunk') = Len(chunk) - w
      /\ \A j \in 1..(Len(chunk) - w) : chunk'[j] = chunk[w + j]
  BY <1>2, <1>5, Rest
<1>7. WholeLines'
  BY <1>3 DEF WholeLines
<1>8. CASE bytes + w >= Size - Margin /\ chunk[w]
  <2>1. bytes' = 0 /\ col' = 0
    BY <1>2, <1>8
  <2> QED
    BY <2>1, <1>3, <1>6, <1>7, CWriteAssumption, SMT DEF IInv, TypeOK, Owed
<1>9. CASE ~(bytes + w >= Size - Margin /\ chunk[w])
  <2>1. PICK k \in 0..w : /\ LastNewline(w, k)
                          /\ col' = IF k = 0 THEN col + w ELSE w - k
    BY <1>2, <1>9
  <2>2. bytes' = bytes + w
    BY <1>2, <1>9
  <2>3. TypeOK'
    BY <2>1, <2>2, <1>3, <1>4, <1>5, <1>6, CWriteAssumption, SMT DEF TypeOK
  <2>4. ASSUME bytes' - col' >= Size - Margin
        PROVE  \E j \in 1..Len(chunk) : j > w /\ chunk[j] /\ bytes + j =< Size
    <3>1. CASE k = 0
      <4>1. bytes - col >= Size - Margin
        BY <3>1, <2>1, <2>2, <2>4, <1>3, <1>5, CWriteAssumption, SMT DEF TypeOK
      <4>2. PICK j \in 1..Len(chunk) : chunk[j] /\ bytes + j =< Size
        BY <4>1, <1>3 DEF Owed
      <4>3. j > w
        BY <4>2, <3>1, <2>1, <1>5, SMT DEF LastNewline
      <4> QED
        BY <4>2, <4>3
    <3>2. CASE k # 0
      <4>1. chunk[k] /\ bytes + k >= Size - Margin
        BY <3>2, <2>1, <2>2, <2>4, <1>3, <1>5, CWriteAssumption, SMT
           DEF LastNewline, TypeOK
      <4>2. i # 0 /\ chunk[i]
        BY <4>1, <3>2, <2>1, <1>1, <1>4, <1>5, SMT DEF LastNewline
      <4>3. Cut(i) = i
        BY <4>1, <4>2, <3>2, <1>3, <1>4, <1>5, CWriteAssumption, SMT
           DEF Cut, TypeOK
      <4>4. i # w
        BY <4>1, <4>2, <1>9, <1>3, <1>5, CWriteAssumption, SMT DEF TypeOK
      <4>5. i \in 1..Len(chunk) /\ i > w /\ bytes + i =< Size
        BY <4>2, <4>3, <4>4, <1>3, <1>4, <1>5, CWriteAssumption, SMT DEF TypeOK
      <4> QED
        BY <4>2, <4>5
    <3> QED
      BY <3>1, <3>2
  <2>5. Owed'
    <3>1. SUFFICES ASSUME bytes' - col' >= Size - Margin
                   PROVE  \E m \in 1..Len(chunk') :
                            chunk'[m] /\ bytes' + m =< Size
      BY DEF Owed
    <3>2. PICK j \in 1..Len(chunk) : j > w /\ chunk[j] /\ bytes + j =< Size
      BY <2>4, <3>1
    <3>3. j - w \in 1..(Len(chunk) - w) /\ w + (j - w) = j
      BY <3>2, <1>5, SMT
    <3>4. j - w \in 1..Len(chunk') /\ chunk'[j - w] = chunk[j]
      BY <3>3, <1>6
    <3>5. bytes' + (j - w) =< Size
      BY <3>2, <2>2, <1>3, <1>5, CWriteAssumption, SMT DEF TypeOK
    <3> QED
      BY <3>2, <3>4, <3>5
  <2> QED
    BY <2>3, <2>5, <1>7 DEF IInv
<1> QED
  BY <1>8, <1>9

\* Every step keeps the invariant.
LEMMA StepIInv == IInv /\ [Next]_vars => IInv'
<1> SUFFICES ASSUME IInv, [Next]_vars PROVE IInv'
  OBVIOUS
<1> USE CWriteAssumption DEF IInv
<1>1. CASE Call
  <2>1. /\ \A i \in 1..Len(chunk) : FALSE
        /\ bytes' = bytes /\ col' = col /\ torn' = torn
    BY <1>1, SMT DEF Call
  <2>2. chunk' \in Seq(BOOLEAN)
    BY <1>1, SMT DEF Call
  <2>3. ~(bytes - col >= Size - Margin)
    BY <2>1 DEF Owed
  <2> QED
    BY <2>1, <2>2, <2>3, SMT DEF TypeOK, Owed, WholeLines
<1>2. CASE Full
  <2>1. /\ chunk' = chunk /\ bytes' = 0 /\ col' = 0 /\ torn' = col
        /\ bytes = Size
    BY <1>2, SMT DEF Full, TypeOK
  <2>2. ~\E i \in 1..Len(chunk) : bytes + i =< Size
    BY <2>1, SMT DEF TypeOK
  <2>3. col > Margin
    BY <2>1, <2>2, SMT DEF Owed, TypeOK
  <2> QED
    BY <2>1, <2>3, SMT DEF TypeOK, Owed, WholeLines
<1>3. CASE Write
  BY <1>3, WriteStep
<1>4. CASE ForceRotate
  BY <1>4, SMT DEF ForceRotate, TypeOK, Owed, WholeLines
<1>5. CASE UNCHANGED vars
  BY <1>5 DEF vars, TypeOK, Owed, WholeLines
<1> QED
  BY <1>1, <1>2, <1>3, <1>4, <1>5 DEF Next

\* The invariant holds throughout.
LEMMA Invariant == Spec => []IInv
BY InitIInv, StepIInv, PTL DEF Spec

\* c_write() (multilog.c:280) never lets current have more than Size bytes.
THEOREM FileBounded == Spec => []TypeOK
<1>1. IInv => TypeOK
  BY DEF IInv
<1> QED
  BY Invariant, <1>1, PTL

\* A full current is rotated in the middle of a line only if more than Margin
\* bytes of that line are in it (multilog.c:283-298), also when write() takes
\* less than it is given.
THEOREM LinesAreWhole == Spec => []WholeLines
<1>1. IInv => WholeLines
  BY DEF IInv
<1> QED
  BY Invariant, <1>1, PTL
=============================================================================
