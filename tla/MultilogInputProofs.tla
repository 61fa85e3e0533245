------------------------- MODULE MultilogInputProofs -------------------------
(***************************************************************************)
(* Proofs about MultilogInput, for any text, any signals and any sizes of    *)
(* the buffers.                                                            *)
(***************************************************************************)
EXTENDS MultilogInput, TLAPS

\* AtLineEnd, and a place at which the text t may be cut.
End(t, k) == k = 0 \/ t[k]

Cut(t, k) == \/ End(t, k)
             \/ k >= LineSize /\ \A j \in 0..(LineSize - 1) : ~End(t, k - j)

Ended == pc \in {"quit", "done"}

\* The bytes that linelen counts are the last ones of a line.
Line ==
  ~Ended =>
    /\ linelen =< got
    /\ \A j \in 0..(linelen - 1) : ~End(text, got - j)
    /\ linelen < LineSize => End(text, got - linelen)
    /\ put = IF linelen < LineSize THEN got - linelen ELSE got

\* In these steps nothing is left in a buffer.
Emptied ==
  /\ pc # "get" => got = taken
  /\ pc \in {"rotate", "ask", "unblocked", "read", "end"} => written = put

\* flagnewline is about the last byte that was read, and multilog ends after a
\* newline or at the end of the input.
Newline == flagnewline <=> End(text, taken)

Leaving ==
  pc \in {"end", "quit", "done"} =>
    End(text, taken) \/ (closed /\ taken = Len(text))

Quitting ==
  /\ Ended => put = taken
  /\ pc = "done" => written = put

IInv == /\ TypeOK /\ Line /\ Emptied /\ Newline /\ Leaving /\ Quitting
        /\ Cut(text, rotated)

LEMMA InitIInv == Init => IInv
<1> SUFFICES ASSUME Init PROVE IInv
  OBVIOUS
<1> USE InputAssumption DEF Init
<1>1. TypeOK
  <2>1. text \in Seq(BOOLEAN) /\ Len(text) = 0
    OBVIOUS
  <2>2. raised \in 0..MaxSignal /\ linelen \in 0..LineSize
    OBVIOUS
  <2>3. /\ {closed, term, alrm} \subseteq BOOLEAN
        /\ {flagexitasap, flagforcerotate, flagnewline} \subseteq BOOLEAN
    BY Zenon
  <2>4. /\ {taken, got, put, written, rotated} \subseteq Nat
        /\ rotated =< written /\ written =< put /\ put =< got
        /\ got =< taken /\ taken =< Len(text)
    BY <2>1
  <2> QED
    BY <2>1, <2>2, <2>3, <2>4, Zenon DEF TypeOK
<1>2. Line /\ Emptied /\ Newline /\ Leaving /\ Quitting /\ Cut(text, rotated)
  BY SMT DEF Line, Ended, Emptied, Newline, Leaving, Quitting, Cut, End
<1> QED
  BY <1>1, <1>2 DEF IInv

(***************************************************************************)
(* What is in text stays there.                                            *)
(***************************************************************************)

LEMMA LongerText ==
  ASSUME NEW t \in Seq(BOOLEAN), NEW c \in BOOLEAN, NEW k \in 0..Len(t)
  PROVE  /\ End(Append(t, c), k) <=> End(t, k)
         /\ Cut(t, k) => Cut(Append(t, c), k)
<1>1. \A i \in 0..Len(t) : End(Append(t, c), i) <=> End(t, i)
  BY SMT DEF End
<1>2. k >= LineSize => \A j \in 0..(LineSize - 1) : k - j \in 0..Len(t)
  BY InputAssumption, SMT
<1> QED
  BY <1>1, <1>2, Zenon DEF Cut

(***************************************************************************)
(* Types.                                                                  *)
(***************************************************************************)

Flags ==
  /\ {closed, term, alrm} \subseteq BOOLEAN
  /\ {flagexitasap, flagforcerotate, flagnewline} \subseteq BOOLEAN
  /\ pc \in {"get", "flush", "rotate", "ask", "unblocked", "read", "end",
             "quit", "done"}

Counts ==
  /\ text \in Seq(BOOLEAN)
  /\ {taken, got, put, written, rotated} \subseteq Nat
  /\ rotated =< written /\ written =< put /\ put =< got
  /\ got =< taken /\ taken =< Len(text)
  /\ raised \in 0..MaxSignal /\ linelen \in 0..LineSize /\ limit \in {1, InSize}

LEMMA Types == TypeOK <=> Flags /\ Counts
BY Zenon DEF TypeOK, Flags, Counts

LEMMA FlagsStep == TypeOK /\ [Next]_vars => Flags'
<1> SUFFICES ASSUME Flags, Counts, [Next]_vars PROVE Flags'
  BY Types
<1> USE DEF Flags, signals, pipe, input, output, asked
<1>1. CASE GetByte \/ NeedBytes \/ Flush \/ ForceRotate \/ Ask
  BY <1>1, Zenon DEF GetByte, NeedBytes, Flush, ForceRotate, Ask
<1>2. CASE HandleEarly \/ EnterRead \/ HandleInRead \/ ReadEof
  BY <1>2, Zenon
  DEF HandleEarly, EnterRead, HandleInRead, ReadEof, Delivered, Interrupted
<1>3. CASE Read
  <2>1. taken' \in 1..Len(text)
    BY <1>3, InputAssumption, SMT DEF Read, Available, Counts
  <2>2. flagnewline' \in BOOLEAN
    BY <1>3, <2>1, SMT DEF Read, Counts
  <2> QED
    BY <1>3, <2>2, Zenon DEF Read
<1>4. CASE LastLine \/ Quit \/ Type \/ Close \/ Send
  BY <1>4, Zenon DEF LastLine, Quit, Type, Close, Send
<1>5. CASE UNCHANGED vars
  BY <1>5, Zenon DEF vars
<1> QED
  BY <1>1, <1>2, <1>3, <1>4, <1>5 DEF Next, Program

LEMMA CountsStep == TypeOK /\ [Next]_vars => Counts'
<1> SUFFICES ASSUME Flags, Counts, [Next]_vars PROVE Counts'
  BY Types
<1> USE InputAssumption DEF Counts, signals, pipe, input, output, asked
<1>1. CASE GetByte
  <2>1. UNCHANGED <<text, taken, limit, rotated, raised>> /\ got' = got + 1
    BY <1>1 DEF GetByte
  <2>2. linelen' \in 0..LineSize
    BY <1>1, SMT DEF GetByte, Held
  <2>3. \/ UNCHANGED <<put, written>>
        \/ put' = got' /\ written' \in written..got'
    BY <1>1, Zenon DEF GetByte, Put
  <2>4. got < taken
    BY <1>1 DEF GetByte
  <2> QED
    BY <2>1, <2>2, <2>3, <2>4
<1>2. CASE NeedBytes
  BY <1>2 DEF NeedBytes
<1>3. CASE Flush
  BY <1>3 DEF Flush, Flushed
<1>4. CASE ForceRotate
  BY <1>4 DEF ForceRotate
<1>5. CASE Ask
  BY <1>5 DEF Ask
<1>6. CASE HandleEarly
  BY <1>6 DEF HandleEarly, Delivered
<1>7. CASE EnterRead
  BY <1>7 DEF EnterRead
<1>8. CASE HandleInRead
  BY <1>8 DEF HandleInRead, Delivered
<1>9. CASE Read
  BY <1>9 DEF Read, Available
<1>10. CASE ReadEof
  BY <1>10 DEF ReadEof
<1>11. CASE LastLine
  BY <1>11 DEF LastLine, Put
<1>12. CASE Quit
  BY <1>12 DEF Quit, Flushed
<1>13. CASE Type
  BY <1>13 DEF Type
<1>14. CASE Close
  BY <1>14 DEF Close
<1>15. CASE Send
  BY <1>15 DEF Send
<1>16. CASE UNCHANGED vars
  BY <1>16 DEF vars
<1> QED
  BY <1>1, <1>2, <1>3, <1>4, <1>5, <1>6, <1>7, <1>8, <1>9, <1>10, <1>11, <1>12,
     <1>13, <1>14, <1>15, <1>16
  DEF Next, Program

LEMMA TypeStep == TypeOK /\ [Next]_vars => TypeOK'
BY FlagsStep, CountsStep, Types, PTL

(***************************************************************************)
(* Lines.                                                                  *)
(***************************************************************************)

LEMMA LineStep == IInv /\ [Next]_vars => Line'
<1> SUFFICES ASSUME IInv, [Next]_vars PROVE Line'
  OBVIOUS
<1> USE InputAssumption DEF signals, pipe, input, output, asked
<1>1. Counts /\ Line
  BY Types DEF IInv
<1>2. CASE GetByte
  <2>1. /\ UNCHANGED <<text, pc>> /\ got' = got + 1 /\ got < taken
        /\ pc = "get"
    BY <1>2 DEF GetByte
  <2>2. /\ linelen =< got
        /\ \A j \in 0..(linelen - 1) : ~End(text, got - j)
        /\ linelen < LineSize => End(text, got - linelen)
        /\ put = IF linelen < LineSize THEN got - linelen ELSE got
    BY <1>1, <2>1 DEF Line, Ended
  <2>3. /\ got \in Nat /\ linelen \in 0..LineSize
        /\ End(text, got + 1) <=> text[got + 1]
    BY <1>1, SMT DEF Counts, End
  <2>4. CASE text[got + 1]
    <3>1. linelen' = 0 /\ put' = got'
      BY <1>2, <2>1, <2>4, Zenon DEF GetByte, Put, Complete
    <3>2. linelen' =< got' /\ linelen' < LineSize /\ got' - linelen' = got + 1
      BY <2>1, <2>3, <3>1
    <3>3. End(text', got' - linelen')
      BY <2>1, <2>3, <2>4, <3>2, Zenon
    <3>4. \A j \in 0..(linelen' - 1) : FALSE
      BY <3>1
    <3>5. put' = IF linelen' < LineSize THEN got' - linelen' ELSE got'
      BY <2>1, <3>1, <3>2, Zenon
    <3> QED
      BY <3>2, <3>3, <3>4, <3>5, Zenon DEF Line
  <2>5. CASE ~text[got + 1]
    <3>1. /\ linelen' = Held(linelen + 1)
          /\ linelen + 1 >= LineSize => put' = got'
          /\ ~(linelen + 1 >= LineSize) => put' = put
      BY <1>2, <2>1, <2>5, Zenon DEF GetByte, Put, Complete
    <3>2. \A j \in 0..linelen : ~End(text, (got + 1) - j)
      <4>1. TAKE j \in 0..linelen
      <4>2. CASE j = 0
        BY <2>3, <2>5, <4>2
      <4>3. CASE j # 0
        <5>1. j - 1 \in 0..(linelen - 1) /\ (got + 1) - j = got - (j - 1)
          BY <2>3, <4>3
        <5> QED
          BY <2>2, <5>1, Zenon
      <4> QED
        BY <4>2, <4>3
    <3>3. linelen' =< linelen + 1 /\ linelen' =< got'
      BY <2>1, <2>2, <2>3, <3>1 DEF Held
    <3>4. \A j \in 0..(linelen' - 1) : ~End(text', got' - j)
      <4>1. TAKE j \in 0..(linelen' - 1)
      <4>2. j \in 0..linelen
        BY <2>3, <3>1 DEF Held
      <4>3. ~End(text, (got + 1) - j)
        BY <3>2, <4>2
      <4>4. text' = text /\ got' - j = (got + 1) - j
        BY <2>1
      <4> QED
        BY <4>3, <4>4, Zenon
    <3>5. ASSUME linelen' < LineSize
          PROVE  End(text', got' - linelen') /\ put' = got' - linelen'
      <4>1. /\ linelen < LineSize /\ got' - linelen' = got - linelen
            /\ put' = put
        BY <2>1, <2>3, <3>1, <3>5 DEF Held
      <4> QED
        BY <2>1, <2>2, <4>1, Zenon
    <3>6. ASSUME ~(linelen' < LineSize)
          PROVE  put' = got'
      BY <2>3, <3>1, <3>6 DEF Held
    <3> QED
      BY <3>3, <3>4, <3>5, <3>6, Zenon DEF Line
  <2> QED
    BY <2>4, <2>5
<1>3. CASE Type
  <2>1. UNCHANGED <<pc, got, put, linelen>>
    BY <1>3 DEF Type
  <2>2. PICK c \in BOOLEAN : text' = Append(text, c)
    BY <1>3 DEF Type
  <2>3. \A k \in 0..Len(text) : End(text', k) <=> End(text, k)
    BY <1>1, <2>2, LongerText DEF Counts
  <2>4. CASE Ended
    BY <2>1, <2>4 DEF Line, Ended
  <2>5. CASE ~Ended
    <3>1. \A j \in 0..linelen : got - j \in 0..Len(text)
      BY <1>1, <2>5, SMT DEF Counts, Line
    <3>2. \A j \in 0..linelen : End(text', got - j) <=> End(text, got - j)
      BY <2>3, <3>1, Zenon
    <3>3. linelen \in 0..linelen /\ 0..(linelen - 1) \subseteq 0..linelen
      BY <1>1 DEF Counts
    <3> QED
      BY <1>1, <2>1, <2>5, <3>2, <3>3, Zenon DEF Line, Ended
  <2> QED
    BY <2>4, <2>5
<1>4. CASE LastLine \/ Quit
  BY <1>4 DEF LastLine, Quit, Line, Ended
<1>5. CASE \/ NeedBytes \/ Flush \/ ForceRotate \/ Ask \/ HandleEarly
           \/ EnterRead \/ HandleInRead \/ Read \/ ReadEof \/ Close \/ Send
           \/ UNCHANGED vars
  <2>1. UNCHANGED <<text, got, put, linelen>> /\ (Ended => Ended')
    BY <1>5, Zenon
    DEF NeedBytes, Flush, ForceRotate, Ask, HandleEarly, EnterRead,
        HandleInRead, Read, ReadEof, Close, Send, vars, Ended
  <2> QED
    BY <1>1, <2>1, Zenon DEF Line
<1> QED
  BY <1>2, <1>3, <1>4, <1>5 DEF Next, Program

\* Where something was put, the text may be cut.
LEMMA PutCut == IInv /\ ~Ended => Cut(text, put)
<1> SUFFICES ASSUME Counts, Line, ~Ended PROVE Cut(text, put)
  BY Types DEF IInv
<1>1. CASE linelen < LineSize
  BY <1>1, Zenon DEF Line, Cut
<1>2. CASE ~(linelen < LineSize)
  <2>1. linelen = LineSize
    BY <1>2, InputAssumption DEF Counts
  <2>2. put = got /\ got >= LineSize
    BY <1>2, <2>1, InputAssumption DEF Line, Counts
  <2> QED
    BY <2>1, <2>2, Zenon DEF Line, Cut
<1> QED
  BY <1>1, <1>2

LEMMA CutStep == IInv /\ [Next]_vars => Cut(text', rotated')
<1> SUFFICES ASSUME IInv, [Next]_vars PROVE Cut(text', rotated')
  OBVIOUS
<1> USE DEF signals, pipe, input, output, asked
<1>1. Counts /\ Cut(text, rotated)
  BY Types DEF IInv
<1>2. CASE ForceRotate
  <2>1. Cut(text, written)
    BY <1>2, PutCut DEF IInv, Emptied, ForceRotate, Ended
  <2> QED
    BY <1>1, <1>2, <2>1, Zenon DEF ForceRotate
<1>3. CASE Type
  <2>1. rotated \in 0..Len(text)
    BY <1>1, SMT DEF Counts
  <2>2. PICK c \in BOOLEAN : text' = Append(text, c)
    BY <1>3 DEF Type
  <2>3. rotated' = rotated
    BY <1>3 DEF Type
  <2> QED
    BY <1>1, <2>1, <2>2, <2>3, LongerText, Zenon DEF Counts
<1>4. CASE ~ForceRotate /\ ~Type
  <2>1. UNCHANGED <<text, rotated>>
    BY <1>4, Zenon
    DEF Next, Program, GetByte, Put, NeedBytes, Flush, Ask, HandleEarly,
        EnterRead, HandleInRead, Read, ReadEof, LastLine, Quit, Close, Send,
        vars
  <2> QED
    BY <1>1, <2>1, Zenon
<1> QED
  BY <1>2, <1>3, <1>4

(***************************************************************************)
(* The buffers, and the end.                                               *)
(***************************************************************************)

LEMMA EmptiedStep == IInv /\ [Next]_vars => Emptied' /\ Quitting'
<1> SUFFICES ASSUME Counts, Line, Emptied, Quitting, [Next]_vars
             PROVE  Emptied' /\ Quitting'
  BY Types DEF IInv
<1> USE DEF Emptied, Quitting, Ended, signals, pipe, input, output, asked
<1>1. CASE GetByte \/ NeedBytes \/ Flush \/ ForceRotate \/ Ask
  BY <1>1, Zenon
  DEF GetByte, Put, NeedBytes, Flush, Flushed, ForceRotate, Ask
<1>2. CASE HandleEarly \/ EnterRead \/ HandleInRead \/ Read \/ ReadEof
  BY <1>2, Zenon
  DEF HandleEarly, EnterRead, HandleInRead, Interrupted, Read, ReadEof
<1>3. CASE LastLine
  <2>1. linelen = 0 => put = got
    BY <1>3, InputAssumption DEF LastLine, Line, Counts
  <2>2. ~(linelen > 0) => linelen = 0
    BY InputAssumption DEF Counts
  <2>3. put' = got /\ UNCHANGED taken /\ got = taken /\ pc' = "quit"
    BY <1>3, <2>1, <2>2, Zenon DEF LastLine, Put
  <2>4. UNCHANGED got
    BY <1>3 DEF LastLine
  <2> QED
    BY <2>3, <2>4
<1>4. CASE Quit \/ Type \/ Close \/ Send \/ UNCHANGED vars
  BY <1>4, Zenon DEF Quit, Flushed, Type, Close, Send, vars
<1> QED
  BY <1>1, <1>2, <1>3, <1>4 DEF Next, Program

LEMMA NewlineStep == IInv /\ [Next]_vars => Newline' /\ Leaving'
<1> SUFFICES ASSUME IInv, [Next]_vars
             PROVE  Newline' /\ Leaving'
  OBVIOUS
<1> USE DEF Newline, Leaving, signals, pipe, input, output, asked
<1>1. Flags /\ Counts /\ Newline /\ Leaving
  BY Types, Zenon DEF IInv
<1>2. CASE Read
  <2>1. /\ taken' \in 1..Len(text) /\ text' = text /\ pc' = "get"
        /\ flagnewline' = text[taken']
    BY <1>1, <1>2, InputAssumption, SMT DEF Read, Available, Counts
  <2>2. End(text', taken') <=> text[taken']
    BY <2>1, SMT DEF End
  <2> QED
    BY <2>1, <2>2, Zenon
<1>3. CASE Type
  <2>1. /\ UNCHANGED <<pc, taken, flagnewline, closed>> /\ ~closed
    BY <1>3, Zenon DEF Type
  <2>2. PICK c \in BOOLEAN : text' = Append(text, c)
    BY <1>3 DEF Type
  <2>3. taken \in 0..Len(text)
    BY <1>1, SMT DEF Counts
  <2>4. End(text', taken) <=> End(text, taken)
    BY <1>1, <2>2, <2>3, LongerText, Zenon DEF Counts
  <2> QED
    BY <1>1, <2>1, <2>4, Zenon
<1>4. CASE Ask
  BY <1>1, <1>4, Zenon DEF Ask, ExitNow
<1>5. CASE ReadEof
  <2>1. closed /\ taken = Len(text)
    BY <1>1, <1>5, SMT DEF ReadEof, Available, Counts
  <2> QED
    BY <1>1, <1>5, <2>1, Zenon DEF ReadEof
<1>6. CASE Close
  BY <1>1, <1>6, Zenon DEF Close
<1>7. CASE \/ GetByte \/ NeedBytes \/ Flush \/ ForceRotate \/ HandleEarly
           \/ EnterRead \/ HandleInRead \/ LastLine \/ Quit \/ Send
           \/ UNCHANGED vars
  <2>1. /\ UNCHANGED <<text, closed, taken, flagnewline>>
        /\ pc' \in {"end", "quit", "done"} => pc \in {"end", "quit", "done"}
    BY <1>7, Zenon
    DEF GetByte, NeedBytes, Flush, ForceRotate, HandleEarly, EnterRead,
        HandleInRead, Interrupted, LastLine, Quit, Send, vars
  <2> QED
    BY <1>1, <2>1, Zenon
<1> QED
  BY <1>2, <1>3, <1>4, <1>5, <1>6, <1>7 DEF Next, Program

(***************************************************************************)
(* The theorems.                                                           *)
(***************************************************************************)

\* The counts of bytes, the flags and line[] agree with each other after every
\* step of doit(), flushread(), the writer and the signals.
THEOREM Invariant == Spec => []IInv
<1>1. IInv /\ [Next]_vars => IInv'
  <2> SUFFICES ASSUME IInv, [Next]_vars PROVE IInv'
    OBVIOUS
  <2>1. TypeOK'
    BY TypeStep DEF IInv
  <2> QED
    BY <2>1, LineStep, EmptiedStep, NewlineStep, CutStep DEF IInv
<1> QED
  BY InitIInv, <1>1, PTL DEF Spec

\* line[] is never written beyond its end, and the bytes come through in their
\* order, for any text and signals (TypeOK).
THEOREM TypeCorrect == Spec => []TypeOK
<1>1. IInv => TypeOK
  BY DEF IInv
<1> QED
  BY Invariant, <1>1, PTL

LEMMA CutIs == \A k : Cut(text, k) <=> AtLineEnd(k) \/ Long(k)
BY Zenon DEF Cut, End, AtLineEnd, Long

\* When multilog has ended, all that it took is written, and a SIGTERM has torn
\* no line (CleanExit).
THEOREM EndsClean == Spec => []CleanExit
<1>1. IInv => CleanExit
  BY Zenon DEF IInv, CleanExit, Quitting, Ended, Leaving, End, AtLineEnd
<1> QED
  BY Invariant, <1>1, PTL

\* While it waits for input, multilog holds back less than LineSize bytes, and
\* they begin a line (NothingHeldBack).
THEOREM HoldsNothing == Spec => []NothingHeldBack
<1>1. IInv => NothingHeldBack
  <2> SUFFICES ASSUME IInv, pc = "read"
               PROVE  /\ got = taken
                      /\ AtLineEnd(written) \/ Long(written)
                      /\ got - written < LineSize
    BY DEF NothingHeldBack
  <2>1. ~Ended /\ got = taken /\ written = put /\ Line /\ Counts
    BY Types, Zenon DEF Ended, IInv, Emptied
  <2>2. AtLineEnd(written) \/ Long(written)
    BY <2>1, PutCut, CutIs, Zenon
  <2>3. got - written < LineSize
    BY <2>1, InputAssumption, SMT DEF Line, Counts
  <2> QED
    BY <2>1, <2>2, <2>3
<1> QED
  BY Invariant, <1>1, PTL

\* Whenever SIGALRM comes, the archive is closed between two lines, or in one of
\* LineSize bytes or more (RotatedBetweenLines).
THEOREM RotatesClean == Spec => []RotatedBetweenLines
<1>1. IInv => RotatedBetweenLines
  BY CutIs, Zenon DEF IInv, RotatedBetweenLines
<1> QED
  BY Invariant, <1>1, PTL
=============================================================================
