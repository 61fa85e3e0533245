------------------------------- MODULE CWrite -------------------------------
(***************************************************************************)
(* c_write() of multilog.c, byte by byte: how much of what buffer_put() and   *)
(* buffer_flush() hand over goes into current, and where current is full.    *)
(* A byte is TRUE for a newline.  Cyclog has the rotation itself, and counts  *)
(* in lines.                                                                *)
(***************************************************************************)
EXTENDS Integers, Sequences

CONSTANTS
  Size,     \* d->size, at least 4096
  Margin,   \* 2000: so many bytes before Size current is rotated at a line end
  MaxChunk  \* bytes that allwrite() gets in one call

ASSUME CWriteAssumption ==
  /\ Size \in Nat /\ Margin \in Nat /\ Margin < Size
  /\ MaxChunk \in Nat \ {0}

VARIABLES
  bytes,  \* d->bytes
  col,    \* bytes at the end of current that belong to an unfinished line
  chunk,  \* what allwrite() still has to write
  torn    \* col, when current was last rotated because it had Size bytes

vars == <<bytes, col, chunk, torn>>

\* i is the last newline of the first k bytes, or 0 (byte_rchr).
LastNewline(k, i) ==
  /\ i \in 0..k
  /\ i # 0 => chunk[i]
  /\ \A j \in (i + 1)..k : ~chunk[j]

\* After an exit current ends with a line and is not near its size: multilog was
\* started with the same option s the last time.
Init ==
  /\ bytes \in 0..(Size - Margin - 1) /\ col = 0
  /\ chunk = <<>>
  /\ torn = 0

\* allwrite() is called.
Call ==
  /\ chunk = <<>>
  /\ \E len \in 1..MaxChunk : chunk' \in [1..len -> BOOLEAN]
  /\ UNCHANGED <<bytes, col, torn>>

\* A full current is rotated before the next byte.
Full ==
  /\ chunk # <<>>
  /\ bytes >= Size
  /\ bytes' = 0 /\ col' = 0
  /\ torn' = col
  /\ UNCHANGED chunk

\* (mutant) The room is not looked at.
Room_Any == Len(chunk)

Room == IF Len(chunk) >= Size - bytes THEN Size - bytes ELSE Len(chunk)

\* (mutant) Everything that has room is written.
Cut_None(i) == Room

\* (mutant) The newline is left for the next write().
Cut_Before(i) == IF bytes + Room >= Size - Margin /\ i # 0 THEN i - 1 ELSE Room

\* Near the end of current, not more than up to the last newline, i.
Cut(i) == IF bytes + Room >= Size - Margin /\ i # 0 THEN i ELSE Room

\* write() takes w bytes; at a line end near its size current is rotated.
Write ==
  /\ chunk # <<>>
  /\ bytes < Size
  /\ \E i \in 0..Room :
       /\ LastNewline(Room, i)
       /\ \E w \in 1..Cut(i) :
            /\ chunk' = SubSeq(chunk, w + 1, Len(chunk))
            /\ IF bytes + w >= Size - Margin /\ chunk[w]
               THEN bytes' = 0 /\ col' = 0
               ELSE /\ bytes' = bytes + w
                    /\ \E k \in 0..w :
                         /\ LastNewline(w, k)
                         /\ col' = IF k = 0 THEN col + w ELSE w - k
  /\ UNCHANGED torn

\* SIGALRM, looked at when everything is written.
ForceRotate ==
  /\ chunk = <<>>
  /\ bytes > 0
  /\ bytes' = 0 /\ col' = 0
  /\ UNCHANGED <<chunk, torn>>

Next == Call \/ Full \/ Write \/ ForceRotate

Spec == Init /\ [][Next]_vars

FairSpec == Spec /\ WF_vars(Full \/ Write)

(***************************************************************************)
(* Properties.                                                             *)
(***************************************************************************)

\* Every variable has its type: current never has more than Size bytes.
TypeOK ==
  /\ bytes \in 0..Size
  /\ col \in 0..bytes
  /\ chunk \in Seq(BOOLEAN)
  /\ torn \in 0..Size

\* A rotation tears no line that has not more than Margin bytes in current
\* already, however few bytes write() takes at a time.
WholeLines == torn = 0 \/ torn > Margin

\* allwrite() comes to its end.
Taken == chunk # <<>> ~> chunk = <<>>
=============================================================================
