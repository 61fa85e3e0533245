--------------------------- MODULE MultilogInput ---------------------------
(***************************************************************************)
(* How multilog takes its input (multilog.c: doit, flushread, c_quit): the   *)
(* two buffers, the line in between, SIGTERM and SIGALRM, which are blocked  *)
(* everywhere but around read(), and the end of the input.  One log, which   *)
(* selects every line; Cyclog has what happens in its directory.            *)
(*                                                                          *)
(* text is what the writer has put into the pipe, TRUE for a newline.  The   *)
(* rest counts bytes of it: those that left the pipe, those that doit() has  *)
(* got from its buffer, those it has put into the log's buffer, those that   *)
(* write() took, and those in archives that SIGALRM closed.                  *)
(***************************************************************************)
EXTENDS Integers, Sequences

CONSTANTS
  MaxText,   \* bytes the writer sends (bounds the model)
  MaxSignal, \* signals that are sent (no endless storm of them)
  InSize,    \* sizeof inbuf
  LineSize   \* bytes of a line that are looked at before they are put (1000)

ASSUME InputAssumption ==
  /\ MaxText \in Nat /\ MaxSignal \in Nat
  /\ InSize \in Nat /\ InSize > 0
  /\ LineSize \in Nat /\ LineSize > 0

VARIABLES
  text, closed,                       \* the pipe and its writer
  term, alrm,                         \* the signals that are pending
  raised,                             \* how many were sent
  pc,
  taken, got, put, written, rotated,  \* bytes that have come so far
  linelen,                            \* what doit() holds of a line
  limit,                              \* the length given to read()
  flagexitasap, flagforcerotate, flagnewline

signals == <<term, alrm, raised>>
pipe    == <<text, closed>>
input   == <<taken, got, linelen, limit>>
output  == <<put, written, rotated>>
asked   == <<flagexitasap, flagforcerotate>>
vars    == <<pipe, signals, pc, input, output, asked, flagnewline>>

Init ==
  /\ text = <<>> /\ closed = FALSE
  /\ term = FALSE /\ alrm = FALSE /\ raised = 0
  /\ pc = "get"
  /\ taken = 0 /\ got = 0 /\ put = 0 /\ written = 0 /\ rotated = 0
  /\ linelen = 0 /\ limit = InSize
  /\ flagexitasap = FALSE /\ flagforcerotate = FALSE /\ flagnewline = TRUE

(***************************************************************************)
(* doit(): one byte after the other, put() for a line or a piece of it.     *)
(***************************************************************************)

\* (mutant) Every byte is put at once.
Complete_Always(c, len) == TRUE

\* Is the byte c, the len-th of its line, put, with what was held before it?
\* At a line end, when line[] is full, and beyond that byte by byte.
Complete(c, len) == c \/ len >= LineSize

\* (mutant) line[] is not closed off.
Held_Unbounded(len) == len

\* line[] holds no more than its size.
Held(len) == IF len > LineSize THEN LineSize ELSE len

\* buffer_put(): what does not fit is written, up to anywhere in the buffer.
Put(upto) ==
  /\ put' = upto
  /\ written' \in written..upto

GetByte ==
  /\ pc = "get"
  /\ got < taken
  /\ got' = got + 1
  /\ LET c == text[got']  len == linelen + 1 IN
       /\ linelen' = IF c THEN 0 ELSE Held(len)
       /\ IF Complete(c, len) THEN Put(got') ELSE UNCHANGED <<put, written>>
  /\ UNCHANGED <<pipe, signals, pc, taken, limit, rotated, asked, flagnewline>>

NeedBytes ==
  /\ pc = "get"
  /\ got = taken
  /\ pc' = "flush"
  /\ UNCHANGED <<pipe, signals, input, output, asked, flagnewline>>

(***************************************************************************)
(* flushread().                                                            *)
(***************************************************************************)

\* (mutant) The buffer is left alone.
Flushed_Later == written

\* buffer_flush(): all that was put is written.
Flushed == put

Flush ==
  /\ pc = "flush"
  /\ written' = Flushed
  /\ pc' = "rotate"
  /\ UNCHANGED <<pipe, signals, input, put, rotated, asked, flagnewline>>

ForceRotate ==
  /\ pc = "rotate"
  /\ rotated' = IF flagforcerotate THEN written ELSE rotated
  /\ flagforcerotate' = FALSE
  /\ pc' = "ask"
  /\ UNCHANGED <<pipe, signals, input, put, written, flagexitasap, flagnewline>>

\* (mutant) The rest of the line is not waited for.
ExitNow_Anywhere == flagexitasap

ExitNow == flagexitasap /\ flagnewline

\* Leave at a line end, or read one byte at a time until there is one.
Ask ==
  /\ pc = "ask"
  /\ IF ExitNow THEN pc' = "end" /\ UNCHANGED limit
     ELSE pc' = "unblocked" /\ limit' = IF flagexitasap THEN 1 ELSE InSize
  /\ UNCHANGED <<pipe, signals, taken, got, linelen, output, asked,
                 flagnewline>>

\* exitasap() and forcerotate(): all that is pending is delivered together.
Delivered ==
  /\ term \/ alrm
  /\ term' = FALSE /\ alrm' = FALSE /\ UNCHANGED raised
  /\ flagexitasap' = (flagexitasap \/ term)
  /\ flagforcerotate' = (flagforcerotate \/ alrm)

\* Between sig_unblock() and read(): nobody looks at the flags any more.
HandleEarly ==
  /\ pc = "unblocked"
  /\ Delivered
  /\ UNCHANGED <<pipe, pc, input, output, flagnewline>>

EnterRead ==
  /\ pc = "unblocked"
  /\ ~term /\ ~alrm
  /\ pc' = "read"
  /\ UNCHANGED <<pipe, signals, input, output, asked, flagnewline>>

Available == Len(text) - taken

\* (mutant) An interrupted read() is read() again.
Interrupted_Resumed == "read"

\* EINTR: buffer_get() calls flushread() again, which looks at the flags.
Interrupted == "flush"

\* Within read(), which fails with EINTR unless it has something to return.
HandleInRead ==
  /\ pc = "read"
  /\ Delivered
  /\ \/ pc' = Interrupted
     \/ (Available > 0 \/ closed) /\ pc' = "read"
  /\ UNCHANGED <<pipe, input, output, flagnewline>>

Read ==
  /\ pc = "read"
  /\ ~term /\ ~alrm
  /\ \E k \in 1..limit :
       /\ k =< Available
       /\ taken' = taken + k
  /\ flagnewline' = text[taken']
  /\ pc' = "get"
  /\ UNCHANGED <<pipe, signals, got, linelen, limit, output, asked>>

ReadEof ==
  /\ pc = "read"
  /\ ~term /\ ~alrm
  /\ closed /\ Available = 0
  /\ pc' = "end"
  /\ UNCHANGED <<pipe, signals, input, output, asked, flagnewline>>

(***************************************************************************)
(* The end: a last line without its newline gets one, then c_quit().        *)
(***************************************************************************)

LastLine ==
  /\ pc = "end"
  /\ IF linelen > 0 THEN Put(got) ELSE UNCHANGED <<put, written>>
  /\ linelen' = 0
  /\ pc' = "quit"
  /\ UNCHANGED <<pipe, signals, taken, got, limit, rotated, asked, flagnewline>>

Quit ==
  /\ pc = "quit"
  /\ written' = Flushed
  /\ pc' = "done"
  /\ UNCHANGED <<pipe, signals, input, put, rotated, asked, flagnewline>>

(***************************************************************************)
(* The writer, and whoever sends signals.                                  *)
(***************************************************************************)

Type ==
  /\ ~closed /\ Len(text) < MaxText
  /\ \E c \in BOOLEAN : text' = Append(text, c)
  /\ UNCHANGED <<closed, signals, pc, input, output, asked, flagnewline>>

Close ==
  /\ ~closed /\ closed' = TRUE
  /\ UNCHANGED <<text, signals, pc, input, output, asked, flagnewline>>

Send ==
  /\ pc # "done" /\ raised < MaxSignal
  /\ raised' = raised + 1
  /\ \/ term' = TRUE /\ UNCHANGED alrm
     \/ alrm' = TRUE /\ UNCHANGED term
  /\ UNCHANGED <<pipe, pc, input, output, asked, flagnewline>>

(***************************************************************************)
(* The specification.                                                      *)
(***************************************************************************)

Program ==
  \/ GetByte \/ NeedBytes \/ Flush \/ ForceRotate \/ Ask
  \/ HandleEarly \/ EnterRead \/ HandleInRead \/ Read \/ ReadEof
  \/ LastLine \/ Quit

Next == Program \/ Type \/ Close \/ Send

Spec == Init /\ [][Next]_vars

\* multilog goes on; the writer and the signals come or not.
FairSpec == Spec /\ WF_vars(Program)

(***************************************************************************)
(* Properties.                                                             *)
(***************************************************************************)

\* Every variable has its type: bytes come through in their order, and line[]
\* (multilog.c:483) is not written beyond its end.
TypeOK ==
  /\ text \in Seq(BOOLEAN) /\ closed \in BOOLEAN
  /\ term \in BOOLEAN /\ alrm \in BOOLEAN /\ raised \in 0..MaxSignal
  /\ pc \in {"get", "flush", "rotate", "ask", "unblocked", "read", "end",
             "quit", "done"}
  /\ {taken, got, put, written, rotated} \subseteq Nat
  /\ rotated =< written /\ written =< put /\ put =< got
  /\ got =< taken /\ taken =< Len(text)
  /\ linelen \in 0..LineSize /\ limit \in {1, InSize}
  /\ flagexitasap \in BOOLEAN /\ flagforcerotate \in BOOLEAN
  /\ flagnewline \in BOOLEAN

AtLineEnd(k) == k = 0 \/ text[k]

\* The last LineSize bytes before k are of one line, which is not complete.
Long(k) == k >= LineSize /\ \A j \in 0..(LineSize - 1) : ~AtLineEnd(k - j)

\* When multilog has ended, everything it took from the pipe is written, and a
\* SIGTERM has not torn a line: what is left in the pipe starts a new one.
CleanExit ==
  pc = "done" => /\ written = taken
                 /\ AtLineEnd(taken) \/ (closed /\ taken = Len(text))

\* While multilog waits for input it holds nothing back but the beginning of a
\* line that is not LineSize long yet.
NothingHeldBack ==
  pc = "read" => /\ got = taken
                 /\ AtLineEnd(written) \/ Long(written)
                 /\ got - written < LineSize

\* SIGALRM closes the archive between two lines, unless the line is so long that
\* its beginning is written already.
RotatedBetweenLines == AtLineEnd(rotated) \/ Long(rotated)

\* A SIGTERM that reaches multilog while it waits for input ends it without any
\* more input, between two lines.
TermEndsWait ==
  (pc = "read" /\ term /\ flagnewline) ~> (pc = "done" \/ ~flagnewline)

\* "multilog accepts ALRM to immediately rotate all cyclic logs": whenever the
\* signal comes, it is acted upon.
AlarmObeyed == alrm ~> (pc = "done" \/ (~alrm /\ ~flagforcerotate))
=============================================================================
