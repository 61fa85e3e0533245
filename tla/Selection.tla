----------------------------- MODULE Selection -----------------------------
(***************************************************************************)
(* The script of multilog (multilog.c: f_init, c_init, doit): which lines go  *)
(* to which log, to stderr and to a status file, and which settings a log     *)
(* has.  MultilogInput has where the bytes come from, Cyclog where they go.   *)
(*                                                                          *)
(* An action of the script has a kind, and what is written behind the letter *)
(* as arg: the pattern of + and -, the number of s and n, the program of !.   *)
(* Kind "dir" is a log (. or /).                                             *)
(***************************************************************************)
EXTENDS Match, FiniteSetsExt, Functions

CONSTANTS
  Bytes,     \* what lines and patterns are made of
  Inputs,    \* scripts and texts: records of script and text
  Newline,
  Stamp,     \* stands for a time stamp and its space (26 bytes)
  LineSize,  \* bytes of a line that are looked at (1000)
  ErrSize,   \* bytes of a line that go to stderr (200)
  MinSize, MaxSize, DefaultSize,  \* of a log: 4096, 16777215, 99999
  MinNum, DefaultNum              \* of its files: 2, 10

ASSUME SelectionAssumption ==
  /\ {LineSize, ErrSize, MinSize, MaxSize, DefaultSize, MinNum, DefaultNum}
       \subseteq Nat
  /\ 1 < LineSize /\ ErrSize < LineSize
  /\ MinSize =< DefaultSize /\ DefaultSize =< MaxSize
  /\ MinNum =< DefaultNum
  /\ {Newline, Stamp} \subseteq Bytes
  /\ \A input \in Inputs :
       /\ input.text \in Seq(Bytes)
       /\ input.script \in Seq(Range(input.script))
       /\ \A k \in DOMAIN input.script :
            LET action == input.script[k] IN
            /\ action.kind \in {"+", "-"} => action.arg \in Seq(Bytes)
            /\ action.kind \in {"s", "n"} => action.arg \in Nat

VARIABLES
  script, text,
  pc, i,
  num, size, processor,  \* the settings that c_init() has come to
  c,                     \* the logs, and what they got
  status,                \* the files of =, by their place in the script
  err,                   \* the lines on stderr
  got,                   \* bytes of text that doit() has got
  line, linelen,
  flagselected, flageof

given    == <<script, text>>
settings == <<num, size, processor>>
others   == <<status, err>>
held     == <<line, linelen>>
vars     == <<given, pc, i, settings, c, others, got, held, flagselected,
              flageof, match>>

\* f_init(): what was in the files before is not known here.
Files == [k \in {k \in DOMAIN script : script[k].kind = "="} |-> <<>>]

Blank == [k \in 1..(LineSize + 1) |-> Newline]

Init ==
  /\ \E input \in Inputs : script = input.script /\ text = input.text
  /\ pc = "init" /\ i = 1
  /\ num = DefaultNum /\ size = DefaultSize /\ processor = "none"
  /\ c = <<>> /\ err = <<>>
  /\ status = Files
  /\ got = 0 /\ line = Blank /\ linelen = 0
  /\ flagselected = FALSE /\ flageof = FALSE
  /\ NotCalled

(***************************************************************************)
(* c_init(): the settings hold for the logs behind them.                    *)
(***************************************************************************)

AtLeast(n, least) == IF n < least THEN least ELSE n
AtMost(n, most)   == IF n > most THEN most ELSE n

Prepare ==
  /\ pc = "init" /\ i =< Len(script)
  /\ LET action == script[i] IN
       /\ size' = IF action.kind = "s"
                  THEN AtMost(AtLeast(action.arg, MinSize), MaxSize) ELSE size
       /\ num' = IF action.kind = "n"
                 THEN AtLeast(action.arg, MinNum) ELSE num
       /\ processor' = IF action.kind = "!" THEN action.arg ELSE processor
       /\ c' = IF action.kind # "dir" THEN c
               ELSE Append(c, [num |-> num, size |-> size,
                               processor |-> processor,
                               flagselected |-> FALSE, ss |-> <<>>])
  /\ i' = i + 1
  /\ UNCHANGED <<given, pc, others, got, held, flagselected, flageof, match>>

Prepared ==
  /\ pc = "init" /\ i > Len(script)
  /\ pc' = "get"
  /\ UNCHANGED <<given, i, settings, c, others, got, held, flagselected,
                 flageof, match>>

(***************************************************************************)
(* doit(): the beginning of a line.                                        *)
(***************************************************************************)

flagtimestamp == script # <<>> /\ script[1].kind = "t"

\* A line of which doit() knows what is to be matched.
Look == /\ pc' = "act" /\ i' = 1 /\ flagselected' = TRUE

GetByte ==
  /\ pc = "get" /\ got < Len(text)
  /\ got' = got + 1
  /\ LET ch == text[got']
         stamped == linelen = 0 /\ flagtimestamp
         l == IF stamped THEN [line EXCEPT ![1] = Stamp] ELSE line
         n == IF stamped THEN 1 ELSE linelen
     IN  IF ch = Newline
         THEN line' = l /\ linelen' = n /\ Look
         ELSE /\ line' = [l EXCEPT ![n + 1] = ch] /\ linelen' = n + 1
              /\ IF n + 1 = LineSize THEN Look
                 ELSE UNCHANGED <<pc, i, flagselected>>
  /\ UNCHANGED <<given, settings, c, others, flageof, match>>

NoByte ==
  /\ pc = "get" /\ got = Len(text)
  /\ IF linelen = 0
     THEN pc' = "done" /\ UNCHANGED <<i, flagselected, flageof>>
     ELSE flageof' = TRUE /\ Look
  /\ UNCHANGED <<given, settings, c, others, got, held, match>>

(***************************************************************************)
(* The actions of the script.                                              *)
(***************************************************************************)

Action(kind) == pc = "act" /\ i =< Len(script) /\ script[i].kind = kind

FirstBytes(n) == SubSeq(line, 1, n)

Passed ==
  /\ i' = i + 1
  /\ UNCHANGED <<given, pc, settings, got, held, flagselected, flageof, match>>

\* + looks at what is not selected, - at what is.
Wanted(kind) == kind = (IF flagselected THEN "-" ELSE "+")

CallMatch ==
  /\ \E kind \in {"+", "-"} : Action(kind) /\ Wanted(kind)
  /\ Call(script[i].arg, FirstBytes(linelen))
  /\ pc' = "match"
  /\ UNCHANGED <<given, i, settings, c, others, got, held, flagselected,
                 flageof>>

InMatch ==
  /\ pc = "match" /\ MatchStep
  /\ UNCHANGED <<given, pc, i, settings, c, others, got, held, flagselected,
                 flageof>>

Matched ==
  /\ pc = "match" /\ result # "none"
  /\ flagselected' = IF result = "yes" THEN ~flagselected ELSE flagselected
  /\ pc' = "act" /\ i' = i + 1
  /\ UNCHANGED <<given, settings, c, others, got, held, flageof, match>>

Skip ==
  /\ \/ \E kind \in {"+", "-"} : Action(kind) /\ ~Wanted(kind)
     \/ \E kind \in {"t", "s", "n", "!"} : Action(kind)
  /\ Passed
  /\ UNCHANGED <<c, others>>

\* e: a long line is cut off, and says so.
ToStderr ==
  /\ Action("e")
  /\ err' = IF ~flagselected THEN err
            ELSE Append(err, IF linelen > ErrSize
                             THEN <<FirstBytes(ErrSize), "...">>
                             ELSE <<FirstBytes(linelen), "">>)
  /\ Passed
  /\ UNCHANGED <<c, status>>

\* =: all of line[] goes into the file, however long the line is.
ToStatus ==
  /\ Action("=")
  /\ status' = IF flagselected THEN [status EXCEPT ![i] = line] ELSE status
  /\ Passed
  /\ UNCHANGED <<c, err>>

\* The logs are in the order of the script.
Place(k) == Cardinality({m \in 1..k : script[m].kind = "dir"})

ToLog ==
  /\ Action("dir")
  /\ c' = [c EXCEPT ![Place(i)].flagselected = flagselected]
  /\ Passed
  /\ UNCHANGED others

(***************************************************************************)
(* The line, and the rest of it, goes to the logs.                          *)
(***************************************************************************)

\* buffer_put() for each log that has selected the line.
Put(bytes) ==
  c' = [j \in DOMAIN c |-> IF c[j].flagselected
                           THEN [c[j] EXCEPT !.ss = @ \o bytes] ELSE c[j]]

PutLine ==
  /\ pc = "act" /\ i > Len(script)
  /\ Put(FirstBytes(linelen))
  /\ pc' = IF linelen = LineSize THEN "long" ELSE "end"
  /\ UNCHANGED <<given, i, settings, others, got, held, flagselected, flageof,
                 match>>

LongByte ==
  /\ pc = "long"
  /\ IF got = Len(text)
     THEN flageof' = TRUE /\ pc' = "end" /\ UNCHANGED <<c, got>>
     ELSE /\ got' = got + 1 /\ UNCHANGED flageof
          /\ IF text[got'] = Newline THEN pc' = "end" /\ UNCHANGED c
             ELSE Put(<<text[got']>>) /\ UNCHANGED pc
  /\ UNCHANGED <<given, i, settings, others, held, flagselected, match>>

\* (mutant) What the next line does not overwrite is left.
Cleared_Not == line

\* line[] without the line.
Cleared == [k \in DOMAIN line |-> IF k =< linelen THEN Newline ELSE line[k]]

EndLine ==
  /\ pc = "end"
  /\ Put(<<Newline>>)
  /\ IF flageof THEN pc' = "done" /\ UNCHANGED held
     ELSE pc' = "get" /\ line' = Cleared /\ linelen' = 0
  /\ UNCHANGED <<given, i, settings, others, got, flagselected, flageof, match>>

Next ==
  \/ Prepare \/ Prepared
  \/ GetByte \/ NoByte
  \/ CallMatch \/ InMatch \/ Matched
  \/ Skip \/ ToStderr \/ ToStatus \/ ToLog
  \/ PutLine \/ LongByte \/ EndLine

Spec == Init /\ [][Next]_vars

(***************************************************************************)
(* Properties.                                                             *)
(***************************************************************************)

\* The actions of a kind, by their place in the script.
Of(kind) == {k \in DOMAIN script : script[k].kind = kind}

\* The last action of the kind before k says what holds at k.
Before(k, kind, default) ==
  LET said == {m \in Of(kind) : m < k}
  IN  IF said = {} THEN default ELSE script[Max(said)].arg

SettingsRight ==
  /\ Len(c) = Cardinality(Of("dir"))
  /\ \A k \in Of("dir") :
       LET log == c[Place(k)] IN
       /\ log.num = Max({MinNum, Before(k, "n", DefaultNum)})
       /\ log.size = Min({MaxSize, Max({MinSize, Before(k, "s", DefaultSize)})})
       /\ log.processor = Before(k, "!", "none")

\* Where the lines of the text begin.
Starts == {s \in DOMAIN text : s = 1 \/ text[s - 1] = Newline}

\* Where the one at s ends: at its newline, which the last one may lack.
End(s) == Min({e \in s..Len(text) : text[e] = Newline} \cup {Len(text) + 1})

Line(s) ==
  (IF flagtimestamp THEN <<Stamp>> ELSE <<>>) \o SubSeq(text, s, End(s) - 1)

WholeLine(s) == Append(Line(s), Newline)

FirstOf(s, most) == SubSeq(Line(s), 1, Min({Len(Line(s)), most}))
Beginning(s)     == FirstOf(s, LineSize)

\* The last + or - before k that matches the line has selected it or not.
Selected(k, s) ==
  LET hits == {m \in Of("+") \cup Of("-") :
                 m < k /\ Matches(script[m].arg, Beginning(s))}
  IN  hits = {} \/ script[Max(hits)].kind = "+"

\* The lines that the action at k is to get.
Share(k) == {s \in Starts : Selected(k, s)}

\* The bytes of the lines of share before s.
Ahead(share, s) ==
  UNION {{t} \X DOMAIN WholeLine(t) : t \in {t \in share : t < s}}

\* Each log has its share, line behind line, and nothing else.
LogsRight ==
  \A k \in Of("dir") :
    LET share == Share(k)
        ss == c[Place(k)].ss
    IN  /\ Len(ss) = Cardinality(Ahead(share, Len(text) + 1))
        /\ \A s \in share : \A x \in DOMAIN WholeLine(s) :
             ss[Cardinality(Ahead(share, s)) + x] = WholeLine(s)[x]

\* The status file has the last line of its share, and nothing of another.
StatusRight ==
  \A k \in Of("=") :
    LET share == Share(k)
        l == Beginning(Max(share))
    IN  status[k] = IF share = {} THEN <<>>
                    ELSE [m \in DOMAIN Blank |->
                            IF m =< Len(l) THEN l[m] ELSE Newline]

\* The action k gets the line at t before the action m gets that at s.
Sooner(t, k, s, m) == t < s \/ (t = s /\ k < m)

\* What stderr has got before the action m gets the line at s.
Said(s, m) ==
  {said \in Starts \X Of("e") :
     said[1] \in Share(said[2]) /\ Sooner(said[1], said[2], s, m)}

\* It has the beginning of each line once for each e that selects it.
ErrRight ==
  /\ Len(err) = Cardinality(Said(Len(text) + 1, 1))
  /\ \A k \in Of("e") : \A s \in Share(k) :
       err[Cardinality(Said(s, k)) + 1] =
         <<FirstOf(s, ErrSize), IF Len(Line(s)) > ErrSize THEN "..." ELSE "">>

\* At the end, each log, status file and stderr has the lines that the script
\* selects for it, whole and in their order, however long they are and whatever
\* the other actions of the script say; and each log has the settings before it.
ScriptObeyed ==
  pc = "done" => LogsRight /\ StatusRight /\ ErrRight /\ SettingsRight
=============================================================================
