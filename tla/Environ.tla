------------------------------ MODULE Environ ------------------------------
(***************************************************************************)
(* envdir (envdir.c) and the environment that pathexec() makes of what it    *)
(* was told by pathexec_env() (pathexec_env.c): a file for each variable,    *)
(* its first line the value, an empty file to remove the variable.  A string *)
(* of the environment is a record of name and value; names have no = in them. *)
(*                                                                          *)
(* A file can be removed, or lead nowhere, when envdir opens it ("gone"); or *)
(* not be readable.                                                         *)
(***************************************************************************)
EXTENDS Integers, Sequences, FiniteSetsExt

CONSTANTS
  Names,     \* names of variables and files
  Chars,     \* what files are made of: any of those below among them
  MaxFile,   \* length of files (bounds the model)
  Environs   \* environments envdir may be given: sequences of settings

Newline == "newline"
Nul     == "nul"
Blanks  == {"space", "tab"}

Setting == [name : Names, value : Seq((Chars \ {Nul}) \cup {Newline})]

ASSUME EnvironAssumption ==
  /\ MaxFile \in Nat
  /\ Environs \subseteq Seq(Setting)

VARIABLES
  environ,  \* the environment of envdir
  dir,      \* the file of each name: whether there is one, and its text
  pc,
  todo,     \* names that readdir() has still to return
  sa,       \* what was read last, as it was changed since
  plus,     \* what pathexec_env() was called with
  e,        \* the environment that pathexec() is making
  done      \* how much of plus is in it

vars == <<environ, dir, pc, todo, sa, plus, e, done>>

Texts == UNION {[1..k -> Chars] : k \in 0..MaxFile}

Init ==
  /\ environ \in Environs
  /\ dir \in [Names -> [st : {"file"}, text : Texts]
                       \cup [st : {"none", "gone", "unreadable"},
                             text : {<<>>}]]
  /\ pc = "read" /\ todo = {n \in Names : dir[n].st # "none"}
  /\ sa = <<>> /\ plus = <<>>
  /\ e = <<>> /\ done = 0

(***************************************************************************)
(* envdir.                                                                 *)
(***************************************************************************)

\* Up to the first newline.
FirstLine(s) ==
  SubSeq(s, 1, Min({Len(s) + 1} \cup {i \in DOMAIN s : s[i] = Newline}) - 1)

\* Without blanks at its end.
Trimmed(s) == SubSeq(s, 1, Max({0} \cup {i \in DOMAIN s : s[i] \notin Blanks}))

\* (mutant) A NUL is left in the value, and ends it for pathexec().
Value_Raw(s) == Trimmed(FirstLine(s))

\* The value that the bytes s stand for; a NUL in them is a newline.
Value(s) ==
  LET t == Trimmed(FirstLine(s)) IN
  [i \in DOMAIN t |-> IF t[i] = Nul THEN Newline ELSE t[i]]

\* openreadclose(): a file that does not exist is no error, and leaves sa as it
\* was for the file before.
OpenReadClose(n) == IF dir[n].st = "gone" THEN sa ELSE dir[n].text

\* pathexec_env(): what is to be said of n.
PathexecEnv(n, set, value) ==
  plus' = Append(plus, [name |-> n, set |-> set, value |-> value])

ReadFile(n) ==
  /\ pc = "read" /\ n \in todo
  /\ dir[n].st # "unreadable"
  /\ LET s == OpenReadClose(n) IN
       /\ PathexecEnv(n, s # <<>>, Value(s))
       /\ sa' = IF s = <<>> THEN s ELSE Append(Value(s), Nul)
  /\ todo' = todo \ {n}
  /\ UNCHANGED <<environ, dir, pc, e, done>>

\* A file or the directory cannot be read, or there is no memory.
Complain ==
  /\ pc = "read"
  /\ pc' = "died"
  /\ UNCHANGED <<environ, dir, todo, sa, plus, e, done>>

(***************************************************************************)
(* pathexec(): what is set in plus goes over the environment.               *)
(***************************************************************************)

EndOfDir ==
  /\ pc = "read" /\ todo = {}
  /\ pc' = "overlay"
  /\ e' = environ
  /\ UNCHANGED <<environ, dir, todo, sa, plus, done>>

\* The first setting of the name is wanted.
First(n) == {t \in DOMAIN e : /\ e[t].name = n
                              /\ \A u \in 1..(t - 1) : e[u].name # n}

\* (mutant) The last string is dropped, and does not take the place.
Without_Last(n) == IF First(n) = {} THEN e ELSE SubSeq(e, 1, Len(e) - 1)

\* e without that setting: the last string takes its place.
Without(n) ==
  IF First(n) = {} THEN e
  ELSE LET t == CHOOSE t \in First(n) : TRUE IN
       SubSeq([e EXCEPT ![t] = e[Len(e)]], 1, Len(e) - 1)

With(rest, s) ==
  IF s.set THEN Append(rest, [name |-> s.name, value |-> s.value]) ELSE rest

Overlay ==
  /\ pc = "overlay" /\ done < Len(plus)
  /\ done' = done + 1
  /\ e' = With(Without(plus[done'].name), plus[done'])
  /\ UNCHANGED <<environ, dir, pc, todo, sa, plus>>

Run ==
  /\ pc = "overlay" /\ done = Len(plus)
  /\ pc' = "run"
  /\ UNCHANGED <<environ, dir, todo, sa, plus, e, done>>

Next ==
  \/ \E n \in Names : ReadFile(n)
  \/ Complain \/ EndOfDir \/ Overlay \/ Run

Spec == Init /\ [][Next]_vars

(***************************************************************************)
(* Properties.                                                             *)
(***************************************************************************)

\* Every variable has its type: values are strings, which no NUL ends early, and
\* there are no more of them than pathexec() has counted (pathexec_env.c:36-43).
TypeOK ==
  /\ pc \in {"read", "overlay", "run", "died"}
  /\ todo \subseteq Names
  /\ e \in Seq(Setting) /\ Len(e) =< Len(environ) + Len(plus)
  /\ done \in 0..Len(plus)

\* s has one string of the name n at the most.
Once(s, n) == \A t, u \in DOMAIN s : s[t].name = n /\ s[u].name = n => t = u

Values(s, n) == {s[t].value : t \in {u \in DOMAIN s : s[u].name = n}}

\* What the variable n should be.
Wanted(n) ==
  IF dir[n].st = "none" THEN Values(environ, n)
  ELSE IF dir[n].text = <<>> THEN {} ELSE {Value(dir[n].text)}

\* The program is run with each variable once, as its file has it, or as it was
\* if it has no file, whatever is set and removed before it and after it.  Not
\* meant are a variable that the old environment has twice, and one whose file
\* has vanished when it is opened.
EnvironmentRight ==
  pc = "run" =>
    \A n \in Names : Once(environ, n) /\ dir[n].st # "gone" =>
      Once(e, n) /\ Values(e, n) = Wanted(n)
=============================================================================
