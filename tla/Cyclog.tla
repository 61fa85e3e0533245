------------------------------- MODULE Cyclog -------------------------------
(***************************************************************************)
(* One automatically rotated log of multilog (multilog.c): the files of its *)
(* directory, and the order in which restart(), c_write(), fullcurrent(),   *)
(* finish(), filesfit() and c_quit() change them.  Every system call that   *)
(* changes the disk is a step of its own, and multilog can be killed, or the *)
(* power fail, between any two of them.                                     *)
(*                                                                          *)
(* Lines are numbered as write() takes them (CWrite has the bytes).  A file *)
(* is its lines, how many of them are known to be on disk, and the owner's  *)
(* x bit, in which multilog keeps its notes.  Archives @timestamp.code are a *)
(* sequence in the order of their time stamps: the clock goes forward.  A   *)
(* system call that fails is tried again after a pause, so that its failure *)
(* is a step that changes nothing.                                          *)
(***************************************************************************)
EXTENDS Integers, Sequences

CONSTANTS
  Num,         \* number of archives (option n)
  Size,        \* lines that make current full (option s)
  Margin,      \* current is rotated at a line end so many lines before that
  Scripts,     \* what processor may be in the runs of a log: sets of BOOLEANs
  MaxLine,     \* lines written (bounds the model)
  MaxCrash     \* kills and outages (bounds the model)

ASSUME CyclogAssumption ==
  /\ Num \in Nat /\ Num >= 2
  /\ Size \in Nat /\ Size > 0
  /\ Margin \in Nat
  /\ Scripts \subseteq SUBSET BOOLEAN
  /\ MaxLine \in Nat /\ MaxCrash \in Nat

VARIABLES
  \* the disk
  files,      \* current, previous and processed
  archives,   \* @timestamp.s and @timestamp.u, oldest first
  linked,     \* which of files has the newest archive for its second link
  state,      \* last line the processor knew of when it ended (see NoFile)
  newstate,
  \* multilog
  pc,
  fin,        \* arguments of finish(), and where it returns to
  processor,  \* this multilog has a processor
  bytes,      \* d->bytes, in lines
  \* the environment
  script,     \* the runs of this log are with a processor, or not, or either
  orphan,     \* files that the processor of a killed multilog writes to
  n,          \* lines written so far
  crashes     \* kills and outages so far

disk   == <<files, archives, linked, state, newstate>>
memory == <<fin, processor, bytes>>
world  == <<script, orphan, n, crashes>>
vars   == <<disk, pc, memory, world>>

Names  == {"current", "previous", "processed"}
Codes  == {"s", "u"}
NoFile == -1    \* as the contents of state or newstate: there is no such file

Absent == [here |-> FALSE, data |-> <<>>, synced |-> 0, x |-> FALSE]
Empty  == [Absent EXCEPT !.here = TRUE]

\* open_append() makes the file if need be.
Opened(f) == IF f.here THEN f ELSE Empty
Synced(f) == [f EXCEPT !.synced = Len(f.data)]

Last(s) == s[Len(s)]

\* unlink(name) in the directory.
Unlinked(name) ==
  /\ files' = [files EXCEPT ![name] = Absent]
  /\ linked' = IF linked = name THEN "none" ELSE linked

(***************************************************************************)
(* finish(d,name,code), called from restart() and fullcurrent().           *)
(***************************************************************************)

Finish(name, code, to) ==
  /\ pc' = "finish"
  /\ fin' = [name |-> name, code |-> code, to |-> to]

FinishAbsent ==
  /\ pc = "finish"
  /\ ~files[fin.name].here
  /\ pc' = fin.to
  /\ UNCHANGED <<disk, memory, world>>

\* (mutant) The link count is not looked at.
HasArchive_Never == FALSE

\* st_nlink # 1: it was given its archive name before a crash.
HasArchive == linked = fin.name

FinishLink ==
  /\ pc = "finish"
  /\ files[fin.name].here
  /\ IF HasArchive THEN UNCHANGED <<archives, linked>>
     ELSE /\ archives' = Append(archives,
                                [data   |-> files[fin.name].data,
                                 synced |-> files[fin.name].synced,
                                 code   |-> fin.code])
          /\ linked' = fin.name
  /\ pc' = "unlink"
  /\ UNCHANGED <<files, state, newstate, memory, world>>

FinishUnlink ==
  /\ pc = "unlink"
  /\ Unlinked(fin.name)
  /\ pc' = "filesfit"
  /\ UNCHANGED <<archives, state, newstate, memory, world>>

\* (mutant) Off by one.
Fits_OneMore == Len(archives) =< Num

Fits == Len(archives) < Num

FilesFit ==
  /\ pc = "filesfit"
  /\ Fits
  /\ pc' = fin.to
  /\ UNCHANGED <<disk, memory, world>>

\* (mutant) unlink() misses the name.
AfterRemoval_None == archives

\* The oldest archive is removed, and the directory counted again.
AfterRemoval == Tail(archives)

FilesRemove ==
  /\ pc = "filesfit"
  /\ ~Fits
  /\ archives' = AfterRemoval
  /\ UNCHANGED <<files, linked, state, newstate, pc, memory, world>>

(***************************************************************************)
(* restart(): a current with the x bit was left by a clean exit.           *)
(***************************************************************************)

\* (mutant) The mark of the clean exit stays.
Unmarked_Kept(f) == f

Unmarked(f) == [f EXCEPT !.x = FALSE]

Start ==
  /\ pc = "off"
  /\ processor' \in script
  /\ IF files["current"].here /\ files["current"].x
     THEN /\ files' = [files EXCEPT !["current"] = Unmarked(@)]
          /\ bytes' = Len(files["current"].data)
          /\ pc' = "run"
     ELSE /\ pc' = "unlinkState"
          /\ UNCHANGED <<files, bytes>>
  /\ UNCHANGED <<archives, linked, state, newstate, fin, world>>

\* The processor's state survives only what the processor knows of.
UnlinkState ==
  /\ pc = "unlinkState"
  /\ state' = NoFile
  /\ pc' = "unlinkNewstate"
  /\ UNCHANGED <<files, archives, linked, newstate, memory, world>>

UnlinkNewstate ==
  /\ pc = "unlinkNewstate"
  /\ newstate' = NoFile
  /\ orphan' = orphan \ {"newstate"}
  /\ pc' = "recover"
  /\ UNCHANGED <<files, archives, linked, state, memory, script, n, crashes>>

\* (mutant) The x bit of processed is not looked at.
FlagProcessed_Here == files["processed"].here

FlagProcessed == files["processed"].here /\ files["processed"].x

\* Either processed replaces previous, or the half-done processed is dropped.
Recover ==
  /\ pc = "recover"
  /\ IF FlagProcessed
     THEN /\ Unlinked("previous")  /\ Finish("processed", "s", "archiveCurrent")
          /\ UNCHANGED orphan
     ELSE /\ Unlinked("processed") /\ Finish("previous", "u", "archiveCurrent")
          /\ orphan' = orphan \ {"processed"}
  /\ UNCHANGED <<archives, state, newstate, processor, bytes, script, n,
                 crashes>>

ArchiveCurrent ==
  /\ pc = "archiveCurrent"
  /\ Finish("current", "u", "newState")
  /\ UNCHANGED <<disk, processor, bytes, world>>

\* open_trunc("state"): nothing processed yet.
NewState ==
  /\ pc = "newState"
  /\ state' = 0
  /\ pc' = "newCurrent"
  /\ UNCHANGED <<files, archives, linked, newstate, memory, world>>

NewCurrent ==
  /\ pc = "newCurrent"
  /\ files' = [files EXCEPT !["current"] = Unmarked(Opened(@))]
  /\ bytes' = 0
  /\ pc' = "run"
  /\ UNCHANGED <<archives, linked, state, newstate, fin, processor, world>>

(***************************************************************************)
(* c_write(), called for a full buffer or by buffer_flush().               *)
(***************************************************************************)

\* What is written may end at a line end or not.
Write ==
  /\ pc = "run"
  /\ n < MaxLine
  /\ bytes < Size
  /\ n' = n + 1
  /\ files' = [files EXCEPT !["current"].data = Append(@, n')]
  /\ bytes' = bytes + 1
  /\ \E newline \in BOOLEAN :
       pc' = IF bytes' >= Size - Margin /\ newline THEN "fullcurrent" ELSE "run"
  /\ UNCHANGED <<archives, linked, state, newstate, fin, processor, script,
                 orphan, crashes>>

\* The next write() comes after the rotation.
WriteFull ==
  /\ pc = "run"
  /\ n < MaxLine
  /\ bytes >= Size
  /\ pc' = "fullcurrent"
  /\ UNCHANGED <<disk, memory, world>>

\* SIGALRM: flushread() rotates a current that is not empty.
ForceRotate ==
  /\ pc = "run"
  /\ bytes > 0
  /\ pc' = "fullcurrent"
  /\ UNCHANGED <<disk, memory, world>>

(***************************************************************************)
(* fullcurrent().                                                          *)
(***************************************************************************)

\* (mutant) No fsync().
SyncCurrent_Never == pc = "fullcurrent" /\ pc' = "rename"
                     /\ UNCHANGED <<disk, memory, world>>

SyncCurrent ==
  /\ pc = "fullcurrent"
  /\ files' = [files EXCEPT !["current"] = Synced(@)]
  /\ pc' = "rename"
  /\ UNCHANGED <<archives, linked, state, newstate, memory, world>>

Rename ==
  /\ pc = "rename"
  /\ files' = [files EXCEPT !["previous"] = files["current"],
                            !["current"] = Absent]
  /\ pc' = "reopen"
  /\ UNCHANGED <<archives, linked, state, newstate, memory, world>>

Reopen ==
  /\ pc = "reopen"
  /\ files' = [files EXCEPT !["current"] = Unmarked(Opened(@))]
  /\ bytes' = 0
  /\ pc' = "markPrevious"
  /\ UNCHANGED <<archives, linked, state, newstate, fin, processor, world>>

MarkPrevious ==
  /\ pc = "markPrevious"
  /\ files' = [files EXCEPT !["previous"].x = TRUE]
  /\ IF processor THEN pc' = "process" /\ UNCHANGED fin
                  ELSE Finish("previous", "s", "run")
  /\ UNCHANGED <<archives, linked, state, newstate, processor, bytes, world>>

\* (mutant) processed is opened to append.
Output_Appended(k) ==
  files' = [files EXCEPT !["processed"] =
              [Opened(@) EXCEPT
                 !.data = @ \o SubSeq(files["previous"].data, 1, k)]]

\* The processor has written the first k lines of previous to processed;
\* open_trunc() empties a file and leaves its mode.
Output(k) ==
  files' = [files EXCEPT !["processed"] =
              [Opened(@) EXCEPT
                 !.data = SubSeq(files["previous"].data, 1, k), !.synced = 0]]

\* startprocessor() and the processor, which has written k lines and knows it.
\* It needs previous and state.
Process(k) ==
  /\ files["previous"].here /\ state # NoFile
  /\ Output(k)
  /\ newstate' = IF k = 0 THEN state ELSE files["previous"].data[k]

\* It fails after some of its output, and is started again after a pause.
ProcessFails ==
  /\ pc = "process"
  /\ \E k \in 0..Len(files["previous"].data) : Process(k)
  /\ UNCHANGED <<archives, linked, state, pc, memory, world>>

ProcessDone ==
  /\ pc = "process"
  /\ Process(Len(files["previous"].data))
  /\ pc' = "syncProcessed"
  /\ UNCHANGED <<archives, linked, state, memory, world>>

\* (mutant) No fsync().
SyncProcessed_Never == pc = "syncProcessed" /\ pc' = "markProcessed"
                       /\ UNCHANGED <<disk, memory, world>>

SyncProcessed ==
  /\ pc = "syncProcessed"
  /\ files' = [files EXCEPT !["processed"] = Synced(Opened(@))]
  /\ pc' = "markProcessed"
  /\ UNCHANGED <<archives, linked, state, newstate, memory, world>>

\* newstate is then opened, and so made if need be, and synced as well: its
\* contents are never lost.
MarkProcessed ==
  /\ pc = "markProcessed"
  /\ files' = [files EXCEPT !["processed"].x = TRUE]
  /\ newstate' = IF newstate = NoFile THEN 0 ELSE newstate
  /\ pc' = "dropPrevious"
  /\ UNCHANGED <<archives, linked, state, memory, world>>

DropPrevious ==
  /\ pc = "dropPrevious"
  /\ Unlinked("previous")
  /\ pc' = "keepState"
  /\ UNCHANGED <<archives, state, newstate, memory, world>>

KeepState ==
  /\ pc = "keepState"
  /\ state' = newstate
  /\ newstate' = NoFile
  /\ Finish("processed", "s", "run")
  /\ UNCHANGED <<files, archives, linked, processor, bytes, world>>

(***************************************************************************)
(* c_quit(), at the end of the input or after SIGTERM.                     *)
(***************************************************************************)

QuitSync ==
  /\ pc = "run"
  /\ files' = [files EXCEPT !["current"] = Synced(@)]
  /\ pc' = "quitMark"
  /\ UNCHANGED <<archives, linked, state, newstate, memory, world>>

\* The memory of a multilog that has ended.
Ended ==
  /\ pc' = "off"
  /\ fin' = [name |-> "current", code |-> "u", to |-> "run"]
  /\ processor' = FALSE
  /\ bytes' = 0

QuitMark ==
  /\ pc = "quitMark"
  /\ files' = [files EXCEPT !["current"].x = TRUE]
  /\ Ended
  /\ UNCHANGED <<archives, linked, state, newstate, world>>

(***************************************************************************)
(* Crashes.  Directories and modes are assumed to reach the disk in order   *)
(* (multilog syncs no directory); data may be lost until it is synced.      *)
(***************************************************************************)

\* multilog is killed.  A processor of it goes on.
Kill ==
  /\ pc # "off"
  /\ crashes < MaxCrash
  /\ crashes' = crashes + 1
  /\ orphan' = IF pc = "process" THEN {"processed", "newstate"} ELSE orphan
  /\ Ended
  /\ UNCHANGED <<disk, script, n>>

\* It writes to the files it has opened, until they are unlinked: what it writes
\* then is lost with them.
OrphanWrites ==
  /\ "processed" \in orphan
  /\ \E k \in 1..Len(files["previous"].data) :
       /\ Output(k)
       /\ newstate' = IF "newstate" \in orphan THEN files["previous"].data[k]
                      ELSE newstate
  /\ UNCHANGED <<archives, linked, state, pc, memory, world>>

\* What is left of a file or an archive: all that was synced, and maybe more.
Remains(f) == {[f EXCEPT !.data = SubSeq(f.data, 1, k), !.synced = k] :
                 k \in f.synced..Len(f.data)}

Outage ==
  /\ crashes < MaxCrash
  /\ crashes' = crashes + 1
  /\ orphan' = {}
  /\ Ended
  /\ files' \in [Names -> UNION {Remains(files[f]) : f \in Names}]
  /\ \A f \in Names : files'[f] \in Remains(files[f])
  /\ archives' \in [DOMAIN archives ->
                      UNION {Remains(archives[i]) : i \in DOMAIN archives}]
  /\ \A i \in DOMAIN archives : archives'[i] \in Remains(archives[i])
  /\ linked # "none" => Last(archives').data = files'[linked].data
  /\ UNCHANGED <<linked, state, newstate, script, n>>

(***************************************************************************)
(* The specification.                                                      *)
(***************************************************************************)

Init ==
  /\ files = [f \in Names |-> Absent]
  /\ archives = <<>> /\ linked = "none"
  /\ state = NoFile /\ newstate = NoFile
  /\ pc = "off"
  /\ fin = [name |-> "current", code |-> "u", to |-> "run"]
  /\ processor = FALSE /\ bytes = 0
  /\ script \in Scripts /\ orphan = {}
  /\ n = 0 /\ crashes = 0

Finishing   == \/ FinishAbsent \/ FinishLink \/ FinishUnlink
               \/ FilesFit \/ FilesRemove
Restart     == \/ UnlinkState \/ UnlinkNewstate \/ Recover \/ ArchiveCurrent
               \/ NewState \/ NewCurrent
FullCurrent == \/ SyncCurrent \/ Rename \/ Reopen \/ MarkPrevious
               \/ ProcessDone \/ SyncProcessed \/ MarkProcessed
               \/ DropPrevious \/ KeepState
Quit        == QuitSync \/ QuitMark

Next ==
  \/ Start \/ Restart \/ Finishing \/ Write \/ WriteFull \/ ForceRotate
  \/ FullCurrent \/ ProcessFails \/ Quit \/ Kill \/ OrphanWrites
  \/ Outage

Spec == Init /\ [][Next]_vars

\* multilog goes on, and a processor that is started often enough succeeds.
FairSpec == Spec /\ WF_vars(Restart \/ Finishing \/ FullCurrent)
                 /\ SF_vars(ProcessDone)

(***************************************************************************)
(* Properties.                                                             *)
(***************************************************************************)

Places == {"off", "unlinkState", "unlinkNewstate", "recover", "finish",
           "unlink", "filesfit", "archiveCurrent", "newState",
           "newCurrent", "run", "fullcurrent", "rename", "reopen",
           "markPrevious", "process", "syncProcessed",
           "markProcessed", "dropPrevious", "keepState",
           "quitMark"}

File    == [here : BOOLEAN, data : Seq(1..MaxLine), synced : Nat, x : BOOLEAN]
Archive == [data : Seq(1..MaxLine), synced : Nat, code : Codes]

\* Every variable has its type, and no file has more lines than were written.
TypeOK ==
  /\ files \in [Names -> File]
  /\ \A f \in Names : /\ files[f].synced =< Len(files[f].data)
                       /\ Len(files[f].data) =< n
  /\ archives \in Seq(Archive)
  /\ linked \in Names \cup {"none"}
  /\ state \in 0..MaxLine \cup {NoFile} /\ newstate \in 0..MaxLine \cup {NoFile}
  /\ pc \in Places
  /\ fin \in [name : Names, code : Codes, to : Places]
  /\ processor \in BOOLEAN /\ bytes \in 0..MaxLine
  /\ script \in Scripts /\ orphan \subseteq {"processed", "newstate"}
  /\ n \in 0..MaxLine /\ crashes \in 0..MaxCrash

Lines(f)   == {f.data[i] : i \in 1..Len(f.data)}
Durable(f) == {f.data[i] : i \in 1..f.synced}
All        == {files[f] : f \in Names}
                \cup {archives[i] : i \in DOMAIN archives}

\* A .s archive was on disk in full before it got its name.
SafeMeansSafe ==
  \A i \in DOMAIN archives :
    archives[i].code = "s" => archives[i].synced = Len(archives[i].data)

\* The x bit of processed says that it may replace previous: whenever a crash
\* leaves it, processed is on disk and has all that previous has.
MarkMeansDone ==
  LET new == files["processed"]  old == files["previous"] IN
    new.x => /\ new.synced = Len(new.data)
             /\ old.here => new.data = old.data

\* The x bit of current says that nothing needs recovery: current is on disk,
\* there is no unfinished rotation, and the processor's state is there.
CleanMark ==
  files["current"].x => /\ files["current"].synced = Len(files["current"].data)
                        /\ ~files["previous"].here /\ ~files["processed"].here
                        /\ state # NoFile

Before(f, g) == \A k \in Lines(f), l \in Lines(g) : k < l

\* The archives are in the order of their lines and have no line in common, so
\* that the oldest name always goes with the oldest lines; what is not archived
\* yet comes after them, current last.
InOrder ==
  /\ \A i, j \in DOMAIN archives : i < j => Before(archives[i], archives[j])
  /\ \A i \in DOMAIN archives, f \in Names \ {linked} :
       Before(archives[i], files[f])
  /\ \A f \in {"previous", "processed"} : Before(files[f], files["current"])

\* The directory stays bounded: a crash costs one more archive at the worst.
Bounded == Len(archives) =< Num + crashes

\* With a processor in every run: whenever it is started, the state it gets is
\* empty, or the one it left when it saw the lines up to those of previous.
StateMatches ==
  (script = {TRUE} /\ pc = "process" /\ state > 0) =>
    Head(files["previous"].data) = state + 1

\* A rotation or a recovery comes to its end.
Recovers == (pc # "off") ~> (pc \in {"run", "quitMark", "off"})

\* The directory keeps the promise of CyclicLog: lines disappear only by being
\* the oldest, or in an outage before they were synced anywhere.
Promise == INSTANCE CyclicLog WITH
  kept <- UNION {Lines(f) : f \in All},
  safe <- UNION {Durable(f) : f \in All}

Contract == Promise!Spec
=============================================================================
