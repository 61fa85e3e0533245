---------------------------- MODULE CyclogProofs ----------------------------
(***************************************************************************)
(* Proofs about Cyclog, for any number and size of archives, any length of  *)
(* the log, and any number of kills and outages.                            *)
(***************************************************************************)
EXTENDS Cyclog, SequenceTheorems, WellFoundedInduction, TLAPS

(***************************************************************************)
(* The inductive invariant.                                                *)
(***************************************************************************)

Cur  == files["current"]
Prev == files["previous"]
Proc == files["processed"]

Whole(f, m) ==
  f \in File /\ f.synced =< Len(f.data) /\ Len(f.data) =< m

Filed == files \in [Names -> File] /\ \A f \in Names : Whole(files[f], n)

\* The other variables but archives.
Rest ==
  /\ linked \in Names \cup {"none"}
  /\ state \in 0..MaxLine \cup {NoFile} /\ newstate \in 0..MaxLine \cup {NoFile}
  /\ pc \in Places
  /\ fin \in [name : Names, code : Codes, to : Places]
  /\ processor \in BOOLEAN /\ bytes \in 0..n
  /\ script \in Scripts /\ orphan \subseteq {"processed", "newstate"}
  /\ n \in 0..MaxLine /\ crashes \in 0..MaxCrash

InSync(f) == f.synced = Len(f.data)

\* Where a rotation that was begun is still to be recovered, and where one goes
\* on.
Restarting == {"off", "unlinkState", "unlinkNewstate", "recover"}
Rotating   == {"reopen", "markPrevious", "process", "syncProcessed",
               "markProcessed"}

Sizes ==
  /\ Len(archives) =< Num + crashes
  /\ pc \notin {"unlink", "filesfit"} => Len(archives) < Num + crashes

Vacant == \A f \in Names : ~files[f].here => files[f] = Absent

\* An orphan never writes to a processed that counts.
Orphans ==
  "processed" \in orphan =>
    pc \in Restarting /\ ~Cur.x /\ ~Proc.x /\ linked = "none"

MarkCurrent ==
  Cur.x => /\ pc = "off" /\ InSync(Cur) /\ linked = "none"
           /\ ~Prev.here /\ ~Proc.here /\ state # NoFile

MarkDone ==
  Proc.x => /\ \/ pc \in Restarting \cup {"dropPrevious", "keepState"}
               \/ pc \in {"finish", "unlink"} /\ fin.name = "processed"
            /\ InSync(Proc)
            /\ Prev.here => Prev.data = Proc.data /\ InSync(Prev)

\* What holds at each place of restart(), fullcurrent() and c_quit().
Stages ==
  /\ pc \in {"run", "fullcurrent", "rename", "quitMark", "newState",
             "newCurrent", "archiveCurrent"} => ~Prev.here /\ ~Proc.here
  /\ pc \in {"reopen", "markPrevious"} => ~Proc.here
  /\ pc = "keepState" => ~Prev.here
  /\ pc \in Rotating \cup {"run", "fullcurrent", "rename", "quitMark",
                           "newCurrent", "dropPrevious"} => state # NoFile
  /\ pc \in {"dropPrevious", "keepState"} => newstate # NoFile /\ Proc.x
  /\ pc \in (Rotating \ {"reopen"}) \cup
              {"run", "fullcurrent", "rename", "quitMark", "dropPrevious",
               "keepState"} => Cur.here
  /\ pc \in {"rename", "quitMark"} => InSync(Cur)
  /\ pc \in Rotating => Prev.here /\ InSync(Prev)
  /\ pc \in {"syncProcessed", "markProcessed"} => Proc.data = Prev.data
  /\ pc = "markProcessed" => Proc.here /\ InSync(Proc)

\* What holds in finish().
Finishes ==
  pc \in {"finish", "unlink", "filesfit"} =>
    /\ fin.to \in {"archiveCurrent", "newState", "run"}
    /\ fin.to = "run" => state # NoFile /\ Cur.here /\ fin.name # "current"
    /\ fin.name = "processed" /\ pc # "filesfit" => Proc.x
    /\ fin.name # "previous" \/ pc = "filesfit" => ~Prev.here
    /\ fin.name # "processed" \/ pc = "filesfit" => ~Proc.here
    /\ fin.code = "s" /\ pc = "finish" => InSync(files[fin.name])

Closing(f) == pc \in {"finish", "unlink"} /\ fin.name = f

\* A file with two names is the last archive, and is the next to be finished.
Links ==
  /\ pc = "unlink" => linked = fin.name
  /\ linked # "none" => /\ archives # <<>> /\ files[linked].here
                        /\ Last(archives).data = files[linked].data
  /\ linked = "current" => /\ ~Prev.here /\ ~Proc.here
                           /\ \/ pc \in Restarting \cup {"archiveCurrent"}
                              \/ Closing("current")
                              \/ pc = "finish" /\ fin.to = "archiveCurrent"
  /\ linked = "previous" => /\ ~Proc.here
                            /\ pc \in Restarting \/ Closing("previous")
  /\ linked = "processed" => /\ ~Prev.here /\ Proc.x
                             /\ pc \in Restarting \/ Closing("processed")

Written ==
  /\ \A f \in Names : \A l \in Lines(files[f]) : l =< n
  /\ \A i \in DOMAIN archives : \A l \in Lines(archives[i]) : l =< n

Types ==
  /\ Filed /\ Rest /\ archives \in Seq(Archive)
  /\ \A i \in DOMAIN archives : archives[i].synced =< Len(archives[i].data)
Order == Written /\ InOrder
Notes == /\ Sizes /\ Vacant /\ Orphans /\ MarkCurrent /\ MarkDone
         /\ Stages /\ Finishes /\ Links /\ SafeMeansSafe

IInv == Types /\ Notes /\ Order

(***************************************************************************)
(* Files.                                                                  *)
(***************************************************************************)

Is(f, here, data, synced, x) ==
  f.here = here /\ f.data = data /\ f.synced = synced /\ f.x = x

\* chmod() of a file.
LEMMA Marking ==
  ASSUME NEW f \in File, NEW b \in BOOLEAN
  PROVE  LET g == [f EXCEPT !.x = b] IN
         g \in File /\ Is(g, f.here, f.data, f.synced, b)
  BY DEF File, Is

\* fsync() of a file.
LEMMA Syncing ==
  ASSUME NEW f \in File, NEW k \in Nat
  PROVE  LET g == [f EXCEPT !.synced = k] IN
         g \in File /\ Is(g, f.here, f.data, k, f.x)
  BY DEF File, Is

\* write() to a file.
LEMMA Filling ==
  ASSUME NEW f \in File, NEW d \in Seq(1..MaxLine)
  PROVE  LET g == [f EXCEPT !.data = d] IN
         g \in File /\ Is(g, f.here, d, f.synced, f.x)
  BY DEF File, Is

\* open_trunc() and what is written after it.
LEMMA Rewriting ==
  ASSUME NEW f \in File, NEW d \in Seq(1..MaxLine), NEW k \in Nat
  PROVE  LET g == [f EXCEPT !.data = d, !.synced = k] IN
         g \in File /\ Is(g, f.here, d, k, f.x)
<1> DEFINE h == [f EXCEPT !.data = d]
<1>1. h \in File /\ h.here = f.here /\ h.data = d /\ h.x = f.x
  BY Filling DEF Is
<1> HIDE DEF h
<1>2. LET g == [h EXCEPT !.synced = k] IN
      g \in File /\ Is(g, f.here, d, k, f.x)
  BY <1>1, Syncing DEF Is
<1> QED
  BY <1>2 DEF h

\* A file that is not there.
LEMMA Nothing ==
  Absent \in File /\ Is(Absent, FALSE, <<>>, 0, FALSE)
  BY DEF File, Absent, Is

\* A file that open_append() has made.
LEMMA Emptiness ==
  Empty \in File /\ Is(Empty, TRUE, <<>>, 0, FALSE)
<1> HIDE DEF Absent
<1>1. LET g == [Absent EXCEPT !.here = TRUE] IN
      g \in File /\ Is(g, TRUE, Absent.data, Absent.synced, Absent.x)
  BY Nothing DEF File, Is
<1> QED
  BY <1>1, Nothing DEF Empty, Is

\* The operations on files, as they change the fields of a record.
LEMMA Operations ==
  ASSUME NEW f \in File, ~f.here => f = Absent
  PROVE  /\ Opened(f) \in File
         /\ Is(Opened(f), TRUE, f.data, f.synced, f.x)
         /\ Synced(f) \in File
         /\ Is(Synced(f), f.here, f.data, Len(f.data), f.x)
         /\ Unmarked(f) \in File
         /\ Is(Unmarked(f), f.here, f.data, f.synced, FALSE)
<1>1. f.here \in BOOLEAN /\ Len(f.data) \in Nat
  BY DEF File
<1>2. Opened(f) \in File /\ Is(Opened(f), TRUE, f.data, f.synced, f.x)
  BY <1>1, Nothing, Emptiness DEF Opened, Is
<1> QED
  BY <1>1, <1>2, Marking, Syncing DEF Synced, Unmarked

\* What open_append() and chmod() find, or make.
LEMMA Reopening ==
  ASSUME NEW f \in File, ~f.here => f = Absent
  PROVE  /\ Unmarked(Opened(f)) \in File
         /\ Is(Unmarked(Opened(f)), TRUE, f.data, f.synced, FALSE)
         /\ Synced(Opened(f)) \in File
         /\ Is(Synced(Opened(f)), TRUE, f.data, Len(f.data), f.x)
<1> DEFINE g == Opened(f)
<1>1. g \in File /\ Is(g, TRUE, f.data, f.synced, f.x)
  BY Operations
<1>2. g.here
  BY <1>1 DEF Is
<1> HIDE DEF g
<1>3. /\ Unmarked(g) \in File
      /\ Is(Unmarked(g), g.here, g.data, g.synced, FALSE)
      /\ Synced(g) \in File
      /\ Is(Synced(g), g.here, g.data, Len(g.data), g.x)
  BY <1>1, <1>2, Operations
<1>4. /\ Unmarked(g) \in File /\ Is(Unmarked(g), TRUE, f.data, f.synced, FALSE)
      /\ Synced(g) \in File
      /\ Is(Synced(g), TRUE, f.data, Len(f.data), f.x)
  BY <1>1, <1>3 DEF Is
<1> QED
  BY <1>4 DEF g

\* The first k lines of previous.
LEMMA Prefix ==
  ASSUME NEW S, NEW s \in Seq(S), NEW k \in 0..Len(s)
  PROVE  /\ SubSeq(s, 1, k) \in Seq(S)
         /\ Len(SubSeq(s, 1, k)) = k
         /\ \A i \in 1..k : SubSeq(s, 1, k)[i] = s[i]
  BY SubSeqProperties

\* One file changes: the others keep their type.
LEMMA Update ==
  ASSUME Filed, NEW m \in Names, NEW v, Whole(v, n'),
         n \in Nat, n' \in Nat, n =< n', files' = [files EXCEPT ![m] = v]
  PROVE  /\ Filed' /\ files'[m] = v
         /\ \A o \in Names \ {m} : files'[o] = files[o]
<1>1. \A o \in Names : Whole(files[o], n')
  BY DEF Filed, Whole, File
<1>2. /\ files' \in [Names -> File] /\ files'[m] = v
      /\ \A o \in Names \ {m} : files'[o] = files[o]
  BY Zenon DEF Filed, Whole
<1> QED
  BY <1>1, <1>2, Zenon DEF Filed

\* bytes counts lines of current, of which there are no more than were written.
LEMMA BytesFit ==
  ASSUME n \in Nat, bytes \in 0..n, NEW k \in 0..n,
         \/ n' = n /\ bytes' \in {bytes, 0, k}
         \/ n' = n + 1 /\ bytes' = bytes + 1
  PROVE  bytes' \in 0..n'
  OBVIOUS

\* What one write() adds to the count.
LEMMA Counted ==
  ASSUME NEW m \in Nat, NEW k \in 0..m, NEW l, l = k \/ (k < m /\ l = k + 1)
  PROVE  l \in 0..m
  OBVIOUS

\* The processor knows of a line that was written.
LEMMA NewStates ==
  ASSUME Rest, Filed
  PROVE  /\ Len(files["previous"].data) \in Nat
         /\ \A k \in 1..Len(files["previous"].data) :
              files["previous"].data[k] \in 0..MaxLine
         /\ \A k \in 0..Len(files["previous"].data) :
              Process(k) => newstate' \in 0..MaxLine
<1>1. /\ files["previous"].data \in Seq(1..MaxLine)
      /\ Len(files["previous"].data) \in Nat
  BY DEF Filed, Whole, File, Names
<1>2. \A k \in 1..Len(files["previous"].data) :
        files["previous"].data[k] \in 0..MaxLine
  BY <1>1, ElementOfSeq, CyclogAssumption
<1>3. ASSUME NEW k \in 0..Len(files["previous"].data), Process(k)
      PROVE  newstate' \in 0..MaxLine
  <2>1. CASE k = 0
    BY <1>3, <2>1 DEF Process, Rest
  <2>2. CASE k # 0
    <3>1. k \in 1..Len(files["previous"].data)
      BY <1>1, <2>2
    <3> QED
      BY <1>2, <1>3, <2>2, <3>1, CyclogAssumption DEF Process
  <2> QED
    BY <2>1, <2>2
<1> QED
  BY <1>1, <1>2, <1>3

\* Every step keeps the types of the variables that are no files.
LEMMA RestStep ==
  ASSUME Rest, Filed, Next
  PROVE  Rest'
<1> USE CyclogAssumption DEF Rest, Next, Restart, Finishing, FullCurrent, Quit,
        UnlinkState, UnlinkNewstate, Recover, ArchiveCurrent, NewState,
        NewCurrent, FinishAbsent, FinishLink, FinishUnlink, FilesFit,
        FilesRemove, Start, Write, WriteFull, ForceRotate, SyncCurrent, Rename,
        Reopen, MarkPrevious, ProcessDone, SyncProcessed, MarkProcessed,
        DropPrevious, KeepState, ProcessFails, QuitSync, QuitMark, Kill,
        OrphanWrites, Outage, Unlinked, Ended, Finish, disk, memory, world
<1>1. linked' \in Names \cup {"none"}
  OBVIOUS
<1>3. pc' \in Places
  BY DEF Places
<1>4. fin' \in [name : Names, code : Codes, to : Places]
  BY DEF Names, Codes, Places
<1>5. processor' \in BOOLEAN
  OBVIOUS
<1>6. script' \in Scripts
  OBVIOUS
<1>7. orphan' \subseteq {"processed", "newstate"}
  OBVIOUS
<1>8. n' \in 0..MaxLine /\ crashes' \in 0..MaxCrash
  <2>1. n' = n \/ (n < MaxLine /\ n' = n + 1)
    OBVIOUS
  <2>2. crashes' = crashes \/ (crashes < MaxCrash /\ crashes' = crashes + 1)
    OBVIOUS
  <2>3. /\ MaxLine \in Nat /\ n \in 0..MaxLine
        /\ MaxCrash \in Nat /\ crashes \in 0..MaxCrash
    OBVIOUS
  <2> QED
    BY <2>1, <2>2, <2>3, Counted, Zenon
<1>9. bytes' \in 0..n'
  <2>1. Len(files["current"].data) \in 0..n
    BY DEF Filed, Whole, File, Names
  <2>2. \/ n' = n /\ bytes' \in {bytes, 0, Len(files["current"].data)}
        \/ n' = n + 1 /\ bytes' = bytes + 1
    OBVIOUS
  <2>3. n \in Nat /\ bytes \in 0..n
    OBVIOUS
  <2> QED
    BY <2>1, <2>2, <2>3, BytesFit, Zenon
<1>12. newstate' \in 0..MaxLine \cup {NoFile}
  <2>1. CASE ProcessFails \/ ProcessDone
    <3>1. \E k \in 0..Len(files["previous"].data) : Process(k)
      BY <2>1, NewStates
    <3> QED
      BY <3>1, NewStates
  <2>2. CASE OrphanWrites
    <3>1. PICK k \in 1..Len(files["previous"].data) :
            newstate' \in {files["previous"].data[k], newstate}
      BY <2>2, Zenon
    <3>2. files["previous"].data[k] \in 0..MaxLine
      BY NewStates, Zenon
    <3> QED
      BY <3>1, <3>2, Zenon
  <2>3. CASE ~(ProcessFails \/ ProcessDone \/ OrphanWrites)
    <3>1. newstate' \in {newstate, NoFile, 0}
      BY <2>3
    <3> QED
      BY <3>1 DEF NoFile
  <2> QED
    BY <2>1, <2>2, <2>3
<1>13. state' \in 0..MaxLine \cup {NoFile}
  BY DEF NoFile
<1> QED
  BY <1>1, <1>3, <1>4, <1>5, <1>6, <1>7, <1>8, <1>9, <1>12, <1>13, Zenon

(***************************************************************************)
(* Steps that leave the files and the archives alone.                      *)
(***************************************************************************)

Same == UNCHANGED <<files, archives, linked, n>>

\* A step that changes no file keeps Types.
LEMMA SameTypes ==
  ASSUME IInv, Same, Rest'
  PROVE  Types' /\ Order' /\ Vacant' /\ SafeMeansSafe'
<1>1. Types'
  BY DEF IInv, Types, Filed, Same
<1>2. Order'
  BY DEF IInv, Order, Written, InOrder, Same
<1>3. Vacant' /\ SafeMeansSafe'
  BY DEF IInv, Notes, Vacant, SafeMeansSafe, Same
<1> QED
  BY <1>1, <1>2, <1>3

\* A step that changes no file keeps the invariant: it goes from one place to
\* the next with nothing new to be known there.
LEMMA QuietStep ==
  ASSUME IInv, Rest',
         \/ UnlinkState \/ UnlinkNewstate \/ ArchiveCurrent \/ NewState
         \/ FinishAbsent \/ FilesFit \/ WriteFull \/ ForceRotate
         \/ KeepState \/ Kill
  PROVE  IInv'
<1> USE DEF Restarting, Rotating, Cur, Prev, Proc, UnlinkState, UnlinkNewstate,
        ArchiveCurrent, NewState, FinishAbsent, FilesFit, WriteFull,
        ForceRotate, KeepState, Kill, Finish, Ended, disk, memory, world
<1>1. Same
  BY DEF Same
<1>2. Sizes'
  BY CyclogAssumption DEF IInv, Types, Rest, Notes, Sizes, Fits
<1>3. Orphans'
  <2>1. CASE pc = "process"
    <3>1. ~Cur.x /\ ~Proc.x
      BY <2>1 DEF IInv, Notes, MarkCurrent, MarkDone
    <3>2. linked = "none"
      BY <2>1 DEF IInv, Notes, Rest, Names, Links, Closing
    <3> QED
      BY <2>1, <3>1, <3>2 DEF Orphans
  <2>2. CASE pc # "process"
    BY <2>2 DEF IInv, Notes, Orphans
  <2> QED
    BY <2>1, <2>2
<1>7. MarkCurrent' /\ MarkDone'
  <2>1. Proc.x => Proc.here
    BY Nothing DEF IInv, Notes, Vacant, Is, Names
  <2> QED
    BY <2>1 DEF IInv, Notes, MarkCurrent, MarkDone
<1>4. Stages'
  BY DEF IInv, Notes, Stages, Finishes, MarkDone, MarkCurrent, InSync, NoFile,
     Types, Rest
<1>5. Finishes'
  BY DEF IInv, Notes, Stages, Finishes, MarkDone
<1>6. Links'
  <2>1. CASE Kill
    BY <2>1 DEF IInv, Notes, Links, Closing
  <2>2. CASE ~Kill
    BY <2>2 DEF IInv, Notes, Links, Closing, Finishes
  <2> QED
    BY <2>1, <2>2
<1> QED
  BY <1>1, <1>2, <1>3, <1>4, <1>5, <1>6, <1>7, SameTypes DEF IInv, Notes

(***************************************************************************)
(* Steps that change one file, and take no line but all of its lines.      *)
(***************************************************************************)

\* A line is at a place in its file.
LEMMA LinesOf ==
  ASSUME NEW f, NEW g
  PROVE  /\ f.data = g.data => Lines(f) = Lines(g)
         /\ f.data = <<>> => Lines(f) = {}
  BY DEF Lines

\* Order is kept when files and archives lose lines.
LEMMA Shrinking ==
  ASSUME IInv, n' = n, DOMAIN archives' = DOMAIN archives,
         \A i \in DOMAIN archives :
           Lines(archives'[i]) \subseteq Lines(archives[i]),
         \A f \in Names : Lines(files'[f]) \subseteq Lines(files[f]),
         \/ linked' = linked
         \/ linked \in Names => Lines(files'[linked]) = {}
  PROVE  Order'
<1>1. Written'
  BY DEF IInv, Order, Written
<1>2. \A i, j \in DOMAIN archives :
        i < j => Before(archives'[i], archives'[j])
  BY DEF IInv, Order, InOrder, Before
<1>3. \A i \in DOMAIN archives, f \in Names \ {linked'} :
        Before(archives'[i], files'[f])
  BY DEF IInv, Order, InOrder, Before
<1>4. \A f \in {"previous", "processed"} : Before(files'[f], files'["current"])
  BY DEF IInv, Order, InOrder, Before, Names
<1> QED
  BY <1>1, <1>2, <1>3, <1>4, Zenon DEF Order, InOrder

\* The file m becomes v.
Becomes(m, v) ==
  /\ v \in File
  /\ \/ v = Absent
     \/ v.here /\ v.data = files[m].data /\ v.synced =< Len(v.data)
  /\ files' = [files EXCEPT ![m] = v]
  /\ UNCHANGED <<archives, n>>
  /\ linked' = linked \/ (v = Absent /\ linked = m)

\* What does not depend on where multilog is.
Kept(m, v) ==
  /\ Types' /\ Order' /\ Vacant' /\ SafeMeansSafe'
  /\ archives' = archives /\ files'[m] = v
  /\ \A o \in Names \ {m} : files'[o] = files[o]

\* One file is changed, and gets no new line.
LEMMA Change ==
  ASSUME IInv, Rest', NEW m \in Names, NEW v, Becomes(m, v)
  PROVE  Kept(m, v)
<1> USE DEF Becomes
<1>1. n \in Nat
  BY CyclogAssumption DEF IInv, Types, Rest
<1>2. Whole(v, n)
  <2>1. Whole(Absent, n)
    BY <1>1, Nothing DEF Whole, Is
  <2>2. Len(files[m].data) =< n
    BY DEF IInv, Types, Filed, Whole
  <2> QED
    BY <2>1, <2>2 DEF Whole
<1>3. /\ Filed' /\ files'[m] = v
      /\ \A o \in Names \ {m} : files'[o] = files[o]
  <2>1. Whole(v, n') /\ n' \in Nat /\ n =< n'
    BY <1>1, <1>2 DEF Whole
  <2> QED
    BY <1>1, <2>1, Update DEF IInv, Types
<1>4. Types'
  BY <1>3 DEF IInv, Types
<1>5. Vacant'
  BY <1>3 DEF IInv, Notes, Vacant
<1>6. SafeMeansSafe'
  BY Zenon DEF IInv, Notes, SafeMeansSafe
<1>7. \A o \in Names : Lines(files'[o]) \subseteq Lines(files[o])
  <2>1. Lines(v) \subseteq Lines(files[m])
    BY LinesOf, Nothing DEF Is
  <2> QED
    BY <1>3, <2>1
<1>8. Order'
  <2>1. \/ linked' = linked
        \/ linked \in Names => Lines(files'[linked]) = {}
    BY <1>3, LinesOf, Nothing DEF Is
  <2> QED
    BY <1>7, <2>1, Shrinking
<1> QED
  BY <1>3, <1>4, <1>5, <1>6, <1>8 DEF Kept

(***************************************************************************)
(* Steps that open a file, sync it or change its mode.                     *)
(***************************************************************************)

\* The steps that sync, make or mark current.
LEMMA CurrentStep ==
  ASSUME IInv, Rest',
         NewCurrent \/ SyncCurrent \/ Reopen \/ QuitSync \/ QuitMark
  PROVE  IInv'
<1> USE DEF Restarting, Rotating, Cur, Prev, Proc, NewCurrent, SyncCurrent,
        Reopen, QuitSync, QuitMark, Ended, memory, world
<1>1. Cur \in File /\ (~Cur.here => Cur = Absent)
  BY DEF IInv, Types, Filed, Notes, Vacant, Names
<1>2. PICK v \in File :
        /\ files' = [files EXCEPT !["current"] = v]
        /\ v.here /\ v.data = Cur.data
        /\ pc \in {"newCurrent", "reopen"} => v.synced = Cur.synced /\ ~v.x
        /\ pc \in {"fullcurrent", "run"} => InSync(v) /\ ~v.x
        /\ pc = "quitMark" => InSync(v) /\ v.x
  <2>1. CASE NewCurrent \/ Reopen
    BY <1>1, <2>1, Reopening DEF Is
  <2>2. CASE SyncCurrent \/ QuitSync
    <3>1. /\ Synced(Cur) \in File
          /\ Is(Synced(Cur), Cur.here, Cur.data, Len(Cur.data), Cur.x)
      BY <1>1, Operations
    <3> QED
      BY <2>2, <3>1 DEF IInv, Notes, MarkCurrent, Stages, Is, InSync
  <2>3. CASE QuitMark
    <3>1. LET v == [Cur EXCEPT !.x = TRUE] IN
          v \in File /\ Is(v, Cur.here, Cur.data, Cur.synced, TRUE)
      BY <1>1, Marking
    <3> QED
      BY <2>3, <3>1 DEF IInv, Notes, Stages, Is, InSync
  <2> QED
    BY <2>1, <2>2, <2>3
<1>3. Kept("current", v)
  <2>1. v.synced =< Len(v.data)
    BY <1>2 DEF IInv, Types, Filed, Whole, Names, InSync
  <2>2. Becomes("current", v)
    BY <1>2, <2>1 DEF Becomes
  <2> QED
    BY <2>2, Change, Zenon DEF Names
<1>4. Sizes' /\ Orphans' /\ MarkCurrent' /\ MarkDone'
  BY <1>2, <1>3 DEF IInv, Notes, Sizes, Orphans, MarkCurrent, MarkDone, Links,
     Closing, Stages, Rest, Names
<1>5. Stages' /\ Finishes'
  BY <1>2, <1>3 DEF Kept, IInv, Notes, Stages, Finishes, MarkDone, MarkCurrent,
     Types, Rest, Names, NoFile, InSync
<1>6. Links'
  BY <1>2, <1>3 DEF IInv, Notes, Links, Closing
<1> QED
  BY <1>3, <1>4, <1>5, <1>6 DEF IInv, Notes, Kept

\* fullcurrent() marks previous.
LEMMA MarkPreviousStep ==
  ASSUME IInv, Rest', MarkPrevious
  PROVE  IInv'
<1> DEFINE f == files["previous"]
           v == [f EXCEPT !.x = TRUE]
<1> USE DEF Restarting, Rotating, Cur, Prev, Proc, MarkPrevious, Finish, world
<1>1. f \in File /\ (~f.here => f = Absent)
  BY DEF IInv, Types, Filed, Notes, Vacant, Names
<1>2. v \in File /\ Is(v, f.here, f.data, f.synced, TRUE)
  BY <1>1, Marking
<1>3. Kept("previous", v)
  <2>1. /\ files' = [files EXCEPT !["previous"] = v]
        /\ UNCHANGED <<archives, n>> /\ linked' = linked
    OBVIOUS
  <2>2. v.here /\ v.data = f.data /\ v.synced =< Len(v.data)
    BY <1>2 DEF IInv, Types, Filed, Whole, Names, Notes, Stages
  <2> HIDE DEF v
  <2>3. Becomes("previous", v)
    BY <1>2, <2>1, <2>2 DEF Becomes
  <2> QED
    BY <2>3, Change, Zenon DEF Names
<1> HIDE DEF v
<1>4. Sizes' /\ Orphans' /\ MarkCurrent' /\ MarkDone'
  BY <1>2, <1>3 DEF IInv, Notes, Sizes, Orphans, MarkCurrent, MarkDone
<1>5. Stages' /\ Finishes'
  BY <1>2, <1>3 DEF IInv, Notes, Stages, Finishes, InSync
<1>6. Links'
  BY <1>2, <1>3 DEF IInv, Notes, Links, Closing
<1> QED
  BY <1>3, <1>4, <1>5, <1>6 DEF IInv, Notes, Kept

\* fullcurrent() syncs processed, then marks it.
LEMMA ProcessedStep ==
  ASSUME IInv, Rest', SyncProcessed \/ MarkProcessed
  PROVE  IInv'
<1> USE DEF Restarting, Rotating, Cur, Prev, Proc, SyncProcessed, MarkProcessed,
        memory, world
<1>1. Proc \in File /\ (~Proc.here => Proc = Absent) /\ ~Proc.x
  BY DEF IInv, Types, Filed, Notes, Vacant, MarkDone, Names
<1>2. PICK v \in File :
        /\ files' = [files EXCEPT !["processed"] = v]
        /\ v.here /\ v.data = Proc.data /\ InSync(v)
        /\ pc = "syncProcessed" => ~v.x
        /\ pc = "markProcessed" => v.x
  <2>1. CASE MarkProcessed
    <3>1. LET v == [Proc EXCEPT !.x = TRUE] IN
          v \in File /\ Is(v, Proc.here, Proc.data, Proc.synced, TRUE)
      BY <1>1, Marking
    <3> QED
      BY <2>1, <3>1 DEF IInv, Notes, Stages, Is, InSync
  <2>2. CASE SyncProcessed
    <3>1. LET v == Synced(Opened(Proc)) IN
          v \in File /\ Is(v, TRUE, Proc.data, Len(Proc.data), Proc.x)
      BY <1>1, Reopening
    <3> QED
      BY <1>1, <2>2, <3>1 DEF Is, InSync
  <2> QED
    BY <2>1, <2>2
<1>3. Kept("processed", v)
  <2>1. v.synced =< Len(v.data)
    BY <1>2 DEF File, InSync
  <2>2. Becomes("processed", v)
    BY <1>2, <2>1 DEF Becomes
  <2> QED
    BY <2>2, Change, Zenon DEF Names
<1>4. Sizes' /\ Orphans' /\ MarkCurrent' /\ MarkDone'
  <2>1. Sizes' /\ Orphans' /\ MarkCurrent'
    BY <1>2, <1>3 DEF IInv, Notes, Sizes, Orphans, MarkCurrent
  <2>2. pc = "markProcessed" => Prev.data = Proc.data /\ InSync(Prev)
    BY DEF IInv, Notes, Stages
  <2>3. Prev' = Prev /\ Proc' = v
    BY <1>3 DEF Kept, Names
  <2> QED
    BY <1>2, <2>1, <2>2, <2>3 DEF MarkDone
<1>5. Stages' /\ Finishes'
  <2>1. newstate # NoFile => newstate' = newstate
    OBVIOUS
  <2>2. pc = "markProcessed" => newstate' # NoFile
    BY DEF NoFile
  <2> QED
    BY <1>2, <1>3, <2>1, <2>2 DEF Kept, IInv, Notes, Stages, Finishes
<1>6. Links'
  BY <1>2, <1>3 DEF IInv, Notes, Links, Closing
<1> QED
  BY <1>3, <1>4, <1>5, <1>6 DEF IInv, Notes, Kept

(***************************************************************************)
(* Steps that remove a file.                                               *)
(***************************************************************************)

\* unlink() of a file.
LEMMA Unlinking ==
  ASSUME IInv, Rest', NEW m \in Names, Unlinked(m),
         UNCHANGED <<archives, n>>
  PROVE  /\ Types' /\ Order' /\ Vacant' /\ SafeMeansSafe'
         /\ archives' = archives /\ Is(files'[m], FALSE, <<>>, 0, FALSE)
         /\ \A o \in Names \ {m} : files'[o] = files[o]
         /\ linked' = IF linked = m THEN "none" ELSE linked
<1>1. Becomes(m, Absent)
  BY Nothing DEF Becomes, Unlinked
<1>2. Kept(m, Absent)
  BY <1>1, Change, Zenon
<1> QED
  BY <1>2, Nothing DEF Kept, Unlinked

\* finish() removes the first name of the archive.
LEMMA FinishUnlinkStep ==
  ASSUME IInv, Rest', FinishUnlink
  PROVE  IInv'
<1> USE DEF Restarting, Rotating, Cur, Prev, Proc, FinishUnlink, memory, world
<1>1. /\ Types' /\ Order' /\ Vacant' /\ SafeMeansSafe'
      /\ archives' = archives /\ Is(files'[fin.name], FALSE, <<>>, 0, FALSE)
      /\ \A o \in Names \ {fin.name} : files'[o] = files[o]
      /\ linked' = IF linked = fin.name THEN "none" ELSE linked
  <2>1. fin.name \in Names
    BY DEF IInv, Types, Rest
  <2> QED
    BY <2>1, Unlinking
<1>2. Sizes' /\ Orphans'
  BY <1>1 DEF IInv, Notes, Sizes, Orphans
<1>3. MarkCurrent' /\ MarkDone'
  BY <1>1 DEF IInv, Notes, MarkCurrent, MarkDone, Names, Is
<1>4. Stages'
  BY <1>1 DEF IInv, Notes, Stages, Names
<1>5. Finishes'
  BY <1>1 DEF IInv, Notes, Finishes, Names, Is
<1>6. Links'
  BY <1>1 DEF IInv, Notes, Links
<1> QED
  BY <1>1, <1>2, <1>3, <1>4, <1>5, <1>6 DEF IInv, Notes

\* fullcurrent() drops previous for processed.
LEMMA DropPreviousStep ==
  ASSUME IInv, Rest', DropPrevious
  PROVE  IInv'
<1> USE DEF Restarting, Rotating, Cur, Prev, Proc, DropPrevious, memory, world
<1>1. /\ Types' /\ Order' /\ Vacant' /\ SafeMeansSafe'
      /\ archives' = archives /\ Is(files'["previous"], FALSE, <<>>, 0, FALSE)
      /\ \A o \in Names \ {"previous"} : files'[o] = files[o]
      /\ linked' = IF linked = "previous" THEN "none" ELSE linked
  BY Unlinking DEF Names
<1>2. Sizes' /\ Orphans'
  BY <1>1 DEF IInv, Notes, Sizes, Orphans
<1>3. MarkCurrent' /\ MarkDone'
  BY <1>1 DEF IInv, Notes, MarkCurrent, MarkDone, Names, Is
<1>4. Stages' /\ Finishes'
  BY <1>1 DEF IInv, Notes, Stages, Finishes, Names, Is
<1>5. Links'
  BY <1>1 DEF IInv, Notes, Links, Closing, Rest
<1> QED
  BY <1>1, <1>2, <1>3, <1>4, <1>5 DEF IInv, Notes

\* restart() decides between previous and processed.
LEMMA RecoverStep ==
  ASSUME IInv, Rest', Recover
  PROVE  IInv'
<1> USE DEF Restarting, Rotating, Cur, Prev, Proc, Recover, Finish
<1>1. ASSUME NEW m \in Names, Unlinked(m)
      PROVE  /\ Types' /\ Order' /\ Vacant' /\ SafeMeansSafe'
             /\ archives' = archives
             /\ Is(files'[m], FALSE, <<>>, 0, FALSE)
             /\ \A o \in Names \ {m} : files'[o] = files[o]
             /\ linked' = IF linked = m THEN "none" ELSE linked
  BY <1>1, Unlinking
<1>2. Sizes'
  BY <1>1 DEF IInv, Notes, Sizes, Names
<1>3. CASE FlagProcessed
  <2>1. /\ Is(files'["previous"], FALSE, <<>>, 0, FALSE)
        /\ files'["current"] = files["current"]
        /\ files'["processed"] = files["processed"]
        /\ linked' = IF linked = "previous" THEN "none" ELSE linked
        /\ archives' = archives
    BY <1>1, <1>3 DEF Names
  <2>2. Orphans' /\ MarkCurrent' /\ MarkDone'
    BY <1>3, <2>1 DEF IInv, Notes, MarkCurrent, MarkDone, Orphans,
       FlagProcessed, Is
  <2>3. Stages' /\ Finishes'
    BY <1>3, <2>1 DEF IInv, Notes, Stages, Finishes, FlagProcessed, MarkDone, Is
  <2>4. Links'
    BY <1>3, <2>1 DEF IInv, Notes, Links, Closing, Rest, Names, Is
  <2> QED
    BY <1>1, <1>2, <1>3, <2>2, <2>3, <2>4 DEF IInv, Notes, Names
<1>4. CASE ~FlagProcessed
  <2>1. /\ Is(files'["processed"], FALSE, <<>>, 0, FALSE)
        /\ files'["current"] = files["current"]
        /\ files'["previous"] = files["previous"]
        /\ linked' = IF linked = "processed" THEN "none" ELSE linked
        /\ archives' = archives
    BY <1>1, <1>4 DEF Names
  <2>2. Orphans' /\ MarkCurrent' /\ MarkDone'
    BY <1>4, <2>1 DEF IInv, Notes, MarkCurrent, MarkDone, Orphans, Is
  <2>3. Stages' /\ Finishes'
    BY <1>4, <2>1 DEF IInv, Notes, Stages, Finishes, Is
  <2>4. Links'
    BY <1>4, <2>1 DEF IInv, Notes, Links, Closing, Rest, Names, Is
  <2> QED
    BY <1>1, <1>2, <1>4, <2>2, <2>3, <2>4 DEF IInv, Notes, Names
<1> QED
  BY <1>3, <1>4

(***************************************************************************)
(* The other steps of restart(), finish() and filesfit().                  *)
(***************************************************************************)

\* restart() looks at the mark of current.
LEMMA StartStep ==
  ASSUME IInv, Rest', Start
  PROVE  IInv'
<1> DEFINE f == files["current"]
           v == Unmarked(f)
<1> USE DEF Restarting, Rotating, Cur, Prev, Proc, Start, world
<1>1. CASE f.here /\ f.x
  <2>1. v \in File /\ Is(v, TRUE, f.data, f.synced, FALSE)
    BY <1>1, Operations DEF IInv, Types, Filed, Names
  <2>2. Kept("current", v)
    <3>1. /\ files' = [files EXCEPT !["current"] = v]
          /\ UNCHANGED <<archives, n>> /\ linked' = linked
      BY <1>1
    <3>2. v.here /\ v.data = f.data /\ v.synced =< Len(v.data)
      BY <2>1 DEF IInv, Types, Filed, Whole, Names, Is
    <3> HIDE DEF v
    <3>3. Becomes("current", v)
      BY <2>1, <3>1, <3>2 DEF Becomes
    <3> QED
      BY <3>3, Change, Zenon DEF Names
  <2> HIDE DEF v
  <2>3. Sizes' /\ Orphans' /\ MarkCurrent' /\ MarkDone'
    <3>1. Proc.x => Proc.here
      BY Nothing DEF IInv, Notes, Vacant, Is, Names
    <3>2. files'["processed"] = Proc /\ ~Proc.here
      BY <1>1, <2>2 DEF Kept, IInv, Notes, MarkCurrent, Names
    <3> QED
      BY <1>1, <2>1, <2>2, <3>1, <3>2 DEF Kept, IInv, Notes, Sizes, Orphans,
         MarkCurrent, MarkDone, Is
  <2>4. Stages' /\ Finishes'
    BY <1>1, <2>1, <2>2 DEF Kept, IInv, Notes, Stages, Finishes, MarkCurrent,
       Names, Is
  <2>5. Links'
    BY <1>1, <2>1, <2>2 DEF IInv, Notes, Links, MarkCurrent
  <2> QED
    BY <2>2, <2>3, <2>4, <2>5 DEF IInv, Notes, Kept
<1>2. CASE ~(f.here /\ f.x)
  <2>1. Same
    BY <1>2 DEF Same
  <2>2. Cur.x => Cur.here
    BY Nothing DEF IInv, Notes, Vacant, Is, Names
  <2>3. Sizes' /\ Orphans' /\ MarkCurrent' /\ MarkDone'
    BY <1>2, <2>2 DEF IInv, Notes, Sizes, Orphans, MarkCurrent, MarkDone
  <2>4. Stages' /\ Finishes'
    BY <1>2 DEF IInv, Notes, Stages, Finishes
  <2>5. Links'
    BY <1>2 DEF IInv, Notes, Links, Closing
  <2> QED
    BY <2>1, <2>3, <2>4, <2>5, SameTypes DEF IInv, Notes
<1> QED
  BY <1>1, <1>2

\* filesfit() removes the oldest archive.
LEMMA FilesRemoveStep ==
  ASSUME IInv, Rest', FilesRemove
  PROVE  IInv'
<1> USE DEF FilesRemove, AfterRemoval
<1>1. /\ archives \in Seq(Archive) /\ archives # <<>>
      /\ UNCHANGED <<files, linked, state, newstate, pc, fin, n, crashes,
                     orphan>>
  <2>1. Len(archives) # 0
    BY CyclogAssumption DEF Fits, IInv, Types
  <2> QED
    BY <2>1, EmptySeq DEF IInv, Types, memory, world
<1>2. /\ archives' \in Seq(Archive)
      /\ Len(archives) \in Nat /\ Len(archives') = Len(archives) - 1
      /\ DOMAIN archives = 1..Len(archives)
      /\ DOMAIN archives' = 1..Len(archives')
      /\ \A i \in 1..Len(archives') : archives'[i] = archives[i + 1]
  BY <1>1, HeadTailProperties, LenProperties
<1>3. linked = "none"
  BY DEF IInv, Rest, Notes, Links, Closing, Restarting, Names
<1>4. Types'
  BY <1>1, <1>2 DEF IInv, Types, Filed
<1>5. Sizes'
  BY <1>1, <1>2, CyclogAssumption DEF IInv, Rest, Notes, Sizes
<1>6. Links'
  BY <1>1, <1>3 DEF IInv, Notes, Links, Names
<1>7. SafeMeansSafe'
  BY <1>1, <1>2 DEF IInv, Notes, SafeMeansSafe
<1>8. Order'
  <2>1. Written'
    BY <1>1, <1>2 DEF IInv, Order, Written
  <2>2. InOrder'
    BY <1>1, <1>2 DEF IInv, Order, InOrder
  <2> QED
    BY <2>1, <2>2 DEF Order
<1>9. /\ Vacant' /\ Orphans' /\ MarkCurrent' /\ MarkDone' /\ Stages'
      /\ Finishes'
  BY <1>1 DEF IInv, Notes, Vacant, Orphans, MarkCurrent, MarkDone, Stages,
     Finishes, Cur, Prev, Proc
<1> QED
  BY <1>4, <1>5, <1>6, <1>7, <1>8, <1>9 DEF IInv, Notes

\* A second name for the file m.
LEMMA FinishLinkStep ==
  ASSUME IInv, Rest', FinishLink
  PROVE  IInv'
<1> DEFINE m == fin.name
           a == [data |-> files[m].data, synced |-> files[m].synced,
                 code |-> fin.code]
<1> USE DEF Cur, Prev, Proc
<1>1. /\ UNCHANGED <<files, state, newstate, fin, n, crashes, orphan>>
      /\ pc = "finish" /\ pc' = "unlink" /\ files[m].here
      /\ IF linked = m THEN UNCHANGED <<archives, linked>>
         ELSE archives' = Append(archives, a) /\ linked' = m
  BY DEF FinishLink, HasArchive, memory, world
<1>2. m \in Names /\ archives \in Seq(Archive) /\ a \in Archive
  <2>1. fin \in [name : Names, code : Codes, to : Places]
    BY DEF IInv, Types, Rest
  <2>2. m \in Names /\ files[m] \in File
    BY <2>1 DEF IInv, Types, Filed
  <2> QED
    BY <2>1, <2>2 DEF IInv, Types, Archive, File
<1>3. /\ Vacant' /\ MarkCurrent' /\ MarkDone' /\ Orphans'
  BY <1>1 DEF IInv, Notes, Vacant, MarkCurrent, MarkDone, Orphans, Restarting
<1>4. Stages' /\ Finishes'
  BY <1>1 DEF IInv, Notes, Stages, Finishes, Rotating
<1>5. CASE linked = m
  <2>1. Same
    BY <1>1, <1>5 DEF Same
  <2>2. Sizes' /\ Links'
    BY <1>1, <1>5, CyclogAssumption DEF IInv, Notes, Sizes, Links, Closing
  <2> QED
    BY <1>3, <1>4, <2>1, <2>2, SameTypes DEF IInv, Notes
<1>6. CASE linked # m
  <2>1. /\ archives' \in Seq(Archive) /\ archives' # <<>>
        /\ Len(archives) \in Nat /\ Len(archives') = Len(archives) + 1
        /\ DOMAIN archives = 1..Len(archives)
        /\ DOMAIN archives' = 1..Len(archives')
        /\ archives'[Len(archives')] = a
        /\ \A i \in 1..Len(archives) : archives'[i] = archives[i]
    BY <1>1, <1>2, <1>6, AppendProperties, LenProperties
  <2>2. linked' = m
    BY <1>1, <1>6
  <2> HIDE DEF a
  <2>3. a.data = files[m].data /\ a.synced = files[m].synced
        /\ a.code = fin.code
    BY DEF a
  <2> HIDE DEF m
  <2>4. linked = "none"
    BY <1>1, <1>2, <1>6 DEF m, IInv, Types, Rest, Notes, Links, Names, Finishes
  <2>5. Types'
    <3>1. a.synced =< Len(a.data)
      BY <1>2, <2>3 DEF IInv, Types, Filed, Whole
    <3>2. \A i \in DOMAIN archives' :
            archives'[i].synced =< Len(archives'[i].data)
      BY <2>1, <3>1 DEF IInv, Types
    <3> QED
      BY <1>1, <2>1, <3>2 DEF IInv, Types, Filed
  <2>6. Sizes'
    BY <1>1, <2>1, CyclogAssumption DEF IInv, Rest, Notes, Sizes
  <2>7. SafeMeansSafe'
    <3>1. a.code = "s" => a.synced = Len(a.data)
      BY <1>1, <2>3 DEF m, IInv, Notes, Finishes, InSync
    <3> QED
      BY <2>1, <3>1 DEF IInv, Notes, SafeMeansSafe
  <2>8. Links'
    <3>1. Last(archives').data = files'[linked'].data
      BY <1>1, <2>1, <2>2, <2>3 DEF Last
    <3>2. /\ m = "current" => ~Prev.here /\ ~Proc.here
          /\ m = "previous" => ~Proc.here
          /\ m = "processed" => ~Prev.here /\ Proc.x
      BY <1>1 DEF m, IInv, Notes, Finishes
    <3>3. Closing(m)' 
      BY <1>1 DEF Closing, m
    <3> QED
      BY <1>1, <2>1, <2>2, <3>1, <3>2, <3>3 DEF Links, m
  <2>9. Order'
    <3>1. Lines(a) = Lines(files[m])
      BY <2>3, LinesOf
    <3>2. Written'
      BY <1>1, <1>2, <2>1, <3>1 DEF IInv, Order, Written
    <3>3. \A i \in DOMAIN archives, f \in Names :
            Before(archives[i], files[f])
      BY <2>4 DEF IInv, Order, InOrder, Names
    <3>4. \A f \in Names \ {m} : Before(files[m], files[f])
      <4>1. \A f \in Names : ~files[f].here => Lines(files[f]) = {}
        BY LinesOf, Nothing DEF IInv, Notes, Vacant, Is
      <4>2. \A f \in Names : f # "current" /\ f # m => ~files[f].here
        BY <1>1 DEF m, IInv, Notes, Finishes, Names
      <4>3. \A f \in Names :
              f # "current" /\ f # m => Before(files[m], files[f])
        BY <4>1, <4>2 DEF Before
      <4>4. m # "current" => Before(files[m], files["current"])
        BY <1>2 DEF IInv, Order, InOrder, Names
      <4> QED
        BY <4>3, <4>4
    <3>5. \A i, j \in DOMAIN archives' :
            i < j => Before(archives'[i], archives'[j])
      <4> SUFFICES ASSUME NEW i \in DOMAIN archives',
                          NEW j \in DOMAIN archives', i < j
                   PROVE  Before(archives'[i], archives'[j])
        OBVIOUS
      <4>1. i \in DOMAIN archives /\ archives'[i] = archives[i]
        BY <2>1
      <4>2. CASE j \in DOMAIN archives
        BY <2>1, <4>1, <4>2 DEF IInv, Order, InOrder
      <4>3. CASE j = Len(archives')
        BY <1>2, <2>1, <3>1, <3>3, <4>1, <4>3 DEF Before
      <4> QED
        BY <2>1, <4>2, <4>3
    <3>6. \A i \in DOMAIN archives', f \in Names \ {m} :
            Before(archives'[i], files[f])
      <4> SUFFICES ASSUME NEW i \in DOMAIN archives', NEW f \in Names \ {m}
                   PROVE  Before(archives'[i], files[f])
        OBVIOUS
      <4>1. CASE i \in DOMAIN archives
        BY <2>1, <3>3, <4>1
      <4>2. CASE i = Len(archives')
        BY <2>1, <3>1, <3>4, <4>2 DEF Before
      <4> QED
        BY <2>1, <4>1, <4>2
    <3>7. \A f \in {"previous", "processed"} :
            Before(files[f], files["current"])
      BY Zenon DEF IInv, Order, InOrder
    <3> QED
      BY <1>1, <2>2, <3>2, <3>5, <3>6, <3>7 DEF Order, InOrder
  <2> QED
    BY <1>3, <1>4, <2>5, <2>6, <2>7, <2>8, <2>9 DEF IInv, Notes
<1> QED
  BY <1>5, <1>6

(***************************************************************************)
(* Steps that move lines.                                                  *)
(***************************************************************************)

\* The lines of a file are numbers that were written.
LEMMA Numbers ==
  ASSUME Types
  PROVE  /\ \A f \in Names : Lines(files[f]) \subseteq Nat
         /\ \A i \in DOMAIN archives : Lines(archives[i]) \subseteq Nat
<1>1. ASSUME NEW f, f.data \in Seq(1..MaxLine)
      PROVE  Lines(f) \subseteq Nat
  BY <1>1, ElementOfSeq, CyclogAssumption DEF Lines
<1>2. \A f \in Names : files[f].data \in Seq(1..MaxLine)
  BY DEF Types, Filed, File
<1>3. \A i \in DOMAIN archives : archives[i].data \in Seq(1..MaxLine)
  <2>1. \A i \in DOMAIN archives : archives[i] \in Archive
    BY LenProperties, ElementOfSeq DEF Types
  <2> QED
    BY <2>1 DEF Archive
<1> QED
  BY <1>1, <1>2, <1>3

\* write() appends the next line to current.
LEMMA Writing ==
  ASSUME IInv, Write
  PROVE  /\ n \in Nat /\ n' = n + 1 /\ n' \in 1..MaxLine /\ linked = "none"
         /\ Cur.here /\ ~Cur.x /\ ~Prev.here /\ ~Proc.here
         /\ Filed' /\ \A o \in Names \ {"current"} : files'[o] = files[o]
         /\ Cur'.here /\ ~Cur'.x
         /\ Lines(Cur') = Lines(Cur) \cup {n'}
         /\ Durable(Cur') = Durable(Cur)
<1> DEFINE f == files["current"]
           d == Append(f.data, n')
           v == [f EXCEPT !.data = d]
<1> USE DEF Cur, Prev, Proc
<1>1. /\ pc = "run" /\ n' = n + 1
      /\ files' = [files EXCEPT !["current"] = v]
  BY DEF Write
<1>2. n \in Nat /\ n' \in 1..MaxLine /\ linked = "none"
  BY <1>1, CyclogAssumption DEF Write, IInv, Types, Rest, Notes, Links, Closing,
     Restarting, Names
<1>3. /\ f \in File /\ Whole(f, n) /\ f.here /\ ~f.x /\ ~Prev.here /\ ~Proc.here
  BY <1>1 DEF IInv, Types, Filed, Names, Notes, Stages, MarkCurrent
<1>4. /\ d \in Seq(1..MaxLine)
      /\ Len(d) = Len(f.data) + 1
      /\ \A i \in 1..Len(f.data) : d[i] = f.data[i]
      /\ d[Len(f.data) + 1] = n'
  BY <1>2, <1>3, AppendProperties DEF File
<1>5. v \in File /\ Is(v, TRUE, d, f.synced, FALSE)
  <2> HIDE DEF d
  <2>1. v \in File /\ Is(v, f.here, d, f.synced, f.x)
    BY <1>3, <1>4, Filling
  <2> QED
    BY <1>3, <2>1 DEF Is, File
<1> HIDE DEF v, d
<1>6. /\ Filed' /\ files'["current"] = v
      /\ \A o \in Names \ {"current"} : files'[o] = files[o]
  <2>1. Whole(v, n')
    BY <1>1, <1>2, <1>3, <1>4, <1>5 DEF Whole, Is, File
  <2>2. "current" \in Names /\ n' \in Nat /\ n =< n'
    BY <1>1, <1>2, CyclogAssumption DEF Names
  <2> QED
    BY <1>1, <1>2, <2>1, <2>2, Update DEF IInv, Types
<1>7. Lines(v) = Lines(f) \cup {n'}
  <2>1. Len(f.data) \in Nat
    BY <1>3 DEF File
  <2>2. Lines(v) = {d[i] : i \in 1..(Len(f.data) + 1)}
    BY <1>4, <1>5 DEF Lines, Is
  <2>3. Lines(f) = {d[i] : i \in 1..Len(f.data)}
    BY <1>4 DEF Lines
  <2>4. 1..(Len(f.data) + 1) = 1..Len(f.data) \cup {Len(f.data) + 1}
    BY <2>1
  <2>5. d[Len(f.data) + 1] = n'
    BY <1>4
  <2> QED
    BY <2>2, <2>3, <2>4, <2>5
<1>8. Durable(v) = Durable(f)
  <2>1. /\ v.data = d /\ v.synced = f.synced
        /\ f.synced \in Nat /\ f.synced =< Len(f.data) /\ Len(f.data) \in Nat
    BY <1>3, <1>5 DEF Is, Whole, File
  <2>2. \A i \in 1..f.synced : v.data[i] = f.data[i]
    BY <1>4, <2>1
  <2> QED
    BY <2>1, <2>2 DEF Durable
<1> QED
  BY <1>1, <1>2, <1>3, <1>5, <1>6, <1>7, <1>8 DEF Is

\* The line is the last one, so that Order is kept.
LEMMA WriteStep ==
  ASSUME IInv, Rest', Write
  PROVE  IInv'
<1> USE DEF Restarting, Rotating, Cur, Prev, Proc
<1>1. /\ pc = "run" /\ pc' \in {"run", "fullcurrent"}
      /\ UNCHANGED <<archives, linked, state, newstate, fin, orphan, crashes>>
  BY DEF Write
<1>2. /\ n \in Nat /\ n' = n + 1 /\ n' \in 1..MaxLine /\ linked = "none"
      /\ Cur.here /\ ~Cur.x /\ ~Prev.here /\ ~Proc.here
      /\ Filed' /\ \A o \in Names \ {"current"} : files'[o] = files[o]
      /\ Cur'.here /\ ~Cur'.x /\ Lines(Cur') = Lines(Cur) \cup {n'}
  BY Writing
<1>3. Types'
  BY <1>1, <1>2 DEF IInv, Types
<1>4. Vacant' /\ Sizes' /\ Orphans' /\ MarkCurrent' /\ MarkDone'
  BY <1>1, <1>2 DEF IInv, Notes, Vacant, Sizes, Orphans, MarkCurrent, MarkDone,
     Names
<1>5. Stages' /\ Finishes' /\ Links'
  BY <1>1, <1>2 DEF IInv, Notes, Stages, Finishes, Links, Names
<1>6. SafeMeansSafe'
  BY <1>1 DEF IInv, Notes, SafeMeansSafe
<1>7. /\ \A g \in Names : Lines(files[g]) \subseteq Nat
      /\ \A i \in DOMAIN archives : Lines(archives[i]) \subseteq Nat
  BY Numbers DEF IInv
<1>8. Written'
  BY <1>1, <1>2, <1>7 DEF IInv, Order, Written
<1>9. InOrder'
  <2>1. \A i \in DOMAIN archives : Before(archives[i], Cur')
    <3>1. \A i \in DOMAIN archives :
            Before(archives[i], Cur) /\ \A l \in Lines(archives[i]) : l =< n
      BY <1>2 DEF IInv, Order, Written, InOrder, Names
    <3> QED
      BY <1>2, <1>7, <3>1 DEF Before
  <2>2. Lines(Prev) = {} /\ Lines(Proc) = {}
    BY <1>2, LinesOf, Nothing DEF IInv, Notes, Vacant, Is, Names
  <2>3. \A g \in {"previous", "processed"} :
          Before(files'[g], files'["current"])
    BY <1>2, <2>2 DEF Before, Names
  <2>4. \A i \in DOMAIN archives', g \in Names \ {linked'} :
          Before(archives'[i], files'[g])
    BY <1>1, <1>2, <2>1 DEF IInv, Order, InOrder
  <2>5. \A i, j \in DOMAIN archives' :
          i < j => Before(archives'[i], archives'[j])
    BY <1>1 DEF IInv, Order, InOrder
  <2> QED
    BY <2>3, <2>4, <2>5, Zenon DEF InOrder
<1> QED
  BY <1>3, <1>4, <1>5, <1>6, <1>8, <1>9 DEF IInv, Notes, Order

\* current becomes previous.
LEMMA RenameStep ==
  ASSUME IInv, Rest', Rename
  PROVE  IInv'
<1> USE DEF Restarting, Rotating, Cur, Prev, Proc
<1>1. /\ pc = "rename" /\ pc' = "reopen"
      /\ files'["previous"] = Cur /\ files'["current"] = Absent
      /\ files'["processed"] = Proc /\ files' \in [Names -> File]
      /\ UNCHANGED <<archives, linked, state, newstate, fin, orphan, n,
                     crashes>>
  BY Nothing DEF Rename, IInv, Types, Filed, Names, memory, world
<1>2. /\ linked = "none" /\ Cur.here /\ ~Cur.x /\ InSync(Cur)
      /\ ~Prev.here /\ ~Proc.here
  BY <1>1 DEF IInv, Rest, Notes, Links, Closing, Names, Stages, MarkCurrent
<1>3. Types'
  <2>1. Whole(Absent, n)
    BY Nothing, EmptySeq DEF Whole, Is, IInv, Types, Rest
  <2>2. \A f \in Names : Whole(files'[f], n)
    BY <1>1, <2>1 DEF IInv, Types, Filed, Names
  <2> QED
    BY <1>1, <2>2 DEF IInv, Types, Filed
<1>4. Vacant' /\ Sizes' /\ Orphans' /\ SafeMeansSafe'
  BY <1>1, <1>2 DEF IInv, Notes, Vacant, Sizes, Orphans, SafeMeansSafe, Names
<1>5. MarkCurrent' /\ MarkDone'
  BY <1>1, <1>2, Nothing DEF IInv, Notes, MarkCurrent, MarkDone, Is
<1>6. Stages' /\ Finishes' /\ Links'
  BY <1>1, <1>2 DEF IInv, Notes, Stages, Finishes, Links
<1>7. Order'
  <2>1. Lines(Absent) = {} /\ Lines(Proc) = {}
    BY <1>2, LinesOf, Nothing DEF IInv, Notes, Vacant, Is, Names
  <2>2. Written'
    BY <1>1, <2>1 DEF IInv, Order, Written, Names
  <2>3. InOrder'
    BY <1>1, <1>2, <2>1 DEF IInv, Order, InOrder, Before, Names
  <2> QED
    BY <2>2, <2>3 DEF Order
<1> QED
  BY <1>3, <1>4, <1>5, <1>6, <1>7 DEF IInv, Notes

(***************************************************************************)
(* What the processor writes.                                              *)
(***************************************************************************)

\* The first lines of a file are among its lines.
LEMMA LinesOfPrefix ==
  ASSUME NEW S, NEW f, f.data \in Seq(S), NEW k \in 0..Len(f.data),
         NEW g, g.data = SubSeq(f.data, 1, k)
  PROVE  Lines(g) \subseteq Lines(f)
<1>1. /\ Len(g.data) = k /\ \A i \in 1..k : g.data[i] = f.data[i]
  BY Prefix
<1> QED
  BY <1>1 DEF Lines

\* processed is written again, from previous.
LEMMA Outputting ==
  ASSUME IInv, Rest', NEW k \in 0..Len(Prev.data), Output(k),
         linked = "none", ~Proc.x, UNCHANGED <<archives, linked, n>>
  PROVE  /\ Types' /\ Order' /\ Vacant' /\ SafeMeansSafe'
         /\ ~Proc'.x /\ Proc'.data = SubSeq(Prev.data, 1, k)
         /\ Proc'.synced = 0 /\ Cur' = Cur /\ Prev' = Prev
<1> USE DEF Cur, Prev, Proc
<1> DEFINE d == SubSeq(Prev.data, 1, k)
           f == Opened(Proc)
           v == [f EXCEPT !.data = d, !.synced = 0]
<1>1. files' = [files EXCEPT !["processed"] = v]
  BY DEF Output
<1>2. /\ Prev \in File /\ Proc \in File /\ n \in Nat
      /\ Whole(Prev, n) /\ (~Proc.here => Proc = Absent)
  BY CyclogAssumption DEF IInv, Types, Filed, Rest, Names, Notes, Vacant
<1>3. d \in Seq(1..MaxLine) /\ Len(d) = k
  BY <1>2, Prefix DEF File
<1>4. f \in File /\ f.here /\ ~f.x
  BY <1>2, Operations DEF Is
<1> HIDE DEF f, d
<1>5. v \in File /\ v.here /\ v.data = d /\ v.synced = 0 /\ ~v.x
  <2>1. v \in File /\ Is(v, f.here, d, 0, f.x)
    BY <1>3, <1>4, Rewriting
  <2> QED
    BY <1>4, <2>1 DEF Is
<1> HIDE DEF v
<1>6. /\ Filed' /\ files'["processed"] = v
      /\ \A o \in Names \ {"processed"} : files'[o] = files[o]
  <2>1. Whole(v, n')
    BY <1>2, <1>3, <1>5 DEF Whole
  <2>2. "processed" \in Names /\ n' \in Nat /\ n =< n'
    BY <1>2 DEF Names
  <2> QED
    BY <1>1, <1>2, <2>1, <2>2, Update DEF IInv, Types
<1>7. Types'
  BY <1>6 DEF IInv, Types
<1>8. Vacant' /\ SafeMeansSafe'
  BY <1>5, <1>6 DEF IInv, Notes, Vacant, SafeMeansSafe
<1>9. Order'
  <2>1. Lines(v) \subseteq Lines(Prev)
    BY <1>2, <1>5, LinesOfPrefix DEF File, d
  <2>2. Written'
    BY <1>6, <2>1 DEF IInv, Order, Written, Names
  <2>3. \A i \in DOMAIN archives, o \in Names : Before(archives[i], files'[o])
    BY <1>6, <2>1 DEF IInv, Order, InOrder, Before, Names
  <2>4. \A o \in {"previous", "processed"} :
          Before(files'[o], files'["current"])
    BY <1>6, <2>1 DEF IInv, Order, InOrder, Before, Names
  <2>5. \A i, j \in DOMAIN archives' :
          i < j => Before(archives'[i], archives'[j])
    BY DEF IInv, Order, InOrder
  <2> QED
    BY <2>2, <2>3, <2>4, <2>5 DEF Order, InOrder
<1> QED
  BY <1>5, <1>6, <1>7, <1>8, <1>9 DEF d, Names

\* The processor of a multilog that runs.
LEMMA ProcessStep ==
  ASSUME IInv, Rest', ProcessFails \/ ProcessDone
  PROVE  IInv'
<1> USE DEF Restarting, Rotating
<1>1. PICK k \in 0..Len(Prev.data) :
        /\ Output(k)
        /\ \/ pc' = pc
           \/ k = Len(Prev.data) /\ pc' = "syncProcessed"
  <2>1. Len(Prev.data) \in Nat
    BY DEF IInv, Types, Filed, File, Names, Prev
  <2> QED
    BY <2>1 DEF ProcessFails, ProcessDone, Process, Prev
<1>2. /\ UNCHANGED <<archives, linked, n, state, fin, orphan, crashes>>
      /\ pc = "process"
  BY DEF ProcessFails, ProcessDone, memory, world
<1>3. linked = "none" /\ ~Proc.x
  BY <1>2 DEF IInv, Rest, Notes, Links, MarkDone, Closing, Names
<1>4. /\ Types' /\ Order' /\ Vacant' /\ SafeMeansSafe'
      /\ ~Proc'.x /\ Proc'.data = SubSeq(Prev.data, 1, k)
      /\ Cur' = Cur /\ Prev' = Prev
  BY <1>1, <1>2, <1>3, Outputting
<1>5. k = Len(Prev.data) => Proc'.data = Prev.data
  <2>1. Prev.data \in Seq(1..MaxLine)
    BY DEF IInv, Types, Filed, File, Names, Prev
  <2> QED
    BY <1>4, <2>1, SubSeqFull
<1>6. Sizes' /\ Orphans' /\ MarkCurrent' /\ MarkDone'
  BY <1>1, <1>2, <1>3, <1>4 DEF IInv, Notes, Sizes, Orphans, MarkCurrent,
     MarkDone
<1>7. Stages' /\ Finishes' /\ Links'
  BY <1>1, <1>2, <1>3, <1>4, <1>5 DEF IInv, Notes, Stages, Finishes, Links
<1> QED
  BY <1>4, <1>6, <1>7 DEF IInv, Notes

\* The processor of one that was killed.
LEMMA OrphanStep ==
  ASSUME IInv, Rest', OrphanWrites
  PROVE  IInv'
<1> USE DEF Restarting, Rotating
<1>1. PICK k \in 1..Len(Prev.data) : Output(k)
  BY DEF OrphanWrites, Prev
<1>2. /\ UNCHANGED <<archives, linked, n, state, fin, orphan, crashes, pc>>
      /\ "processed" \in orphan
  BY DEF OrphanWrites, memory, world
<1>3. linked = "none" /\ ~Proc.x /\ ~Cur.x /\ pc \in Restarting
  BY <1>2 DEF IInv, Notes, Orphans
<1>4. k \in 0..Len(Prev.data)
  BY DEF IInv, Types, Filed, File, Names, Prev
<1>5. /\ Types' /\ Order' /\ Vacant' /\ SafeMeansSafe'
      /\ ~Proc'.x /\ Cur' = Cur /\ Prev' = Prev
  BY <1>1, <1>2, <1>3, <1>4, Outputting
<1>6. Sizes' /\ Orphans' /\ MarkCurrent' /\ MarkDone'
  BY <1>2, <1>3, <1>5 DEF IInv, Notes, Sizes, Orphans, MarkCurrent, MarkDone
<1>7. Stages' /\ Finishes' /\ Links'
  BY <1>2, <1>3, <1>5 DEF Stages, Finishes, Links
<1> QED
  BY <1>5, <1>6, <1>7 DEF IInv, Notes

(***************************************************************************)
(* Outages.                                                                *)
(***************************************************************************)

\* An outage leaves the first lines, and all that were secure.
LEMMA DurableRemains ==
  ASSUME NEW S, NEW f, f.data \in Seq(S), f.synced \in Nat,
         NEW k \in f.synced..Len(f.data),
         NEW g, g.data = SubSeq(f.data, 1, k)
  PROVE  Durable(f) \subseteq Lines(g)
<1>1. k \in 0..Len(f.data) /\ f.synced =< k
  OBVIOUS
<1>2. /\ Len(g.data) = k /\ \A i \in 1..k : g.data[i] = f.data[i]
  BY <1>1, Prefix
<1>3. \A i \in 1..f.synced : i \in 1..k
  BY <1>1
<1> QED
  BY <1>2, <1>3 DEF Durable, Lines

\* A record is its fields.
LEMMA SameRecord ==
  ASSUME NEW f \in File, NEW g \in File,
         Is(g, f.here, f.data, f.synced, f.x)
  PROVE  g = f
  BY DEF File, Is

\* What is left of a file: what was in sync is left as it was.
LEMMA RemainsOfFile ==
  ASSUME NEW m \in Nat, NEW f, Whole(f, m), NEW g \in Remains(f)
  PROVE  /\ Whole(g, m) /\ InSync(g)
         /\ Lines(g) \subseteq Lines(f) /\ Durable(f) \subseteq Lines(g)
         /\ g.here = f.here /\ g.x = f.x
         /\ InSync(f) => g.data = f.data
         /\ f = Absent => g = Absent
<1>1. PICK k \in f.synced..Len(f.data) :
        g = [f EXCEPT !.data = SubSeq(f.data, 1, k), !.synced = k]
  BY DEF Remains
<1>2. /\ f \in File /\ f.synced \in Nat /\ Len(f.data) \in Nat
      /\ f.synced =< Len(f.data) /\ Len(f.data) =< m
      /\ f.data \in Seq(1..MaxLine)
  BY DEF Whole, File
<1> DEFINE d == SubSeq(f.data, 1, k)
<1>3. k \in 0..Len(f.data) /\ k \in Nat
  BY <1>1, <1>2
<1>4. d \in Seq(1..MaxLine) /\ Len(d) = k
  BY <1>2, <1>3, Prefix
<1>5. InSync(f) => d = f.data
  BY <1>1, <1>2, SubSeqFull DEF InSync
<1> HIDE DEF d
<1>6. g \in File /\ Is(g, f.here, d, k, f.x)
  BY <1>1, <1>2, <1>3, <1>4, Rewriting DEF d
<1>7. Whole(g, m) /\ InSync(g)
  BY <1>2, <1>3, <1>4, <1>6 DEF Whole, InSync, Is
<1>8. Lines(g) \subseteq Lines(f)
  BY <1>2, <1>3, <1>6, LinesOfPrefix DEF d, Is
<1>10. Durable(f) \subseteq Lines(g)
  <2>1. g.data = SubSeq(f.data, 1, k)
    BY <1>6 DEF Is, d
  <2> QED
    BY <1>1, <1>2, <2>1, DurableRemains
<1>9. ASSUME f = Absent PROVE g = Absent
  <2>1. f.synced = 0 /\ f.data = <<>> /\ Len(f.data) = 0
    BY <1>9, Nothing, EmptySeq DEF Is
  <2>2. k = 0 /\ d = f.data
    BY <1>3, <1>5, <2>1 DEF InSync
  <2>3. Is(g, f.here, f.data, f.synced, f.x)
    BY <1>6, <2>1, <2>2
  <2> QED
    BY <1>2, <1>6, <1>9, <2>3, SameRecord
<1> QED
  BY <1>5, <1>6, <1>7, <1>8, <1>9, <1>10 DEF Is

\* What is left of an archive.
LEMMA RemainsOfArchive ==
  ASSUME NEW a \in Archive, NEW b \in Remains(a),
         a.synced =< Len(a.data)
  PROVE  /\ b \in Archive /\ b.code = a.code /\ b.synced = Len(b.data)
         /\ Lines(b) \subseteq Lines(a) /\ Durable(a) \subseteq Lines(b)
<1>1. PICK k \in a.synced..Len(a.data) :
        b = [a EXCEPT !.data = SubSeq(a.data, 1, k), !.synced = k]
  BY DEF Remains
<1>2. /\ a.synced \in Nat /\ Len(a.data) \in Nat
      /\ a.data \in Seq(1..MaxLine)
  BY DEF Archive
<1> DEFINE d == SubSeq(a.data, 1, k)
           c == [a EXCEPT !.data = d]
<1>3. k \in 0..Len(a.data) /\ k \in Nat
  BY <1>1, <1>2
<1>4. d \in Seq(1..MaxLine) /\ Len(d) = k
  BY <1>2, <1>3, Prefix
<1> HIDE DEF d
<1>5. c \in Archive /\ c.data = d /\ c.code = a.code
  BY <1>4 DEF Archive
<1>6. b = [c EXCEPT !.synced = k]
  BY <1>1, Zenon DEF d
<1> HIDE DEF c
<1>7. b \in Archive /\ b.data = d /\ b.code = a.code /\ b.synced = k
  BY <1>3, <1>5, <1>6 DEF Archive
<1>8. Lines(b) \subseteq Lines(a)
  BY <1>2, <1>3, <1>7, LinesOfPrefix DEF d
<1>9. Durable(a) \subseteq Lines(b)
  BY <1>1, <1>2, <1>7, DurableRemains DEF d
<1> QED
  BY <1>4, <1>7, <1>8, <1>9

\* An outage leaves every note true, as what a note speaks of is in sync.
LEMMA OutageStep ==
  ASSUME IInv, Rest', Outage
  PROVE  IInv'
<1> USE DEF Cur, Prev, Proc
<1>1. /\ pc' = "off" /\ orphan' = {} /\ crashes' = crashes + 1
      /\ UNCHANGED <<linked, state, n>>
      /\ files' \in [Names -> UNION {Remains(files[f]) : f \in Names}]
      /\ \A f \in Names : files'[f] \in Remains(files[f])
      /\ DOMAIN archives' = DOMAIN archives
      /\ archives' \in [DOMAIN archives ->
                          UNION {Remains(archives[i]) : i \in DOMAIN archives}]
      /\ \A i \in DOMAIN archives : archives'[i] \in Remains(archives[i])
      /\ linked # "none" => Last(archives').data = files'[linked].data
  BY DEF Outage, Ended
<1>2. \A f \in Names :
        /\ Whole(files'[f], n) /\ InSync(files'[f])
        /\ Lines(files'[f]) \subseteq Lines(files[f])
        /\ files'[f].here = files[f].here /\ files'[f].x = files[f].x
        /\ InSync(files[f]) => files'[f].data = files[f].data
        /\ files[f] = Absent => files'[f] = Absent
  <2>1. n \in Nat
    BY CyclogAssumption DEF IInv, Types, Rest
  <2>2. \A f \in Names : Whole(files[f], n)
    BY DEF IInv, Types, Filed
  <2> QED
    BY <1>1, <2>1, <2>2, RemainsOfFile
<1>3. \A i \in DOMAIN archives :
        /\ archives'[i] \in Archive /\ archives'[i].code = archives[i].code
        /\ archives'[i].synced = Len(archives'[i].data)
        /\ Lines(archives'[i]) \subseteq Lines(archives[i])
  <2>1. \A i \in DOMAIN archives :
          archives[i] \in Archive /\ archives[i].synced =< Len(archives[i].data)
    BY LenProperties, ElementOfSeq DEF IInv, Types
  <2> QED
    BY <1>1, <2>1, RemainsOfArchive
<1>4. /\ DOMAIN archives = 1..Len(archives) /\ Len(archives) \in Nat
      /\ archives' \in Seq(Archive) /\ Len(archives') = Len(archives)
      /\ archives # <<>> => archives' # <<>>
  <2>1. DOMAIN archives = 1..Len(archives) /\ Len(archives) \in Nat
    BY LenProperties DEF IInv, Types
  <2>2. archives' \in [1..Len(archives) -> Archive]
    BY <1>1, <1>3, <2>1
  <2>3. archives' \in Seq(Archive) /\ Len(archives') = Len(archives)
    BY <2>1, <2>2
  <2>4. archives # <<>> => Len(archives) # 0
    BY EmptySeq DEF IInv, Types
  <2> QED
    BY <2>1, <2>3, <2>4, EmptySeq
<1>5. Types'
  <2>1. files' \in [Names -> File]
    BY <1>1, <1>2 DEF Whole
  <2> QED
    BY <1>1, <1>2, <1>3, <1>4, <2>1 DEF Types, Filed, Archive
<1>6. Sizes'
  BY <1>1, <1>4, CyclogAssumption DEF IInv, Types, Rest, Notes, Sizes
<1>7. Vacant'
  BY <1>2 DEF IInv, Notes, Vacant
<1>8. Orphans' /\ MarkCurrent' /\ MarkDone'
  BY <1>1, <1>2 DEF IInv, Notes, Orphans, MarkCurrent, MarkDone, Names,
     Restarting
<1>9. Stages' /\ Finishes'
  BY <1>1 DEF Stages, Finishes, Rotating
<1>10. Links'
  BY <1>1, <1>2, <1>4 DEF IInv, Rest, Notes, Links, Names, Restarting
<1>11. SafeMeansSafe'
  BY <1>1, <1>3 DEF SafeMeansSafe
<1>12. Order'
  BY <1>1, <1>2, <1>3, Shrinking
<1> QED
  BY <1>5, <1>6, <1>7, <1>8, <1>9, <1>10, <1>11, <1>12 DEF IInv, Notes

(***************************************************************************)
(* The inductive invariant holds.                                          *)
(***************************************************************************)

\* An empty directory.
LEMMA Initially ==
  Init => IInv
<1> SUFFICES ASSUME Init PROVE IInv
  OBVIOUS
<1> USE DEF Init
<1>1. \A f \in Names : files[f] = Absent
  OBVIOUS
<1>2. Types
  <2>1. Absent \in File /\ Absent.synced = 0 /\ Absent.data = <<>>
    BY Nothing DEF Is
  <2>2. \A f \in Names : Whole(files[f], n)
    BY <1>1, <2>1 DEF Whole
  <2>3. files \in [Names -> File]
    BY <2>1
  <2>4. Rest
    <3>1. fin \in [name : Names, code : Codes, to : Places]
      BY DEF Names, Codes, Places
    <3>2. pc \in Places /\ linked \in Names \cup {"none"}
      BY DEF Places
    <3>3. bytes \in 0..n /\ n \in 0..MaxLine /\ crashes \in 0..MaxCrash
      BY CyclogAssumption
    <3> QED
      BY <3>1, <3>2, <3>3 DEF Rest
  <2> QED
    BY <2>2, <2>3, <2>4 DEF Types, Filed
<1>3. Order
  <2>1. DOMAIN archives = {}
    OBVIOUS
  <2>2. \A f \in Names : Lines(files[f]) = {}
    BY <1>1, LinesOf, Nothing DEF Is
  <2> QED
    BY <2>1, <2>2 DEF Order, Written, InOrder, Before, Names
<1>4. Notes
  <2>1. ~Absent.here /\ ~Absent.x
    BY Nothing DEF Is
  <2>2. Sizes /\ Vacant /\ Orphans /\ MarkCurrent /\ MarkDone
    BY <1>1, <2>1, CyclogAssumption DEF Sizes, Vacant, Orphans, MarkCurrent,
       MarkDone, Cur, Proc, Names
  <2>3. Stages /\ Finishes /\ Links /\ SafeMeansSafe
    BY DEF Stages, Finishes, Links, SafeMeansSafe, Rotating
  <2> QED
    BY <2>2, <2>3 DEF Notes
<1> QED
  BY <1>2, <1>3, <1>4 DEF IInv

\* Every step keeps the invariant.
LEMMA NextStep ==
  ASSUME IInv, [Next]_vars
  PROVE  IInv'
<1>1. CASE UNCHANGED vars
  BY <1>1 DEF vars, disk, memory, world, IInv, Types, Filed, Rest, Notes, Sizes,
     Vacant, Orphans, MarkCurrent, MarkDone, Stages, Finishes, Links,
     SafeMeansSafe, Order, Written, InOrder, Cur, Prev, Proc, Closing
<1>2. CASE Next
  <2>1. Rest'
    BY <1>2, RestStep DEF IInv, Types
  <2>2. CASE Restart
    BY <2>1, <2>2, QuietStep, RecoverStep, CurrentStep DEF Restart
  <2>3. CASE Finishing
    BY <2>1, <2>3, QuietStep, FinishLinkStep, FinishUnlinkStep, FilesRemoveStep
       DEF Finishing
  <2>4. CASE FullCurrent
    BY <2>1, <2>4, QuietStep, CurrentStep, RenameStep, MarkPreviousStep,
       ProcessStep, ProcessedStep, DropPreviousStep DEF FullCurrent
  <2>5. CASE Start \/ Write \/ WriteFull \/ ForceRotate \/ ProcessFails
    BY <2>1, <2>5, QuietStep, StartStep, WriteStep, ProcessStep
  <2>6. CASE Quit \/ Kill \/ OrphanWrites \/ Outage
    BY <2>1, <2>6, QuietStep, CurrentStep, OrphanStep, OutageStep DEF Quit
  <2> QED
    BY <1>2, <2>2, <2>3, <2>4, <2>5, <2>6 DEF Next
<1> QED
  BY <1>1, <1>2

(***************************************************************************)
(* The lines that can be read, and those that would survive an outage.      *)
(***************************************************************************)

Readable == UNION {Lines(f) : f \in All}
Secure   == UNION {Durable(f) : f \in All}

\* A processed that does not count yet has nothing that previous does not have.
HalfDone ==
  /\ Proc.here /\ ~Proc.x => InSync(Prev) /\ Lines(Proc) \subseteq Lines(Prev)
  /\ "processed" \in orphan => InSync(Prev)

\* Both names of a file have the same lines on disk.
Twins == linked # "none" => Last(archives).synced = files[linked].synced

RInv == IInv /\ HalfDone /\ Twins

\* The types of what is in the directory.
LEMMA Kinds ==
  ASSUME Types
  PROVE  /\ \A f \in Names :
              files[f] \in File /\ files[f].data \in Seq(1..MaxLine)
         /\ \A f \in Names : /\ Len(files[f].data) \in Nat
                             /\ files[f].synced \in 0..Len(files[f].data)
         /\ \A i \in DOMAIN archives :
              archives[i] \in Archive /\ archives[i].data \in Seq(1..MaxLine)
         /\ \A i \in DOMAIN archives :
              /\ Len(archives[i].data) \in Nat
              /\ archives[i].synced \in 0..Len(archives[i].data)
         /\ archives \in Seq(Archive) /\ Len(archives) \in Nat
         /\ DOMAIN archives = 1..Len(archives)
<1>1. archives \in Seq(Archive) /\ Len(archives) \in Nat
      /\ DOMAIN archives = 1..Len(archives)
  BY LenProperties DEF Types
<1>2. \A i \in DOMAIN archives : archives[i] \in Archive
  BY <1>1, ElementOfSeq
<1>3. \A f \in Names :
        files[f] \in File /\ files[f].synced =< Len(files[f].data)
  BY DEF Types, Filed, Whole
<1>4. \A i \in DOMAIN archives : archives[i].synced =< Len(archives[i].data)
  BY DEF Types
<1> QED
  BY <1>1, <1>2, <1>3, <1>4, LenProperties DEF File, Archive

\* What a file or an archive has on disk is part of its lines.
LEMMA OnDisk ==
  ASSUME NEW f, NEW g
  PROVE  /\ f.data = g.data => Lines(f) = Lines(g)
         /\ f.data = g.data /\ f.synced = g.synced => Durable(f) = Durable(g)
         /\ f.data = <<>> => Lines(f) = {}
         /\ InSync(f) => Durable(f) = Lines(f)
         /\ Len(f.data) \in Nat /\ f.synced \in 0..Len(f.data)
              => Durable(f) \subseteq Lines(f)
  BY DEF Lines, Durable, InSync

\* A file that is not there has no lines.
LEMMA NoLines ==
  Lines(Absent) = {} /\ Durable(Absent) = {}
  BY Nothing, OnDisk, EmptySeq DEF Is, InSync

\* Where a line can be.
LEMMA Everywhere ==
  /\ \A l : l \in Readable <=>
       \/ \E f \in Names : l \in Lines(files[f])
       \/ \E i \in DOMAIN archives : l \in Lines(archives[i])
  /\ \A l : l \in Secure <=>
       \/ \E f \in Names : l \in Durable(files[f])
       \/ \E i \in DOMAIN archives : l \in Durable(archives[i])
  BY DEF Readable, Secure, All

\* Every line stays where it is, or is in another place as well.
LEMMA NothingMoves ==
  ASSUME UNCHANGED archives,
         \A f \in Names : /\ Lines(files[f]) \subseteq Readable'
                          /\ Durable(files[f]) \subseteq Secure'
                          /\ Lines(files'[f]) \subseteq Readable
                          /\ Durable(files'[f]) \subseteq Secure
  PROVE  UNCHANGED <<Readable, Secure>>
<1>1. /\ \A l : l \in Readable' <=>
           \/ \E f \in Names : l \in Lines(files'[f])
           \/ \E i \in DOMAIN archives : l \in Lines(archives[i])
      /\ \A l : l \in Secure' <=>
           \/ \E f \in Names : l \in Durable(files'[f])
           \/ \E i \in DOMAIN archives : l \in Durable(archives[i])
  BY DEF Readable, Secure, All
<1>2. \A l : l \in Readable' <=> l \in Readable
  BY <1>1, Everywhere, Zenon
<1>3. \A l : l \in Secure' <=> l \in Secure
  BY <1>1, Everywhere, Zenon
<1> QED
  BY <1>2, <1>3

\* The lines of a file are there after the step if a file still has them.
LEMMA Still ==
  /\ \A f \in Names : Lines(files[f]) \subseteq Readable
                      /\ Durable(files[f]) \subseteq Secure
  /\ \A i \in DOMAIN archives : Lines(archives[i]) \subseteq Readable
                                /\ Durable(archives[i]) \subseteq Secure
  /\ \A f \in Names : Lines(files'[f]) \subseteq Readable'
                      /\ Durable(files'[f]) \subseteq Secure'
<1>1. \A f \in Names : Lines(files[f]) \subseteq Readable
                       /\ Durable(files[f]) \subseteq Secure
  BY DEF Readable, Secure, All
<1>2. \A i \in DOMAIN archives : Lines(archives[i]) \subseteq Readable
                                 /\ Durable(archives[i]) \subseteq Secure
  BY DEF Readable, Secure, All
<1>3. \A f \in Names : Lines(files'[f]) \subseteq Readable'
                       /\ Durable(files'[f]) \subseteq Secure'
  BY DEF Readable, Secure, All
<1> QED
  BY <1>1, <1>2, <1>3

(***************************************************************************)
(* Steps of multilog as steps of CyclicLog.                                *)
(***************************************************************************)

Stutters == UNCHANGED <<n, Readable, Secure>>

OneFile(m, v) ==
  files'[m] = v /\ \A o \in Names \ {m} : files'[o] = files[o]

\* One file is changed.
LEMMA Changed ==
  ASSUME Types, NEW m \in Names, NEW v, files' = [files EXCEPT ![m] = v]
  PROVE  OneFile(m, v)
  BY Zenon DEF Types, Filed, OneFile

\* Steps that move no line.
Unmoved ==
  /\ \A f \in Names : /\ files'[f].data = files[f].data
                      /\ files'[f].synced = files[f].synced
  /\ UNCHANGED <<archives, linked, n>>
  /\ Proc'.here /\ ~Proc'.x => Proc.here /\ ~Proc.x
  /\ orphan' \subseteq orphan \/ pc = "process"

\* The steps that leave every line where it is, for both parts of the promise.
LEMMA UnmovedStep ==
  ASSUME RInv, Unmoved
  PROVE  HalfDone' /\ Twins' /\ Stutters
<1>1. \A f \in Names : /\ Lines(files'[f]) = Lines(files[f])
                       /\ Durable(files'[f]) = Durable(files[f])
  BY OnDisk DEF Unmoved
<1>2. UNCHANGED <<Readable, Secure>>
  BY <1>1, Still, NothingMoves DEF Unmoved
<1>3. InSync(Prev) => InSync(Prev')
  BY DEF Unmoved, InSync, Prev, Names
<1>4. pc = "process" => InSync(Prev)
  BY DEF RInv, IInv, Notes, Stages, Rotating
<1>5. Lines(Proc') = Lines(Proc) /\ Lines(Prev') = Lines(Prev)
  BY <1>1 DEF Proc, Prev, Names
<1>6. HalfDone'
  BY <1>3, <1>4, <1>5 DEF RInv, HalfDone, Unmoved
<1>7. Twins'
  BY DEF RInv, IInv, Types, Rest, Twins, Unmoved
<1> QED
  BY <1>2, <1>6, <1>7 DEF Stutters, Unmoved

\* The actions that are such steps.
LEMMA UnmovedBy ==
  ASSUME IInv,
         \/ UnlinkState \/ UnlinkNewstate \/ ArchiveCurrent \/ NewState
         \/ FinishAbsent \/ FilesFit \/ WriteFull \/ ForceRotate
         \/ KeepState \/ Kill \/ Start \/ NewCurrent \/ Reopen
         \/ MarkPrevious \/ MarkProcessed \/ QuitMark \/ UNCHANGED vars
  PROVE  Unmoved
<1> USE DEF Cur, Prev, Proc, memory, world
<1>1. /\ Cur \in File /\ (~Cur.here => Cur = Absent)
      /\ Prev \in File /\ Proc \in File /\ Types
  BY DEF IInv, Types, Filed, Notes, Vacant, Names
<1>2. ASSUME NEW m \in Names, NEW v, files' = [files EXCEPT ![m] = v],
             v.data = files[m].data, v.synced = files[m].synced,
             m = "processed" => v.x,
             UNCHANGED <<archives, linked, n, orphan>>
      PROVE  Unmoved
  BY <1>1, <1>2, Changed DEF OneFile, Unmoved, Names
<1>3. CASE \/ UnlinkState \/ UnlinkNewstate \/ ArchiveCurrent \/ NewState
           \/ FinishAbsent \/ FilesFit \/ WriteFull \/ ForceRotate
           \/ KeepState \/ Kill \/ UNCHANGED vars
  <2>1. UNCHANGED <<files, archives, linked, n>>
    BY <1>3 DEF UnlinkState, UnlinkNewstate, ArchiveCurrent, NewState,
       FinishAbsent, FilesFit, WriteFull, ForceRotate, KeepState, Kill, vars,
       disk
  <2>2. orphan' \subseteq orphan \/ pc = "process"
    BY <1>3 DEF UnlinkState, UnlinkNewstate, ArchiveCurrent, NewState,
       FinishAbsent, FilesFit, WriteFull, ForceRotate, KeepState, Kill, vars
  <2> QED
    BY <2>1, <2>2 DEF Unmoved
<1>4. CASE NewCurrent \/ Reopen
  <2>1. Is(Unmarked(Opened(Cur)), TRUE, Cur.data, Cur.synced, FALSE)
    BY <1>1, Reopening
  <2> QED
    BY <1>2, <1>4, <2>1 DEF NewCurrent, Reopen, Is, Names
<1>5. CASE Start
  <2>1. Is(Unmarked(Cur), Cur.here, Cur.data, Cur.synced, FALSE)
    BY <1>1, Operations
  <2>2. \/ files' = [files EXCEPT !["current"] = Unmarked(Cur)]
        \/ files' = files
    BY <1>5 DEF Start
  <2>3. UNCHANGED <<archives, linked, n, orphan>>
    BY <1>5 DEF Start
  <2>4. files' = files => Unmoved
    BY <2>3 DEF Unmoved
  <2> QED
    BY <1>2, <2>1, <2>2, <2>3, <2>4 DEF Is, Names
<1>6. CASE MarkPrevious \/ MarkProcessed \/ QuitMark
  <2>1. \A f \in File :
          Is([f EXCEPT !.x = TRUE], f.here, f.data, f.synced, TRUE)
    BY Marking
  <2>2. PICK m \in Names :
          /\ files' = [files EXCEPT ![m] = [@ EXCEPT !.x = TRUE]]
          /\ files[m] \in File
    BY <1>1, <1>6 DEF MarkPrevious, MarkProcessed, QuitMark, Names
  <2>3. UNCHANGED <<archives, linked, n, orphan>>
    BY <1>6 DEF MarkPrevious, MarkProcessed, QuitMark
  <2> QED
    BY <1>2, <2>1, <2>2, <2>3 DEF Is
<1> QED
  BY <1>3, <1>4, <1>5, <1>6

\* fsync() makes lines secure and moves none.
LEMMA SyncMap ==
  ASSUME RInv, SyncCurrent \/ QuitSync \/ SyncProcessed
  PROVE  HalfDone' /\ Twins' /\ Promise!Sync
<1> USE DEF Cur, Prev, Proc
<1>1. /\ Types /\ Cur \in File /\ (~Cur.here => Cur = Absent)
      /\ Proc \in File /\ (~Proc.here => Proc = Absent)
  BY DEF RInv, IInv, Types, Filed, Notes, Vacant, Names
<1>2. PICK m \in {"current", "processed"}, v \in File :
        /\ files' = [files EXCEPT ![m] = v]
        /\ v.data = files[m].data /\ v.synced = Len(v.data)
        /\ m = "processed" => pc = "syncProcessed"
  <2>1. CASE SyncCurrent \/ QuitSync
    <3>1. /\ Synced(Cur) \in File
          /\ Is(Synced(Cur), Cur.here, Cur.data, Len(Cur.data), Cur.x)
      BY <1>1, Operations
    <3> QED
      BY <2>1, <3>1 DEF SyncCurrent, QuitSync, Is
  <2>2. CASE SyncProcessed
    <3>1. /\ Synced(Opened(Proc)) \in File
          /\ Is(Synced(Opened(Proc)), TRUE, Proc.data, Len(Proc.data), Proc.x)
      BY <1>1, Reopening
    <3> QED
      BY <2>2, <3>1 DEF SyncProcessed, Is
  <2> QED
    BY <2>1, <2>2
<1>3. /\ UNCHANGED <<archives, linked, n, orphan>>
      /\ pc \in {"fullcurrent", "run", "syncProcessed"}
  BY DEF SyncCurrent, QuitSync, SyncProcessed, memory, world
<1>4. OneFile(m, v)
  BY <1>1, <1>2, Changed DEF Names
<1>5. \A f \in Names : /\ Lines(files'[f]) = Lines(files[f])
                       /\ Durable(files[f]) \subseteq Durable(files'[f])
  <2>1. Lines(v) = Lines(files[m]) /\ Durable(v) = Lines(v)
    BY <1>2, OnDisk DEF InSync
  <2>2. Durable(files[m]) \subseteq Lines(files[m])
    BY <1>1, Kinds, OnDisk DEF Names
  <2> QED
    BY <1>4, <2>1, <2>2 DEF OneFile
<1>6. Readable' = Readable
  BY <1>3, <1>5, Everywhere DEF Readable, All
<1>7. Secure \subseteq Secure' /\ Secure' \subseteq Readable'
  <2>1. Secure \subseteq Secure'
    BY <1>3, <1>5, Everywhere DEF Secure, All
  <2>2. \A f \in Names : Durable(files'[f]) \subseteq Lines(files'[f])
    <3>1. \A f \in Names : Durable(files[f]) \subseteq Lines(files[f])
      BY <1>1, Kinds, OnDisk
    <3> QED
      BY <1>2, <1>4, <3>1, OnDisk DEF OneFile, InSync
  <2>3. \A i \in DOMAIN archives :
          Durable(archives[i]) \subseteq Lines(archives[i])
    BY <1>1, Kinds, OnDisk
  <2> QED
    BY <1>3, <2>1, <2>2, <2>3 DEF Secure, Readable, All
<1>8. linked = "none"
  BY <1>3 DEF RInv, IInv, Types, Rest, Notes, Links, Closing, Restarting, Names
<1>9. HalfDone'
  <2>1. m = "processed" => InSync(Prev) /\ Lines(Proc) = Lines(Prev)
    BY <1>2, OnDisk DEF RInv, IInv, Notes, Stages, Rotating
  <2>2. Prev' = Prev /\ Lines(Proc') = Lines(Proc)
    BY <1>4, <1>5 DEF OneFile, Names
  <2>3. m # "processed" => Proc' = Proc
    BY <1>4 DEF OneFile, Names
  <2> QED
    BY <1>3, <2>1, <2>2, <2>3 DEF RInv, HalfDone
<1> QED
  BY <1>3, <1>6, <1>7, <1>8, <1>9 DEF Twins, Promise!Sync, Readable, Secure

\* A set of numbers with a bound has a greatest one.
LEMMA Greatest ==
  ASSUME NEW b \in Nat, NEW S \in SUBSET (1..b), S # {}
  PROVE  \E k \in S : \A l \in S : l =< k
<1> DEFINE R == {p \in Nat \X Nat : p[1] < p[2]}
           D == {d \in 0..b : b - d \in S}
<1>1. IsWellFoundedOn(R, Nat)
  BY NatLessThanWellFounded DEF OpToRel
<1>2. \A d, e \in Nat : <<d, e>> \notin R => e =< d
  OBVIOUS
<1> HIDE DEF R
<1>3. \A l \in S : l \in 0..b /\ b - l \in 0..b /\ b - (b - l) = l
  BY SMT
<1>4. \A l \in S : b - l \in D
  BY <1>3
<1>5. D \subseteq Nat /\ D # {}
  <2>1. D \subseteq Nat
    OBVIOUS
  <2> QED
    BY <1>4, <2>1, Zenon
<1>6. PICK d \in D : \A e \in D : ~(<<e, d>> \in R)
  <2> HIDE DEF D
  <2> QED
    BY <1>1, <1>5, WFMin
<1>7. \A l \in S : d =< b - l
  BY <1>2, <1>4, <1>5, <1>6, Zenon
<1>8. b - d \in S /\ \A l \in S : l =< b - d
  BY <1>3, <1>6, <1>7
<1> QED
  BY <1>8

\* A file is removed when another one has its lines.
LEMMA RemovalMap ==
  ASSUME RInv, NEW m \in Names, OneFile(m, Absent), UNCHANGED <<archives, n>>,
         \/ \E f \in Names \ {m} :
              /\ Lines(files[m]) \subseteq Lines(files[f])
              /\ Durable(files[m]) \subseteq Durable(files[f])
         \/ \E i \in DOMAIN archives :
              /\ Lines(files[m]) \subseteq Lines(archives[i])
              /\ Durable(files[m]) \subseteq Durable(archives[i])
         \/ Lines(files[m]) = {} /\ Durable(files[m]) = {}
  PROVE  Stutters
<1>1. Lines(Absent) = {} /\ Durable(Absent) = {}
  BY Nothing, OnDisk, EmptySeq DEF Is, InSync
<1>2. \A f \in Names \ {m} : files'[f] = files[f]
  BY DEF OneFile
<1>3. \A i \in DOMAIN archives : /\ Lines(archives[i]) \subseteq Readable'
                                 /\ Durable(archives[i]) \subseteq Secure'
  BY DEF Readable, Secure, All
<1>4. Lines(files[m]) \subseteq Readable' /\ Durable(files[m]) \subseteq Secure'
  <2>1. \A f \in Names \ {m} : /\ Lines(files[f]) \subseteq Readable'
                               /\ Durable(files[f]) \subseteq Secure'
    BY <1>2, Still
  <2> QED
    BY <1>3, <2>1
<1>5. \A f \in Names : /\ Lines(files[f]) \subseteq Readable'
                       /\ Durable(files[f]) \subseteq Secure'
                       /\ Lines(files'[f]) \subseteq Readable
                       /\ Durable(files'[f]) \subseteq Secure
  BY <1>1, <1>2, <1>4, Still DEF OneFile
<1> QED
  BY <1>5, NothingMoves DEF Stutters

\* The steps that unlink a file lose no line: another file has them.
LEMMA UnlinkMap ==
  ASSUME RInv, FinishUnlink \/ DropPrevious \/ Recover
  PROVE  HalfDone' /\ Twins' /\ Stutters
<1> USE DEF Cur, Prev, Proc
<1>1. Types /\ Vacant
  BY DEF RInv, IInv, Notes
<1>2. ASSUME NEW m \in Names, Unlinked(m)
      PROVE  /\ OneFile(m, Absent)
             /\ linked' = IF linked = m THEN "none" ELSE linked
  BY <1>1, <1>2, Changed DEF Unlinked
<1>3. UNCHANGED <<archives, n>>
  BY DEF FinishUnlink, DropPrevious, Recover, memory, world
<1>4. \A f \in Names : ~files[f].here =>
        Lines(files[f]) = {} /\ Durable(files[f]) = {}
  BY <1>1, Nothing, OnDisk, EmptySeq DEF Vacant, Is, InSync
<1>5. CASE FinishUnlink
  <2>1. /\ fin.name \in Names /\ Unlinked(fin.name) /\ orphan' = orphan
        /\ linked = fin.name /\ linked # "none" /\ pc = "unlink"
    BY <1>5 DEF FinishUnlink, world, RInv, IInv, Types, Rest, Notes, Links,
       Names
  <2>2. Len(archives) \in DOMAIN archives
    BY <1>1, <2>1, Kinds, EmptySeq DEF RInv, IInv, Notes, Links
  <2>3. /\ Lines(files[linked]) = Lines(archives[Len(archives)])
        /\ Durable(files[linked]) = Durable(archives[Len(archives)])
    BY <2>1, OnDisk DEF RInv, IInv, Notes, Links, Twins, Last
  <2>4. OneFile(fin.name, Absent) /\ linked' = "none"
    BY <1>2, <2>1
  <2>5. Stutters
    BY <1>3, <2>1, <2>2, <2>3, <2>4, RemovalMap
  <2>6. HalfDone'
    <3>1. "processed" \notin orphan
      BY <2>1 DEF RInv, IInv, Notes, Orphans
    <3>2. fin.name = "previous" => ~Proc.here
      BY <2>1 DEF RInv, IInv, Notes, Links
    <3> QED
      BY <2>1, <2>4, <3>1, <3>2, Nothing DEF RInv, HalfDone, OneFile, Is, Names
  <2> QED
    BY <2>4, <2>5, <2>6 DEF Twins
<1>6. CASE DropPrevious \/ (Recover /\ FlagProcessed)
  <2>1. /\ Unlinked("previous") /\ orphan' = orphan /\ Proc.x
    BY <1>6 DEF DropPrevious, Recover, FlagProcessed, world, RInv, IInv, Notes,
       Stages
  <2>2. OneFile("previous", Absent) /\ linked' \in {linked, "none"}
    BY <1>2, <2>1 DEF Names
  <2>3. \/ ~Prev.here
        \/ Lines(Prev) = Lines(Proc) /\ Durable(Prev) = Durable(Proc)
    BY <2>1, OnDisk DEF RInv, IInv, Notes, MarkDone, InSync
  <2>4. Stutters
    BY <1>3, <1>4, <2>2, <2>3, RemovalMap DEF Names
  <2>5. "processed" \notin orphan
    BY <2>1 DEF RInv, IInv, Notes, Orphans
  <2>6. HalfDone'
    BY <2>1, <2>2, <2>5 DEF HalfDone, OneFile, Names
  <2>7. Twins'
    BY <1>2, <1>3, <2>1, <2>2 DEF RInv, IInv, Types, Rest, Twins, OneFile
  <2> QED
    BY <2>4, <2>6, <2>7
<1>7. CASE Recover /\ ~FlagProcessed
  <2>1. Unlinked("processed") /\ orphan' = orphan \ {"processed"}
    BY <1>7 DEF Recover
  <2>2. OneFile("processed", Absent) /\ linked' \in {linked, "none"}
    BY <1>2, <2>1 DEF Names
  <2>3. \/ ~Proc.here
        \/ /\ Lines(Proc) \subseteq Lines(Prev)
           /\ Durable(Proc) \subseteq Durable(Prev)
    <3>1. Durable(Proc) \subseteq Lines(Proc)
      BY <1>1, Kinds, OnDisk DEF Names
    <3> QED
      BY <1>7, <3>1, OnDisk DEF FlagProcessed, RInv, HalfDone
  <2>4. Stutters
    BY <1>3, <1>4, <2>2, <2>3, RemovalMap DEF Names
  <2>5. HalfDone'
    BY <2>1, <2>2, Nothing DEF HalfDone, OneFile, Is
  <2>6. Twins'
    BY <1>2, <1>3, <2>1, <2>2 DEF RInv, IInv, Types, Rest, Twins, OneFile
  <2> QED
    BY <2>4, <2>5, <2>6
<1> QED
  BY <1>5, <1>6, <1>7

\* A file gets its archive name: nothing becomes more or less readable.
LEMMA LinkMap ==
  ASSUME RInv, FinishLink
  PROVE  HalfDone' /\ Twins' /\ Stutters
<1> DEFINE m == fin.name
<1>1. /\ UNCHANGED <<files, n, orphan>>
      /\ IF linked = m THEN UNCHANGED <<archives, linked>>
         ELSE /\ archives' = Append(archives, [data |-> files[m].data,
                                           synced |-> files[m].synced,
                                           code |-> fin.code])
              /\ linked' = m
  BY DEF FinishLink, HasArchive, memory, world
<1>2. /\ fin \in [name : Names, code : Codes, to : Places] /\ Types
      /\ m \in Names
  BY DEF RInv, IInv, Types, Rest
<1>3. HalfDone'
  BY <1>1 DEF RInv, HalfDone, Prev, Proc
<1>4. CASE linked = m
  BY <1>1, <1>3, <1>4 DEF RInv, Twins, Stutters, Readable, Secure, All
<1>5. CASE linked # m
  <2>1. PICK a \in Archive : /\ archives' = Append(archives, a) /\ linked' = m
                            /\ a.data = files[m].data
                            /\ a.synced = files[m].synced
    <3>1. files[m] \in File /\ fin.code \in Codes
      BY <1>2, Kinds
    <3>2. [data |-> files[m].data, synced |-> files[m].synced,
           code |-> fin.code] \in Archive
      BY <3>1 DEF Archive, File
    <3> QED
      BY <1>1, <1>5, <3>2
  <2>2. /\ DOMAIN archives = 1..Len(archives) /\ Len(archives) \in Nat
        /\ Len(archives') = Len(archives) + 1
        /\ DOMAIN archives' = 1..Len(archives')
        /\ archives'[Len(archives')] = a
        /\ \A i \in 1..Len(archives) : archives'[i] = archives[i]
    BY <1>2, <2>1, Kinds, AppendProperties, LenProperties
  <2>3. Lines(a) = Lines(files[m]) /\ Durable(a) = Durable(files[m])
    BY <2>1, OnDisk
  <2>4. All' = All \cup {a}
    BY <1>1, <2>2 DEF All
  <2>5. files[m] \in All
    BY <1>2 DEF All
  <2>6. UNCHANGED <<Readable, Secure>>
    <3>1. Readable' = Readable \cup Lines(a) /\ Secure' = Secure \cup Durable(a)
      BY <2>4 DEF Readable, Secure
    <3>2. Lines(a) \subseteq Readable /\ Durable(a) \subseteq Secure
      BY <2>3, <2>5 DEF Readable, Secure
    <3> QED
      BY <3>1, <3>2
  <2>7. Twins'
    BY <1>1, <2>1, <2>2 DEF Twins, Last
  <2> QED
    BY <1>1, <1>3, <2>6, <2>7 DEF Stutters
<1> QED
  BY <1>4, <1>5

\* filesfit() forgets the oldest lines.
LEMMA RemoveMap ==
  ASSUME RInv, FilesRemove
  PROVE  HalfDone' /\ Twins' /\ (Stutters \/ Promise!Forget)
<1> DEFINE a == archives[1]
<1>1. /\ Types /\ UNCHANGED <<files, linked, n, orphan, pc>>
      /\ pc = "filesfit" /\ archives' = Tail(archives)
  BY DEF FilesRemove, AfterRemoval, RInv, IInv, memory, world
<1>2. linked = "none"
  BY <1>1 DEF RInv, IInv, Types, Rest, Notes, Links, Closing, Restarting, Names
<1>3. HalfDone' /\ Twins'
  BY <1>1, <1>2 DEF RInv, HalfDone, Twins, Prev, Proc
<1>4. /\ Len(archives) \in Nat \ {0} /\ DOMAIN archives = 1..Len(archives)
      /\ DOMAIN archives' = 1..(Len(archives) - 1)
      /\ \A i \in 1..(Len(archives) - 1) : archives'[i] = archives[i + 1]
  <2>1. archives # <<>>
    <3>1. Len(archives) # 0
      BY CyclogAssumption DEF FilesRemove, Fits
    <3> QED
      BY <1>1, <3>1, Kinds, EmptySeq
  <2>2. Len(archives) # 0
    BY <1>1, <2>1, Kinds, EmptySeq
  <2> QED
    BY <1>1, <2>1, <2>2, Kinds, HeadTailProperties, LenProperties
<1>5. All = All' \cup {a}
  <2>1. \A i \in DOMAIN archives :
          \/ i = 1
          \/ i - 1 \in DOMAIN archives' /\ archives'[i - 1] = archives[i]
    BY <1>4
  <2>2. \A i \in DOMAIN archives' :
          i + 1 \in DOMAIN archives /\ archives'[i] = archives[i + 1]
    BY <1>4
  <2>3. 1 \in DOMAIN archives
    BY <1>4
  <2>4. All' = {files[f] : f \in Names}
                 \cup {archives'[i] : i \in DOMAIN archives'}
    BY <1>1 DEF All
  <2>5. All \subseteq All' \cup {a}
    <3>1. \A i \in DOMAIN archives : archives[i] \in All' \cup {a}
      BY <2>1, <2>4, Zenon
    <3>2. \A f \in Names : files[f] \in All' \cup {a}
      BY <2>4, Zenon
    <3> QED
      BY <3>1, <3>2, Zenon DEF All
  <2>6. All' \subseteq All
    BY <2>2, <2>4, Zenon DEF All
  <2>7. a \in All
    BY <2>3, Zenon DEF All
  <2> QED
    BY <2>5, <2>6, <2>7, Zenon
<1>6. /\ Readable = Readable' \cup Lines(a) /\ Secure = Secure' \cup Durable(a)
      /\ Secure' \subseteq Readable'
  <2>1. \A f \in All : Durable(f) \subseteq Lines(f)
    BY <1>1, Kinds, OnDisk DEF All
  <2> QED
    BY <1>5, <2>1 DEF Readable, Secure
<1>7. \A k \in Lines(a), l \in Readable' : k < l
  <2>1. \A f \in All' : Before(a, f)
    <3>1. \A i \in DOMAIN archives' : Before(a, archives'[i])
      <4>1. \A i \in DOMAIN archives' :
              /\ 1 \in DOMAIN archives /\ i + 1 \in DOMAIN archives /\ 1 < i + 1
              /\ archives'[i] = archives[i + 1]
        BY <1>4
      <4>2. \A i, j \in DOMAIN archives :
              i < j => Before(archives[i], archives[j])
        BY DEF RInv, IInv, Order, InOrder
      <4> QED
        BY <4>1, <4>2, Zenon
    <3>2. \A f \in Names : Before(a, files[f])
      BY <1>2, <1>4 DEF RInv, IInv, Order, InOrder, Names
    <3> QED
      BY <1>1, <3>1, <3>2 DEF All
  <2> QED
    BY <2>1 DEF Before, Readable
<1>8. Lines(a) \in SUBSET (1..MaxLine) /\ Durable(a) \subseteq Lines(a)
  <2>1. /\ a.data \in Seq(1..MaxLine) /\ Len(a.data) \in Nat
        /\ a.synced \in 0..Len(a.data)
    BY <1>1, <1>4, Kinds
  <2>2. \A i \in 1..Len(a.data) : a.data[i] \in 1..MaxLine
    BY <2>1, ElementOfSeq, Zenon
  <2>3. Lines(a) \in SUBSET (1..MaxLine)
    <3> HIDE DEF a
    <3> QED
      BY <2>2, Zenon DEF Lines
  <2> QED
    BY <2>1, <2>3, OnDisk
<1> HIDE DEF a
<1>9. CASE Lines(a) = {}
  BY <1>1, <1>3, <1>6, <1>8, <1>9 DEF Stutters
<1>10. CASE Lines(a) # {}
  <2>1. PICK k \in Lines(a) : \A l \in Lines(a) : l =< k
    BY <1>8, <1>10, Greatest, CyclogAssumption
  <2>2. Readable' \subseteq Nat
    <3>1. \A f \in Names : Lines(files[f]) \subseteq Nat
      BY <1>1, Numbers
    <3>2. \A i \in DOMAIN archives : Lines(archives[i]) \subseteq Nat
      BY <1>1, Numbers
    <3> QED
      BY <1>6, <3>1, <3>2, Everywhere
  <2>3. Readable' = {l \in Readable : l > k} /\ k \in Readable
    <3>1. Lines(a) \subseteq Nat
      BY <1>8, CyclogAssumption
    <3>2. \A l \in Readable' : l \in Readable /\ l > k
      BY <1>6, <1>7, <2>2, <3>1
    <3>3. \A l \in Readable : l > k => l \in Readable'
      BY <1>6, <2>1, <2>2, <3>1
    <3> QED
      BY <1>6, <3>2, <3>3
  <2>4. Secure' = Secure \cap Readable'
    <3>1. \A l \in Lines(a) : l \notin Readable'
      BY <1>7, <1>8, CyclogAssumption
    <3> QED
      BY <1>6, <1>8, <3>1
  <2> QED
    BY <1>1, <1>3, <2>3, <2>4 DEF Promise!Forget, Readable, Secure
<1> QED
  BY <1>9, <1>10

\* write() keeps one line more.
LEMMA WriteMap ==
  ASSUME RInv, Write
  PROVE  HalfDone' /\ Twins' /\ Promise!Append
<1>1. /\ n' = n + 1 /\ linked = "none" /\ ~Prev.here /\ ~Proc.here
      /\ \A o \in Names \ {"current"} : files'[o] = files[o]
      /\ Lines(Cur') = Lines(Cur) \cup {n'} /\ Durable(Cur') = Durable(Cur)
  BY Writing DEF RInv
<1>2. UNCHANGED <<archives, linked, orphan>> /\ pc = "run"
  BY DEF Write
<1>3. \A o \in Names : Durable(files'[o]) = Durable(files[o])
  BY <1>1 DEF Cur
<1>4. \A o \in Names \ {"current"} : Lines(files'[o]) = Lines(files[o])
  BY <1>1
<1>5. "current" \in Names
  BY DEF Names
<1>6. Readable' = Readable \cup {n'}
  <2>1. Readable' \subseteq Readable \cup {n'}
    BY <1>1, <1>2, <1>4 DEF Readable, All, Cur
  <2>2. Readable \cup {n'} \subseteq Readable'
    BY <1>1, <1>2, <1>4, <1>5 DEF Readable, All, Cur
  <2> QED
    BY <2>1, <2>2
<1>7. Secure' = Secure
  BY <1>2, <1>3 DEF Secure, All
<1>8. HalfDone'
  <2>1. Prev' = Prev /\ Proc' = Proc
    BY <1>1 DEF Prev, Proc, Names
  <2>2. "processed" \notin orphan
    BY <1>2 DEF RInv, IInv, Notes, Orphans, Restarting
  <2> QED
    BY <1>1, <1>2, <2>1, <2>2 DEF HalfDone
<1> QED
  BY <1>1, <1>2, <1>6, <1>7, <1>8 DEF Twins, Promise!Append, Readable, Secure

\* current becomes previous, with its lines.
LEMMA RenameMap ==
  ASSUME RInv, Rename
  PROVE  HalfDone' /\ Twins' /\ Stutters
<1>1. /\ files'["previous"] = Cur /\ files'["current"] = Absent
      /\ files'["processed"] = Proc /\ pc = "rename"
      /\ UNCHANGED <<archives, linked, n, orphan>>
  BY DEF Rename, Cur, Proc, RInv, IInv, Types, Filed, Names, world
<1>2. /\ linked = "none" /\ ~Prev.here /\ ~Proc.here /\ InSync(Cur)
      /\ "processed" \notin orphan
  BY <1>1 DEF RInv, IInv, Types, Rest, Notes, Orphans, Links, Closing, Stages,
     Restarting, Names
<1>3. /\ Lines(Absent) = {} /\ Durable(Absent) = {}
      /\ Prev = Absent
  BY <1>2, NoLines DEF RInv, IInv, Notes, Vacant, Prev, Names
<1>4. \A f \in Names : /\ Lines(files[f]) \subseteq Readable'
                       /\ Durable(files[f]) \subseteq Secure'
                       /\ Lines(files'[f]) \subseteq Readable
                       /\ Durable(files'[f]) \subseteq Secure
  BY <1>1, <1>3, Still DEF Cur, Prev, Proc, Names
<1>5. HalfDone'
  BY <1>1, <1>2 DEF HalfDone, Proc
<1> QED
  BY <1>1, <1>2, <1>4, <1>5, NothingMoves DEF Stutters, Twins

\* The processor writes what previous has.
LEMMA OutputMap ==
  ASSUME RInv, Next, ProcessFails \/ ProcessDone \/ OrphanWrites
  PROVE  HalfDone' /\ Twins' /\ Stutters
<1>1. /\ UNCHANGED <<archives, linked, n, orphan>>
      /\ pc = "process" \/ "processed" \in orphan
  BY DEF ProcessFails, ProcessDone, OrphanWrites, memory, world
<1>2. PICK k \in 0..Len(Prev.data) : Output(k)
  <2>1. Len(Prev.data) \in Nat
    BY DEF Prev
  <2> QED
    BY <2>1 DEF ProcessFails, ProcessDone, OrphanWrites, Process, Prev
<1>3. linked = "none" /\ ~Proc.x /\ InSync(Prev)
  BY <1>1 DEF RInv, HalfDone, IInv, Types, Rest, Notes, Orphans, Stages, Links,
     MarkDone, Closing, Restarting, Rotating, Names
<1>4. /\ Prev' = Prev /\ Cur' = Cur /\ ~Proc'.x
      /\ Proc'.data = SubSeq(Prev.data, 1, k) /\ Proc'.synced = 0
  <2>1. Rest'
    BY RestStep DEF RInv, IInv, Types
  <2> QED
    BY <1>1, <1>2, <1>3, <2>1, Outputting DEF RInv
<1>5. /\ Lines(Proc') \subseteq Lines(Prev) /\ Durable(Proc') = {}
      /\ Durable(Prev) = Lines(Prev)
  <2>1. Prev.data \in Seq(1..MaxLine)
    BY DEF RInv, IInv, Types, Filed, File, Names, Prev
  <2>2. Lines(Proc') \subseteq Lines(Prev)
    BY <1>4, <2>1, LinesOfPrefix
  <2>3. Durable(Proc') = {}
    BY <1>4 DEF Durable
  <2> QED
    BY <1>3, <2>2, <2>3, OnDisk
<1>6. Lines(Proc) \subseteq Lines(Prev) /\ Durable(Proc) \subseteq Durable(Prev)
  <2>1. CASE Proc.here
    <3>1. Durable(Proc) \subseteq Lines(Proc)
      BY Kinds, OnDisk DEF Proc, Names, RInv, IInv
    <3> QED
      BY <1>3, <1>5, <2>1, <3>1 DEF RInv, HalfDone
  <2>2. CASE ~Proc.here
    <3>1. Proc = Absent
      BY <2>2 DEF RInv, IInv, Notes, Vacant, Proc, Names
    <3> QED
      BY <3>1, NoLines
  <2> QED
    BY <2>1, <2>2
<1>7. \A f \in Names : /\ Lines(files[f]) \subseteq Readable'
                       /\ Durable(files[f]) \subseteq Secure'
                       /\ Lines(files'[f]) \subseteq Readable
                       /\ Durable(files'[f]) \subseteq Secure
  BY <1>4, <1>5, <1>6, Still DEF Cur, Prev, Proc, Names
<1>8. HalfDone'
  BY <1>3, <1>4, <1>5 DEF HalfDone
<1> QED
  BY <1>1, <1>3, <1>7, <1>8, NothingMoves DEF Stutters, Twins

\* An outage keeps what was secure.
LEMMA OutageMap ==
  ASSUME RInv, Outage
  PROVE  HalfDone' /\ Twins' /\ Promise!Outage
<1>1. /\ orphan' = {} /\ UNCHANGED <<linked, n>>
      /\ DOMAIN archives' = DOMAIN archives
      /\ \A f \in Names : files'[f] \in Remains(files[f])
      /\ \A i \in DOMAIN archives : archives'[i] \in Remains(archives[i])
      /\ linked # "none" => Last(archives').data = files'[linked].data
  BY DEF Outage
<1>2. \A f \in Names :
        /\ InSync(files'[f]) /\ Durable(files'[f]) = Lines(files'[f])
        /\ Lines(files'[f]) \subseteq Lines(files[f])
        /\ Durable(files[f]) \subseteq Lines(files'[f])
        /\ files'[f].here = files[f].here /\ files'[f].x = files[f].x
        /\ InSync(files[f]) => files'[f].data = files[f].data
  <2>1. n \in Nat
    BY CyclogAssumption DEF RInv, IInv, Types, Rest
  <2>2. \A f \in Names : Whole(files[f], n)
    BY DEF RInv, IInv, Types, Filed
  <2> QED
    BY <1>1, <2>1, <2>2, RemainsOfFile, OnDisk
<1>3. \A i \in DOMAIN archives :
        /\ InSync(archives'[i]) /\ Durable(archives'[i]) = Lines(archives'[i])
        /\ Lines(archives'[i]) \subseteq Lines(archives[i])
        /\ Durable(archives[i]) \subseteq Lines(archives'[i])
  <2>1. \A i \in DOMAIN archives :
          archives[i] \in Archive /\ archives[i].synced =< Len(archives[i].data)
    BY LenProperties, ElementOfSeq DEF RInv, IInv, Types
  <2> QED
    BY <1>1, <2>1, RemainsOfArchive, OnDisk DEF InSync
<1>4. Readable' \subseteq Readable
  BY <1>1, <1>2, <1>3 DEF Readable, All
<1>5. Secure \subseteq Readable'
  BY <1>1, <1>2, <1>3 DEF Secure, Readable, All
<1>6. Secure' = Readable'
  BY <1>1, <1>2, <1>3 DEF Secure, Readable, All
<1>7. HalfDone'
  <2>1. ASSUME Proc'.here, ~Proc'.x
        PROVE  InSync(Prev') /\ Lines(Proc') \subseteq Lines(Prev')
    <3>1. InSync(Prev) /\ Lines(Proc) \subseteq Lines(Prev)
      BY <1>2, <2>1 DEF RInv, HalfDone, Proc, Names
    <3>2. Lines(Prev') = Lines(Prev)
      BY <1>2, <3>1, OnDisk DEF Prev, Names
    <3> QED
      BY <1>2, <3>1, <3>2 DEF Proc, Prev, Names
  <2> QED
    BY <1>1, <2>1 DEF HalfDone
<1>8. Twins'
  <2> SUFFICES ASSUME linked' # "none"
               PROVE  Last(archives').synced = files'[linked'].synced
    BY DEF Twins
  <2>1. linked' = linked /\ linked \in Names /\ archives # <<>>
    BY <1>1 DEF RInv, IInv, Types, Rest, Notes, Links
  <2>2. Len(archives) \in DOMAIN archives /\ Len(archives') = Len(archives)
    <3>1. /\ archives \in Seq(Archive) /\ Len(archives) \in Nat
          /\ DOMAIN archives = 1..Len(archives)
      BY Kinds DEF RInv, IInv
    <3>2. Len(archives) # 0
      BY <2>1, <3>1, EmptySeq
    <3>3. Types'
      BY NextStep DEF RInv, IInv, Next
    <3>4. DOMAIN archives' = 1..Len(archives') /\ Len(archives') \in Nat
      BY <3>3, LenProperties DEF Types
    <3> QED
      BY <1>1, <3>1, <3>2, <3>4
  <2>3. InSync(Last(archives')) /\ InSync(files'[linked])
    BY <1>2, <1>3, <2>1, <2>2 DEF Last
  <2> QED
    BY <1>1, <2>1, <2>3 DEF InSync
<1> QED
  BY <1>1, <1>4, <1>5, <1>6, <1>7, <1>8 DEF Promise!Outage, Readable, Secure

\* Every step keeps what the refinement needs, and is a step of CyclicLog.
LEMMA OldKept ==
  ASSUME RInv, [Next]_vars
  PROVE  RInv' /\ [Promise!Next]_<<n, Readable, Secure>>
<1>1. IInv'
  BY NextStep DEF RInv
<1>2. HalfDone' /\ Twins' /\ [Promise!Next]_<<n, Readable, Secure>>
  <2>1. CASE \/ UnlinkState \/ UnlinkNewstate \/ ArchiveCurrent \/ NewState
             \/ FinishAbsent \/ FilesFit \/ WriteFull \/ ForceRotate
             \/ KeepState \/ Kill \/ Start \/ NewCurrent \/ Reopen
             \/ MarkPrevious \/ MarkProcessed \/ QuitMark \/ UNCHANGED vars
    BY <2>1, UnmovedBy, UnmovedStep DEF RInv, Stutters
  <2>2. CASE SyncCurrent \/ QuitSync \/ SyncProcessed
    BY <2>2, SyncMap DEF Promise!Next
  <2>3. CASE FinishLink \/ FinishUnlink \/ DropPrevious \/ Recover
    BY <2>3, LinkMap, UnlinkMap DEF Stutters
  <2>4. CASE FilesRemove
    BY <2>4, RemoveMap DEF Promise!Next, Stutters
  <2>5. CASE Write
    BY <2>5, WriteMap DEF Promise!Next
  <2>6. CASE Rename
    BY <2>6, RenameMap DEF Stutters
  <2>7. CASE Next /\ (ProcessFails \/ ProcessDone \/ OrphanWrites)
    BY <2>7, OutputMap DEF Stutters
  <2>8. CASE Outage
    BY <2>8, OutageMap DEF Promise!Next
  <2> QED
    BY <2>1, <2>2, <2>3, <2>4, <2>5, <2>6, <2>7, <2>8 DEF Next, Restart,
       Finishing, FullCurrent, Quit
<1> QED
  BY <1>1, <1>2 DEF RInv

\* An empty directory keeps an empty log.
LEMMA Begins ==
  ASSUME Init
  PROVE  RInv /\ Promise!Init
<1>1. IInv
  BY Initially
<1>2. /\ \A f \in Names : files[f] = Absent
      /\ archives = <<>> /\ linked = "none" /\ orphan = {} /\ n = 0
  BY DEF Init
<1>3. DOMAIN archives = {}
  BY <1>2
<1>4. Readable = {} /\ Secure = {}
  BY <1>2, <1>3, NoLines DEF Readable, Secure, All
<1>5. HalfDone /\ Twins
  BY <1>2, Nothing DEF HalfDone, Twins, Proc, Names, Is
<1> QED
  BY <1>1, <1>2, <1>4, <1>5 DEF RInv, Promise!Init, Readable, Secure

(***************************************************************************)
(* What the processor has seen, if every multilog has one.                 *)
(***************************************************************************)

\* The lines d come next to a processor's state s: they are all that was written
\* after it, up to line m.
Continues(s, d, m) ==
  /\ d # <<>> => Last(d) = m
  /\ s > 0 => IF d = <<>> THEN s = m ELSE Head(d) = s + 1

Within(to) == pc \in {"finish", "unlink", "filesfit"} /\ fin.to = to

\* The lines that the processor has not seen are in current, or in previous, or
\* there are none: newstate is ahead of state.
Collecting == pc \in {"run", "fullcurrent", "rename", "quitMark"}
                \/ Within("run")
Feeding    == pc \in {"reopen", "markPrevious", "process"}
Keeping    == pc \in {"syncProcessed", "markProcessed", "dropPrevious",
                      "keepState"}

Counting ==
  /\ pc = "run" \/ Within("run") => bytes = Len(Cur.data)
  /\ pc \in {"markPrevious", "process"} \/ Keeping => bytes = 0

\* Where current holds no line, and where it holds one.
Emptied ==
  /\ \/ Feeding \/ Keeping \/ Within("run") \/ pc \in {"newState", "newCurrent"}
     \/ Within("newState") /\ pc = "filesfit"
     => Cur.data = <<>>
  /\ pc \in {"fullcurrent", "rename"} => Cur.data # <<>>
  /\ Within("newState") => fin.name = "current"
  /\ pc = "newCurrent" => state = 0

Fed ==
  /\ pc # "off" => processor
  /\ Collecting \/ Cur.x => Continues(state, Cur.data, n)
  /\ Feeding => Prev.data # <<>> /\ Continues(state, Prev.data, n)
  /\ Keeping => newstate = n
  /\ Counting /\ Emptied

FedInv == IInv /\ (script = {TRUE} => Fed)

\* The steps that neither write, move nor remove a line of current or previous.
LEMMA DataKept ==
  ASSUME IInv, Next,
         ~(Write \/ Rename \/ FinishUnlink \/ DropPrevious \/ Recover \/ Outage)
  PROVE  /\ files'["current"].data = files["current"].data
         /\ files'["previous"].data = files["previous"].data
<1>1. /\ \A f \in Names :
           files[f] \in File /\ (~files[f].here => files[f] = Absent)
      /\ files \in [Names -> File]
      /\ Names = {"current", "previous", "processed"}
  BY DEF IInv, Types, Filed, Notes, Vacant, Names
<1>2. \A f \in Names : \A v : files' = [files EXCEPT ![f] = v] =>
        files'[f] = v /\ \A g \in Names \ {f} : files'[g] = files[g]
  BY <1>1, Zenon
<1>3. CASE NewCurrent \/ Reopen \/ SyncCurrent \/ QuitSync \/ QuitMark
  <2>1. \A f \in File : (~f.here => f = Absent) =>
          /\ Unmarked(Opened(f)).data = f.data /\ Synced(f).data = f.data
          /\ [f EXCEPT !.x = TRUE].data = f.data
    BY Operations, Reopening, Marking DEF Is
  <2>2. files'["current"].data = files["current"].data
    BY <1>1, <1>2, <1>3, <2>1 DEF NewCurrent, Reopen, SyncCurrent, QuitSync,
       QuitMark
  <2>3. files'["previous"] = files["previous"]
    BY <1>1, <1>2, <1>3 DEF NewCurrent, Reopen, SyncCurrent, QuitSync, QuitMark
  <2> QED
    BY <2>2, <2>3
<1>4. CASE Start
  <2>1. \A f \in File : (~f.here => f = Absent) => Unmarked(f).data = f.data
    BY Operations DEF Is
  <2> QED
    BY <1>1, <1>2, <1>4, <2>1 DEF Start
<1>5. CASE MarkPrevious
  <2>1. \A f \in File : [f EXCEPT !.x = TRUE].data = f.data
    BY Marking DEF Is
  <2> QED
    BY <1>1, <1>2, <1>5, <2>1 DEF MarkPrevious
<1>6. CASE SyncProcessed \/ MarkProcessed \/ ProcessDone \/ ProcessFails
           \/ OrphanWrites
  <2>1. \E v : files' = [files EXCEPT !["processed"] = v]
    BY <1>6, Zenon DEF SyncProcessed, MarkProcessed, ProcessDone, ProcessFails,
       OrphanWrites, Process, Output
  <2> QED
    BY <1>1, <1>2, <2>1
<1>7. CASE UNCHANGED files
  BY <1>7
<1> QED
  BY <1>3, <1>4, <1>5, <1>6, <1>7 DEF Next, Restart, Finishing, FullCurrent,
     Quit, UnlinkState, UnlinkNewstate, ArchiveCurrent, NewState, FinishAbsent,
     FinishLink, FilesFit, FilesRemove, WriteFull, ForceRotate, KeepState, Kill,
     Finish, disk

\* A file without lines comes next to the processor that has seen them all, and
\* to one that has seen none.
LEMMA NothingNext ==
  ASSUME NEW s, NEW m, s \in {0, m}
  PROVE  Continues(s, <<>>, m)
  BY DEF Continues

\* One more line.
LEMMA OneMore ==
  ASSUME NEW s, NEW m \in Nat, NEW S, m + 1 \in S, NEW d \in Seq(S),
         Continues(s, d, m)
  PROVE  LET e == Append(d, m + 1) IN
         Continues(s, e, m + 1) /\ e # <<>> /\ Len(e) = Len(d) + 1
<1> DEFINE e == Append(d, m + 1)
<1>1. /\ e \in Seq(S) /\ Len(e) = Len(d) + 1 /\ e[Len(e)] = m + 1
      /\ \A i \in 1..Len(d) : e[i] = d[i]
      /\ Len(d) \in Nat
  BY AppendProperties
<1> HIDE DEF e
<1>2. e # <<>> /\ Head(e) = e[1]
  BY <1>1, EmptySeq, HeadTailProperties
<1>3. d # <<>> => Head(e) = Head(d)
  <2>1. d # <<>> => 1 \in 1..Len(d) /\ Head(d) = d[1]
    BY <1>1, EmptySeq, HeadTailProperties
  <2> QED
    BY <1>1, <1>2, <2>1
<1>4. d = <<>> => Head(e) = m + 1
  BY <1>1, <1>2
<1> QED
  BY <1>1, <1>2, <1>3, <1>4 DEF Continues, Last, e

\* A current with the x bit is found only where no multilog runs.
LEMMA NoMark ==
  ASSUME IInv
  PROVE  Cur.x => pc = "off"
  BY DEF IInv, Notes, MarkCurrent

\* The steps of restart(), finish(), c_write() and c_quit() that keep the data.
LEMMA FedStart ==
  ASSUME IInv, IInv', Fed, script = {TRUE}, Cur'.data = Cur.data,
         \/ Start \/ UnlinkState \/ UnlinkNewstate \/ ArchiveCurrent
         \/ NewState \/ NewCurrent \/ FinishAbsent \/ FinishLink \/ FilesFit
         \/ FilesRemove \/ WriteFull \/ ForceRotate \/ SyncCurrent \/ QuitSync
         \/ QuitMark \/ Kill \/ OrphanWrites
  PROVE  Fed'
<1>1. Cur'.x => pc' = "off"
  BY NoMark, Zenon DEF IInv, Notes, MarkCurrent
<1>2. /\ pc \in {"finish", "unlink", "filesfit"} =>
           fin.to \in {"archiveCurrent", "newState", "run"}
      /\ "processed" \in orphan => pc \in Restarting
      /\ "processed" \in orphan' => ~Cur'.x
  BY DEF IInv, Notes, Finishes, Orphans
<1>3. bytes \in Nat /\ Len(Cur.data) \in Nat /\ Cur.data \in Seq(1..MaxLine)
  <2>1. bytes \in 0..n
    BY DEF IInv, Types, Rest
  <2>2. Cur.data \in Seq(1..MaxLine)
    BY DEF IInv, Types, Filed, File, Cur, Names
  <2> QED
    BY <2>1, <2>2, LenProperties
<1>4. Cur.data = <<>> <=> Len(Cur.data) = 0
  BY <1>3, EmptySeq
<1>5. fin.name = "current" /\ ~files[fin.name].here => Cur.data = <<>>
  BY Nothing DEF IInv, Notes, Vacant, Cur, Names, Is
<1> USE DEF Fed, Counting, Emptied, Collecting, Feeding, Keeping, Within,
        memory, world
<1> USE <1>1, <1>2, <1>3, <1>4, <1>5
<1>6. CASE Start
  BY <1>6 DEF Start, Cur
<1>7. CASE UnlinkState \/ UnlinkNewstate \/ ArchiveCurrent
  <2>1. CASE UnlinkState
    BY <2>1 DEF UnlinkState
  <2>2. CASE UnlinkNewstate
    BY <2>2 DEF UnlinkNewstate
  <2>3. CASE ArchiveCurrent
    BY <2>3 DEF ArchiveCurrent, Finish
  <2> QED
    BY <1>7, <2>1, <2>2, <2>3
<1>8. CASE NewState \/ NewCurrent
  <2>1. CASE NewState
    BY <2>1 DEF NewState
  <2>2. CASE NewCurrent
    BY <2>2, NothingNext DEF NewCurrent
  <2> QED
    BY <1>8, <2>1, <2>2
<1>9. CASE FinishAbsent \/ FinishLink
  BY <1>9 DEF FinishAbsent, FinishLink, disk
<1>10. CASE FilesFit \/ FilesRemove
  BY <1>10 DEF FilesFit, FilesRemove, disk
<1>11. CASE WriteFull \/ ForceRotate \/ SyncCurrent
  <2>1. CASE WriteFull \/ ForceRotate
    <3>1. Cur.data # <<>>
      <4>1. bytes = Len(Cur.data)
        BY <2>1 DEF WriteFull, ForceRotate
      <4>2. bytes \in Nat /\ (bytes >= Size \/ bytes > 0)
        BY <2>1, Zenon DEF WriteFull, ForceRotate
      <4>3. Size \in Nat /\ Size > 0
        BY CyclogAssumption
      <4> QED
        BY <4>1, <4>2, <4>3, EmptySeq
    <3>2. UNCHANGED <<disk, memory, world>> /\ pc = "run" /\ pc' = "fullcurrent"
      BY <2>1 DEF WriteFull, ForceRotate
    <3> QED
      BY <3>1, <3>2 DEF disk
  <2>2. CASE SyncCurrent
    BY <2>2 DEF SyncCurrent
  <2> QED
    BY <1>11, <2>1, <2>2
<1>12. CASE QuitSync \/ QuitMark
  BY <1>12 DEF QuitSync, QuitMark, Ended
<1>13. CASE Kill
  BY <1>13 DEF Kill, Ended, disk, Cur
<1>14. CASE OrphanWrites
  BY <1>14 DEF OrphanWrites, Restarting
<1> QED
  BY <1>6, <1>7, <1>8, <1>9, <1>10, <1>11, <1>12, <1>13, <1>14

\* The steps of fullcurrent() that keep the data.
LEMMA FedFull ==
  ASSUME IInv, IInv', Fed, Cur'.data = Cur.data, Prev'.data = Prev.data,
         \/ Reopen \/ MarkPrevious \/ SyncProcessed \/ MarkProcessed
         \/ KeepState \/ ProcessFails \/ ProcessDone
  PROVE  Fed'
<1>1. Cur'.x => pc' = "off"
  BY NoMark, Zenon DEF IInv, Notes, MarkCurrent
<1>2. Cur.data = <<>> => Len(Cur.data) = 0
  BY EmptySeq
<1>3. n \in Nat
  BY CyclogAssumption DEF IInv, Types, Rest
<1> USE DEF Fed, Counting, Emptied, Collecting, Feeding, Keeping, Within,
        memory, world
<1> USE <1>1, <1>2, <1>3
<1>4. CASE Reopen \/ MarkPrevious
  BY <1>4 DEF Reopen, MarkPrevious, Finish
<1>5. CASE SyncProcessed \/ MarkProcessed
  BY <1>5 DEF SyncProcessed, MarkProcessed, NoFile
<1>6. CASE KeepState
  BY <1>6, NothingNext DEF KeepState, Finish
<1>7. CASE ProcessFails
  BY <1>7 DEF ProcessFails
<1>8. CASE ProcessDone
  <2>1. Len(Prev.data) # 0 /\ newstate' = Prev.data[Len(Prev.data)]
    BY <1>8, EmptySeq DEF ProcessDone, Process, Prev, IInv, Types, Filed, Whole,
       File, Names
  <2>2. newstate' = n
    BY <1>8, <2>1 DEF ProcessDone, Continues, Last
  <2> QED
    BY <1>8, <2>2 DEF ProcessDone
<1> QED
  BY <1>4, <1>5, <1>6, <1>7, <1>8

\* unlink() of a file: current is only unlinked by restart().
LEMMA FedUnlink ==
  ASSUME IInv, IInv', Fed, FinishUnlink \/ DropPrevious \/ Recover
  PROVE  Fed'
<1>1. Cur'.x => pc' = "off"
  BY NoMark, Zenon DEF IInv, Notes, MarkCurrent
<1>2. \A m \in Names : Unlinked(m) => Cur'.data = IF m = "current" THEN <<>>
                                                  ELSE Cur.data
  BY Nothing DEF Unlinked, Cur, Names, IInv, Types, Filed, Is
<1>3. pc \in {"finish", "unlink", "filesfit"} =>
        /\ fin.to \in {"archiveCurrent", "newState", "run"}
        /\ fin.name \in Names
        /\ fin.to = "run" => fin.name # "current"
  BY DEF IInv, Notes, Finishes, Types, Rest
<1> USE DEF Fed, Counting, Emptied, Collecting, Feeding, Keeping, Within,
        memory, world
<1> USE <1>1, <1>2, <1>3
<1>4. CASE FinishUnlink
  BY <1>4 DEF FinishUnlink
<1>5. CASE DropPrevious
  BY <1>5 DEF DropPrevious, Names
<1>6. CASE Recover
  BY <1>6 DEF Recover, Finish
<1> QED
  BY <1>4, <1>5, <1>6

\* write() adds the line that comes next.
LEMMA FedWrite ==
  ASSUME IInv, IInv', Fed, Write
  PROVE  Fed'
<1> USE DEF Fed, Counting, Emptied, Collecting, Feeding, Keeping, Within
<1>1. /\ n \in Nat /\ n' = n + 1 /\ n' \in 1..MaxLine /\ ~Cur'.x
      /\ Cur.data \in Seq(1..MaxLine)
  BY Writing DEF IInv, Types, Filed, Whole, File, Names, Cur
<1>2. Cur'.data = Append(Cur.data, n + 1)
  <2>1. /\ "current" \in Names /\ files \in [Names -> File]
        /\ files["current"] \in File
    BY DEF IInv, Types, Filed, Names
  <2>2. files' = [files EXCEPT !["current"].data = Append(@, n + 1)]
    BY <1>1 DEF Write
  <2>3. files'["current"].data = Append(files["current"].data, n + 1)
    BY <2>1, <2>2 DEF File
  <2> QED
    BY <2>3 DEF Cur
<1>3. /\ Continues(state', Cur'.data, n') /\ Cur'.data # <<>>
      /\ Len(Cur'.data) = Len(Cur.data) + 1
  <2>1. Continues(state, Cur.data, n) /\ state' = state
    BY DEF Write
  <2>2. LET e == Append(Cur.data, n + 1) IN
        /\ Continues(state, e, n + 1) /\ e # <<>>
        /\ Len(e) = Len(Cur.data) + 1
    <3>1. n + 1 \in 1..MaxLine
      BY <1>1
    <3> HIDE DEF Fed, Counting, Emptied, Collecting, Feeding, Keeping, Within
    <3> QED
      BY <1>1, <2>1, <3>1, OneMore
  <2> QED
    BY <1>1, <1>2, <2>1, <2>2
<1> QED
  BY <1>1, <1>3 DEF Write

\* rename() moves all lines of current to previous.
LEMMA FedRename ==
  ASSUME IInv, IInv', Fed, Rename
  PROVE  Fed'
<1> USE DEF Fed, Counting, Emptied, Collecting, Feeding, Keeping, Within
<1>1. ~Cur'.x
  BY NoMark DEF Rename, IInv, Notes, MarkCurrent
<1>2. Prev'.data = Cur.data /\ Cur'.data = <<>>
  BY Nothing DEF Rename, Cur, Prev, Names, IInv, Types, Filed, Is
<1> QED
  BY <1>1, <1>2 DEF Rename, memory, world

\* Power fails: a current that is marked loses nothing.
LEMMA FedOutage ==
  ASSUME IInv, Fed, Outage
  PROVE  Fed'
<1>1. Cur' \in Remains(Cur) /\ "current" \in Names
  BY DEF Outage, Cur, Names
<1>2. Whole(Cur, n)
  BY <1>1, Zenon DEF IInv, Types, Filed, Cur
<1>3. n \in Nat
  BY CyclogAssumption DEF IInv, Types, Rest
<1>4. Cur'.x => Cur.x /\ Cur'.data = Cur.data
  BY <1>1, <1>2, <1>3, RemainsOfFile DEF IInv, Notes, MarkCurrent
<1> QED
  BY <1>4 DEF Outage, Ended, Fed, Counting, Emptied, Collecting, Feeding,
     Keeping, Within

\* Every step keeps what the processor has to see next.
LEMMA FedNext ==
  FedInv /\ [Next]_vars => FedInv'
<1> SUFFICES ASSUME FedInv, [Next]_vars, script' = {TRUE}, IInv'
             PROVE  Fed'
  BY NextStep DEF FedInv
<1>1. script = {TRUE} /\ IInv /\ Fed
  BY DEF FedInv, Next, Restart, Finishing, FullCurrent, Quit, Start,
     UnlinkState, UnlinkNewstate, Recover, ArchiveCurrent, NewState, NewCurrent,
     FinishAbsent, FinishLink, FinishUnlink, FilesFit, FilesRemove, Write,
     WriteFull, ForceRotate, SyncCurrent, Rename, Reopen, MarkPrevious,
     ProcessDone, SyncProcessed, MarkProcessed, DropPrevious, KeepState,
     ProcessFails, QuitSync, QuitMark, Kill, OrphanWrites, Outage, vars, world
<1>2. CASE UNCHANGED vars
  BY <1>1, <1>2 DEF vars, disk, memory, world, Fed, Cur, Prev, Counting,
     Emptied, Collecting, Feeding, Keeping, Within
<1>3. CASE Next
  <2>1. CASE Write \/ Rename \/ FinishUnlink \/ DropPrevious \/ Recover
             \/ Outage
    BY <1>1, <2>1, FedWrite, FedRename, FedUnlink, FedOutage
  <2>2. CASE ~(Write \/ Rename \/ FinishUnlink \/ DropPrevious \/ Recover
                 \/ Outage)
    <3>1. Cur'.data = Cur.data /\ Prev'.data = Prev.data
      BY <1>1, <1>3, <2>2, DataKept DEF Cur, Prev
    <3> QED
      BY <1>1, <1>3, <2>2, <3>1, FedStart, FedFull DEF Next, Restart, Finishing,
         FullCurrent, Quit
  <2> QED
    BY <2>1, <2>2
<1> QED
  BY <1>2, <1>3

\* A new log has no line.
LEMMA FedInit ==
  Init => FedInv
<1>1. Init => Fed
  BY Nothing DEF Init, Fed, Cur, Prev, Counting, Emptied, Collecting, Feeding,
     Keeping, Within, Names, Is
<1> QED
  BY <1>1, Initially DEF FedInv

(***************************************************************************)
(* The theorems.                                                           *)
(***************************************************************************)

\* The invariant holds of every multilog, however often it is killed.
THEOREM Invariant == Spec => []IInv
  BY Initially, NextStep, PTL DEF Spec

\* Every variable of the log has its type, and no file has more lines than
\* write() took.
THEOREM TypeCorrect == Spec => []TypeOK
<1>1. IInv => TypeOK
  <2> SUFFICES ASSUME IInv PROVE TypeOK
    OBVIOUS
  <2>1. bytes \in 0..MaxLine
    BY CyclogAssumption DEF IInv, Types, Rest
  <2> QED
    BY <2>1 DEF IInv, Types, Filed, Rest, Whole, TypeOK
<1> QED
  BY <1>1, Invariant, PTL

\* finish() gives the name .s only to a file that fsync() had put on disk, and
\* no crash changes one later.
THEOREM SafeIsSafe == Spec => []SafeMeansSafe
<1>1. IInv => SafeMeansSafe
  BY DEF IInv, Notes
<1> QED
  BY <1>1, Invariant, PTL

\* restart() drops previous for a processed with the x bit: that processed is
\* on disk in full, and has what previous has, after any crash.
THEOREM MarkIsTrue == Spec => []MarkMeansDone
<1>1. IInv => MarkMeansDone
  BY DEF IInv, Notes, MarkMeansDone, MarkDone, Prev, Proc, InSync
<1> QED
  BY <1>1, Invariant, PTL

\* restart() skips the recovery for a current with the x bit: that current is on
\* disk, nothing of a rotation is left, and state is there.
THEOREM CleanIsClean == Spec => []CleanMark
<1>1. IInv => CleanMark
  BY DEF IInv, Notes, CleanMark, MarkCurrent, Cur, Prev, Proc, InSync
<1> QED
  BY <1>1, Invariant, PTL

\* filesfit() keeps the directory at num archives; a crash between link() and
\* filesfit() costs one more at the worst.
THEOREM StaysBounded == Spec => []Bounded
<1>1. IInv => Bounded
  BY DEF IInv, Notes, Sizes, Bounded
<1> QED
  BY <1>1, Invariant, PTL

\* The archives are in the order of their lines, share none, and come before
\* what is not archived yet, so that filesfit() removes the oldest lines.
THEOREM KeepsOrder == Spec => []InOrder
<1>1. IInv => InOrder
  BY DEF IInv, Order
<1> QED
  BY <1>1, Invariant, PTL

\* With a processor in every run of multilog, the processor is started with a
\* state that is empty, or with the one it left when it had seen the lines just
\* before those of previous, whatever kills and outages there were: the lines of
\* a rotation that was not finished are never skipped under a kept state.
THEOREM StateIsRight == Spec => []StateMatches
<1>1. FedInv => StateMatches
  BY DEF FedInv, Fed, Feeding, Continues, StateMatches, Prev
<1> QED
  BY <1>1, FedInit, FedNext, PTL DEF Spec

\* The log implements CyclicLog: a line that write() took is forgotten only as
\* the oldest of those kept, or in an outage before it was synced anywhere.
THEOREM Implements == Spec => Contract
<1>1. Init => RInv /\ Promise!Init
  BY Begins
<1>2. RInv /\ [Next]_vars => RInv' /\ [Promise!Next]_Promise!vars
  <2>1. RInv /\ [Next]_vars => RInv' /\ [Promise!Next]_<<n, Readable, Secure>>
    BY OldKept
  <2> QED
    BY <2>1 DEF Promise!vars, Readable, Secure
<1> QED
  BY <1>1, <1>2, PTL DEF Spec, Contract, Promise!Spec
=============================================================================
