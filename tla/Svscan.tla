------------------------------- MODULE Svscan -------------------------------
(***************************************************************************)
(* svscan (svscan.c): every five seconds it reads the directory of services *)
(* and sees to it that each has a supervise, and a second one for its log,   *)
(* joined by a pipe that outlives both; and svscanboot (svscanboot.sh): when  *)
(* svscan is killed, its shell waits for readproctitle, which reads until     *)
(* nobody has the pipe any more that all of them were given for their errors; *)
(* then init starts svscanboot again.                                        *)
(*                                                                          *)
(* A service directory is known by its device and inode, whatever its name. *)
(* at says which directory a name leads to; names that begin with a dot and  *)
(* files that are no directories are left out, for svscan ignores them.  The *)
(* kernel hands out the lowest free process identifier, and pipes have       *)
(* numbers: nothing depends on which.  A supervise is either about to take   *)
(* the lock of its directory ("forked", it finds the directory by its name),  *)
(* holds it and listens ("up"), or has ended and is not reaped ("zombie");    *)
(* Supervise has the rest of it.  start() is one step per name.               *)
(***************************************************************************)
EXTENDS Integers, Sequences, FiniteSets, FiniteSetsExt

CONSTANTS
  Names,     \* names in the directory that svscan reads
  Dirs,      \* service directories: records of dev and ino
  Homes,     \* where each name may lead: [Names -> SUBSET Dirs]
  Logs,      \* directories that may have a log/ in them
  Services,  \* SERVICES, the size of the table
  MaxPid,    \* size of the process table
  MaxKill,   \* how often svscan is killed (bounds the model)
  Fails      \* may system calls fail

ASSUME SvscanAssumption ==
  /\ Dirs \subseteq [dev : Nat, ino : Nat]
  /\ Homes \in [Names -> SUBSET Dirs]
  /\ Logs \subseteq Dirs
  /\ Services \in Nat \ {0} /\ MaxPid \in Nat \ {0} /\ MaxKill \in Nat
  /\ Fails \in BOOLEAN

VARIABLES
  at,       \* the directory each name leads to
  haslog,   \* directories that have a log/ in them
  proc,     \* the processes
  x,        \* the table of services
  pc,       \* where svscan is; or "dead", then "tell" for svc -dx
  todo,     \* names that readdir() has still to return, or svc to go to
  stray,    \* does a service without supervise hold the pipe of readproctitle
  kills     \* how often svscan was killed

vars == <<at, haslog, proc, x, pc, todo, stray, kills>>

Pids    == 1..MaxPid
Roles   == {"main", "log"}
Nowhere == [dev |-> -1, ino |-> -1]
NoPipe  == 0

\* mine: a child of the svscan that runs; err: its standard error is the pipe to
\* the readproctitle that runs; told: it has read the commands of svc -dx.
Free == [st |-> "free", role |-> "main", name |-> "", dir |-> Nowhere,
         pipe |-> NoPipe, mine |-> TRUE, err |-> FALSE, told |-> FALSE]

Slot == [dir : Dirs, active : BOOLEAN, log : BOOLEAN, pid : 0..MaxPid,
         pidlog : 0..MaxPid, pipe : Nat]

Linked(d) == \E n \in Names : at[n] = d
Listed    == {n \in Names : at[n] # Nowhere}

Init ==
  /\ at \in [Names -> Dirs \cup {Nowhere}]
  /\ \A n \in Names : at[n] \in Homes[n] \cup {Nowhere}
  /\ haslog \in SUBSET Logs
  /\ proc = [q \in Pids |-> Free]
  /\ x = <<>> /\ pc = "sleep" /\ todo = {} /\ stray = FALSE /\ kills = 0

(***************************************************************************)
(* doit(): the children that ended, and the beginning of a scan.            *)
(***************************************************************************)

Zombies == {q \in Pids : proc[q].st = "zombie"}

\* (mutant) A child that has ended is not looked for in the table.
Awaited_Never(q) == q

\* The process identifier q, or 0 if it has been waited for.
Awaited(q) == IF q \in Zombies THEN 0 ELSE q

\* (mutant) What was found once stays active.
Unseen_Active(s) ==
  [s EXCEPT !.pid = Awaited(@), !.pidlog = Awaited(@)]

\* The slot s of the table before a scan.
Unseen(s) ==
  [s EXCEPT !.pid = Awaited(@), !.pidlog = Awaited(@), !.active = FALSE]

\* wait_nohang() until there is no more; what opendir() finds is then read name
\* by name.
OpenDir ==
  /\ pc = "sleep"
  /\ proc' = [q \in Pids |-> IF q \in Zombies THEN Free ELSE proc[q]]
  /\ x' = [i \in DOMAIN x |-> Unseen(x[i])]
  /\ \/ pc' = "scan" /\ todo' = Listed
     \/ Fails /\ UNCHANGED <<pc, todo>>
  /\ UNCHANGED <<at, haslog, stray, kills>>

(***************************************************************************)
(* start(fn).                                                              *)
(***************************************************************************)

\* (mutant) Only inodes are compared.
SameDir_Inode(s, d) == s.dir.ino = d.ino

SameDir(s, d) == s.dir.ino = d.ino /\ s.dir.dev = d.dev

Slots(d) == {i \in DOMAIN x : SameDir(x[i], d)}

\* (mutant) Off by one.
Room_OneMore == Len(x) =< Services

Room == Len(x) < Services

PipesInUse == {x[i].pipe : i \in DOMAIN x} \cup {proc[q].pipe : q \in Pids}
Pipes      == 1..(Services + MaxPid + 1)

NewPipe    == CHOOSE p \in Pipes : p \notin PipesInUse

\* The slot of a directory that is seen for the first time: whether it has a
\* log is decided once and for all.
NewSlot(d) ==
  [dir |-> d, active |-> TRUE, log |-> d \in haslog, pid |-> 0, pidlog |-> 0,
   pipe |-> IF d \in haslog THEN NewPipe ELSE NoPipe]

\* stat() fails, the table is full, stat() of log or pipe() fails: the name is
\* passed over.
PassOver(n) ==
  /\ pc = "scan" /\ n \in todo
  /\ \/ at[n] = Nowhere
     \/ Fails
     \/ Slots(at[n]) = {} /\ ~Room
  /\ todo' = todo \ {n}
  /\ UNCHANGED <<at, haslog, proc, x, pc, stray, kills>>

\* (mutant) A new pipe each time supervise is started.
PipeOf_New(s) == IF s.log /\ s.pid = 0 THEN NewPipe ELSE s.pipe

\* The pipe that both children of the slot are given.
PipeOf(s) == s.pipe

Child(s, role, n) ==
  [Free EXCEPT !.st = "forked", !.role = role, !.name = n,
               !.pipe = PipeOf(s), !.err = TRUE]

FreePids == {q \in Pids : proc[q].st = "free"}

\* What fork() may return when the processes busy are there: 0 for a failure.
Forks(busy) ==
  IF FreePids \ busy = {} THEN {0}
  ELSE {CHOOSE q \in FreePids : q \notin busy} \cup (IF Fails THEN {0} ELSE {})

\* A failing fork() for supervise leaves the log alone until the next scan.
Started(s, n) ==
  \E main \in IF s.pid = 0 THEN Forks({}) ELSE {s.pid} :
  \E log  \in IF s.log /\ s.pidlog = 0 /\ main # 0 THEN Forks({main})
              ELSE {s.pidlog} :
    LET t == [s EXCEPT !.active = TRUE, !.pid = main, !.pidlog = log,
                       !.pipe = PipeOf(s)] IN
    /\ proc' = [q \in Pids |->
                  CASE q = main /\ s.pid = 0   -> Child(s, "main", n)
                    [] q = log /\ s.pidlog = 0 -> Child(s, "log", n)
                    [] OTHER                   -> proc[q]]
    /\ IF Slots(s.dir) = {} THEN x' = Append(x, t)
       ELSE x' = [x EXCEPT ![Min(Slots(s.dir))] = t]

Start(n) ==
  /\ pc = "scan" /\ n \in todo
  /\ at[n] # Nowhere
  /\ IF Slots(at[n]) = {} THEN Room /\ Started(NewSlot(at[n]), n)
     ELSE Started(x[Min(Slots(at[n]))], n)
  /\ todo' = todo \ {n}
  /\ UNCHANGED <<at, haslog, pc, stray, kills>>

\* (mutant) The log may still be running.
Gone_Main(s) == ~s.active /\ s.pid = 0

Gone(s) == ~s.active /\ s.pid = 0 /\ s.pidlog = 0

\* The end of the directory, or an error, which leaves the table alone.
EndOfDir ==
  /\ pc = "scan"
  /\ \/ todo = {} /\ pc' = "sweep"
     \/ Fails /\ pc' = "sleep"
  /\ todo' = {}
  /\ UNCHANGED <<at, haslog, proc, x, stray, kills>>

\* The table without its slot i: the last one takes its place.
Without(i) == [j \in 1..(Len(x) - 1) |-> x[IF j = i THEN Len(x) ELSE j]]

\* A service that is gone leaves the table.
Drop(i) ==
  /\ pc = "sweep"
  /\ i \in DOMAIN x /\ Gone(x[i])
  /\ \A j \in 1..(i - 1) : ~Gone(x[j])
  /\ x' = Without(i)
  /\ UNCHANGED <<at, haslog, proc, pc, todo, stray, kills>>

\* After five seconds the next scan begins.
Sleep ==
  /\ pc = "sweep"
  /\ \A i \in DOMAIN x : ~Gone(x[i])
  /\ pc' = "sleep"
  /\ UNCHANGED <<at, haslog, proc, x, todo, stray, kills>>

(***************************************************************************)
(* The children: pathexec_run() and the beginning of supervise's main().    *)
(***************************************************************************)

\* What is left of q: the children of a dead svscan are waited for by init.
Ended(q) == IF proc[q].mine THEN [Free EXCEPT !.st = "zombie"] ELSE Free

Up(d, role) == \E q \in Pids : /\ proc[q].st = "up" /\ proc[q].dir = d
                               /\ proc[q].role = role

\* chdir(), and the lock of the directory, at which the second one ends.
Settle(q) ==
  /\ proc[q].st = "forked"
  /\ LET d == at[proc[q].name]  role == proc[q].role IN
     proc' = [proc EXCEPT ![q] =
       IF \/ d = Nowhere \/ Up(d, role)
          \/ role = "log" /\ d \notin haslog
       THEN Ended(q)
       ELSE [@ EXCEPT !.st = "up", !.name = "", !.dir = d]]
  /\ UNCHANGED <<at, haslog, x, pc, todo, stray, kills>>

\* supervise is killed, or left after svc -x.  One that ends before it has the
\* lock might as well have ended just after it.  A service that it leaves behind
\* with its standard error matters to an svscanboot that waits, and not before.
Die(q) ==
  /\ proc[q].st = "up"
  /\ proc' = [proc EXCEPT ![q] = Ended(q)]
  /\ \/ UNCHANGED stray
     \/ pc = "dead" /\ proc[q].err /\ stray' = TRUE
  /\ UNCHANGED <<at, haslog, x, pc, todo, kills>>

(***************************************************************************)
(* The end of svscan, and svscanboot after it.                              *)
(***************************************************************************)

\* What svscan leaves: init waits for its children from now on.
Orphan(q) == IF proc[q].st \in {"free", "zombie"} THEN Free
             ELSE [proc[q] EXCEPT !.mine = FALSE]

\* svscan is killed, and its table and its pipes are gone.  Services may have
\* lost their supervise before, or left a process in the background: whether
\* there are such is not kept in mind, and open here.
Kill ==
  /\ pc \in {"sleep", "scan", "sweep"} /\ kills < MaxKill
  /\ kills' = kills + 1
  /\ proc' = [q \in Pids |-> Orphan(q)]
  /\ x' = <<>> /\ pc' = "dead" /\ todo' = {}
  /\ stray' \in BOOLEAN
  /\ UNCHANGED <<at, haslog>>

\* Someone may still write to readproctitle, whose read() waits for them.
Held == stray \/ \E q \in Pids : proc[q].err

\* svscanboot from its beginning, with a new pipe: the shell looks up the names
\* for svc -dx /service/* /service/*/log.
Again ==
  /\ pc = "dead"
  /\ pc' = "tell" /\ todo' = Listed
  /\ proc' = [q \in Pids |-> [proc[q] EXCEPT !.err = FALSE]]
  /\ stray' = FALSE
  /\ UNCHANGED <<at, haslog, x, kills>>

\* (mutant) As with boot.rclocal, which starts svscanboot once.
Boot_Once == kills = 0 /\ ~Held /\ Again

\* End of input for readproctitle, and with it the end of the shell: init starts
\* svscanboot again.
Boot == ~Held /\ Again

\* The shell or readproctitle is killed as well, and init need not wait.
Cut == Held /\ Again

\* Who listens at the control of the service n and at that of its log.
Listening(n) == {q \in Pids : proc[q].st = "up" /\ proc[q].dir = at[n]}

\* svc -dx for one name and its log; what cannot be opened is passed over.
Tell(n) ==
  /\ pc = "tell" /\ n \in todo
  /\ \E reached \in SUBSET Listening(n) :
       /\ reached = Listening(n) \/ Fails
       /\ proc' = [q \in Pids |->
                     [proc[q] EXCEPT !.told = @ \/ q \in reached]]
  /\ todo' = todo \ {n}
  /\ UNCHANGED <<at, haslog, x, pc, stray, kills>>

\* The next svscan.
Launch ==
  /\ pc = "tell" /\ todo = {}
  /\ pc' = "sleep"
  /\ UNCHANGED <<at, haslog, proc, x, todo, stray, kills>>

\* A service without supervise ends, or closes its standard error.
StrayEnds ==
  /\ stray /\ stray' = FALSE
  /\ UNCHANGED <<at, haslog, proc, x, pc, todo, kills>>

(***************************************************************************)
(* The administrator.                                                      *)
(***************************************************************************)

\* A new name is found by the next opendir(): one that readdir() returns at once
\* might as well have been there before.
Link(n, d) ==
  /\ at[n] = Nowhere /\ d \in Homes[n]
  /\ at' = [at EXCEPT ![n] = d]
  /\ UNCHANGED <<haslog, proc, x, pc, todo, stray, kills>>

\* readdir() may have its name yet or not.
Unlink(n) ==
  /\ at[n] # Nowhere
  /\ at' = [at EXCEPT ![n] = Nowhere]
  /\ \/ UNCHANGED todo
     \/ pc = "scan" /\ n \in todo /\ todo' = todo \ {n}
  /\ UNCHANGED <<haslog, proc, x, pc, stray, kills>>

AddLog(d) ==
  /\ d \in Logs \ haslog
  /\ haslog' = haslog \cup {d}
  /\ UNCHANGED <<at, proc, x, pc, todo, stray, kills>>

(***************************************************************************)
(* The specification.                                                      *)
(***************************************************************************)

Loop == \/ OpenDir \/ EndOfDir \/ Sleep
        \/ \E n \in Names : PassOver(n) \/ Start(n)
        \/ \E i \in 1..Services : Drop(i)

Next ==
  \/ Loop
  \/ Boot \/ Launch
  \/ \E n \in Names : Tell(n)
  \/ \E q \in Pids : Settle(q) \/ Die(q)
  \/ \E n \in Names, d \in Dirs : Link(n, d)
  \/ \E n \in Names : Unlink(n)
  \/ \E d \in Dirs : AddLog(d)
  \/ Kill \/ Cut \/ StrayEnds

Spec == Init /\ [][Next]_vars

\* Both forks that start(fn) asks for work.
StartBoth(n) ==
  /\ Start(n)
  /\ \A i \in DOMAIN x' :
       SameDir(x'[i], at[n]) => x'[i].pid # 0 /\ (x'[i].log => x'[i].pidlog # 0)

\* svscan, svscanboot and the children go on; a system call that is tried again
\* and again works at last; a service that supervise was told to end does so.  A
\* supervise that was not told, and a service without one, may run for ever.
FairSpec ==
  /\ Spec
  /\ WF_vars(\E n \in Names : PassOver(n))
  /\ SF_vars(OpenDir /\ pc' = "scan")
  /\ SF_vars(EndOfDir /\ pc' = "sweep")
  /\ WF_vars(Sleep \/ \E i \in 1..Services : Drop(i))
  /\ \A n \in Names : SF_vars(StartBoth(n))
  /\ WF_vars(Boot) /\ WF_vars(Launch) /\ WF_vars(\E n \in Names : Tell(n))
  /\ \A q \in Pids : WF_vars(Settle(q)) /\ WF_vars(proc[q].told /\ Die(q))

(***************************************************************************)
(* Properties.                                                             *)
(***************************************************************************)

Process == [st : {"free", "forked", "up", "zombie"}, role : Roles,
            name : Names \cup {""}, dir : Dirs \cup {Nowhere}, pipe : Nat,
            mine : BOOLEAN, err : BOOLEAN, told : BOOLEAN]

\* Every variable has its type, and the table is not written beyond its end.
TypeOK ==
  /\ at \in [Names -> Dirs \cup {Nowhere}]
  /\ haslog \subseteq Logs
  /\ proc \in [Pids -> Process]
  /\ x \in Seq(Slot) /\ Len(x) =< Services
  /\ pc \in {"sleep", "scan", "sweep", "dead", "tell"}
  /\ todo \subseteq Names /\ stray \in BOOLEAN /\ kills \in 0..MaxKill

Live(q) == proc[q].st \in {"forked", "up"}

\* Every child that svscan has not waited for is in one place of the table, the
\* one for its role, and each process that the table names is such a child: no
\* supervise is forgotten, and none is started while the table's one runs.
KnownChildren ==
  /\ \A q \in Pids : Live(q) /\ proc[q].mine =>
       \E i \in DOMAIN x : IF proc[q].role = "main" THEN x[i].pid = q
                                                    ELSE x[i].pidlog = q
  /\ \A i \in DOMAIN x :
       /\ \A q \in {x[i].pid, x[i].pidlog} \ {0} :
            proc[q].st # "free" /\ proc[q].mine
       /\ x[i].pid # 0 => x[i].pid # x[i].pidlog
       /\ \A j \in DOMAIN x \ {i} :
            ({x[i].pid, x[i].pidlog} \cap {x[j].pid, x[j].pidlog}) \subseteq {0}

\* However often the two are started again and the directory is renamed, removed
\* and put back: supervise and the supervise of its log share one pipe, and
\* services do not share pipes.
PipeShared ==
  \A i, j \in DOMAIN x :
    LET main == x[i].pid  log == x[j].pidlog IN
    main # 0 /\ log # 0 /\ Live(main) /\ Live(log) =>
      (i = j <=> proc[main].pipe = proc[log].pipe)

\* A supervise is only started for the directory that its name leads to, in the
\* one slot that this has by device and inode: one that was renamed keeps its
\* slot, and with it the children that still run, and one with the same inode
\* number on another device has its own.
StartedInSlot ==
  [][\A q \in Pids : proc[q].st = "free" /\ proc'[q].st = "forked" =>
       \E i \in DOMAIN x' :
         /\ x'[i].dir = at[proc'[q].name]
         /\ q = IF proc'[q].role = "main" THEN x'[i].pid ELSE x'[i].pidlog
         /\ \A j \in DOMAIN x' \ {i} : x'[j].dir # x'[i].dir]_vars

\* By the svscan that runs.
Served(d, role) ==
  \E q \in Pids : /\ proc[q].st = "up" /\ proc[q].mine
                 /\ proc[q].dir = d /\ proc[q].role = role

\* A supervise that svc -dx did not reach keeps the lock of d for as long as it
\* likes.
Missed(d, role) ==
  \E q \in Pids : /\ proc[q].st = "up" /\ ~proc[q].mine /\ ~proc[q].told
                 /\ proc[q].dir = d /\ proc[q].role = role

\* svscan is gone, and somebody whom it left keeps readproctitle, and with it
\* the shell of svscanboot, from their end.
Waiting == pc = "dead" /\ Held

\* A directory of services gets its supervise, and that of its log, however
\* often they end.  If svscan was killed, this is so again once nobody is left
\* who writes to readproctitle, or the shell is killed too; the two are then
\* children of the next svscan, and so have its pipe, but for any that svc -dx
\* missed.  As long as svscanboot waits, nothing is started.
Supervised ==
  \A d \in Dirs :
    /\ Linked(d)
         ~> (Served(d, "main") \/ Missed(d, "main") \/ ~Linked(d) \/ Waiting)
    /\ (Linked(d) /\ \E i \in DOMAIN x : x[i].dir = d /\ x[i].log)
         ~> (Served(d, "log") \/ Missed(d, "log") \/ ~Linked(d) \/ Waiting)

Deserted(d) ==
  /\ ~Linked(d)
  /\ \A i \in DOMAIN x :
       x[i].dir = d => \A q \in {x[i].pid, x[i].pidlog} \ {0} : ~Live(q)

\* A directory that was removed, and whose children have ended, leaves the
\* table, so that there is room for another.
Drained ==
  \A d \in Dirs :
    Deserted(d) ~> (Linked(d) \/ \A i \in DOMAIN x : x[i].dir # d)
=============================================================================
