---------------------------- MODULE SvscanProofs ----------------------------
(***************************************************************************)
(* Proofs about Svscan, for any names, directories and logs, any size of the *)
(* table and of the process table, and any number of kills.                 *)
(***************************************************************************)
EXTENDS Svscan, FiniteSetTheorems, TLAPS

\* A child that has not taken the lock yet knows its directory by a name.
Named == \A q \in Pids : proc[q].st = "forked" => proc[q].name \in Names

\* A directory has one slot.
OneSlot == \A i, j \in DOMAIN x : x[i].dir = x[j].dir => i = j

\* Of the table t and the processes p: the children in a slot, and the processes
\* that run.
Children(t, i) == {t[i].pid, t[i].pidlog} \ {0}

Runs(p, q) == p[q].st \in {"forked", "up"}

\* A slot has a pipe of its own if it has a log, and its children have it too.
Piped(p, t) ==
  \A i \in DOMAIN t :
    /\ t[i].log <=> t[i].pipe # NoPipe
    /\ t[i].pidlog # 0 => t[i].log
    /\ \A q \in Children(t, i) : Runs(p, q) => p[q].pipe = t[i].pipe
    /\ \A j \in DOMAIN t : t[i].log /\ t[i].pipe = t[j].pipe => i = j

\* The two halves of KnownChildren.
Found(p, t) ==
  \A q \in Pids : Runs(p, q) /\ p[q].mine =>
    \E i \in DOMAIN t : q = IF p[q].role = "main" THEN t[i].pid
                                                  ELSE t[i].pidlog

Ours(p, t) ==
  \A i \in DOMAIN t :
    /\ \A q \in Children(t, i) : p[q].st # "free" /\ p[q].mine
    /\ t[i].pid # 0 => t[i].pid # t[i].pidlog
    /\ \A j \in DOMAIN t : \A q \in Children(t, i) \cap Children(t, j) : i = j

IInv == /\ TypeOK /\ Named /\ OneSlot
        /\ Piped(proc, x) /\ Found(proc, x) /\ Ours(proc, x)

LEMMA InitIInv == Init => IInv
<1> SUFFICES ASSUME Init PROVE IInv
  OBVIOUS
<1>1. x = <<>> /\ DOMAIN x = {} /\ x \in Seq(Slot) /\ Len(x) = 0
  BY DEF Init
<1>2. Free \in Process
  BY DEF Free, Process, Roles, NoPipe
<1>3. /\ proc \in [Pids -> Process]
      /\ \A q \in Pids : proc[q].st = "free"
  BY <1>2, Zenon DEF Init, Free
<1>4. TypeOK
  <2>1. /\ at \in [Names -> Dirs \cup {Nowhere}] /\ haslog \subseteq Logs
        /\ pc \in {"sleep", "scan", "sweep", "dead", "tell"}
        /\ todo \subseteq Names
    BY DEF Init
  <2>2. kills \in 0..MaxKill /\ Len(x) =< Services
    BY <1>1, SvscanAssumption DEF Init
  <2>3. stray \in BOOLEAN
    BY DEF Init
  <2> QED
    BY <1>1, <1>3, <2>1, <2>2, <2>3, Zenon DEF TypeOK
<1>5. Named
  BY <1>3 DEF Named
<1>6. OneSlot /\ Piped(proc, x) /\ Ours(proc, x)
  BY <1>1, Zenon DEF OneSlot, Piped, Ours
<1>7. Found(proc, x)
  BY <1>3 DEF Found, Runs
<1> QED
  BY <1>4, <1>5, <1>6, <1>7 DEF IInv

(***************************************************************************)
(* What the kernel hands out.                                              *)
(***************************************************************************)

\* There are more pipes than may be in use.
LEMMA FreshPipe ==
  ASSUME TypeOK
  PROVE  NewPipe \in Pipes \ PipesInUse
<1> USE SvscanAssumption
<1> DEFINE S == 1..(Len(x) + MaxPid)
           g == [k \in S |-> IF k =< Len(x) THEN x[k].pipe
                             ELSE proc[k - Len(x)].pipe]
<1>1. Len(x) \in 0..Services /\ DOMAIN x = 1..Len(x)
  BY SMT DEF TypeOK
<1>2. g \in Surjection(S, PipesInUse)
  <2>1. \A k \in S : g[k] \in PipesInUse
    <3> SUFFICES ASSUME NEW k \in S PROVE g[k] \in PipesInUse
      OBVIOUS
    <3>1. CASE k =< Len(x)
      BY <1>1, <3>1 DEF PipesInUse
    <3>2. CASE ~(k =< Len(x))
      <4>1. k - Len(x) \in Pids /\ g[k] = proc[k - Len(x)].pipe
        BY <1>1, <3>2 DEF Pids
      <4> QED
        BY <4>1 DEF PipesInUse
    <3> QED
      BY <3>1, <3>2
  <2>2. ASSUME NEW p \in PipesInUse
        PROVE  \E k \in S : g[k] = p
    <3>1. CASE \E i \in DOMAIN x : p = x[i].pipe
      <4>1. PICK i \in DOMAIN x : p = x[i].pipe
        BY <3>1
      <4>2. i \in S /\ g[i] = p
        BY <1>1, <4>1
      <4> QED
        BY <4>2
    <3>2. CASE \E q \in Pids : p = proc[q].pipe
      <4>1. PICK q \in Pids : p = proc[q].pipe
        BY <3>2
      <4>2. q + Len(x) \in S /\ ~(q + Len(x) =< Len(x))
        BY <1>1 DEF Pids
      <4>3. (q + Len(x)) - Len(x) = q
        BY <1>1 DEF Pids
      <4>4. g[q + Len(x)] = p
        BY <4>1, <4>2, <4>3, Zenon
      <4> QED
        BY <4>2, <4>4
    <3> QED
      BY <3>1, <3>2 DEF PipesInUse
  <2> HIDE DEF S
  <2> QED
    BY <2>1, <2>2, Zenon DEF Surjection
<1>3. IsFiniteSet(S) /\ Cardinality(S) = Len(x) + MaxPid
  <2>1. Len(x) + MaxPid \in Nat /\ 1 \in Int
    BY <1>1
  <2>2. /\ IsFiniteSet(S)
        /\ Cardinality(S) = IF 1 > Len(x) + MaxPid THEN 0
                            ELSE (Len(x) + MaxPid) - 1 + 1
    BY <2>1, FS_Interval
  <2> QED
    BY <2>1, <2>2
<1>4. /\ IsFiniteSet(PipesInUse)
      /\ Cardinality(PipesInUse) =< Len(x) + MaxPid
  <2> HIDE DEF S, g
  <2> QED
    BY <1>2, <1>3, FS_Surjection
<1>5. Cardinality(Pipes) = Services + MaxPid + 1
  BY FS_Interval DEF Pipes
<1>6. ~(Pipes \subseteq PipesInUse)
  <2>1. SUFFICES ASSUME Pipes \subseteq PipesInUse
                 PROVE  FALSE
    OBVIOUS
  <2>2. Cardinality(Pipes) =< Cardinality(PipesInUse)
    BY <1>4, <2>1, FS_Subset
  <2>3. Cardinality(PipesInUse) \in Nat
    BY <1>4, FS_CardinalityType
  <2> QED
    BY <1>1, <1>4, <1>5, <2>2, <2>3
<1>7. \E p \in Pipes : p \notin PipesInUse
  BY <1>6
<1> QED
  BY <1>7, Zenon DEF NewPipe

LEMMA Forked ==
  ASSUME NEW busy, NEW q \in Forks(busy)
  PROVE  q = 0 \/ (q \in FreePids /\ q \notin busy)
<1>1. CASE FreePids \ busy = {}
  BY <1>1, Zenon DEF Forks
<1>2. CASE FreePids \ busy # {}
  <2>1. \E r \in FreePids : r \notin busy
    BY <1>2
  <2>2. LET r == CHOOSE r \in FreePids : r \notin busy IN
        r \in FreePids /\ r \notin busy
    BY <2>1, Zenon
  <2> QED
    BY <1>2, <2>2, Zenon DEF Forks
<1> QED
  BY <1>1, <1>2

(***************************************************************************)
(* The table.                                                              *)
(***************************************************************************)

LEMMA IsTable ==
  ASSUME NEW n \in Nat, NEW t \in [1..n -> Slot]
  PROVE  t \in Seq(Slot) /\ Len(t) = n /\ DOMAIN t = 1..n
OBVIOUS

LEMMA Table ==
  ASSUME TypeOK
  PROVE  /\ Len(x) \in 0..Services /\ DOMAIN x = 1..Len(x)
         /\ \A i \in DOMAIN x : x[i] \in Slot
         /\ \A q \in Pids : proc[q] \in Process
BY SvscanAssumption, SMT DEF TypeOK

LEMMA OpenDirStep ==
  ASSUME IInv, OpenDir
  PROVE  IInv'
<1>1. /\ TypeOK
      /\ DOMAIN x = 1..Len(x) /\ Len(x) \in Nat /\ Len(x) =< Services
      /\ \A i \in DOMAIN x : x[i] \in Slot
      /\ \A q \in Pids : proc[q] \in Process
  BY Table, SvscanAssumption DEF IInv
<1>2. /\ DOMAIN x' = DOMAIN x
      /\ \A i \in DOMAIN x : x'[i] = Unseen(x[i])
      /\ proc' = [q \in Pids |-> IF q \in Zombies THEN Free ELSE proc[q]]
      /\ UNCHANGED <<at, haslog, stray, kills>>
  BY Zenon DEF OpenDir
<1>3. \A q \in 0..MaxPid : Awaited(q) \in 0..MaxPid
  BY SvscanAssumption DEF Awaited
<1>4. ASSUME NEW i \in DOMAIN x
      PROVE  /\ x'[i] \in Slot
             /\ x'[i].dir = x[i].dir /\ x'[i].log = x[i].log
             /\ x'[i].pipe = x[i].pipe
             /\ x'[i].pid = Awaited(x[i].pid)
             /\ x'[i].pidlog = Awaited(x[i].pidlog)
  <2>1. x[i] \in Slot /\ x'[i] = Unseen(x[i])
    BY <1>1, <1>2
  <2>2. /\ x[i].pid \in 0..MaxPid /\ x[i].pidlog \in 0..MaxPid
    BY <2>1, Zenon DEF Slot
  <2>3. Awaited(x[i].pid) \in 0..MaxPid /\ Awaited(x[i].pidlog) \in 0..MaxPid
    BY <1>3, <2>2
  <2> HIDE DEF Awaited
  <2> QED
    BY <2>1, <2>3 DEF Unseen, Slot
<1>5. ASSUME NEW q \in Pids
      PROVE  /\ proc'[q] \in Process
             /\ proc[q].st # "zombie" => proc'[q] = proc[q]
             /\ proc[q].st = "zombie" => proc'[q].st = "free"
  <2>1. Free \in Process /\ Free.st = "free"
    BY DEF Free, Process, Roles, NoPipe
  <2> QED
    BY <1>1, <1>2, <2>1, Zenon DEF Zombies
<1>6. ASSUME NEW q, Awaited(q) # 0
      PROVE  /\ Awaited(q) = q /\ q # 0
             /\ q \in Pids => proc[q].st # "zombie" /\ proc'[q] = proc[q]
  BY <1>5, <1>6, Zenon DEF Awaited, Zombies
<1>7. TypeOK'
  <2>1. x' \in [1..Len(x) -> Slot]
    BY <1>1, <1>2, <1>4, Zenon DEF OpenDir
  <2>2. x' \in Seq(Slot) /\ Len(x') = Len(x)
    BY <1>1, <2>1, IsTable
  <2>3. proc' \in [Pids -> Process]
    BY <1>2, <1>5, Zenon
  <2>4. pc' \in {"sleep", "scan", "sweep"} /\ todo' \subseteq Names
    BY <1>1, Zenon DEF OpenDir, TypeOK, Listed
  <2> QED
    BY <1>1, <1>2, <2>2, <2>3, <2>4, Zenon DEF TypeOK
<1>8. Named'
  BY <1>2, <1>5, Zenon DEF IInv, Named
<1>9. OneSlot'
  BY <1>2, <1>4, Zenon DEF IInv, OneSlot
<1>10. ASSUME NEW i \in DOMAIN x
       PROVE  /\ x[i].pid \in 0..MaxPid /\ x[i].pidlog \in 0..MaxPid
              /\ x[i].pid # 0 => x[i].pid \in Pids
              /\ x[i].pidlog # 0 => x[i].pidlog \in Pids
  <2>1. x[i].pid \in 0..MaxPid /\ x[i].pidlog \in 0..MaxPid
    BY <1>1, Zenon DEF Slot
  <2> QED
    BY <2>1, SvscanAssumption DEF Pids
<1>11. ASSUME NEW i \in DOMAIN x, NEW q \in Children(x', i)
       PROVE  /\ q \in Children(x, i) /\ q \in Pids
              /\ proc'[q] = proc[q] /\ proc[q].st # "zombie"
  <2>1. q # 0 /\ (q = Awaited(x[i].pid) \/ q = Awaited(x[i].pidlog))
    BY <1>4 DEF Children
  <2>2. q = x[i].pid \/ q = x[i].pidlog
    BY <1>6, <2>1, Zenon
  <2>3. q \in Pids /\ Awaited(q) = q
    BY <1>6, <1>10, <2>1, <2>2, Zenon
  <2> QED
    BY <1>6, <2>1, <2>2, <2>3 DEF Children
<1>12. Piped(proc', x')
  <2>1. ASSUME NEW i \in DOMAIN x
        PROVE  /\ x'[i].log <=> x'[i].pipe # NoPipe
               /\ x'[i].pidlog # 0 => x'[i].log
    <3>1. /\ x[i].log <=> x[i].pipe # NoPipe
          /\ x[i].pidlog # 0 => x[i].log
      BY DEF IInv, Piped
    <3>2. x'[i].pidlog # 0 => x[i].pidlog # 0
      BY <1>4, <1>6, Zenon
    <3> QED
      BY <1>4, <3>1, <3>2, Zenon
  <2>2. ASSUME NEW i \in DOMAIN x, NEW q \in Children(x', i), Runs(proc', q)
        PROVE  proc'[q].pipe = x'[i].pipe
    <3>1. q \in Children(x, i) /\ proc'[q] = proc[q] /\ Runs(proc, q)
      BY <1>11, <2>2 DEF Runs
    <3>2. proc[q].pipe = x[i].pipe
      BY <3>1 DEF IInv, Piped
    <3> QED
      BY <1>4, <3>1, <3>2
  <2>3. ASSUME NEW i \in DOMAIN x, NEW j \in DOMAIN x,
               x'[i].log, x'[i].pipe = x'[j].pipe
        PROVE  i = j
    <3>1. x[i].log /\ x[i].pipe = x[j].pipe
      BY <1>4, <2>3, Zenon
    <3> QED
      BY <3>1 DEF IInv, Piped
  <2> QED
    BY <1>2, <2>1, <2>2, <2>3, Zenon DEF Piped
<1>13. Found(proc', x')
  <2> SUFFICES ASSUME NEW q \in Pids, Runs(proc', q), proc'[q].mine
               PROVE  \E i \in DOMAIN x :
                        q = IF proc'[q].role = "main" THEN x'[i].pid
                                                      ELSE x'[i].pidlog
    BY <1>2, Zenon DEF Found
  <2>1. proc'[q] = proc[q] /\ Runs(proc, q) /\ proc[q].mine /\ q \notin Zombies
    BY <1>5 DEF Runs, Zombies
  <2>2. Awaited(q) = q
    BY <2>1, Zenon DEF Awaited
  <2>3. PICK i \in DOMAIN x : q = IF proc[q].role = "main" THEN x[i].pid
                                                           ELSE x[i].pidlog
    BY <2>1 DEF IInv, Found
  <2>4. q = IF proc'[q].role = "main" THEN x'[i].pid ELSE x'[i].pidlog
    BY <1>4, <2>1, <2>2, <2>3, Zenon
  <2> QED
    BY <2>4
<1>14. Ours(proc', x')
  <2>1. ASSUME NEW i \in DOMAIN x, x'[i].pid # 0
        PROVE  x'[i].pid # x'[i].pidlog
    <3>1. x'[i].pid = x[i].pid /\ x[i].pid # 0
      BY <1>4, <1>6, <2>1, Zenon
    <3>2. x'[i].pidlog # 0 => x'[i].pidlog = x[i].pidlog
      BY <1>4, <1>6, Zenon
    <3>3. x[i].pid # x[i].pidlog
      BY <3>1 DEF IInv, Ours
    <3> QED
      BY <3>1, <3>2, <3>3
  <2>2. ASSUME NEW i \in DOMAIN x, NEW q \in Children(x', i)
        PROVE  proc'[q].st # "free" /\ proc'[q].mine
    BY <1>11, <2>2 DEF IInv, Ours
  <2>3. ASSUME NEW i \in DOMAIN x, NEW j \in DOMAIN x,
               NEW q \in Children(x', i) \cap Children(x', j)
        PROVE  i = j
    BY <1>11, <2>3 DEF IInv, Ours
  <2> QED
    BY <1>2, <2>1, <2>2, <2>3, Zenon DEF Ours
<1> QED
  BY <1>7, <1>8, <1>9, <1>12, <1>13, <1>14 DEF IInv

\* The processes and the table are left alone.
LEMMA OtherStep ==
  ASSUME IInv, UNCHANGED <<proc, x>>, TypeOK'
  PROVE  IInv'
BY Zenon DEF IInv, Named, OneSlot

LEMMA OtherTypes ==
  ASSUME TypeOK,
         \/ \E n \in Names : PassOver(n) \/ Unlink(n)
         \/ \E n \in Names, d \in Dirs : Link(n, d)
         \/ \E d \in Dirs : AddLog(d)
         \/ EndOfDir \/ Sleep \/ Launch \/ StrayEnds \/ UNCHANGED vars
  PROVE  TypeOK' /\ UNCHANGED <<proc, x>>
<1>1. UNCHANGED <<proc, x, kills>>
  BY Zenon DEF PassOver, Unlink, Link, AddLog, EndOfDir, Sleep, Launch,
               StrayEnds, vars
<1>2. at' \in [Names -> Dirs \cup {Nowhere}]
  <2>1. CASE UNCHANGED at
    BY <2>1 DEF TypeOK
  <2>2. ASSUME NEW n \in Names, NEW d \in Dirs, Link(n, d)
        PROVE  at' \in [Names -> Dirs \cup {Nowhere}]
    BY <2>2 DEF Link, TypeOK
  <2>3. ASSUME NEW n \in Names, Unlink(n)
        PROVE  at' \in [Names -> Dirs \cup {Nowhere}]
    BY <2>3 DEF Unlink, TypeOK
  <2>4. \/ UNCHANGED at \/ \E n \in Names : Unlink(n)
        \/ \E n \in Names, d \in Dirs : Link(n, d)
    BY Zenon DEF PassOver, AddLog, EndOfDir, Sleep, Launch, StrayEnds, vars
  <2> QED
    BY <2>1, <2>2, <2>3, <2>4
<1>3. haslog' \subseteq Logs
  <2>1. UNCHANGED haslog \/ \E d \in Dirs : AddLog(d)
    BY Zenon DEF PassOver, Unlink, Link, EndOfDir, Sleep, Launch, StrayEnds,
                 vars
  <2> QED
    BY <2>1 DEF AddLog, TypeOK
<1>4. /\ pc' \in {"sleep", "scan", "sweep", "dead", "tell"}
      /\ todo' \subseteq todo
      /\ stray' = stray \/ stray' = FALSE
  BY Zenon DEF PassOver, Unlink, Link, AddLog, EndOfDir, Sleep, Launch,
               StrayEnds, vars, TypeOK
<1> QED
  BY <1>1, <1>2, <1>3, <1>4, Zenon DEF TypeOK

(***************************************************************************)
(* The children.                                                           *)
(***************************************************************************)

LEMMA ChildStep ==
  ASSUME IInv, NEW q \in Pids, Runs(proc, q), NEW r \in Process,
         proc' = [proc EXCEPT ![q] = r],
         UNCHANGED <<at, haslog, x, pc, todo, kills>>, stray' \in BOOLEAN,
         \/ /\ r.st = "up" /\ r.mine = proc[q].mine
            /\ r.role = proc[q].role /\ r.pipe = proc[q].pipe
         \/ proc[q].mine /\ r.st = "zombie" /\ r.mine
         \/ ~proc[q].mine /\ r.st = "free"
  PROVE  IInv'
<1>1. /\ proc \in [Pids -> Process] /\ proc' \in [Pids -> Process]
      /\ proc'[q] = r /\ \A p \in Pids \ {q} : proc'[p] = proc[p]
  BY DEF IInv, TypeOK
<1>2. TypeOK'
  BY <1>1, Zenon DEF IInv, TypeOK
<1>3. Named'
  <2> SUFFICES ASSUME NEW p \in Pids, proc'[p].st = "forked"
               PROVE  proc'[p].name \in Names
    BY DEF Named
  <2>1. p # q
    BY <1>1
  <2> QED
    BY <1>1, <2>1 DEF IInv, Named
<1>4. OneSlot'
  BY Zenon DEF IInv, OneSlot
<1>5. ASSUME NEW i \in DOMAIN x, NEW p \in Children(x, i)
      PROVE  /\ p \in Pids
             /\ proc'[p].st # "free" /\ proc'[p].mine
             /\ Runs(proc', p) => proc'[p].pipe = x[i].pipe
  <2>1. x[i] \in Slot
    BY Table DEF IInv
  <2>2. p \in Pids
    BY <2>1, <1>5, SvscanAssumption DEF Children, Slot, Pids
  <2>3. proc[p].st # "free" /\ proc[p].mine
    BY <1>5 DEF IInv, Ours
  <2>4. Runs(proc, p) => proc[p].pipe = x[i].pipe
    BY <1>5 DEF IInv, Piped
  <2>5. CASE p = q
    BY <1>1, <2>2, <2>3, <2>4, <2>5 DEF Runs
  <2>6. CASE p # q
    BY <1>1, <2>2, <2>3, <2>4, <2>6 DEF Runs
  <2> QED
    BY <2>5, <2>6
<1>6. Piped(proc', x')
  <2>1. \A i \in DOMAIN x :
          \A p \in Children(x, i) : Runs(proc', p) => proc'[p].pipe = x[i].pipe
    BY <1>5
  <2>2. Piped(proc, x) /\ x' = x
    BY DEF IInv
  <2>3. Piped(proc', x)
    BY <2>1, <2>2, Zenon DEF Piped
  <2> QED
    BY <2>2, <2>3
<1>7. Found(proc', x')
  <2> SUFFICES ASSUME NEW p \in Pids, Runs(proc', p), proc'[p].mine
               PROVE  \E i \in DOMAIN x :
                        p = IF proc'[p].role = "main" THEN x[i].pid
                                                      ELSE x[i].pidlog
    BY DEF Found
  <2>1. Runs(proc, p) /\ proc[p].mine /\ proc'[p].role = proc[p].role
    BY <1>1 DEF Runs
  <2> QED
    BY <2>1, Zenon DEF IInv, Found
<1>8. Ours(proc', x')
  BY <1>5, Zenon DEF IInv, Ours
<1> QED
  BY <1>2, <1>3, <1>4, <1>6, <1>7, <1>8 DEF IInv

LEMMA EndedProcess ==
  ASSUME NEW q
  PROVE  /\ Ended(q) \in Process
         /\ proc[q].mine => Ended(q).st = "zombie" /\ Ended(q).mine
         /\ ~proc[q].mine => Ended(q).st = "free"
BY DEF Ended, Free, Process, Roles, NoPipe

LEMMA DieStep ==
  ASSUME IInv, NEW q \in Pids, Die(q)
  PROVE  IInv'
<1>1. Runs(proc, q)
  BY DEF Die, Runs
<1>2. /\ proc' = [proc EXCEPT ![q] = Ended(q)]
      /\ UNCHANGED <<at, haslog, x, pc, todo, kills>>
      /\ stray' \in BOOLEAN
  BY DEF Die, IInv, TypeOK
<1> QED
  BY <1>1, <1>2, EndedProcess, ChildStep

LEMMA SettleStep ==
  ASSUME IInv, NEW q \in Pids, Settle(q)
  PROVE  IInv'
<1> DEFINE d == at[proc[q].name]
           r == [proc[q] EXCEPT !.st = "up", !.name = "", !.dir = d]
<1>1. Runs(proc, q) /\ proc[q].name \in Names /\ proc[q] \in Process
  BY DEF Settle, Runs, IInv, Named, TypeOK
<1>2. UNCHANGED <<at, haslog, x, pc, todo, kills>> /\ stray' \in BOOLEAN
  BY DEF Settle, IInv, TypeOK
<1>3. CASE proc' = [proc EXCEPT ![q] = Ended(q)]
  BY <1>1, <1>2, <1>3, EndedProcess, ChildStep
<1>4. CASE d # Nowhere /\ proc' = [proc EXCEPT ![q] = r]
  <2>1. d \in Dirs
    BY <1>1, <1>4 DEF IInv, TypeOK
  <2>2. /\ r \in Process /\ r.st = "up" /\ r.mine = proc[q].mine
        /\ r.role = proc[q].role /\ r.pipe = proc[q].pipe
    BY <1>1, <2>1 DEF Process
  <2> HIDE DEF r
  <2> QED
    BY <1>1, <1>2, <1>4, <2>2, ChildStep
<1>5. \/ proc' = [proc EXCEPT ![q] = Ended(q)]
      \/ d # Nowhere /\ proc' = [proc EXCEPT ![q] = r]
  BY DEF Settle
<1> QED
  BY <1>3, <1>4, <1>5

LEMMA KillStep ==
  ASSUME IInv, Kill
  PROVE  IInv'
<1>1. /\ x' = <<>> /\ DOMAIN x' = {} /\ x' \in Seq(Slot) /\ Len(x') = 0
      /\ UNCHANGED <<at, haslog>>
  BY DEF Kill
<1>2. ASSUME NEW q \in Pids
      PROVE  /\ proc'[q] \in Process
             /\ proc'[q].st = "free" \/ ~proc'[q].mine
             /\ proc'[q].st = "forked" => proc'[q].name \in Names
  <2>1. /\ proc'[q] = Orphan(q)
        /\ proc[q].st \in {"free", "zombie"} => Orphan(q) = Free
    BY DEF Kill, Orphan
  <2>2. Free \in Process /\ Free.st = "free"
    BY DEF Free, Process, Roles, NoPipe
  <2>3. /\ proc[q] \in Process
        /\ proc[q].st = "forked" => proc[q].name \in Names
    BY DEF IInv, TypeOK, Named
  <2>4. /\ proc[q].st \notin {"free", "zombie"} =>
             /\ Orphan(q) \in Process /\ ~Orphan(q).mine
             /\ Orphan(q).st = proc[q].st /\ Orphan(q).name = proc[q].name
    BY <2>3 DEF Orphan, Process
  <2> QED
    BY <2>1, <2>2, <2>3, <2>4
<1>3. TypeOK'
  <2>1. proc' \in [Pids -> Process]
    <3>1. proc' = [q \in Pids |-> proc'[q]]
      BY DEF Kill
    <3> QED
      BY <1>2, <3>1
  <2>2. /\ pc' \in {"sleep", "scan", "sweep", "dead", "tell"}
        /\ todo' \subseteq Names /\ stray' \in BOOLEAN
        /\ kills' \in 0..MaxKill
    BY SvscanAssumption DEF Kill, IInv, TypeOK
  <2>3. Len(x') =< Services
    BY <1>1, SvscanAssumption
  <2> QED
    BY <1>1, <2>1, <2>2, <2>3, Zenon DEF IInv, TypeOK
<1>4. Named'
  BY <1>2 DEF Named
<1>5. OneSlot' /\ Piped(proc', x') /\ Ours(proc', x')
  BY <1>1, Zenon DEF OneSlot, Piped, Ours
<1>6. Found(proc', x')
  BY <1>2 DEF Found, Runs
<1> QED
  BY <1>3, <1>4, <1>5, <1>6 DEF IInv

\* svscanboot and svc leave the table alone, and of the processes they change
\* nothing that it knows of.
LEMMA ToldStep ==
  ASSUME IInv, proc' \in [Pids -> Process],
         UNCHANGED <<at, haslog, x, kills>>,
         pc' \in {"dead", "tell"}, todo' \subseteq Names, stray' \in BOOLEAN,
         \A q \in Pids : /\ proc'[q].st = proc[q].st
                         /\ proc'[q].role = proc[q].role
                         /\ proc'[q].name = proc[q].name
                         /\ proc'[q].pipe = proc[q].pipe
                         /\ proc'[q].mine = proc[q].mine
  PROVE  IInv'
<1>1. TypeOK'
  BY Zenon DEF IInv, TypeOK
<1>2. \A i \in DOMAIN x : Children(x, i) \subseteq Pids
  <2> SUFFICES ASSUME NEW i \in DOMAIN x PROVE Children(x, i) \subseteq Pids
    OBVIOUS
  <2>1. x[i] \in Slot
    BY Table DEF IInv
  <2> QED
    BY <2>1, SvscanAssumption DEF Children, Slot, Pids
<1>3. \A q \in Pids : Runs(proc', q) <=> Runs(proc, q)
  BY DEF Runs
<1>4. Named' /\ OneSlot'
  BY Zenon DEF IInv, Named, OneSlot
<1>5. Piped(proc', x)
  <2>1. ASSUME NEW i \in DOMAIN x, NEW q \in Children(x, i), Runs(proc', q)
        PROVE  proc'[q].pipe = x[i].pipe
    <3>1. q \in Pids
      BY <1>2
    <3>2. Runs(proc, q) /\ proc'[q].pipe = proc[q].pipe
      BY <1>3, <2>1, <3>1
    <3> QED
      BY <3>2 DEF IInv, Piped
  <2>2. Piped(proc, x)
    BY DEF IInv
  <2> QED
    BY <2>1, <2>2, Zenon DEF Piped
<1>6. Found(proc', x)
  <2> SUFFICES ASSUME NEW q \in Pids, Runs(proc', q), proc'[q].mine
               PROVE  \E i \in DOMAIN x :
                        q = IF proc'[q].role = "main" THEN x[i].pid
                                                      ELSE x[i].pidlog
    BY Zenon DEF Found
  <2>1. Runs(proc, q) /\ proc[q].mine /\ proc'[q].role = proc[q].role
    BY <1>3, Zenon
  <2> QED
    BY <2>1, Zenon DEF IInv, Found
<1>7. Ours(proc', x)
  BY <1>2, Zenon DEF IInv, Ours
<1> QED
  BY <1>1, <1>4, <1>5, <1>6, <1>7 DEF IInv

LEMMA AgainStep ==
  ASSUME IInv, Again
  PROVE  IInv'
<1>1. \A q \in Pids : proc[q] \in Process
  BY Table DEF IInv
<1>2. /\ UNCHANGED <<at, haslog, x, kills>>
      /\ proc' = [q \in Pids |-> [proc[q] EXCEPT !.err = FALSE]]
      /\ pc' = "tell" /\ todo' \subseteq Names /\ stray' = FALSE
  BY DEF Again, Listed
<1>3. \A q \in Pids : proc'[q] = [proc[q] EXCEPT !.err = FALSE]
  BY <1>2
<1>4. ASSUME NEW q \in Pids
      PROVE  /\ proc'[q] \in Process
             /\ proc'[q].st = proc[q].st /\ proc'[q].role = proc[q].role
             /\ proc'[q].name = proc[q].name /\ proc'[q].pipe = proc[q].pipe
             /\ proc'[q].mine = proc[q].mine
  <2>1. PICK b \in BOOLEAN : b = FALSE
    OBVIOUS
  <2>2. proc'[q] = [proc[q] EXCEPT !.err = b]
    BY <1>3, <2>1, Zenon
  <2> QED
    BY <1>1, <2>2 DEF Process
<1>5. proc' \in [Pids -> Process]
  BY <1>2, <1>4
<1> QED
  BY <1>2, <1>4, <1>5, ToldStep

LEMMA TellStep ==
  ASSUME IInv, NEW n \in Names, Tell(n)
  PROVE  IInv'
<1>1. \A q \in Pids : proc[q] \in Process
  BY Table DEF IInv
<1>2. /\ UNCHANGED <<at, haslog, x, stray, kills>>
      /\ pc' = "tell" /\ todo' \subseteq Names /\ stray' \in BOOLEAN
  BY DEF Tell, IInv, TypeOK
<1>3. PICK reached : proc' = [q \in Pids |->
                       [proc[q] EXCEPT !.told = @ \/ q \in reached]]
  BY Zenon DEF Tell
<1>4. ASSUME NEW q \in Pids
      PROVE  /\ proc'[q] \in Process
             /\ proc'[q].st = proc[q].st /\ proc'[q].role = proc[q].role
             /\ proc'[q].name = proc[q].name /\ proc'[q].pipe = proc[q].pipe
             /\ proc'[q].mine = proc[q].mine
  <2>1. PICK b \in BOOLEAN : b = (proc[q].told \/ q \in reached)
    OBVIOUS
  <2>2. proc'[q] = [proc[q] EXCEPT !.told = b]
    BY <1>3, <2>1, Zenon
  <2> QED
    BY <1>1, <2>2 DEF Process
<1>5. proc' \in [Pids -> Process]
  <2>1. proc' = [q \in Pids |-> proc'[q]]
    BY <1>3
  <2> QED
    BY <1>4, <2>1, Zenon
<1> QED
  BY <1>2, <1>4, <1>5, ToldStep

(***************************************************************************)
(* A service leaves the table.                                             *)
(***************************************************************************)

LEMMA DropStep ==
  ASSUME IInv, NEW i \in 1..Services, Drop(i)
  PROVE  IInv'
<1> DEFINE n    == Len(x)
           f(j) == IF j = i THEN n ELSE j
<1>1. /\ i \in 1..n /\ n \in Nat /\ n =< Services /\ DOMAIN x = 1..n
      /\ \A j \in 1..n : x[j] \in Slot
  BY Table, SvscanAssumption DEF IInv, Drop
<1>2. UNCHANGED <<at, haslog, proc, pc, todo, stray, kills>>
  BY DEF Drop
<1>3. n - 1 \in Nat
  BY <1>1
<1>4. /\ DOMAIN x' = 1..(n - 1)
      /\ \A j \in 1..(n - 1) : x'[j] = x[f(j)]
  BY DEF Drop, Without
<1>5. \A j \in 1..(n - 1) : f(j) \in 1..n
  BY <1>1
<1>6. \A j, k \in 1..(n - 1) : f(j) = f(k) => j = k
  BY <1>1
<1>7. ASSUME NEW k \in 1..n, k # i
      PROVE  \E j \in 1..(n - 1) : f(j) = k
  <2>1. CASE k = n
    <3>1. f(i) = k
      BY <2>1
    <3> HIDE DEF n, f
    <3>2. i \in 1..(n - 1)
      BY <1>1, <1>7, <2>1
    <3> QED
      BY <3>1, <3>2
  <2>2. CASE k # n
    <3>1. f(k) = k
      BY <1>7
    <3> HIDE DEF n, f
    <3>2. k \in 1..(n - 1)
      BY <1>1, <2>2
    <3> QED
      BY <3>1, <3>2
  <2> QED
    BY <2>1, <2>2
<1> HIDE DEF n, f
<1>8. TypeOK'
  <2>1. x' \in [1..(n - 1) -> Slot]
    <3>1. x' = [j \in 1..(n - 1) |-> x[f(j)]]
      BY DEF Drop, Without, n, f
    <3>2. \A j \in 1..(n - 1) : x[f(j)] \in Slot
      BY <1>1, <1>5, Zenon
    <3> QED
      BY <3>1, <3>2, Zenon
  <2>2. x' \in Seq(Slot) /\ Len(x') = n - 1
    BY <1>3, <2>1, IsTable
  <2>3. Len(x') =< Services
    BY <1>1, <2>2, SvscanAssumption
  <2> QED
    BY <1>2, <2>2, <2>3, Zenon DEF IInv, TypeOK
<1>9. Named'
  BY <1>2, Zenon DEF IInv, Named
<1>10. OneSlot'
  <2>1. ASSUME NEW j \in 1..(n - 1), NEW k \in 1..(n - 1),
               x'[j].dir = x'[k].dir
        PROVE  j = k
    <3>1. x[f(j)].dir = x[f(k)].dir /\ f(j) \in DOMAIN x /\ f(k) \in DOMAIN x
      BY <1>1, <1>4, <1>5, <2>1, Zenon
    <3>2. f(j) = f(k)
      BY <3>1 DEF IInv, OneSlot
    <3> QED
      BY <1>6, <3>2
  <2> QED
    BY <1>4, <2>1, Zenon DEF OneSlot
<1>11. \A j \in 1..(n - 1) : Children(x', j) = Children(x, f(j))
  BY <1>4, Zenon DEF Children
<1>12. Piped(proc', x')
  <2> SUFFICES ASSUME NEW j \in 1..(n - 1)
      PROVE  /\ x'[j].log <=> x'[j].pipe # NoPipe
             /\ x'[j].pidlog # 0 => x'[j].log
             /\ \A q \in Children(x', j) :
                  Runs(proc, q) => proc[q].pipe = x'[j].pipe
             /\ \A k \in 1..(n - 1) :
                  x'[j].log /\ x'[j].pipe = x'[k].pipe => j = k
    BY <1>2, <1>4, Zenon DEF Piped
  <2>1. f(j) \in DOMAIN x /\ x'[j] = x[f(j)]
    BY <1>1, <1>4, <1>5
  <2>2. \A k \in 1..(n - 1) : f(k) \in DOMAIN x /\ x'[k] = x[f(k)]
    BY <1>1, <1>4, <1>5
  <2>3. ASSUME NEW k \in 1..(n - 1), x'[j].log, x'[j].pipe = x'[k].pipe
        PROVE  j = k
    <3>1. x[f(j)].log /\ x[f(j)].pipe = x[f(k)].pipe /\ f(k) \in DOMAIN x
      BY <2>1, <2>2, <2>3, Zenon
    <3>2. f(j) = f(k)
      BY <2>1, <3>1 DEF IInv, Piped
    <3> QED
      BY <1>6, <3>2
  <2>4. Children(x', j) = Children(x, f(j))
    BY <1>11
  <2>5. /\ x[f(j)].log <=> x[f(j)].pipe # NoPipe
        /\ x[f(j)].pidlog # 0 => x[f(j)].log
        /\ \A q \in Children(x, f(j)) :
             Runs(proc, q) => proc[q].pipe = x[f(j)].pipe
    BY <2>1 DEF IInv, Piped
  <2> QED
    BY <2>1, <2>3, <2>4, <2>5, Zenon
<1>13. Found(proc', x')
  <2> SUFFICES ASSUME NEW q \in Pids, Runs(proc, q), proc[q].mine
               PROVE  \E j \in 1..(n - 1) :
                        q = IF proc[q].role = "main" THEN x'[j].pid
                                                     ELSE x'[j].pidlog
    BY <1>2, <1>4, Zenon DEF Found
  <2>1. PICK k \in 1..n : q = IF proc[q].role = "main" THEN x[k].pid
                                                       ELSE x[k].pidlog
    BY <1>1, Zenon DEF IInv, Found
  <2>2. q # 0
    BY DEF Pids
  <2>3. x[i].pid = 0 /\ x[i].pidlog = 0
    BY DEF Drop, Gone
  <2>4. k # i
    BY <2>1, <2>2, <2>3, Zenon
  <2>5. PICK j \in 1..(n - 1) : f(j) = k
    BY <1>7, <2>4
  <2>6. q = IF proc[q].role = "main" THEN x'[j].pid ELSE x'[j].pidlog
    BY <1>4, <2>1, <2>5, Zenon
  <2> QED
    BY <2>6
<1>14. Ours(proc', x')
  <2> SUFFICES ASSUME NEW j \in 1..(n - 1)
      PROVE  /\ \A q \in Children(x', j) : proc[q].st # "free" /\ proc[q].mine
             /\ x'[j].pid # 0 => x'[j].pid # x'[j].pidlog
             /\ \A k \in 1..(n - 1) :
                  \A q \in Children(x', j) \cap Children(x', k) : j = k
    BY <1>2, <1>4, Zenon DEF Ours
  <2>1. f(j) \in DOMAIN x /\ x'[j] = x[f(j)]
    BY <1>1, <1>4, <1>5
  <2>2. ASSUME NEW k \in 1..(n - 1),
               NEW q \in Children(x', j) \cap Children(x', k)
        PROVE  j = k
    <3>1. q \in Children(x, f(j)) \cap Children(x, f(k)) /\ f(k) \in DOMAIN x
      BY <1>1, <1>5, <1>11
    <3>2. f(j) = f(k)
      BY <2>1, <3>1, Zenon DEF IInv, Ours
    <3> QED
      BY <1>6, <3>2
  <2>3. /\ \A q \in Children(x, f(j)) : proc[q].st # "free" /\ proc[q].mine
        /\ x[f(j)].pid # 0 => x[f(j)].pid # x[f(j)].pidlog
    BY <2>1 DEF IInv, Ours
  <2> QED
    BY <1>11, <2>1, <2>2, <2>3, Zenon
<1> QED
  BY <1>8, <1>9, <1>10, <1>12, <1>13, <1>14 DEF IInv

(***************************************************************************)
(* A service is started.                                                   *)
(***************************************************************************)

\* The slot i, s before start(), gets the children main and log.
Filled(i, s, main, log) ==
  /\ i \in 1..(Len(x) + 1)
  /\ DOMAIN x' = DOMAIN x \cup {i} /\ x' \in Seq(Slot) /\ Len(x') =< Services
  /\ \A j \in DOMAIN x \ {i} : x'[j] = x[j]
  /\ x'[i].dir = s.dir /\ x'[i].log = s.log /\ x'[i].pipe = s.pipe
  /\ x'[i].pid = main /\ x'[i].pidlog = log

\* s is in the table already, or it is new.
Old(i, s) == i \in DOMAIN x /\ s = x[i]

New(i, s) ==
  /\ i = Len(x) + 1 /\ s.pid = 0 /\ s.pidlog = 0
  /\ s.log <=> s.pipe # NoPipe
  /\ \A j \in DOMAIN x : /\ x[j].dir # s.dir
                         /\ s.log => x[j].pipe # s.pipe

\* The processes that fork() returned.
Born(s, main, log, n) ==
  /\ main \in 0..MaxPid /\ log \in 0..MaxPid
  /\ s.pid # 0 => main = s.pid
  /\ s.pid = 0 /\ main # 0 => main \in FreePids
  /\ s.pidlog # 0 => log = s.pidlog
  /\ s.pidlog = 0 /\ log # 0 => log \in FreePids /\ log # main /\ s.log
  /\ proc' = [q \in Pids |->
                CASE q = main /\ s.pid = 0   -> Child(s, "main", n)
                  [] q = log /\ s.pidlog = 0 -> Child(s, "log", n)
                  [] OTHER                   -> proc[q]]

LEMMA MinOfOne ==
  ASSUME NEW i \in Nat
  PROVE  Min({i}) = i
<1>1. \E j \in {i} : \A k \in {i} : j =< k
  OBVIOUS
<1> QED
  BY <1>1, Zenon DEF Min

LEMMA StartedForm ==
  ASSUME IInv, NEW n \in Names, NEW s \in Slot, Started(s, n),
         NEW i \in 1..Services,
         \/ Old(i, s) /\ Slots(s.dir) = {i}
         \/ New(i, s) /\ Slots(s.dir) = {}
  PROVE  \E main, log : Filled(i, s, main, log) /\ Born(s, main, log, n)
<1>1. PICK main \in (IF s.pid = 0 THEN Forks({}) ELSE {s.pid}) :
      \E log \in (IF s.log /\ s.pidlog = 0 /\ main # 0 THEN Forks({main})
                  ELSE {s.pidlog}) :
        LET t == [s EXCEPT !.active = TRUE, !.pid = main, !.pidlog = log,
                           !.pipe = PipeOf(s)] IN
        /\ proc' = [q \in Pids |->
                      CASE q = main /\ s.pid = 0   -> Child(s, "main", n)
                        [] q = log /\ s.pidlog = 0 -> Child(s, "log", n)
                        [] OTHER                   -> proc[q]]
        /\ IF Slots(s.dir) = {} THEN x' = Append(x, t)
           ELSE x' = [x EXCEPT ![Min(Slots(s.dir))] = t]
  BY Zenon DEF Started
<1>2. PICK log \in (IF s.log /\ s.pidlog = 0 /\ main # 0 THEN Forks({main})
                    ELSE {s.pidlog}) :
        LET t == [s EXCEPT !.active = TRUE, !.pid = main, !.pidlog = log,
                           !.pipe = PipeOf(s)] IN
        /\ proc' = [q \in Pids |->
                      CASE q = main /\ s.pid = 0   -> Child(s, "main", n)
                        [] q = log /\ s.pidlog = 0 -> Child(s, "log", n)
                        [] OTHER                   -> proc[q]]
        /\ IF Slots(s.dir) = {} THEN x' = Append(x, t)
           ELSE x' = [x EXCEPT ![Min(Slots(s.dir))] = t]
  BY <1>1, Zenon
<1> DEFINE t == [s EXCEPT !.active = TRUE, !.pid = main, !.pidlog = log,
                          !.pipe = PipeOf(s)]
<1>3. /\ s.pid \in 0..MaxPid /\ s.pidlog \in 0..MaxPid
      /\ \A q \in FreePids : q \in 0..MaxPid
  BY SvscanAssumption DEF Slot, FreePids, Pids
<1>4. /\ s.pid # 0 => main = s.pid
      /\ s.pid = 0 /\ main # 0 => main \in FreePids
      /\ main \in 0..MaxPid
  <2>1. CASE s.pid = 0
    <3>1. main = 0 \/ main \in FreePids
      BY <1>1, <2>1, Forked
    <3> QED
      BY <1>3, <2>1, <3>1
  <2>2. CASE s.pid # 0
    BY <1>1, <1>3, <2>2
  <2> QED
    BY <2>1, <2>2
<1>5. /\ s.pidlog # 0 => log = s.pidlog
      /\ s.pidlog = 0 /\ log # 0 => log \in FreePids /\ log # main /\ s.log
      /\ log \in 0..MaxPid
  <2>1. CASE s.log /\ s.pidlog = 0 /\ main # 0
    <3>1. log = 0 \/ (log \in FreePids /\ log \notin {main})
      BY <1>2, <2>1, Forked
    <3> QED
      BY <1>3, <2>1, <3>1
  <2>2. CASE ~(s.log /\ s.pidlog = 0 /\ main # 0)
    BY <1>2, <1>3, <2>2
  <2> QED
    BY <2>1, <2>2
<1>6. Born(s, main, log, n)
  BY <1>2, <1>4, <1>5, Zenon DEF Born
<1>7. /\ t \in Slot
      /\ t.dir = s.dir /\ t.log = s.log /\ t.pipe = s.pipe
      /\ t.pid = main /\ t.pidlog = log
  BY <1>4, <1>5 DEF Slot, PipeOf
<1>8. /\ x \in Seq(Slot) /\ DOMAIN x = 1..Len(x) /\ Len(x) \in Nat
      /\ Len(x) =< Services
  BY Table, SvscanAssumption DEF IInv, TypeOK
<1>9. IF Slots(s.dir) = {} THEN x' = Append(x, t)
      ELSE x' = [x EXCEPT ![Min(Slots(s.dir))] = t]
  BY <1>2, Zenon
<1> HIDE DEF t
<1>10. Filled(i, s, main, log)
  <2>1. CASE Old(i, s) /\ Slots(s.dir) = {i}
    <3>1. x' = [x EXCEPT ![i] = t] /\ i \in DOMAIN x
      BY <1>9, <2>1, MinOfOne DEF Old
    <3>2. x' \in Seq(Slot) /\ Len(x') = Len(x) /\ DOMAIN x' = DOMAIN x
      BY <1>7, <1>8, <3>1
    <3>3. x'[i] = t /\ \A j \in DOMAIN x \ {i} : x'[j] = x[j]
      BY <1>8, <3>1
    <3>4. i \in 1..(Len(x) + 1) /\ DOMAIN x = DOMAIN x \cup {i}
      BY <1>8, <3>1
    <3> QED
      BY <1>7, <1>8, <3>2, <3>3, <3>4, Zenon DEF Filled
  <2>2. CASE New(i, s) /\ Slots(s.dir) = {}
    <3>1. x' = Append(x, t) /\ i = Len(x) + 1
      BY <1>9, <2>2 DEF New
    <3>2. /\ x' \in Seq(Slot) /\ Len(x') = Len(x) + 1
          /\ DOMAIN x' = 1..(Len(x) + 1)
      BY <1>7, <1>8, <3>1
    <3>3. /\ x'[i] = t
          /\ \A j \in 1..Len(x) : x'[j] = x[j]
      BY <1>7, <1>8, <3>1
    <3>4. /\ i \in 1..(Len(x) + 1) /\ Len(x') =< Services
          /\ DOMAIN x' = DOMAIN x \cup {i}
      BY <1>8, <3>1, <3>2, SvscanAssumption
    <3> QED
      BY <1>7, <1>8, <3>2, <3>3, <3>4, Zenon DEF Filled
  <2> QED
    BY <2>1, <2>2
<1> QED
  BY <1>6, <1>10

LEMMA SameDirs ==
  ASSUME IInv, NEW d \in Dirs
  PROVE  Slots(d) = {i \in DOMAIN x : x[i].dir = d}
<1>1. ASSUME NEW i \in DOMAIN x
      PROVE  SameDir(x[i], d) <=> x[i].dir = d
  <2>1. x[i].dir \in Dirs
    BY Table DEF IInv, Slot
  <2>2. x[i].dir \in [dev : Nat, ino : Nat] /\ d \in [dev : Nat, ino : Nat]
    BY <2>1, SvscanAssumption
  <2> QED
    BY <2>2 DEF SameDir
<1> QED
  BY <1>1, Zenon DEF Slots

LEMMA StartForm ==
  ASSUME IInv, NEW n \in Names, Start(n)
  PROVE  \E i \in 1..Services, s \in Slot : \E main, log :
           /\ Old(i, s) \/ New(i, s)
           /\ s.dir = at[n]
           /\ Filled(i, s, main, log) /\ Born(s, main, log, n)
<1> DEFINE d == at[n]
<1>1. d \in Dirs
  BY DEF Start, IInv, TypeOK
<1>2. Slots(d) = {i \in DOMAIN x : x[i].dir = d}
  BY <1>1, SameDirs
<1>3. /\ DOMAIN x = 1..Len(x) /\ Len(x) \in 0..Services
      /\ \A i \in DOMAIN x : x[i] \in Slot
  BY Table DEF IInv
<1>4. IF Slots(d) = {} THEN Room /\ Started(NewSlot(d), n)
      ELSE Started(x[Min(Slots(d))], n)
  BY DEF Start
<1> HIDE DEF d
<1>5. CASE Slots(d) = {}
  <2> DEFINE s == NewSlot(d)
             i == Len(x) + 1
  <2>1. NewPipe \in Pipes \ PipesInUse /\ NewPipe \in Nat /\ NewPipe # NoPipe
    BY FreshPipe, SvscanAssumption DEF IInv, Pipes, NoPipe
  <2>2. /\ s.dir = d /\ s.pid = 0 /\ s.pidlog = 0
        /\ s.log <=> d \in haslog
        /\ s.pipe = IF d \in haslog THEN NewPipe ELSE NoPipe
    BY DEF NewSlot
  <2>3. s \in Slot
    <3>1. (d \in haslog) \in BOOLEAN /\ 0 \in 0..MaxPid /\ NoPipe \in Nat
      BY SvscanAssumption DEF NoPipe
    <3> HIDE DEF NewPipe
    <3> QED
      BY <1>1, <2>1, <3>1 DEF NewSlot, Slot
  <2>4. i \in 1..Services
    BY <1>3, <1>4, <1>5, SvscanAssumption DEF Room
  <2>5. \A j \in DOMAIN x : x[j].pipe \in PipesInUse
    BY DEF PipesInUse
  <2> HIDE DEF s
  <2>6. New(i, s)
    BY <1>2, <1>5, <2>1, <2>2, <2>5, Zenon DEF New
  <2>7. Started(s, n) /\ Slots(s.dir) = {}
    BY <1>4, <1>5, <2>2, Zenon DEF s
  <2>8. \E main, log : Filled(i, s, main, log) /\ Born(s, main, log, n)
    BY <2>3, <2>4, <2>6, <2>7, StartedForm
  <2> QED
    BY <2>2, <2>3, <2>4, <2>6, <2>8, Zenon DEF d
<1>6. CASE Slots(d) # {}
  <2>1. PICK i \in DOMAIN x : x[i].dir = d
    BY <1>2, <1>6
  <2>2. Slots(d) = {i}
    BY <1>2, <2>1 DEF IInv, OneSlot
  <2>3. i \in Nat /\ i \in 1..Services
    BY <1>3, <2>1, SvscanAssumption
  <2>4. Started(x[i], n) /\ x[i] \in Slot
    BY <1>3, <1>4, <1>6, <2>1, <2>2, <2>3, MinOfOne
  <2>5. Old(i, x[i]) /\ Slots(x[i].dir) = {i}
    BY <2>1, <2>2 DEF Old
  <2>6. \E main, log : Filled(i, x[i], main, log) /\ Born(x[i], main, log, n)
    BY <2>3, <2>4, <2>5, StartedForm
  <2> QED
    BY <2>1, <2>3, <2>4, <2>5, <2>6, Zenon DEF d
<1> QED
  BY <1>5, <1>6

LEMMA FilledStep ==
  ASSUME IInv, NEW n \in Names, NEW i \in 1..Services, NEW s \in Slot,
         NEW main, NEW log, Old(i, s) \/ New(i, s),
         Filled(i, s, main, log), Born(s, main, log, n)
  PROVE  /\ proc' \in [Pids -> Process] /\ Named' /\ OneSlot'
         /\ Piped(proc', x') /\ Found(proc', x') /\ Ours(proc', x')
<1>1. /\ DOMAIN x = 1..Len(x) /\ Len(x) \in Nat
      /\ \A j \in DOMAIN x : x[j] \in Slot
      /\ \A q \in Pids : proc[q] \in Process
  BY Table DEF IInv
<1>2. /\ i \in DOMAIN x' /\ DOMAIN x' = DOMAIN x \cup {i}
      /\ \A j \in DOMAIN x' : j # i => j \in DOMAIN x /\ x'[j] = x[j]
      /\ x'[i].dir = s.dir /\ x'[i].log = s.log /\ x'[i].pipe = s.pipe
      /\ x'[i].pid = main /\ x'[i].pidlog = log
  BY DEF Filled
<1>3. ASSUME NEW j \in DOMAIN x, NEW q \in Children(x, j)
      PROVE  q \in Pids /\ q # 0 /\ proc[q].st # "free" /\ proc[q].mine
  <2>1. q \in Pids
    BY <1>1, SvscanAssumption DEF Children, Slot, Pids
  <2> QED
    BY <2>1, <1>3 DEF IInv, Ours, Children
<1>4. \A q \in FreePids : q \in Pids /\ q # 0 /\ proc[q].st = "free"
  BY DEF FreePids, Pids
<1> DEFINE IsMain(q) == q = main /\ s.pid = 0
           IsLog(q)  == q = log /\ s.pidlog = 0 /\ ~IsMain(q)
<1>5. ASSUME NEW q \in Pids
      PROVE  /\ IsMain(q) => /\ proc'[q] = Child(s, "main", n)
                             /\ proc[q].st = "free"
             /\ IsLog(q) => /\ proc'[q] = Child(s, "log", n)
                            /\ proc[q].st = "free"
             /\ ~IsMain(q) /\ ~IsLog(q) => proc'[q] = proc[q]
  <2>1. q # 0
    BY DEF Pids
  <2>2. proc'[q] = CASE q = main /\ s.pid = 0   -> Child(s, "main", n)
                     [] q = log /\ s.pidlog = 0 -> Child(s, "log", n)
                     [] OTHER                   -> proc[q]
    BY Zenon DEF Born
  <2>3. IsMain(q) => proc[q].st = "free"
    BY <1>4, <2>1 DEF Born
  <2>4. IsLog(q) => proc[q].st = "free"
    BY <1>4, <2>1 DEF Born
  <2>5. CASE IsMain(q)
    <3>1. ~(q = log /\ s.pidlog = 0)
      BY <2>1, <2>5 DEF Born
    <3>2. proc'[q] = Child(s, "main", n)
      BY <2>2, <2>5, <3>1
    <3> QED
      BY <2>3, <2>5, <3>2
  <2>6. CASE IsLog(q)
    <3>1. proc'[q] = Child(s, "log", n)
      BY <2>2, <2>6
    <3> QED
      BY <2>4, <2>6, <3>1
  <2>7. CASE ~IsMain(q) /\ ~IsLog(q)
    BY <2>2, <2>7
  <2> QED
    BY <2>5, <2>6, <2>7
<1>6. ASSUME NEW role \in Roles
      PROVE  LET c == Child(s, role, n) IN
             /\ c \in Process /\ c.st = "forked" /\ c.mine
             /\ c.role = role /\ c.name = n /\ c.pipe = s.pipe
  BY DEF Child, PipeOf, Free, Process, Slot, Roles
<1>7. ASSUME NEW q \in Pids, IsMain(q) \/ IsLog(q)
      PROVE  /\ proc'[q] \in Process /\ proc[q].st = "free"
             /\ proc'[q].st = "forked" /\ proc'[q].mine
             /\ proc'[q].role = (IF IsMain(q) THEN "main" ELSE "log")
             /\ proc'[q].name = n /\ proc'[q].pipe = s.pipe
  <2>1. CASE IsMain(q)
    <3>1. "main" \in Roles /\ proc'[q] = Child(s, "main", n)
      BY <1>5, <2>1 DEF Roles
    <3> HIDE DEF IsMain
    <3> QED
      BY <1>5, <1>6, <2>1, <3>1
  <2>2. CASE ~IsMain(q)
    <3>1. "log" \in Roles /\ proc'[q] = Child(s, "log", n)
      BY <1>5, <1>7, <2>2 DEF Roles
    <3>2. proc[q].st = "free"
      BY <1>5, <1>7, <2>2
    <3> HIDE DEF IsMain
    <3> QED
      BY <1>6, <2>2, <3>1, <3>2
  <2> QED
    BY <2>1, <2>2
<1>8. \A q \in Pids : proc[q].st # "free" => proc'[q] = proc[q]
  BY <1>5, Zenon
<1>9. /\ main # 0 => main \in Pids
      /\ log # 0 => log \in Pids
  BY SvscanAssumption DEF Born, Pids
\* The children of the slot i are as they were, or new.
<1>10. ASSUME NEW q \in Children(x', i)
       PROVE  /\ q \in Pids
              /\ \/ Old(i, s) /\ q \in Children(x, i)
                 \/ /\ proc[q].st = "free" /\ proc'[q].st = "forked"
                    /\ proc'[q].mine /\ proc'[q].pipe = s.pipe
  <2>1. q # 0 /\ (q = main \/ q = log)
    BY <1>2, <1>10 DEF Children
  <2>2. q \in Pids
    BY <1>9, <2>1
  <2>3. CASE q = main /\ s.pid = 0
    BY <1>7, <2>2, <2>3
  <2>4. CASE q = main /\ s.pid # 0
    <3>1. q = s.pid /\ Old(i, s)
      BY <2>4 DEF Born, New
    <3> QED
      BY <2>1, <2>2, <3>1 DEF Old, Children
  <2>5. CASE q = log /\ s.pidlog # 0
    <3>1. q = s.pidlog /\ Old(i, s)
      BY <2>5 DEF Born, New
    <3> QED
      BY <2>1, <2>2, <3>1 DEF Old, Children
  <2>6. CASE q = log /\ q # main /\ s.pidlog = 0
    BY <1>7, <2>2, <2>6
  <2> QED
    BY <2>1, <2>2, <2>3, <2>4, <2>5, <2>6
<1> HIDE DEF IsMain, IsLog
<1>11. proc' \in [Pids -> Process]
  <2>1. \A q \in Pids : proc'[q] \in Process
    BY <1>1, <1>5, <1>7, Zenon
  <2>2. DOMAIN proc' = Pids /\ proc' = [q \in Pids |-> proc'[q]]
    BY DEF Born
  <2> QED
    BY <2>1, <2>2, Zenon
<1>12. Named'
  <2>1. ASSUME NEW q \in Pids, proc'[q].st = "forked"
        PROVE  proc'[q].name \in Names
    <3>1. CASE proc'[q] = proc[q]
      BY <2>1, <3>1 DEF IInv, Named
    <3>2. CASE proc'[q] # proc[q]
      BY <1>5, <1>7, <3>2, Zenon
    <3> QED
      BY <3>1, <3>2
  <2> QED
    BY <2>1, Zenon DEF Named
<1>13. OneSlot'
  <2>1. ASSUME NEW j \in DOMAIN x', j # i
        PROVE  x'[j].dir # x'[i].dir
    <3>1. j \in DOMAIN x /\ x'[j] = x[j]
      BY <1>2, <2>1
    <3>2. CASE Old(i, s)
      BY <1>2, <2>1, <3>1, <3>2, Zenon DEF IInv, OneSlot, Old
    <3>3. CASE New(i, s)
      BY <1>2, <3>1, <3>3, Zenon DEF New
    <3> QED
      BY <3>2, <3>3
  <2>2. ASSUME NEW j \in DOMAIN x', NEW k \in DOMAIN x', x'[j].dir = x'[k].dir
        PROVE  j = k
    <3>1. CASE j = i \/ k = i
      BY <2>1, <2>2, <3>1, Zenon
    <3>2. CASE j # i /\ k # i
      BY <1>2, <2>2, <3>2, Zenon DEF IInv, OneSlot
    <3> QED
      BY <3>1, <3>2
  <2> QED
    BY <2>2, Zenon DEF OneSlot
<1>14. Piped(proc', x')
  <2>1. ASSUME NEW j \in DOMAIN x', j # i
        PROVE  /\ j \in DOMAIN x /\ x'[j] = x[j]
               /\ Children(x', j) = Children(x, j)
               /\ x[j].log <=> x[j].pipe # NoPipe
               /\ x[j].pidlog # 0 => x[j].log
    <3>1. j \in DOMAIN x /\ x'[j] = x[j]
      BY <1>2, <2>1
    <3>2. Children(x', j) = Children(x, j)
      BY <3>1, Zenon DEF Children
    <3> QED
      BY <3>1, <3>2 DEF IInv, Piped
  <2>2. s.log <=> s.pipe # NoPipe
    BY DEF Old, New, IInv, Piped
  <2>3. log # 0 => s.log
    BY DEF Old, New, Born, IInv, Piped
  <2>4. ASSUME NEW j \in DOMAIN x', NEW q \in Children(x', j), Runs(proc', q)
        PROVE  proc'[q].pipe = x'[j].pipe
    <3>1. CASE j = i /\ ~(Old(i, s) /\ q \in Children(x, i))
      BY <1>2, <1>10, <2>4, <3>1, Zenon
    <3>2. CASE j = i /\ Old(i, s) /\ q \in Children(x, i)
      <4>1. i \in DOMAIN x /\ s = x[i]
        BY <3>2 DEF Old
      <4>2. proc'[q] = proc[q]
        BY <1>3, <1>8, <3>2, <4>1
      <4>3. proc[q].pipe = x[i].pipe
        BY <2>4, <3>2, <4>1, <4>2 DEF IInv, Piped, Runs
      <4> QED
        BY <1>2, <3>2, <4>1, <4>2, <4>3, Zenon
    <3>3. CASE j # i
      <4>1. j \in DOMAIN x /\ x'[j] = x[j] /\ q \in Children(x, j)
        BY <2>1, <2>4, <3>3
      <4>2. proc'[q] = proc[q]
        BY <1>3, <1>8, <4>1
      <4> QED
        BY <2>4, <4>1, <4>2 DEF IInv, Piped, Runs
    <3> QED
      BY <3>1, <3>2, <3>3
  <2>5. ASSUME NEW j \in DOMAIN x', j # i, s.log
        PROVE  x'[j].pipe # s.pipe
    <3>1. j \in DOMAIN x /\ x'[j] = x[j]
      BY <1>2, <2>5
    <3>2. CASE Old(i, s)
      BY <2>5, <3>1, <3>2, Zenon DEF Old, IInv, Piped
    <3>3. CASE New(i, s)
      BY <2>5, <3>1, <3>3 DEF New
    <3> QED
      BY <3>2, <3>3
  <2>6. ASSUME NEW j \in DOMAIN x', NEW k \in DOMAIN x',
               x'[j].log, x'[j].pipe = x'[k].pipe
        PROVE  j = k
    <3>1. CASE j = i
      BY <1>2, <2>5, <2>6, <3>1, Zenon
    <3>2. CASE j # i /\ k = i
      <4>1. s.log
        BY <1>2, <2>1, <2>2, <2>6, <3>2, Zenon
      <4> QED
        BY <1>2, <2>5, <2>6, <3>2, <4>1, Zenon
    <3>3. CASE j # i /\ k # i
      <4>1. \A a, b \in DOMAIN x : x[a].log /\ x[a].pipe = x[b].pipe => a = b
        BY Zenon DEF IInv, Piped
      <4>2. /\ j \in DOMAIN x /\ x'[j] = x[j]
            /\ k \in DOMAIN x /\ x'[k] = x[k]
        BY <2>1, <2>6, <3>3
      <4> QED
        BY <2>6, <4>1, <4>2
    <3> QED
      BY <3>1, <3>2, <3>3
  <2>7. ASSUME NEW j \in DOMAIN x'
        PROVE  /\ x'[j].log <=> x'[j].pipe # NoPipe
               /\ x'[j].pidlog # 0 => x'[j].log
    <3>1. CASE j = i
      BY <1>2, <2>2, <2>3, <3>1, Zenon
    <3>2. CASE j # i
      BY <2>1, <3>2, Zenon
    <3> QED
      BY <3>1, <3>2
  <2> QED
    BY <2>4, <2>6, <2>7, Zenon DEF Piped
<1>15. Found(proc', x')
  <2> SUFFICES ASSUME NEW q \in Pids, Runs(proc', q), proc'[q].mine
               PROVE  \E j \in DOMAIN x' :
                        q = IF proc'[q].role = "main" THEN x'[j].pid
                                                      ELSE x'[j].pidlog
    BY DEF Found
  <2>1. CASE IsMain(q)
    <3>1. q = x'[i].pid /\ proc'[q].role = "main"
      BY <1>2, <1>7, <2>1 DEF IsMain
    <3> QED
      BY <1>2, <3>1, Zenon
  <2>2. CASE IsLog(q)
    <3>1. q = x'[i].pidlog /\ proc'[q].role = "log" /\ "log" # "main"
      BY <1>2, <1>7, <2>2 DEF IsMain, IsLog
    <3> QED
      BY <1>2, <3>1, Zenon
  <2>3. CASE ~IsMain(q) /\ ~IsLog(q)
    <3>1. proc'[q] = proc[q] /\ Runs(proc, q) /\ proc[q].mine /\ q # 0
      BY <1>5, <2>3 DEF Runs, Pids
    <3>2. PICK j \in DOMAIN x : q = IF proc[q].role = "main" THEN x[j].pid
                                                             ELSE x[j].pidlog
      BY <3>1, Zenon DEF IInv, Found
    <3>3. CASE j # i
      <4>1. j \in DOMAIN x' /\ x'[j] = x[j]
        BY <1>2, <3>3
      <4> QED
        BY <3>1, <3>2, <4>1, Zenon
    <3>4. CASE j = i
      <4>1. Old(i, s)
        BY <1>1, <3>4 DEF New
      <4>2. /\ x[i].pid # 0 => x'[i].pid = x[i].pid
            /\ x[i].pidlog # 0 => x'[i].pidlog = x[i].pidlog
        BY <1>2, <4>1, Zenon DEF Old, Born
      <4>3. q = IF proc'[q].role = "main" THEN x'[i].pid ELSE x'[i].pidlog
        BY <3>1, <3>2, <3>4, <4>2, Zenon
      <4> QED
        BY <1>2, <4>3, Zenon
    <3> QED
      BY <3>3, <3>4
  <2> QED
    BY <2>1, <2>2, <2>3
<1>16. Ours(proc', x')
  <2>1. ASSUME NEW j \in DOMAIN x', j # i
        PROVE  /\ j \in DOMAIN x /\ x'[j] = x[j]
               /\ Children(x', j) = Children(x, j)
    <3>1. j \in DOMAIN x /\ x'[j] = x[j]
      BY <1>2, <2>1
    <3> QED
      BY <3>1, Zenon DEF Children
  <2>2. ASSUME NEW j \in DOMAIN x', NEW q \in Children(x', j)
        PROVE  proc'[q].st # "free" /\ proc'[q].mine
    <3>1. CASE \E k \in DOMAIN x : q \in Children(x, k)
      BY <1>3, <1>8, <3>1, Zenon
    <3>2. CASE ~\E k \in DOMAIN x : q \in Children(x, k)
      <4>1. j = i
        BY <2>1, <2>2, <3>2, Zenon
      <4>2. ~(Old(i, s) /\ q \in Children(x, i))
        BY <3>2 DEF Old
      <4> QED
        BY <1>10, <2>2, <4>1, <4>2
    <3> QED
      BY <3>1, <3>2
  <2>3. ASSUME NEW j \in DOMAIN x', j # i,
               NEW q \in Children(x', i), q \in Children(x', j)
        PROVE  FALSE
    <3>1. j \in DOMAIN x /\ q \in Children(x, j)
      BY <2>1, <2>3
    <3>2. proc[q].st # "free"
      BY <1>3, <3>1
    <3>3. Old(i, s) /\ q \in Children(x, i)
      BY <1>10, <3>2
    <3> QED
      BY <2>3, <3>1, <3>3, Zenon DEF IInv, Ours, Old
  <2>4. ASSUME NEW j \in DOMAIN x', NEW k \in DOMAIN x',
               NEW q \in Children(x', j) \cap Children(x', k)
        PROVE  j = k
    <3>1. CASE j = i \/ k = i
      BY <2>3, <2>4, <3>1, Zenon
    <3>2. CASE j # i /\ k # i
      BY <2>1, <2>4, <3>2, Zenon DEF IInv, Ours
    <3> QED
      BY <3>1, <3>2
  <2>5. main # 0 => main # log
    <3>1. SUFFICES ASSUME main # 0, main = log PROVE FALSE
      OBVIOUS
    <3>2. CASE s.pid = 0
      <4>1. main \in FreePids /\ s.pidlog = main
        BY <3>1, <3>2 DEF Born
      <4>2. main # 0 /\ Old(i, s)
        BY <3>1, <4>1 DEF New
      <4>3. i \in DOMAIN x /\ main \in Children(x, i)
        BY <4>1, <4>2 DEF Old, Children
      <4> QED
        BY <1>3, <1>4, <4>1, <4>3, Zenon
    <3>3. CASE s.pid # 0 /\ s.pidlog = 0
      BY <3>1, <3>3 DEF Born
    <3>4. CASE s.pid # 0 /\ s.pidlog # 0
      <4>1. main = s.pid /\ log = s.pidlog /\ Old(i, s)
        BY <3>4 DEF Born, New
      <4> QED
        BY <3>1, <4>1 DEF Old, IInv, Ours
    <3> QED
      BY <3>2, <3>3, <3>4
  <2>6. ASSUME NEW j \in DOMAIN x', x'[j].pid # 0
        PROVE  x'[j].pid # x'[j].pidlog
    <3>1. CASE j = i
      BY <1>2, <2>5, <2>6, <3>1, Zenon
    <3>2. CASE j # i
      BY <2>1, <2>6, <3>2 DEF IInv, Ours
    <3> QED
      BY <3>1, <3>2
  <2> QED
    BY <2>2, <2>4, <2>6, Zenon DEF Ours
<1> QED
  BY <1>11, <1>12, <1>13, <1>14, <1>15, <1>16

(***************************************************************************)
(* The theorems.                                                           *)
(***************************************************************************)

LEMMA StartStep ==
  ASSUME IInv, NEW n \in Names, Start(n)
  PROVE  IInv'
<1>1. /\ proc' \in [Pids -> Process] /\ Named' /\ OneSlot'
      /\ Piped(proc', x') /\ Found(proc', x') /\ Ours(proc', x')
  BY StartForm, FilledStep
<1>2. x' \in Seq(Slot) /\ Len(x') =< Services
  BY StartForm, Zenon DEF Filled
<1>3. UNCHANGED <<at, haslog, pc, stray, kills>> /\ todo' \subseteq todo
  BY DEF Start
<1>4. TypeOK'
  BY <1>1, <1>2, <1>3, Zenon DEF IInv, TypeOK
<1> QED
  BY <1>1, <1>4 DEF IInv

\* The table, its pipes and the processes agree with each other after every step
\* of svscan, its children and the administrator.
THEOREM Invariant == Spec => []IInv
<1>1. IInv /\ [Next]_vars => IInv'
  <2> SUFFICES ASSUME IInv, [Next]_vars PROVE IInv'
    OBVIOUS
  <2>1. CASE OpenDir
    BY <2>1, OpenDirStep
  <2>2. CASE \E n \in Names : Start(n)
    BY <2>2, StartStep
  <2>3. CASE \E i \in 1..Services : Drop(i)
    BY <2>3, DropStep
  <2>4. CASE \E q \in Pids : Settle(q) \/ Die(q)
    BY <2>4, SettleStep, DieStep
  <2>5. CASE Kill \/ Boot \/ Cut \/ \E n \in Names : Tell(n)
    BY <2>5, KillStep, AgainStep, TellStep DEF Boot, Cut
  <2>6. CASE \/ \E n \in Names : PassOver(n) \/ Unlink(n)
             \/ \E n \in Names, d \in Dirs : Link(n, d)
             \/ \E d \in Dirs : AddLog(d)
             \/ EndOfDir \/ Sleep \/ Launch \/ StrayEnds \/ UNCHANGED vars
    BY <2>6, OtherTypes, OtherStep DEF IInv
  <2> QED
    BY <2>1, <2>2, <2>3, <2>4, <2>5, <2>6 DEF Next, Loop
<1> QED
  BY InitIInv, <1>1, PTL DEF Spec

\* However many directories there are, the table is not written beyond its end,
\* and every variable keeps its type (TypeOK).
THEOREM TypeCorrect == Spec => []TypeOK
<1>1. IInv => TypeOK
  BY DEF IInv
<1> QED
  BY Invariant, <1>1, PTL

\* Every child is in the one place of the table that is its own (KnownChildren).
THEOREM ChildrenKnown == Spec => []KnownChildren
<1>1. IInv => KnownChildren
  <2> SUFFICES ASSUME IInv PROVE KnownChildren
    OBVIOUS
  <2>1. \A q \in Pids : Live(q) <=> Runs(proc, q)
    BY DEF Live, Runs
  <2>2. ASSUME NEW q \in Pids, Live(q), proc[q].mine
        PROVE  \E i \in DOMAIN x : IF proc[q].role = "main" THEN x[i].pid = q
                                                            ELSE x[i].pidlog = q
    BY <2>1, <2>2, Zenon DEF IInv, Found
  <2>3. \A i \in DOMAIN x : Children(x, i) = {x[i].pid, x[i].pidlog} \ {0}
    BY DEF Children
  <2>4. ASSUME NEW i \in DOMAIN x
        PROVE  /\ \A q \in {x[i].pid, x[i].pidlog} \ {0} :
                    proc[q].st # "free" /\ proc[q].mine
               /\ x[i].pid # 0 => x[i].pid # x[i].pidlog
    BY <2>3 DEF IInv, Ours
  <2>5. ASSUME NEW i \in DOMAIN x, NEW j \in DOMAIN x \ {i}
        PROVE  ({x[i].pid, x[i].pidlog} \cap {x[j].pid, x[j].pidlog})
                 \subseteq {0}
    <3> SUFFICES ASSUME NEW q, q # 0, q \in {x[i].pid, x[i].pidlog},
                        q \in {x[j].pid, x[j].pidlog}
                 PROVE  FALSE
      OBVIOUS
    <3>1. q \in Children(x, i) \cap Children(x, j)
      BY DEF Children
    <3> QED
      BY <3>1 DEF IInv, Ours
  <2> QED
    BY <2>2, <2>4, <2>5, Zenon DEF KnownChildren
<1> QED
  BY Invariant, <1>1, PTL

\* supervise and the supervise of its log share one pipe, and services do not
\* share pipes (PipeShared).
THEOREM OnePipe == Spec => []PipeShared
<1>1. IInv => PipeShared
  <2> SUFFICES ASSUME IInv, NEW i \in DOMAIN x, NEW j \in DOMAIN x,
                      x[i].pid # 0, x[j].pidlog # 0,
                      Live(x[i].pid), Live(x[j].pidlog)
               PROVE  i = j <=> proc[x[i].pid].pipe = proc[x[j].pidlog].pipe
    BY Zenon DEF PipeShared
  <2>1. proc[x[i].pid].pipe = x[i].pipe
    BY DEF IInv, Piped, Children, Runs, Live
  <2>2. proc[x[j].pidlog].pipe = x[j].pipe /\ x[j].log
    BY DEF IInv, Piped, Children, Runs, Live
  <2>3. x[j].pipe = x[i].pipe => j = i
    BY <2>2, Zenon DEF IInv, Piped
  <2> QED
    BY <2>1, <2>2, <2>3, Zenon
<1> QED
  BY Invariant, <1>1, PTL

(***************************************************************************)
(* What is started.                                                        *)
(***************************************************************************)

LEMMA RightStart ==
  ASSUME IInv, IInv', NEW n \in Names, Start(n),
         NEW q \in Pids, proc[q].st = "free", proc'[q].st = "forked"
  PROVE  \E i \in DOMAIN x' :
           /\ x'[i].dir = at[proc'[q].name]
           /\ q = IF proc'[q].role = "main" THEN x'[i].pid ELSE x'[i].pidlog
           /\ \A j \in DOMAIN x' \ {i} : x'[j].dir # x'[i].dir
<1>1. PICK i \in 1..Services, s \in Slot : \E main, log :
        /\ s.dir = at[n]
        /\ Filled(i, s, main, log) /\ Born(s, main, log, n)
  BY StartForm
<1>2. PICK main, log : /\ s.dir = at[n]
                       /\ Filled(i, s, main, log) /\ Born(s, main, log, n)
  BY <1>1
<1>3. /\ i \in DOMAIN x' /\ x'[i].dir = at[n]
      /\ x'[i].pid = main /\ x'[i].pidlog = log
  BY <1>2, Zenon DEF Filled
<1>4. /\ Child(s, "main", n).role = "main" /\ Child(s, "main", n).name = n
      /\ Child(s, "log", n).role = "log" /\ Child(s, "log", n).name = n
  BY DEF Child, Free
<1>5. proc'[q] # proc[q]
  OBVIOUS
<1>6. proc'[q] = CASE q = main /\ s.pid = 0   -> Child(s, "main", n)
                   [] q = log /\ s.pidlog = 0 -> Child(s, "log", n)
                   [] OTHER                   -> proc[q]
  BY <1>2, Zenon DEF Born
<1>7. \/ q = main /\ proc'[q].role = "main" /\ proc'[q].name = n
      \/ q = log /\ proc'[q].role = "log" /\ proc'[q].name = n
  <2>1. CASE q = main /\ s.pid = 0
    <3>1. ~(q = log /\ s.pidlog = 0)
      BY <1>2, <2>1 DEF Born, Pids
    <3>2. proc'[q] = Child(s, "main", n)
      BY <1>6, <2>1, <3>1
    <3> QED
      BY <1>4, <2>1, <3>2
  <2>2. CASE ~(q = main /\ s.pid = 0)
    <3>1. q = log /\ proc'[q] = Child(s, "log", n)
      BY <1>5, <1>6, <2>2
    <3> QED
      BY <1>4, <3>1
  <2> QED
    BY <2>1, <2>2
<1>8. \A j \in DOMAIN x' \ {i} : x'[j].dir # x'[i].dir
  BY <1>3, Zenon DEF IInv, OneSlot
<1> QED
  BY <1>3, <1>7, <1>8

\* The other steps start nothing.
LEMMA NoStart ==
  ASSUME IInv, [Next]_vars, \A n \in Names : ~Start(n),
         NEW q \in Pids, proc[q].st = "free"
  PROVE  proc'[q].st # "forked"
<1>1. proc[q] \in Process /\ proc \in [Pids -> Process]
  BY DEF IInv, TypeOK
<1>2. CASE UNCHANGED proc
  BY <1>2
<1>3. CASE OpenDir \/ Kill
  <2>1. proc'[q] = Free \/ proc'[q] = proc[q]
    BY <1>3, Zenon DEF OpenDir, Kill, Orphan
  <2>2. Free.st = "free"
    BY DEF Free
  <2> QED
    BY <2>1, <2>2
<1>4. ASSUME NEW p \in Pids, Settle(p) \/ Die(p)
      PROVE  proc'[q].st # "forked"
  <2>1. q # p
    BY <1>4 DEF Settle, Die
  <2>2. proc'[q] = proc[q]
    BY <1>1, <1>4, <2>1 DEF Settle, Die
  <2> QED
    BY <2>2
<1>5. CASE Again
  <2>1. proc'[q] = [proc[q] EXCEPT !.err = FALSE]
    BY <1>5, Zenon DEF Again
  <2> QED
    BY <1>1, <2>1 DEF Process
<1>6. ASSUME NEW n \in Names, Tell(n)
      PROVE  proc'[q].st # "forked"
  <2>1. PICK reached : proc' = [p \in Pids |->
                         [proc[p] EXCEPT !.told = @ \/ p \in reached]]
    BY <1>6, Zenon DEF Tell
  <2>2. PICK b : b = (proc[q].told \/ q \in reached)
    OBVIOUS
  <2>3. proc'[q] = [proc[q] EXCEPT !.told = b]
    BY <2>1, <2>2, Zenon
  <2> QED
    BY <1>1, <2>3 DEF Process
<1>7. ASSUME \/ EndOfDir \/ Sleep \/ Launch \/ StrayEnds \/ UNCHANGED vars
             \/ \E n \in Names : PassOver(n) \/ Unlink(n)
             \/ \E n \in Names, d \in Dirs : Link(n, d)
             \/ \E d \in Dirs : AddLog(d)
             \/ \E i \in 1..Services : Drop(i)
      PROVE  UNCHANGED proc
  BY <1>7, Zenon DEF EndOfDir, Sleep, Launch, StrayEnds, PassOver, Unlink, Link,
                     AddLog, Drop, vars
<1> QED
  BY <1>2, <1>3, <1>4, <1>5, <1>6, <1>7, Zenon DEF Next, Loop, Boot, Cut

\* A supervise is only started in the one slot of the directory that its name
\* leads to (StartedInSlot): start() finds it by device and inode.
THEOREM RightSlot == Spec => StartedInSlot
<1> DEFINE Right(q) ==
      \E i \in DOMAIN x' :
        /\ x'[i].dir = at[proc'[q].name]
        /\ q = IF proc'[q].role = "main" THEN x'[i].pid ELSE x'[i].pidlog
        /\ \A j \in DOMAIN x' \ {i} : x'[j].dir # x'[i].dir
    A == \A q \in Pids :
           proc[q].st = "free" /\ proc'[q].st = "forked" => Right(q)
<1>1. IInv /\ IInv' /\ [Next]_vars => [A]_vars
  <2> SUFFICES ASSUME IInv, IInv', [Next]_vars, NEW q \in Pids,
                      proc[q].st = "free", proc'[q].st = "forked"
               PROVE  Right(q)
    BY Zenon
  <2>1. PICK n \in Names : Start(n)
    BY NoStart
  <2> QED
    BY <2>1, RightStart, Zenon
<1> QED
  BY <1>1, Invariant, PTL DEF Spec, StartedInSlot
=============================================================================
