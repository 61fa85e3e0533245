-------------------------- MODULE SuperviseProofs --------------------------
(***************************************************************************)
(* What is proved of Supervise, and of Svstat beside it, for every set of    *)
(* process identifiers, every set of requests, and whether or not fork() and *)
(* the disk may fail.                                                       *)
(***************************************************************************)
EXTENDS Svstat, TLAPS

(***************************************************************************)
(* The inductive invariant.  The first two parts say what supervise knows   *)
(* at each place of its program, the other three strengthen NoLostDeath,    *)
(* StatusTrue and PausedTrue to what every step preserves.                  *)
(***************************************************************************)

\* A start is attempted only with the service down and supervise to stay; past
\* the top of the loop flagexit means that there is still a service.
StartInv ==
  /\ pc \in {"dead", "exited", "boot", "ok", "trystart"} => pid = 0 /\ ~flagexit
  /\ pc \in {"dead", "exited", "boot", "ok"} => flagwant
  /\ pc \in {"sleep", "sleep60"} => ~flagexit
  /\ pc \in {"iopause", "reap", "control"} => (flagexit => pid # 0)
  /\ pc \in {"leaving", "bye"} => pid = 0 /\ flagexit

\* The service is the only child that supervise did not inherit.
ChildInv == \A p \in Pids : proc[p] \in {"child", "zombie"} <=> p = pid

\* An unreaped service has its wake-up on the way: pending, in the pipe, or the
\* program has got to the wait loop already.
WakeInv ==
  (pid # 0 /\ proc[pid] = "zombie") => (sigchld \/ selfpipe \/ pc = "reap")

\* From the first announce() on the file is this supervise's.
StatusInv == (Running /\ pc # "boot" /\ fresh # "failed") => status = Snapshot

IInv ==
  /\ TypeOK
  /\ StartInv
  /\ ChildInv
  /\ WakeInv
  /\ StatusInv
  /\ PausedTrue

-----------------------------------------------------------------------------

\* What announce() leaves in the status file is a status.
LEMMA AnnounceType ==
  ASSUME status \in Statuses, pid' \in Pids \cup {0}, flagpaused' \in BOOLEAN,
         fresh \in {"stale", "written", "failed"}, announce
  PROVE  status' \in Statuses /\ fresh' \in {"stale", "written", "failed"}
<1>1. Snapshot' \in Statuses
  <2>1. (IF pid' # 0 THEN flagpaused' ELSE FALSE) \in BOOLEAN
    OBVIOUS
  <2>2. (IF flagwant' THEN IF flagwantup' THEN "u" ELSE "d" ELSE "none")
          \in {"u", "d", "none"}
    OBVIOUS
  <2>3. QED
    BY <2>1, <2>2 DEF Snapshot, Statuses
<1>2. QED
  BY <1>1 DEF announce

\* What kill() leaves in force is a set of signals, SIGCHLD pending or not.
LEMMA KillType ==
  ASSUME TypeOK, NEW S, pid # 0 => S \subseteq Signals, Kill(S)
  PROVE  sent' \in [Pids -> SUBSET Signals] /\ sigchld' \in BOOLEAN
<1>1. CASE pid = 0
  BY <1>1 DEF TypeOK, Kill
<1>2. CASE pid # 0
  <2>1. sent' = [sent EXCEPT ![pid] = S]
    BY <1>2 DEF Kill
  <2>2. sent' \in [Pids -> SUBSET Signals]
    BY <1>2, <2>1 DEF TypeOK
  <2>3. sigchld' \in BOOLEAN
    BY <1>2 DEF Kill
  <2>4. QED
    BY <2>2, <2>3
<1>3. QED
  BY <1>1, <1>2

\* A new process has its variables in their types.
LEMMA FreshType ==
  ASSUME Fresh
  PROVE  /\ ret' \in {"doit", "control", "top"} /\ flagexit' \in BOOLEAN
         /\ flagwant' \in BOOLEAN /\ pid' \in Pids \cup {0}
         /\ flagpaused' \in BOOLEAN /\ control' \in Seq(Commands)
         /\ selfpipe' \in BOOLEAN /\ sigchld' \in BOOLEAN
         /\ sent' \in [Pids -> SUBSET Signals]
<1>1. sent' \in [Pids -> SUBSET Signals]
  BY DEF Fresh
<1>2. control' \in Seq(Commands)
  BY DEF Fresh
<1>3. /\ flagexit' \in BOOLEAN /\ flagwant' \in BOOLEAN
      /\ flagpaused' \in BOOLEAN /\ selfpipe' \in BOOLEAN
      /\ sigchld' \in BOOLEAN
  BY DEF Fresh
<1>4. pid' \in Pids \cup {0} /\ ret' \in {"doit", "control", "top"}
  BY DEF Fresh
<1>5. QED
  BY <1>1, <1>2, <1>3, <1>4

\* Reading a control byte disturbs no type.
LEMMA ByteType ==
  ASSUME TypeOK, NEW c, Byte(c)
  PROVE  /\ control' \in Seq(Commands) /\ selfpipe' \in BOOLEAN
         /\ proc' \in
              [Pids -> {"other", "child", "zombie", "stray", "strayzombie"}]
BY DEF TypeOK, Byte

LEMMA TypeInit == Init => TypeOK
<1> SUFFICES ASSUME Init
             PROVE  TypeOK
  OBVIOUS
<1>1. status \in Statuses
  BY DEF Init, Idle, Statuses
<1>2. sent \in [Pids -> SUBSET Signals]
  BY DEF Init
<1>3. control \in Seq(Commands)
  BY DEF Init
<1>4. /\ flagexit \in BOOLEAN /\ flagwant \in BOOLEAN /\ flagwantup \in BOOLEAN
      /\ flagpaused \in BOOLEAN /\ selfpipe \in BOOLEAN /\ sigchld \in BOOLEAN
  BY DEF Init
<1>5. QED
  BY <1>1, <1>2, <1>3, <1>4 DEF Init, TypeOK, Places

LEMMA TypeStep == TypeOK /\ [Next]_vars => TypeOK'
<1> SUFFICES ASSUME TypeOK, [Next]_vars
             PROVE  TypeOK'
  OBVIOUS
<1> USE SuperviseAssumption DEF TypeOK, Places
<1>1. CASE Launch
  <2>1. proc' \in [Pids -> {"other", "child", "zombie", "stray", "strayzombie"}]
    BY <1>1 DEF Launch
  <2>2. QED
    BY <1>1, <2>1, FreshType DEF Launch
<1>2. CASE BootAnnounce
  BY <1>2, AnnounceType DEF BootAnnounce, flags, kernel
<1>3. CASE OpenOk
  BY <1>3 DEF OpenOk, flags, file, kernel
<1>4. CASE ForkOk
  BY <1>4, AnnounceType DEF ForkOk, flags
<1>5. CASE SleepEnd
  BY <1>5 DEF SleepEnd, flags, file, kernel
<1>6. CASE ForkFail
  BY <1>6 DEF ForkFail, flags, file, kernel
<1>7. CASE Sleep60End
  BY <1>7 DEF Sleep60End, flags, file, kernel
<1>8. CASE Enter
  BY <1>8, AnnounceType DEF Enter, flags, kernel
<1>9. CASE Top
  BY <1>9 DEF Top, AtTop, flags, file, kernel
<1>10. CASE Handler
  BY <1>10 DEF Handler, flags, file
<1>11. CASE IopauseReady \/ IopauseTimeout
  BY <1>11 DEF IopauseReady, IopauseTimeout, Wake, flags, file, kernel
<1>12. CASE ReapChild
  BY <1>12, AnnounceType DEF ReapChild, AfterReap, flags
<1>13. CASE ReapStray
  BY <1>13 DEF ReapStray, flags, file
<1>14. CASE ReapNone
  BY <1>14 DEF ReapNone, flags, file, kernel
<1>15. CASE NoByte
  BY <1>15 DEF NoByte, flags, file, kernel
<1>16. CASE Down
  <2>1. sent' \in [Pids -> SUBSET Signals] /\ sigchld' \in BOOLEAN
    <3>1. pid # 0 => Terminated(sent[pid]) \subseteq Signals
      BY DEF Terminated, Signals
    <3>2. QED
      BY <1>16, <3>1, KillType DEF Down
  <2>2. QED
    BY <1>16, <2>1, AnnounceType, ByteType DEF Down
<1>17. CASE Up
  BY <1>17, AnnounceType DEF Up, Byte, StartIfDown
<1>18. CASE Once
  <2>1. announce /\ pid' \in Pids \cup {0} /\ flagpaused' \in BOOLEAN
    BY <1>18 DEF Once
  <2>2. QED
    BY <1>18, <2>1, AnnounceType, ByteType DEF Once, StartIfDown
<1>19. CASE SendSignal
  <2>1. PICK c \in DOMAIN Signal :
          /\ Byte(c) /\ pc' = "top"
          /\ Kill(sent[pid] \cup {Signal[c]})
          /\ UNCHANGED <<ret, flags, pid, flagpaused, file>>
    BY <1>19 DEF SendSignal
  <2>2. Signal[c] \in Signals
    BY DEF Signal, Signals
  <2>3. sent' \in [Pids -> SUBSET Signals] /\ sigchld' \in BOOLEAN
    <3>1. pid # 0 => (sent[pid] \cup {Signal[c]}) \subseteq Signals
      BY <2>2
    <3>2. QED
      BY <2>1, <3>1, KillType
  <2>4. QED
    BY <2>1, <2>3 DEF Byte, flags, file
<1>20. CASE Pause
  <2>1. sent' \in [Pids -> SUBSET Signals] /\ sigchld' \in BOOLEAN
    <3>1. pid # 0 => (sent[pid] \cup {"STOP"}) \subseteq Signals
      BY DEF Signals
    <3>2. QED
      BY <1>20, <3>1, KillType DEF Pause
  <2>2. QED
    BY <1>20, <2>1, AnnounceType, ByteType DEF Pause, flags
<1>21. CASE Continue
  <2>1. sent' \in [Pids -> SUBSET Signals] /\ sigchld' \in BOOLEAN
    <3>1. pid # 0 => (sent[pid] \ {"STOP"}) \subseteq Signals
      BY DEF Signals
    <3>2. QED
      BY <1>21, <3>1, KillType DEF Continue
  <2>2. QED
    BY <1>21, <2>1, AnnounceType, ByteType DEF Continue, flags
<1>22. CASE ExitWhenDown
  BY <1>22, AnnounceType DEF ExitWhenDown, Byte
<1>23. CASE Leave
  BY <1>23, AnnounceType DEF Leave, flags, kernel
<1>24. CASE Exit
  BY <1>24, FreshType DEF Exit, Gone, file
<1>25. CASE Crash
  BY <1>25, FreshType DEF Crash, Gone, file
<1>26. CASE Svc
  BY <1>26 DEF Svc, flags, file, kernel
<1>27. ASSUME NEW p \in Pids, Die(p)
       PROVE  TypeOK'
  BY <1>27 DEF Die, flags, file
<1>28. CASE UNCHANGED vars
  BY <1>28 DEF vars, flags, file, kernel
<1>29. QED
  BY <1>1, <1>2, <1>3, <1>4, <1>5, <1>6, <1>7, <1>8, <1>9, <1>10, <1>11,
     <1>12, <1>13, <1>14, <1>15, <1>16, <1>17, <1>18, <1>19, <1>20, <1>21,
     <1>22, <1>23, <1>24, <1>25, <1>26, <1>27, <1>28
     DEF Next, Boot, Start, Reap, Command

\* Every variable keeps its type.
THEOREM TypeCorrect == Spec => []TypeOK
BY TypeInit, TypeStep, PTL DEF Spec

-----------------------------------------------------------------------------

\* Where supervise is tells whether it has a service and may start one.
LEMMA StartInvStep == IInv /\ [Next]_vars => StartInv'
<1> SUFFICES ASSUME IInv, [Next]_vars
             PROVE  StartInv'
  OBVIOUS
<1> USE SuperviseAssumption DEF IInv, TypeOK, StartInv
<1>1. CASE Launch
  BY <1>1 DEF Launch, Fresh
<1>2. CASE BootAnnounce \/ Enter \/ Leave
  BY <1>2 DEF BootAnnounce, Enter, Leave, flags, kernel
<1>3. CASE OpenOk \/ SleepEnd \/ ForkFail \/ Sleep60End \/ Svc
  BY <1>3 DEF OpenOk, SleepEnd, ForkFail, Sleep60End, Svc, flags, kernel
<1>4. CASE ForkOk
  BY <1>4 DEF ForkOk, flags
<1>5. CASE Top \/ NoByte \/ UNCHANGED vars
  BY <1>5 DEF Top, AtTop, NoByte, vars, flags, kernel
<1>6. CASE Handler \/ IopauseReady \/ IopauseTimeout
  BY <1>6 DEF Handler, IopauseReady, IopauseTimeout, Wake, flags, kernel
<1>7. CASE ReapChild
  BY <1>7 DEF ReapChild, AfterReap, flags
<1>8. CASE ReapStray \/ ReapNone
  BY <1>8 DEF ReapStray, ReapNone, Zombies, flags, kernel
<1>9. CASE Down
  BY <1>9 DEF Down, Byte
<1>10. CASE Up \/ Once \/ ExitWhenDown
  BY <1>10 DEF Up, Once, ExitWhenDown, Byte, StartIfDown
<1>11. CASE SendSignal
  BY <1>11 DEF SendSignal, Byte, flags
<1>12. CASE Pause \/ Continue
  BY <1>12 DEF Pause, Continue, Byte, flags
<1>13. CASE Exit \/ Crash
  BY <1>13 DEF Exit, Crash, Gone, Fresh
<1>14. ASSUME NEW p \in Pids, Die(p)
       PROVE  StartInv'
  BY <1>14 DEF Die, flags
<1>15. QED
  BY <1>1, <1>2, <1>3, <1>4, <1>5, <1>6, <1>7,
     <1>8, <1>9, <1>10, <1>11, <1>12, <1>13, <1>14
     DEF Next, Boot, Start, Reap, Command

\* A process is started only when there is none, and reaped when it is
\* forgotten.
LEMMA ChildInvStep == IInv /\ [Next]_vars => ChildInv'
<1> SUFFICES ASSUME IInv, [Next]_vars
             PROVE  ChildInv'
  OBVIOUS
<1> USE SuperviseAssumption DEF IInv, TypeOK, ChildInv, StartInv
<1>1. CASE Launch
  BY <1>1 DEF Launch, Fresh
<1>2. CASE BootAnnounce \/ Enter \/ Leave
  BY <1>2 DEF BootAnnounce, Enter, Leave, flags, kernel
<1>3. CASE OpenOk \/ SleepEnd \/ ForkFail \/ Sleep60End \/ Svc
  BY <1>3 DEF OpenOk, SleepEnd, ForkFail, Sleep60End, Svc, flags, file, kernel
<1>4. CASE ForkOk
  BY <1>4 DEF ForkOk, flags
<1>5. CASE Top \/ NoByte \/ UNCHANGED vars
  BY <1>5 DEF Top, AtTop, NoByte, vars, flags, file, kernel
<1>6. CASE Handler \/ IopauseReady \/ IopauseTimeout
  BY <1>6 DEF Handler, IopauseReady, IopauseTimeout, Wake, flags, file, kernel
<1>7. CASE ReapChild
  BY <1>7 DEF ReapChild, AfterReap, flags
<1>8. CASE ReapStray \/ ReapNone
  BY <1>8 DEF ReapStray, ReapNone, Zombies, flags, file, kernel
<1>9. CASE Down
  BY <1>9 DEF Down, Byte, Kill, Terminated
<1>10. CASE Up \/ Once \/ ExitWhenDown
  BY <1>10 DEF Up, Once, ExitWhenDown, Byte, StartIfDown
<1>11. CASE SendSignal
  BY <1>11 DEF SendSignal, Byte, Kill, Signal, flags, file
<1>12. CASE Pause \/ Continue
  BY <1>12 DEF Pause, Continue, Byte, Kill, flags
<1>13. CASE Exit \/ Crash
  BY <1>13 DEF Exit, Crash, Gone, Fresh, file
<1>14. ASSUME NEW p \in Pids, Die(p)
       PROVE  ChildInv'
  BY <1>14 DEF Die, flags, file
<1>15. QED
  BY <1>1, <1>2, <1>3, <1>4, <1>5, <1>6, <1>7,
     <1>8, <1>9, <1>10, <1>11, <1>12, <1>13, <1>14
     DEF Next, Boot, Start, Reap, Command

\* A zombie has its wake-up, which only the wait loop uses up.
LEMMA WakeInvStep == IInv /\ [Next]_vars => WakeInv'
<1> SUFFICES ASSUME IInv, [Next]_vars
             PROVE  WakeInv'
  OBVIOUS
<1> USE SuperviseAssumption DEF IInv, TypeOK, WakeInv, ChildInv
<1>1. CASE Launch
  BY <1>1 DEF Launch, Fresh
<1>2. CASE BootAnnounce \/ Enter \/ Leave
  BY <1>2 DEF BootAnnounce, Enter, Leave, flags, kernel
<1>3. CASE OpenOk \/ SleepEnd \/ ForkFail \/ Sleep60End \/ Svc
  BY <1>3 DEF OpenOk, SleepEnd, ForkFail, Sleep60End, Svc, flags, file, kernel
<1>4. CASE ForkOk
  BY <1>4 DEF ForkOk, flags
<1>5. CASE Top \/ NoByte \/ UNCHANGED vars
  BY <1>5 DEF Top, AtTop, NoByte, vars, flags, file, kernel
<1>6. CASE Handler \/ IopauseReady \/ IopauseTimeout
  BY <1>6 DEF Handler, IopauseReady, IopauseTimeout, Wake, flags, file, kernel
<1>7. CASE ReapChild
  BY <1>7 DEF ReapChild, AfterReap, flags
<1>8. CASE ReapStray \/ ReapNone
  BY <1>8 DEF ReapStray, ReapNone, Zombies, flags, file, kernel
<1>9. CASE Down
  BY <1>9 DEF Down, Byte, Kill, Terminated
<1>10. CASE Up \/ Once \/ ExitWhenDown
  BY <1>10 DEF Up, Once, ExitWhenDown, Byte, StartIfDown
<1>11. CASE SendSignal
  BY <1>11 DEF SendSignal, Byte, Kill, Signal, flags, file
<1>12. CASE Pause \/ Continue
  BY <1>12 DEF Pause, Continue, Byte, Kill, flags
<1>13. CASE Exit \/ Crash
  BY <1>13 DEF Exit, Crash, Gone, Fresh, file
<1>14. ASSUME NEW p \in Pids, Die(p)
       PROVE  WakeInv'
  BY <1>14 DEF Die, flags, file
<1>15. QED
  BY <1>1, <1>2, <1>3, <1>4, <1>5, <1>6, <1>7,
     <1>8, <1>9, <1>10, <1>11, <1>12, <1>13, <1>14
     DEF Next, Boot, Start, Reap, Command

\* Every step that changes what is announced announces it.
LEMMA StatusInvStep == IInv /\ [Next]_vars => StatusInv'
<1> SUFFICES ASSUME IInv, [Next]_vars
             PROVE  StatusInv'
  OBVIOUS
<1> USE SuperviseAssumption DEF IInv, TypeOK, StatusInv, Running
<1>q. ASSUME UNCHANGED <<flags, pid, flagpaused, file>>,
             Running' /\ pc' # "boot" => Running /\ pc # "boot"
      PROVE  StatusInv'
  <2>1. Snapshot' = Snapshot
    BY <1>q DEF Snapshot, flags
  <2>2. QED
    BY <1>q, <2>1 DEF file
<1>1. CASE Launch
  BY <1>1 DEF Launch, Fresh
<1>2. CASE BootAnnounce \/ Enter \/ Leave
  BY <1>2 DEF BootAnnounce, Enter, Leave, announce, Snapshot, flags, kernel
<1>3. CASE OpenOk \/ SleepEnd \/ ForkFail \/ Sleep60End \/ Svc
  BY <1>3, <1>q DEF OpenOk, SleepEnd, ForkFail, Sleep60End, Svc, kernel
<1>4. CASE ForkOk
  BY <1>4 DEF ForkOk, announce, Snapshot, flags
<1>5. CASE Top \/ NoByte \/ UNCHANGED vars
  BY <1>5, <1>q DEF Top, NoByte, vars, kernel
<1>6. CASE Handler \/ IopauseReady \/ IopauseTimeout
  BY <1>6, <1>q DEF Handler, IopauseReady, IopauseTimeout, Wake, kernel
<1>7. CASE ReapChild
  BY <1>7 DEF ReapChild, AfterReap, announce, Snapshot, flags
<1>8. CASE ReapStray \/ ReapNone
  BY <1>8, <1>q DEF ReapStray, ReapNone, Zombies, kernel
<1>9. CASE Down
  BY <1>9 DEF Down, Byte, Kill, Terminated, announce, Snapshot
<1>10. CASE Up \/ Once \/ ExitWhenDown
  BY <1>10 DEF Up, Once, ExitWhenDown, Byte, StartIfDown, announce, Snapshot
<1>11. CASE SendSignal
  BY <1>11, <1>q DEF SendSignal, Byte, Kill, Signal
<1>12. CASE Pause \/ Continue
  BY <1>12 DEF Pause, Continue, Byte, Kill, announce, Snapshot, flags
<1>13. CASE Exit \/ Crash
  BY <1>13 DEF Exit, Crash, Gone, Fresh, file
<1>14. ASSUME NEW p \in Pids, Die(p)
       PROVE  StatusInv'
  BY <1>14, <1>q DEF Die
<1>15. QED
  BY <1>1, <1>2, <1>3, <1>4, <1>5, <1>6, <1>7,
     <1>8, <1>9, <1>10, <1>11, <1>12, <1>13, <1>14
     DEF Next, Boot, Start, Reap, Command

\* Stops, continuations and new services keep flagpaused right.
LEMMA PausedTrueStep == IInv /\ [Next]_vars => PausedTrue'
<1> SUFFICES ASSUME IInv, [Next]_vars
             PROVE  PausedTrue'
  OBVIOUS
<1> USE SuperviseAssumption DEF IInv, TypeOK, PausedTrue, Running
<1>1. CASE Launch
  BY <1>1 DEF Launch, Fresh
<1>2. CASE BootAnnounce \/ Enter \/ Leave
  BY <1>2 DEF BootAnnounce, Enter, Leave, flags, kernel
<1>3. CASE OpenOk \/ SleepEnd \/ ForkFail \/ Sleep60End \/ Svc
  BY <1>3 DEF OpenOk, SleepEnd, ForkFail, Sleep60End, Svc, flags, file, kernel
<1>4. CASE ForkOk
  BY <1>4 DEF ForkOk, flags
<1>5. CASE Top \/ NoByte \/ UNCHANGED vars
  BY <1>5 DEF Top, AtTop, NoByte, vars, flags, file, kernel
<1>6. CASE Handler \/ IopauseReady \/ IopauseTimeout
  BY <1>6 DEF Handler, IopauseReady, IopauseTimeout, Wake, flags, file, kernel
<1>7. CASE ReapChild
  BY <1>7 DEF ReapChild, AfterReap, flags
<1>8. CASE ReapStray \/ ReapNone
  BY <1>8 DEF ReapStray, ReapNone, Zombies, flags, file, kernel
<1>9. CASE Down
  BY <1>9 DEF Down, Byte, Kill, Terminated
<1>10. CASE Up \/ Once \/ ExitWhenDown
  BY <1>10 DEF Up, Once, ExitWhenDown, Byte, StartIfDown
<1>11. CASE SendSignal
  BY <1>11 DEF SendSignal, Byte, Kill, Signal, flags, file
<1>12. CASE Pause \/ Continue
  BY <1>12 DEF Pause, Continue, Byte, Kill, flags
<1>13. CASE Exit \/ Crash
  BY <1>13 DEF Exit, Crash, Gone, Fresh, file
<1>14. ASSUME NEW p \in Pids, Die(p)
       PROVE  PausedTrue'
  BY <1>14 DEF Die, flags, file
<1>15. QED
  BY <1>1, <1>2, <1>3, <1>4, <1>5, <1>6, <1>7,
     <1>8, <1>9, <1>10, <1>11, <1>12, <1>13, <1>14
     DEF Next, Boot, Start, Reap, Command

\* The inductive invariant is one.
THEOREM Invariance == Spec => []IInv
<1>1. Init => IInv
  BY TypeInit, SuperviseAssumption
     DEF Init, IInv, StartInv, ChildInv, WakeInv, StatusInv, PausedTrue, Running
<1>2. IInv /\ [Next]_vars => IInv'
  <2>1. IInv /\ [Next]_vars => TypeOK'
    BY TypeStep DEF IInv
  <2>2. QED
    BY <2>1, StartInvStep, ChildInvStep, WakeInvStep, StatusInvStep,
       PausedTrueStep DEF IInv
<1>3. QED
  BY <1>1, <1>2, PTL DEF Spec

-----------------------------------------------------------------------------

\* supervise knows its only child: it never signals or waits for anybody else,
\* and never runs two instances of its service.
THEOREM OneChild == Spec => []OwnChild
<1>1. IInv => OwnChild
  BY SuperviseAssumption DEF IInv, ChildInv, OwnChild, TypeOK
<1>2. QED
  BY <1>1, Invariance, PTL

\* No death of the service is slept through.
THEOREM DeathsAwaken == Spec => []NoLostDeath
<1>1. IInv => NoLostDeath
  BY DEF IInv, WakeInv, NoLostDeath
<1>2. QED
  BY <1>1, Invariance, PTL

\* What svstat reads is true whenever it may read it and the disk obeyed.
THEOREM StatusIsTrue == Spec => []StatusTrue
<1>1. IInv => StatusTrue
  BY DEF IInv, StatusInv, StatusTrue, Serving
<1>2. QED
  BY <1>1, Invariance, PTL

\* "paused" is said of exactly the services that are stopped.
THEOREM PausedIsTrue == Spec => []PausedTrue
<1>1. IInv => PausedTrue
  BY DEF IInv
<1>2. QED
  BY <1>1, Invariance, PTL

\* supervise does not exit over a service of its own.
THEOREM NothingIsLeft == Spec => []NothingLeft
<1>1. IInv => NothingLeft
  BY SuperviseAssumption DEF IInv, StartInv, ChildInv, NothingLeft
<1>2. QED
  BY <1>1, Invariance, PTL

-----------------------------------------------------------------------------

\* After svc -x no step starts a service.
THEOREM NoLateStart == Spec => NoStartAfterExit
<1>1. IInv /\ [Next]_vars
        => [flagexit /\ Running' => (pid' = pid \/ pid' = 0)]_vars
  <2> SUFFICES ASSUME IInv, [Next]_vars, flagexit
               PROVE  pid' = pid \/ pid' = 0
    OBVIOUS
  <2>1. CASE ForkOk
    BY <2>1 DEF ForkOk, IInv, StartInv
  <2>2. CASE ~ForkOk
    BY <2>2 DEF Next, Boot, Start, Reap, Command, Launch, Fresh, BootAnnounce,
       OpenOk, SleepEnd, ForkFail, Sleep60End, Enter, Top, AtTop, Handler,
       IopauseReady, IopauseTimeout, Wake, ReapChild, ReapStray, ReapNone,
       NoByte, Down, Up, Once, SendSignal, Pause, Continue, ExitWhenDown, Leave,
       Exit, Crash, Gone, Svc, Die, vars
  <2>3. QED
    BY <2>1, <2>2
<1>2. QED
  BY <1>1, Invariance, PTL DEF Spec, NoStartAfterExit

\* Every step of supervise is one that Service allows, or none of its business.
LEMMA ContractStep == IInv /\ [Next]_vars => [Promise!Next]_Promise!vars
<1> SUFFICES ASSUME IInv, [Next]_vars
             PROVE  [Promise!Next]_Promise!vars
  OBVIOUS
<1> USE SuperviseAssumption DEF IInv, TypeOK, StartInv, Running
<1>1. CASE Launch
  <2>1. Promise!Boot
    BY <1>1 DEF Launch, Fresh, Promise!Boot
  <2>2. QED
    BY <2>1 DEF Promise!Next
<1>2. CASE BootAnnounce \/ OpenOk
  <2>1. UNCHANGED flags /\ UNCHANGED pid /\ Running'
    BY <1>2 DEF BootAnnounce, OpenOk
  <2>2. CASE BootAnnounce
    BY <2>1, <2>2 DEF BootAnnounce, flags, Promise!vars
  <2>3. CASE OpenOk /\ flagwantup
    BY <2>1, <2>3 DEF OpenOk, flags, Promise!vars
  <2>4. CASE OpenOk /\ ~flagwantup
    BY <2>1, <2>4 DEF OpenOk, flags, Promise!vars
  <2>5. QED
    BY <1>2, <2>2, <2>3, <2>4
<1>3. CASE ForkOk
  <2>1. Promise!Start
    BY <1>3 DEF ForkOk, flags, Promise!Start
  <2>2. QED
    BY <2>1 DEF Promise!Next
<1>4. CASE ForkFail
  <2>1. Promise!GiveUp
    BY <1>4 DEF ForkFail, flags, Promise!GiveUp
  <2>2. QED
    BY <2>1 DEF Promise!Next
<1>5. CASE SleepEnd \/ Sleep60End \/ Enter \/ Top
  BY <1>5 DEF SleepEnd, Sleep60End, Enter, Top, AtTop, flags, kernel,
              Promise!vars
<1>6. CASE Handler \/ IopauseReady \/ IopauseTimeout
  BY <1>6 DEF Handler, IopauseReady, IopauseTimeout, Wake, flags, Promise!vars
<1>7. CASE ReapChild
  <2>1. Promise!Died
    BY <1>7 DEF ReapChild, AfterReap, flags, Promise!Died
  <2>2. QED
    BY <2>1 DEF Promise!Next
<1>8. CASE ReapStray \/ ReapNone \/ NoByte
  BY <1>8 DEF ReapStray, ReapNone, NoByte, flags, Promise!vars
<1>9. CASE Down
  <2>1. Promise!WantDown
    BY <1>9 DEF Down, Byte, Promise!WantDown, Promise!Listening
  <2>2. QED
    BY <2>1 DEF Promise!Next
<1>10. CASE Up \/ Once
  <2>1. Promise!WantUp
    BY <1>10 DEF Up, Once, Byte, StartIfDown, Promise!WantUp, Promise!Listening
  <2>2. QED
    BY <2>1 DEF Promise!Next
<1>11. CASE SendSignal \/ Pause \/ Continue
  <2>1. UNCHANGED flags /\ UNCHANGED pid /\ pc = "control" /\ pc' = "top"
    BY <1>11 DEF SendSignal, Pause, Continue, Byte
  <2>2. QED
    BY <2>1 DEF flags, Promise!vars
<1>12. CASE ExitWhenDown
  <2>1. Promise!WantExit
    BY <1>12 DEF ExitWhenDown, Byte, Promise!WantExit, Promise!Listening
  <2>2. QED
    BY <2>1 DEF Promise!Next
<1>13. CASE Leave
  BY <1>13 DEF Leave, flags, Promise!vars
<1>14. CASE Exit \/ Crash
  <2>1. Promise!Nobody'
    BY <1>14 DEF Exit, Crash, Gone, Fresh, Promise!Nobody
  <2>2. Exit => Promise!Quit
    BY <2>1 DEF Exit, Promise!Quit
  <2>3. Crash => Promise!Killed
    BY <2>1 DEF Crash, Promise!Killed
  <2>4. QED
    BY <1>14, <2>2, <2>3 DEF Promise!Next
<1>15. CASE Svc \/ UNCHANGED vars
  BY <1>15 DEF Svc, flags, vars, Promise!vars
<1>16. ASSUME NEW p \in Pids, Die(p)
       PROVE  [Promise!Next]_Promise!vars
  BY <1>16 DEF Die, flags, Promise!vars
<1>17. QED
  BY <1>1, <1>2, <1>3, <1>4, <1>5, <1>6, <1>7, <1>8, <1>9, <1>10, <1>11, <1>12,
     <1>13, <1>14, <1>15, <1>16 DEF Next, Boot, Start, Reap, Command

\* supervise implements the contract of Service.
THEOREM Refinement == Spec => Contract
<1>1. Init => Promise!Init
  BY DEF Init, Promise!Init, Promise!Nobody, Running
<1>2. QED
  BY <1>1, ContractStep, Invariance, PTL DEF Spec, Contract, Promise!Spec

(***************************************************************************)
(* svstat beside supervise.                                                *)
(***************************************************************************)

\* Every step of supervise either leaves the status file alone or puts the truth
\* into it: announce() comes with what it announces, and the end of a supervise
\* leaves the file.
LEMMA Announced ==
  ASSUME [Next]_vars
  PROVE  status' = status \/ Holds'
<1> USE DEF Holds, Running
<1>1. CASE Launch \/ Exit \/ Crash
  BY <1>1 DEF Launch, Exit, Crash, Gone, file
<1>2. CASE BootAnnounce \/ Enter \/ Leave
  BY <1>2 DEF BootAnnounce, Enter, Leave, announce
<1>3. CASE ForkOk
  BY <1>3 DEF ForkOk, announce
<1>4. CASE ReapChild
  BY <1>4 DEF ReapChild, AfterReap, announce
<1>5. CASE Down \/ Pause \/ Continue \/ ExitWhenDown
  BY <1>5 DEF Down, Pause, Continue, ExitWhenDown, announce
<1>6. CASE Up \/ Once
  BY <1>6 DEF Up, Once, StartIfDown, announce
<1>7. CASE OpenOk \/ SleepEnd \/ ForkFail \/ Sleep60End \/ Top \/ NoByte
  BY <1>7 DEF OpenOk, SleepEnd, ForkFail, Sleep60End, Top, NoByte, file
<1>8. CASE Handler \/ IopauseReady \/ IopauseTimeout \/ ReapStray \/ ReapNone
  BY <1>8 DEF Handler, IopauseReady, IopauseTimeout, Wake, ReapStray, ReapNone,
              file
<1>9. CASE SendSignal \/ Svc \/ UNCHANGED vars
  BY <1>9 DEF SendSignal, Svc, vars, file
<1>10. ASSUME NEW p \in Pids, Die(p)
       PROVE  status' = status
  BY <1>10 DEF Die, file
<1>11. QED
  BY <1>1, <1>2, <1>3, <1>4, <1>5, <1>6, <1>7, <1>8, <1>9, <1>10
     DEF Next, Boot, Start, Reap, Command

\* The steps of svstat are none of supervise's.
LEMMA Beside == [SvstatNext]_allvars => [Next]_vars
BY DEF SvstatNext, LookOk, ReadStatus, Meanwhile, allvars

LEMMA ReportStep ==
  ASSUME IInv, ReportTrue, [SvstatNext]_allvars
  PROVE  ReportTrue'
<1> USE DEF ReportTrue
<1>1. CASE LookOk
  <2>1. Holds
    BY <1>1 DEF LookOk, Ok, Serving, Holds, IInv, StatusInv
  <2> QED
    BY <1>1, <2>1 DEF LookOk
<1>2. CASE ReadStatus
  BY <1>2 DEF ReadStatus
<1>3. CASE Meanwhile
  <2>1. status' = status \/ Holds'
    BY <1>3, Announced DEF Meanwhile
  <2> QED
    BY <1>3, <2>1 DEF Meanwhile
<1>4. CASE UNCHANGED allvars
  BY <1>4 DEF allvars, svstat
<1> QED
  BY <1>1, <1>2, <1>3, <1>4 DEF SvstatNext

\* svstat (svstat.c:55-92) never reports what was not so while it ran.
THEOREM ReportIsTrue == SvstatSpec => []ReportTrue
<1>1. SvstatInit => Init /\ ReportTrue
  BY DEF SvstatInit, ReportTrue
<1>2. SvstatSpec => []IInv
  BY <1>1, Beside, Invariance, PTL DEF SvstatSpec, Spec
<1>3. IInv /\ ReportTrue /\ [SvstatNext]_allvars => ReportTrue'
  BY ReportStep
<1> QED
  BY <1>1, <1>2, <1>3, PTL DEF SvstatSpec
=============================================================================
