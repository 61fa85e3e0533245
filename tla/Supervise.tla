----------------------------- MODULE Supervise -----------------------------
(***************************************************************************)
(* One supervise process (supervise.c), the service it runs, the control   *)
(* FIFO that svc writes, the status file that svstat reads, and the kernel  *)
(* between them: SIGCHLD, which is blocked everywhere but around iopause(), *)
(* zombies, and process identifiers that are reused once reaped.            *)
(*                                                                          *)
(* pc is the place in the program.  supervise may be killed at any of them  *)
(* and started again; its memory is then lost and its children are nobody's.*)
(***************************************************************************)
EXTENDS Integers, Sequences, FiniteSets

CONSTANTS
  Pids,        \* process identifiers fork() hands out
  Strays,      \* those that may already be children when supervise is executed
  Requests,    \* what one svc writes: command bytes in the order of its options
  MaxControl,  \* bytes the control FIFO holds (bounds the model)
  ForkFails,   \* TRUE: fork() may fail
  DiskFails    \* TRUE: writing supervise/status.new or renaming it may fail

Commands == {"d", "u", "o", "a", "h", "k", "t", "i", "p", "c", "x"}

ASSUME SuperviseAssumption ==
  /\ 0 \notin Pids
  /\ Strays \subseteq Pids
  /\ Requests \subseteq Seq(Commands)
  /\ MaxControl \in Nat
  /\ ForkFails \in BOOLEAN
  /\ DiskFails \in BOOLEAN

VARIABLES
  pc,          \* where supervise is
  ret,         \* where trystart() returns to
  flagexit, flagwant, flagwantup,
  pid,         \* 0 means down
  flagpaused,
  status,      \* the contents of supervise/status
  fresh,       \* who wrote it: "stale" (an earlier supervise), "written"
               \* (this one, at its last announce) or "failed" (that one failed)
  control,     \* bytes in supervise/control
  selfpipe,    \* a byte is in the self-pipe
  sigchld,     \* SIGCHLD is pending
  proc,        \* what each process identifier is to supervise
  sent         \* signals in force on the service: "STOP" until continued

flags  == <<flagexit, flagwant, flagwantup>>
file   == <<status, fresh>>
kernel == <<proc, sent, sigchld>>
vars   == <<pc, ret, flags, pid, flagpaused, file, control, selfpipe, kernel>>

Running == pc \notin {"dead", "exited"}
Serving == Running /\ pc \notin {"boot", "ok"}   \* supervise/ok is open

\* (mutant) -t sends SIGQUIT.
Signal_Quit == [c \in {"a", "h", "k", "t", "i"} |->
                  CASE c = "a" -> "ALRM" [] c = "h" -> "HUP"
                    [] c = "k" -> "KILL" [] c = "t" -> "QUIT"
                    [] c = "i" -> "INT"]

Signal == [c \in {"a", "h", "k", "t", "i"} |->
             CASE c = "a" -> "ALRM" [] c = "h" -> "HUP" [] c = "k" -> "KILL"
               [] c = "t" -> "TERM" [] c = "i" -> "INT"]

Signals == {"ALRM", "HUP", "KILL", "TERM", "INT", "STOP"}

WantedUp   == flagwant /\ flagwantup
WantedDown == flagwant /\ ~flagwantup
Zombies    == {p \in Pids : proc[p] \in {"zombie", "strayzombie"}}

(***************************************************************************)
(* The status file.                                                        *)
(***************************************************************************)

\* What announce() packs into status[12..17] (the time stamp is left out).
Snapshot == [pid    |-> pid,
             paused |-> IF pid # 0 THEN flagpaused ELSE FALSE,
             want   |-> IF flagwant THEN IF flagwantup THEN "u" ELSE "d"
                                    ELSE "none"]

\* announce(): the file changes as a whole or, after a warning, not at all.
announce ==
  \/ status' = Snapshot' /\ fresh' = "written"
  \/ DiskFails /\ status' = status /\ fresh' = "failed"

Statuses == [pid : Pids \cup {0}, paused : BOOLEAN, want : {"u", "d", "none"}]

\* No supervise has ever announced anything.
Idle == [pid |-> 0, paused |-> FALSE, want |-> "none"]

(***************************************************************************)
(* Starting up: main().                                                    *)
(***************************************************************************)

\* Memory of a supervise that does not run, or has just been executed.
Fresh ==
  /\ flagexit' = FALSE /\ flagwant' = TRUE /\ pid' = 0 /\ flagpaused' = FALSE
  /\ control' = <<>> /\ selfpipe' = FALSE /\ sigchld' = FALSE
  /\ sent' = [p \in Pids |-> {}] /\ ret' = "top"

Init ==
  /\ pc = "dead" /\ ret = "top"
  /\ flagexit = FALSE /\ flagwant = TRUE /\ flagwantup = TRUE
  /\ pid = 0 /\ flagpaused = FALSE
  /\ status = Idle /\ fresh = "stale"
  /\ control = <<>> /\ selfpipe = FALSE /\ sigchld = FALSE
  /\ proc = [p \in Pids |-> "other"]
  /\ sent = [p \in Pids |-> {}]

\* Up to opening the control FIFO; flagwantup says whether ./down is absent.
Launch ==
  /\ ~Running
  /\ pc' = "boot"
  /\ Fresh
  /\ flagwantup' \in BOOLEAN
  /\ \E S \in SUBSET Strays :
       proc' = [p \in Pids |-> IF p \in S THEN "stray" ELSE "other"]
  /\ fresh' = "stale"
  /\ UNCHANGED status

\* (mutant) supervise/ok is opened before the first announce().
BootAnnounce_Late ==
  /\ pc = "boot"
  /\ pc' = "ok"
  /\ UNCHANGED <<ret, flags, pid, flagpaused, file, control, selfpipe, kernel>>

BootAnnounce ==
  /\ pc = "boot"
  /\ pc' = "ok"
  /\ UNCHANGED <<ret, flags, pid, flagpaused, control, selfpipe, kernel>>
  /\ announce

OpenOk ==
  /\ pc = "ok"
  /\ IF ~flagwant \/ flagwantup THEN pc' = "trystart" /\ ret' = "doit"
                                ELSE pc' = "doit" /\ UNCHANGED ret
  /\ UNCHANGED <<flags, pid, flagpaused, file, control, selfpipe, kernel>>

(***************************************************************************)
(* trystart(), with SIGCHLD blocked throughout.                            *)
(***************************************************************************)

ForkOk ==
  /\ pc = "trystart"
  /\ \E p \in {q \in Pids : proc[q] = "other"} :
       /\ pid' = p
       /\ proc' = [proc EXCEPT ![p] = "child"]
       /\ sent' = [sent EXCEPT ![p] = {}]
  /\ flagpaused' = FALSE
  /\ pc' = "sleep"
  /\ UNCHANGED <<ret, flags, control, selfpipe, sigchld>>
  /\ announce

SleepEnd ==
  /\ pc = "sleep"
  /\ pc' = ret
  /\ UNCHANGED <<ret, flags, pid, flagpaused, file, control, selfpipe, kernel>>

ForkFail ==
  /\ ForkFails
  /\ pc = "trystart"
  /\ pc' = "sleep60"
  /\ UNCHANGED <<ret, flags, pid, flagpaused, file, control, selfpipe, kernel>>

\* After the 60 seconds, trigger() wakes the main loop.
Sleep60End ==
  /\ pc = "sleep60"
  /\ pc' = ret
  /\ selfpipe' = TRUE
  /\ UNCHANGED <<ret, flags, pid, flagpaused, file, control, kernel>>

(***************************************************************************)
(* doit(): the main loop.                                                  *)
(***************************************************************************)

Enter ==
  /\ pc = "doit"
  /\ pc' = "top"
  /\ UNCHANGED <<ret, flags, pid, flagpaused, control, selfpipe, kernel>>
  /\ announce

\* (mutants) The service is not asked about; the test is not there.
AtTop_Hasty   == IF flagexit THEN "leaving" ELSE "iopause"
AtTop_Dropped == "iopause"

AtTop == IF flagexit /\ pid = 0 THEN "leaving" ELSE "iopause"

Top ==
  /\ pc = "top"
  /\ pc' = AtTop
  /\ UNCHANGED <<ret, flags, pid, flagpaused, file, control, selfpipe, kernel>>

\* (mutant) The handler does nothing.
Handler_Empty ==
  /\ pc = "iopause"
  /\ sigchld
  /\ sigchld' = FALSE
  /\ UNCHANGED <<pc, ret, flags, pid, flagpaused, file, control, selfpipe,
                 proc, sent>>

\* trigger() as the SIGCHLD handler: only between sig_unblock and sig_block.
Handler ==
  /\ pc = "iopause"
  /\ sigchld
  /\ sigchld' = FALSE
  /\ selfpipe' = TRUE
  /\ UNCHANGED <<pc, ret, flags, pid, flagpaused, file, control, proc, sent>>

\* (mutant) A control byte goes before the children.
Wake_Eager ==
  /\ pc = "iopause"
  /\ pc' = IF control = <<>> THEN "reap" ELSE "control"
  /\ selfpipe' = FALSE
  /\ UNCHANGED <<ret, flags, pid, flagpaused, file, control, kernel>>

\* iopause() is over: block SIGCHLD again, then empty the self-pipe.
Wake ==
  /\ pc = "iopause"
  /\ pc' = "reap"
  /\ selfpipe' = FALSE
  /\ UNCHANGED <<ret, flags, pid, flagpaused, file, control, kernel>>

Ready == selfpipe \/ control # <<>>

IopauseReady   == Ready /\ Wake
IopauseTimeout == ~Ready /\ Wake

(***************************************************************************)
(* The wait_nohang() loop.                                                 *)
(***************************************************************************)

\* (mutants) The test of flagexit or of flagwant is dropped, or that of
\* flagwantup is the wrong way round.
AfterReap_Anyway == IF flagwant /\ flagwantup THEN "trystart" ELSE "control"
AfterReap_Once   == IF flagexit THEN "leaving"
                    ELSE IF flagwantup THEN "trystart" ELSE "control"
AfterReap_Never  == IF flagexit THEN "leaving"
                    ELSE IF flagwant /\ ~flagwantup THEN "trystart"
                                                    ELSE "control"

AfterReap == IF flagexit THEN "leaving"
             ELSE IF flagwant /\ flagwantup THEN "trystart" ELSE "control"

ReapChild ==
  /\ pc = "reap"
  /\ pid # 0 /\ proc[pid] = "zombie"
  /\ pid' = 0
  /\ proc' = [proc EXCEPT ![pid] = "other"]
  /\ pc' = AfterReap
  /\ ret' = "control"
  /\ UNCHANGED <<flags, flagpaused, control, selfpipe, sigchld, sent>>
  /\ announce

ReapStray ==
  /\ pc = "reap"
  /\ \E p \in Zombies \ {pid} : proc' = [proc EXCEPT ![p] = "other"]
  /\ UNCHANGED <<pc, ret, flags, pid, flagpaused, file, control, selfpipe,
                 sigchld, sent>>

ReapNone ==
  /\ pc = "reap"
  /\ Zombies = {}
  /\ pc' = "control"
  /\ UNCHANGED <<ret, flags, pid, flagpaused, file, control, selfpipe, kernel>>

(***************************************************************************)
(* One control byte.                                                       *)
(***************************************************************************)

NoByte ==
  /\ pc = "control"
  /\ control = <<>>
  /\ pc' = "top"
  /\ UNCHANGED <<ret, flags, pid, flagpaused, file, control, selfpipe, kernel>>

Byte(c) ==
  /\ pc = "control"
  /\ control # <<>>
  /\ Head(control) = c
  /\ control' = Tail(control)
  /\ UNCHANGED <<selfpipe, proc>>

\* kill(pid,...) when pid is set; S is what is in force afterwards.  A child
\* that stops or continues raises SIGCHLD too (no SA_NOCLDSTOP).
Kill(S) ==
  IF pid = 0 THEN UNCHANGED <<sent, sigchld>>
  ELSE /\ sent' = [sent EXCEPT ![pid] = S]
       /\ sigchld' = (sigchld \/ (/\ proc[pid] = "child"
                                  /\ ("STOP" \in S) # ("STOP" \in sent[pid])))

\* (mutant) No SIGCONT.
Terminated_Asleep(S) == S \cup {"TERM"}

\* SIGTERM, then SIGCONT so that a stopped service gets to see it.
Terminated(S) == (S \cup {"TERM"}) \ {"STOP"}

Down ==
  /\ Byte("d")
  /\ flagwant' = TRUE /\ flagwantup' = FALSE
  /\ Kill(Terminated(sent[pid]))
  /\ flagpaused' = IF pid # 0 THEN FALSE ELSE flagpaused
  /\ pc' = "top"
  /\ UNCHANGED <<ret, flagexit, pid>>
  /\ announce

\* (mutant) The service is not asked about.
StartIfDown_Always == pc' = "trystart" /\ ret' = "top"

\* if (!pid) trystart();
StartIfDown == /\ pc' = IF pid = 0 THEN "trystart" ELSE "top"
               /\ ret' = "top"

Up ==
  /\ Byte("u")
  /\ flagwant' = TRUE /\ flagwantup' = TRUE
  /\ StartIfDown
  /\ UNCHANGED <<flagexit, pid, flagpaused, sigchld, sent>>
  /\ announce

Once ==
  /\ Byte("o")
  /\ flagwant' = FALSE
  /\ StartIfDown
  /\ UNCHANGED <<flagexit, flagwantup, pid, flagpaused, sigchld, sent>>
  /\ announce

SendSignal ==
  \E c \in DOMAIN Signal :
    /\ Byte(c)
    /\ Kill(sent[pid] \cup {Signal[c]})
    /\ pc' = "top"
    /\ UNCHANGED <<ret, flags, pid, flagpaused, file>>

Pause ==
  /\ Byte("p")
  /\ flagpaused' = TRUE
  /\ Kill(sent[pid] \cup {"STOP"})
  /\ pc' = "top"
  /\ UNCHANGED <<ret, flags, pid>>
  /\ announce

Continue ==
  /\ Byte("c")
  /\ flagpaused' = FALSE
  /\ Kill(sent[pid] \ {"STOP"})
  /\ pc' = "top"
  /\ UNCHANGED <<ret, flags, pid>>
  /\ announce

ExitWhenDown ==
  /\ Byte("x")
  /\ flagexit' = TRUE
  /\ pc' = "top"
  /\ UNCHANGED <<ret, flagwant, flagwantup, pid, flagpaused, sigchld, sent>>
  /\ announce

\* doit() has returned.
Leave ==
  /\ pc = "leaving"
  /\ pc' = "bye"
  /\ UNCHANGED <<ret, flags, pid, flagpaused, control, selfpipe, kernel>>
  /\ announce

\* The end of the process: its memory goes, the control FIFO dies with its
\* reader, and what children there are become somebody else's.
Gone ==
  /\ Fresh /\ flagwantup' = TRUE
  /\ proc' = [p \in Pids |-> "other"]
  /\ UNCHANGED file

Exit ==
  /\ pc = "bye"
  /\ pc' = "exited"
  /\ Gone

(***************************************************************************)
(* The rest of the world.                                                  *)
(***************************************************************************)

Crash ==
  /\ Running
  /\ pc' = "dead"
  /\ Gone

\* svc writes all its bytes at once, and finds no reader without a supervise.
Svc ==
  /\ Running
  /\ \E r \in Requests :
       /\ Len(control) + Len(r) =< MaxControl
       /\ control' = control \o r
  /\ UNCHANGED <<pc, ret, flags, pid, flagpaused, file, selfpipe, kernel>>

\* A process that is stopped dies of SIGKILL only.
Die(p) ==
  /\ \/ proc[p] = "child" /\ ("STOP" \in sent[p] => "KILL" \in sent[p])
        /\ proc' = [proc EXCEPT ![p] = "zombie"]
     \/ proc[p] = "stray" /\ proc' = [proc EXCEPT ![p] = "strayzombie"]
  /\ sigchld' = TRUE
  /\ UNCHANGED <<pc, ret, flags, pid, flagpaused, file, control, selfpipe,
                 sent>>

(***************************************************************************)
(* The specification.                                                      *)
(***************************************************************************)

Boot    == Launch \/ BootAnnounce \/ OpenOk
Start   == ForkOk \/ SleepEnd \/ ForkFail \/ Sleep60End
Reap    == ReapChild \/ ReapStray \/ ReapNone
Command == \/ NoByte \/ Down \/ Up \/ Once \/ SendSignal
           \/ Pause \/ Continue \/ ExitWhenDown
Program == \/ BootAnnounce \/ OpenOk \/ Start \/ Enter \/ Top \/ Handler
           \/ IopauseReady \/ Reap \/ Command \/ Leave \/ Exit

Next ==
  \/ Boot \/ Start \/ Enter \/ Top \/ Handler \/ IopauseReady \/ IopauseTimeout
  \/ Reap \/ Command \/ Leave \/ Exit \/ Crash \/ Svc \/ \E p \in Pids : Die(p)

Spec == Init /\ [][Next]_vars

\* supervise takes its steps, and a service dies of a SIGTERM or SIGKILL it was
\* sent.  Neither crashes nor commands nor deaths on its own need ever happen,
\* and nobody counts on the timeout of iopause().
Fairness ==
  /\ WF_vars(Program)
  /\ \A p \in Pids : WF_vars(sent[p] \cap {"TERM", "KILL"} # {} /\ Die(p))

FairSpec == Spec /\ Fairness

\* The timeout does happen, as poll() is given 1000 seconds at most, and fork()
\* succeeds if it is only tried often enough.
TimedSpec == FairSpec /\ WF_vars(IopauseTimeout) /\ SF_vars(ForkOk)

(***************************************************************************)
(* Properties.                                                             *)
(***************************************************************************)

Places == {"dead", "boot", "ok", "trystart", "sleep", "sleep60", "doit", "top",
           "iopause", "reap", "control", "leaving", "bye", "exited"}

\* Every variable has its type.
TypeOK ==
  /\ pc \in Places
  /\ ret \in {"doit", "control", "top"}
  /\ flagexit \in BOOLEAN /\ flagwant \in BOOLEAN /\ flagwantup \in BOOLEAN
  /\ pid \in Pids \cup {0}
  /\ flagpaused \in BOOLEAN
  /\ status \in Statuses
  /\ fresh \in {"stale", "written", "failed"}
  /\ control \in Seq(Commands)
  /\ selfpipe \in BOOLEAN /\ sigchld \in BOOLEAN
  /\ proc \in [Pids -> {"other", "child", "zombie", "stray", "strayzombie"}]
  /\ sent \in [Pids -> SUBSET Signals]

\* supervise knows its children: pid is its one living or unreaped service, so
\* no signal ever goes to a process identifier that has been given to somebody
\* else, and no second instance is started beside the first.
OwnChild ==
  {p \in Pids : proc[p] \in {"child", "zombie"}} = IF pid = 0 THEN {} ELSE {pid}

\* No death is slept through: when supervise goes to sleep over a dead service,
\* the signal is pending or the self-pipe is full, although SIGCHLD is blocked
\* elsewhere, signals of several deaths are merged, and the self-pipe is emptied
\* and a start or a command handled between two looks at the children.
NoLostDeath ==
  (pc = "iopause" /\ pid # 0 /\ proc[pid] = "zombie") => (sigchld \/ selfpipe)

\* What svstat reports is true: as long as supervise/ok is open and the last
\* announce() succeeded, the status file is that of this supervise, and of its
\* state now; a status left behind by an earlier supervise is never visible.
StatusTrue == (Serving /\ fresh # "failed") => status = Snapshot

\* flagpaused, and so svstat, says "paused" of exactly the services that are
\* stopped, whatever the order of pauses, terminations and restarts.
PausedTrue == (Running /\ pid # 0) => (flagpaused <=> "STOP" \in sent[pid])

\* supervise leaves no service behind when it exits by itself.
NothingLeft ==
  pc \in {"leaving", "bye"} =>
    \A p \in Pids : proc[p] \notin {"child", "zombie"}

\* Once svc -x was read, supervise only waits: no service is started any more,
\* whatever is wanted when the last one dies.
NoStartAfterExit == [][flagexit /\ Running' => (pid' = pid \/ pid' = 0)]_vars

\* A dead service is noticed, without the help of the timeout.
DeathNoticed == \A p \in Pids : proc[p] = "zombie" ~> proc[p] # "zombie"

\* svc -d brings the service down, a paused one too, unless it is countermanded.
DownObeyed ==
  (WantedDown /\ pid # 0)
    ~> (pid = 0 \/ ~WantedDown \/ flagpaused \/ ~Running)

\* svc -dx ends supervise, unless the service is wanted again or paused.
ExitObeyed ==
  (WantedDown /\ flagexit) ~> (~Running \/ ~WantedDown \/ flagpaused)

\* A service that is wanted up is up, or comes up: a start is attempted until it
\* succeeds, as the warning "unable to fork ..., sleeping 60 seconds" says.
KeptUp ==
  (WantedUp /\ pid = 0) ~> (pid # 0 \/ ~WantedUp \/ flagexit \/ ~Running)

\* supervise keeps the contract of Service (which says what it promises).
Promise == INSTANCE Service WITH
  life    <- IF Running THEN "running"
             ELSE IF pc = "exited" THEN "left" ELSE "lost",
  want    <- IF flagwant THEN IF flagwantup THEN "up" ELSE "down" ELSE "once",
  leaving <- flagexit,
  up      <- pid # 0,
  due     <- pc = "trystart" \/ (pc \in {"boot", "ok"} /\ flagwantup)

Contract == Promise!Spec
=============================================================================
