# A verification of daemontools

TLA+ models of daemontools 0.76 (`src/src`), checked with TLC and, where it
matters most, proved with TLAPS. Sources are cited as `supervise.c:146`, a
file of `src/src` and a line.

1. [The system](#1-the-system)
2. [What can go wrong](#2-what-can-go-wrong)
3. [Modules](#3-modules)
4. [Runs](#4-runs)
5. [Fairness](#5-fairness)
6. [Theorems](#6-theorems)
7. [Findings](#7-findings)
8. [What is not modelled](#8-what-is-not-modelled)
9. [Plan](#9-plan)

## 1. The system

daemontools keeps services running and writes their logs. It is a set of small
processes that know each other through the kernel only: parents and children,
signals, FIFOs, locks, pipes, and files that are replaced by `rename()`.

    svscanboot -> svscan | readproctitle
                    |
                    +--> supervise DIR  --> DIR/run   ---+
                    |        ^   |                       | pipe of svscan
                    |   svc -+   +-> status <- svstat    v
                    +--> supervise DIR/log --> multilog -> current, @...s

| part | state | operations | hard behaviour | correct when |
|---|---|---|---|---|
| **supervise** (`supervise.c`) | `flagexit`, `flagwant`, `flagwantup`, `pid`, `flagpaused`; control FIFO; self-pipe; `supervise/status`, `supervise/ok`, lock | start, main loop, reap, one control byte at a time, leave | SIGCHLD against the loop; deaths, commands and starts in any order; failing fork and disk; kill -9 and restart | one instance of the service; no death overlooked; status true; commands obeyed; nothing left behind |
| **svc**, **svok**, **svstat** | none | write control bytes; look for a reader of `ok`; read `status` | they race with supervise | what they say was true when they read it |
| **svscan** (`svscan.c`) | table `x[]`: device and inode, active, log, two pids, a pipe | scan every five seconds, start, reap, drop | directories renamed, removed, put back; half-done starts; full table; killed, with supervises left | one supervise for each directory and one for its log, joined by one pipe |
| **svscanboot** (`svscanboot.sh`), **readproctitle** | none; the pipe between svscan and readproctitle | `svc -dx` to all, then svscan; wait for readproctitle, which waits for the end of its input | what a killed svscan leaves holds the pipe; supervises of an earlier svscan that `svc -dx` misses, or that take their time | svscan comes back when nobody holds the pipe; the supervises are then its own |
| **multilog, input** (`multilog.c:434-595`, `buffer_get.c`, `buffer_put.c`) | two buffers, the line in between, flags of SIGTERM and SIGALRM | get a byte, put a line, flush, read, leave | signals against `read()`; lines longer than the buffer | no line torn, lost or held back |
| **multilog, cyclic logs** (`multilog.c:87-432`) | for each log `current`, `previous`, `processed`, `state`, `newstate`, archives; bits of their modes | write, rotate, run a processor, delete the oldest, recover at start, leave | killed, or the power off, between any two system calls; a processor that fails | no safe line lost but the oldest; archives in order and bounded; codes and marks true |
| **multilog, script** (`multilog.c:376-419, 486-595`, `match.c`) | `line[]`, `flagselected` for the line and for each log, the settings, two positions in `match()` | prepare the logs, match, put a line to logs, stderr and status files | `line[]` and flags used again for each line; long lines in two parts; stars against repeated characters | every output has the lines selected for it, whole |
| **envdir**, **pathexec** (`envdir.c`, `pathexec_env.c`) | what was read last, what is to be set, the new environment | read a file, set or remove a variable | files that vanish; removal while the array is walked | each variable once and right |
| **fghack**, **pgrphack**, **setlock**, **softlimit**, **envuidgid**, **setuidgid** | a process each | change something, then run a program | failures half-way | |
| **tai64n**, **tai64nlocal** | a buffer | stamp lines, convert stamps | odd input | a line that is no stamp passes unchanged |
| **pauses** (`deepsleep.c`, `iopause.c`, `taia_*.c`) | a deadline | read the clock, compute, `poll()` | a clock that is set, signals, carries and borrows, the doubles | a second is a second |
| **rest of the library** (`buffer_*`, `sig_*`, `lock_*`, `open_*`, ...) | | | | |

How they interact:

* *svscan and supervise*: svscan is the parent of two supervises for each
  directory and learns of their end by `wait_nohang()`. The lock
  `supervise/lock` makes a second supervise of one directory end. The pipe
  between a service and its log is made, kept and handed to both by svscan, so
  that it outlives either.
* *svc and supervise*: the FIFO `supervise/control`. All the bytes of one svc
  are written at once. svc without a supervise finds no reader.
* *supervise and its service*: `fork()`, signals, SIGCHLD. SIGCHLD is blocked
  everywhere but around `iopause()`; its handler writes to a self-pipe that
  `iopause()` watches.
* *supervise and svstat*: `supervise/status`, replaced by `rename()`; and
  `supervise/ok`, a FIFO whose open reader says that supervise runs.
* *multilog and its processor*: four descriptors; the processor reads
  `previous` and `state`, writes `processed` and `newstate`, and its exit code
  decides what happens.
* *multilog and the next multilog*: the directory, where the `x` bits of
  `current`, `previous` and `processed` say how far the last one got.

## 2. What can go wrong

`PROJECT.json` lists each hazard at its line with the properties that would
show it. In short:

* supervise: a death slept through; a signal to a process identifier in other
  hands; a service started twice, or after svc -x; a service that svc -d does
  not bring down because it is paused; a status file that lies; a failing
  fork() that is not made good (it is not, see [Findings](#7-findings)).
* multilog: each place in a rotation at which a kill or a power failure finds
  the files; marks that are set too early or taken back too late; a processor
  that is started again on half-done output; archives without end; a line torn
  by a signal or at the end of a file; a signal that is noticed too late;
  a processor that goes on when its multilog was killed. What `line[]` and the
  flags of the logs keep of the line before.
* svscan: a slot of the table that is dropped too early or never; two
  directories taken for one; the two halves of a service with different pipes;
  a start that fails half-way; supervises that an earlier svscan has left.
* pauses: the clock is set while one lasts; `poll()` returns just before the
  deadline, over and over; a borrow too few.

## 3. Modules

| module | models | composed with |
|---|---|---|
| `Service` | what supervise promises the user of svc | |
| `Supervise` | supervise with its service, svc, and the kernel between them | implements `Service` |
| `Svstat` | svok and svstat beside a supervise | extends `Supervise` |
| `SuperviseProofs` | theorems about `Supervise` and `Svstat` | |
| `CyclicLog` | what an automatically rotated log promises | |
| `Cyclog` | the directory of one log, multilog's steps in it, its processor, kills and power failures | implements `CyclicLog` |
| `CWrite` | `c_write()`, byte by byte: where `current` is full | `Cyclog` counts the same in lines |
| `CWriteProofs` | theorems about `CWrite` | |
| `CyclogProofs` | theorems about `Cyclog`, and that it implements `CyclicLog` | |
| `MultilogInput` | multilog from the pipe to the log's buffer, and its signals | |
| `MultilogInputProofs` | theorems about `MultilogInput` | |
| `Selection` | what the script of multilog does with settings and lines | calls `Match` |
| `Match` | `match()`, a subroutine | |
| `SelectionProofs` | theorems about `Selection`, and `Match` as it calls it | |
| `Svscan` | svscan, svscanboot, their children up to their lock, and the administrator | the children are `Supervise` in two states |
| `SvscanProofs` | theorems about `Svscan` | |
| `Environ` | envdir and `pathexec()` | |
| `EnvironProofs` | theorems about `Environ` | |
| `Deepsleep` | `deepsleep()`, `iopause()` and the time stamps below them | |
| `DeepsleepProofs` | theorems about `Deepsleep` | |
| `MC...` | values for the constants | |

### Supervise

`pc` is the place in `supervise.c`: `boot`, `ok` (252, 255-259), `trystart`,
`sleep`, `sleep60` (87-111), `doit`, `top`, `iopause`, `reap`, `control`
(113-206), `leaving`, `bye` (264-265). `dead` is a supervise that was killed or
never ran, `exited` one that ended by itself. One action stands for the code
between two places at which something else can come in between, and contains
every `announce()` on its way. The flags and `pid` have their names in the code.

The kernel: `proc` is what each process identifier is to this supervise (its
living `child`, its `zombie`, a `stray` that was there before the exec, or
somebody else's: `other`); `sent` the signals in force on a process; `sigchld`
whether SIGCHLD is pending, and `selfpipe` whether the self-pipe has a byte.
`Handler` can run at `iopause` only. `Kill` raises SIGCHLD when it stops or
continues a process, as the handler is installed without `SA_NOCLDSTOP`.

`Launch` is the exec: `./down` may be there or not, and strays may be
inherited. `Crash` is kill -9 anywhere. After it the memory is lost, and so is
what the kernel knew of the children: a service that goes on without its
supervise is no longer this module's, as the code has no means to find it.

`status` holds what svstat prints, `fresh` who wrote it and whether the last
`announce()` succeeded. The 12 bytes of time are left out. All of svc's bytes
come in one `Svc`, because svc has one buffer for them and one `write()`.

`Service` has five variables and no processes. `Promise` in `Supervise` says
which of its states a state of supervise stands for: `want` is `flagwant` and
`flagwantup` together, `due` is that supervise is at `trystart` or on its way
from the start to it.

### Svstat

svstat looks at `supervise/ok` (`LookOk`), then reads `supervise/status`
(`ReadStatus`); svok stops after the first. Between the two anything may happen
(`Meanwhile` is a step of `Supervise`, kill -9 and a restart among them). What
it says depends on the status as `Said` has it: `paused` and `want down` are
said of a running service only, `want up` of one that is down. `held` is a
history: whether what the status file now says was so, since svstat looked, of a
running supervise.

### Cyclog and CWrite

`files` has a record for `current`, `previous` and `processed`: whether it is
there, its lines, how many of them are on disk for certain, and the `x` bit of
its mode. `archives` are the files `@timestamp.s` and `.u` by age. `linked` is
the file that has its second name already, between `link()` and `unlink()` of
`finish()` (161, 163). `state` and `newstate` are the number of the last line
that the processor knew of when it wrote them, or -1.

Every system call that changes the disk is an action, so that `Kill` and
`Outage` come between any two. `Outage` cuts each file down to at least what
was synced, a file with two names in one way for both. A call that fails is
tried again after a pause (`pause3`, `pause5`), so that its failure is a step
that changes nothing. `finish()` is called from four places; `fin` holds its
arguments and where it goes on, as a stack of one call. `script` says whether
the runs of this log have a processor: all of them, or some (`./run` is edited).

`Process(k)` is a processor that has copied k lines. `ProcessFails` is one that
ended otherwise than with 0 after any k; `open_trunc()` starts the next one
from an empty `processed`. When multilog is killed while it waits for its
processor, that goes on: `orphan` has those of its two files that it has still
under their names, and `OrphanWrites` can come at any time until the next
multilog unlinks them. An orphan that has not opened its files yet when the next
multilog starts is not in the model.

`Cyclog` counts lines and lets `write()` end at a line end or not; `CWrite` has
the arithmetic that decides it: `Room` is `multilog.c:280-281`, `Cut` is 283-287,
`Write` adds that `write()` may take less than it is given. `chunk` is what
`allwrite()` still has to write, `col` the length of the unfinished line at the
end of `current`, `torn` how much of a line was in the last `current` that was
rotated for having no room (0: none was torn).

`CyclicLog` has the lines that can be read and, of those, the ones that would
survive a power failure. `Promise` in `Cyclog` computes both from the files.

### MultilogInput

The pipe is the sequence `text`, TRUE for a newline. What has come how far is
counted: `taken` from the pipe, `got` from the input buffer, `put` into the
log's buffer, `written` to `current`, `rotated` into archives. `linelen` is
what `doit()` holds in `line[]`. `pc` follows `doit()` (`get`, `end`),
`flushread()` (`flush`, `rotate`, `ask`, `unblocked`, `read`) and the end
(`quit`, `done`). Signals are delivered in two places only: between the
unblocking and `read()`, where nobody asks for the flags any more
(`HandleEarly`), and in `read()` (`HandleInRead`), which then fails with EINTR
unless it had something to return.

### Selection and Match

`script` and `text` are chosen in `Init`. `Prepare` is a time round the loop of
`c_init()` (397-418): a log gets the settings before it. `GetByte` fills `line[]`
up to `LineSize` (1000); then each action of the script has its TLA+ action
(`Skip`, `CallMatch`, `ToStderr`, `ToStatus`, `ToLog`), `PutLine` gives the
beginning of the line to the logs that have selected it, `LongByte` the rest of
a long one, byte by byte, `EndLine` the newline, and clears `line[]`. `c` has for
each log its settings, its flag, and in `ss` what was put into its buffer.

`+` and `-` call `match()` (`Call`), which goes through `Match` one time round a
loop at a time (`InMatch`) until it returns (`Matched`). `Matches` is the
definition by pieces of the line that `Verdict` compares it with: it chooses a
cut of the line without looking at the order in which the code walks.
`ScriptObeyed` compares the outputs with a definition by the last action that
matches a line (`Selected`), which does not know of flags or of parts of lines.
A line is named by the place `s` of its first byte in the text, an action by its
place `k` in the script; `Share(k)` are the lines that k is to get. That a log
has its share and nothing else is said byte by byte: byte x of the line s comes
behind all bytes of the lines of the share before s (`Ahead`), and there are no
more bytes than those. stderr is shared by all actions `e`, which take turns with
each line (`Sooner`, `Said`).

A time stamp is one byte, `Stamp`, where the code has 26. A `=` file that cannot
be written is tried again after a pause, which changes nothing.

### Svscan

`at` is the directory each name leads to, a record of device and inode; `x` the
table; `todo` the names that `readdir()` has still to return. `OpenDir` is
`svscan.c:143-164` (reaping, clearing the active flags, `opendir()`), `Start`
one call of `start()` that gets past line 59 with both forks, `PassOver` one
that returns before that, `EndOfDir` the end of `readdir()`. Then, at `sweep`,
`Drop` is a time round the loop of 178-190 that finds a slot to drop, with its
replacement by the last (`Without`), and `Sleep` the end of the loop.

A child is `forked` until it has done its `chdir()` and taken its lock
(`Settle`), as it finds its directory by the name it was given; then it is `up`
and `Supervise` has the rest. The administrator makes names, removes them and
makes them again for another directory, and adds `log`.

`Kill` is the death of svscan: the table and the pipes that only svscan held are
gone, and the children belong to init (`mine` says that a process is a child of
the svscan that runs). `pc` is then `dead`, and there is no svscan. It was the
left side of a pipe to readproctitle (`svscanboot.sh:10-11`), and every
supervise, and every service that has not turned its standard error away, was
given the writing end; readproctitle ends only when it reads the end of its
input (`readproctitle.c:18-26`), and the shell waits for it. `Held` says that
somebody has that end: a process with `err`, or a service that has lost its
supervise or is in the background (`stray`; it is of interest only while `pc` is
`dead`, so that `Kill` leaves open whether there is one). While `Held`,
svscanboot waits. Supervises go on, and if one is killed then, **nothing starts
it again** until all the others, and the services without one, have ended.
`Boot` is the end of readproctitle and of the shell, and `init`, whose `respawn`
(`package/boot.inittab`) starts svscanboot from its beginning; `Cut` is the same
after an administrator, who finds that nothing moves, has killed the shell or
readproctitle. `package/boot.rclocal` starts svscanboot once, and then svscan does
not come back at all (the mutant `Boot_Once`).

`Again` is where both lead: a new pipe for errors, and the names that the shell
finds for `svc -dx`, in `todo`. `Tell` is `svc -dx` for one name and its log. It
reaches a supervise that listens in the directory the name leads to now
(`told`); one that is only `forked`, or whose directory has lost its name, it
misses. `Launch` is the start of the next svscan.

### Environ

`dir` has, for each name, the state of its file: a text, none, not readable, or
`gone` (removed after `readdir()`, or a link to nothing). `ReadFile` is a time
round the loop of envdir (56-76): `OpenReadClose` what it reads, `Value` what it
makes of it, `PathexecEnv` what is to be set; `sa` stays as it is when a file is
gone, as `openreadclose()` does not touch it (`openreadclose.c:13`). `EndOfDir`,
`Overlay` and `Run` are `pathexec()`: a copy of the environment, one setting
after the other, `pathexec_run()`. Names have no `=`.

### Deepsleep

A time stamp is a record of seconds, nano- and attoseconds as in `taia.h`;
`Wrap`, `Word` and `Giga` are 2^64, the values of an unsigned long and 10^9, so
that the carries of `TaiaAdd` and the borrows of `TaiaSub` are those of the
unsigned arithmetic. `MillisFor` is the double of `iopause.c:20-21`: exact, but
that a whole number of milliseconds that is no whole number of seconds may come
out one lower. `Call` and `Loop` are `deepsleep()`, `Iopause` the `poll()` of
`iopause()` without descriptors; the variant with `select()` is not modelled.

The world: time passes in the steps of `gettimeofday()` while `poll()` waits
(`Tick`), which returns when its time is over, up to `Late` steps later
(`PollEnds`), or at a signal (`Interrupted`). `SetClock` sets the clock. How far
is counted in `forward` and `back`, which `InTime` takes into account. The
seconds of the clock do not wrap.

## 4. Runs

Each run asks one question. Every property has a mutant: a definition changed
as a slip in the code would change it (in the module, beside the definition,
marked `(mutant)`), under which the run fails. Deadlock is checked but where
the program ends.

| run | module | states | what it shows |
|---|---|---|---|
| `supervise_safety` | `MCSupervise` | 697,271 | whatever svc, the service, fork(), the disk and kill -9 do: `OwnChild`, `NoLostDeath`, `StatusTrue`, `PausedTrue`, `NothingLeft`, `NoStartAfterExit`, and `Contract` with `Service` |
| `supervise_live` | `MCSupervise` | 277,533 | with a fork() that works: `DeathNoticed`, `DownObeyed`, `ExitObeyed`, `KeptUp` |
| `supervise_forkfail` | `MCSupervise` | (violated) | with a fork() that fails once, `KeptUp` does not hold |
| `cyclog_crash` | `MCCyclog` | 448,755 | kills and power failures at any point, processors that outlive their multilog, runs with and without one: `SafeMeansSafe`, `MarkMeansDone`, `CleanMark`, `InOrder`, `Bounded`, `StateMatches`, and `Contract` with `CyclicLog`; and rotations end: `Recovers` |
| `multilog_lines` | `MCMultilogInput` | 567,517 | bytes, signals and the end of input in any order: `CleanExit`, `NothingHeldBack`, `RotatedBetweenLines`, `TermEndsWait` |
| `multilog_alarm` | `MCMultilogInput` | (violated) | `AlarmObeyed` does not hold |
| `cwrite_bytes` | `MCCWrite` | 15,336 | sizes and short writes: `TypeOK` (the size of current), `WholeLines`, `Taken` |
| `selection_all` | `MCSelection` | 1,856,279 | `Verdict` for all short patterns and lines, `ScriptObeyed` for scripts of several actions |
| `environ_all` | `MCEnviron` | 782,510 | all small directories and environments: `TypeOK` (values, the number of strings), `EnvironmentRight` |
| `deepsleep_clock` | `MCDeepsleep` | 1,334,583 | pauses longer and shorter than one `poll()`, signals, a clock that is set: `InTime` (that no `poll()` is longer than its cap is proved, as `Typed`) |
| `svscan_safety` | `MCSvscan` | 753,849 | names that move, children that end, calls that fail: `TypeOK` (the table's size), `KnownChildren`, `PipeShared`, `StartedInSlot` |
| `svscan_live` | `MCSvscan` | 148,974 | svscan killed twice, with supervises left that keep svscanboot waiting, and that `svc -dx` reaches or misses: `Supervised`, `Drained` |

Bounds, and why they are enough:

* **supervise**: two process identifiers, so that one can be given to somebody
  else while the other is supervise's, and one can be used again. They are alike
  but for the inherited one: `supervise_safety`, which has none, uses them as a
  symmetry set; the runs with liveness have no symmetry. `MaxControl` is what
  the FIFO holds at a time, not how many commands there are: commands come
  without end in every run. In `supervise_safety` it is one, and every sequence
  of commands is reached byte by byte; `t` stands for the signals `a h i` also,
  which one line of code each treats alike. `supervise_live` has two, with the
  combination `svc -dx` and with `k`, and a stray child, which the wait loop
  meets.
* **cyclic logs**: n2, the least `multilog.c:405` allows; three lines make a
  current full, so that it can be rotated early, late, and by SIGALRM with one
  line; six lines make more archives than fit; three kills or outages let a crash
  fall into the recovery from a crash into the recovery from a crash. The
  theorems hold for every n, size, and number of lines and crashes.
* **c_write**: size 9, margin 4, five bytes at a time: a chunk is longer than
  the margin, lines are longer than a chunk, several chunks fill a file. The
  theorems hold for all sizes.
* **input**: two bytes of a line are looked at (1000 in the code), three bytes
  are read at a time (1024), six come; so there are lines that are shorter than,
  as long as, and longer than what is looked at, and one `read()` may
  return parts of several lines. Two signals, of either kind.
* **selection**: patterns of up to four characters of two letters and a star
  (four are two stars with something between and after them), against all texts
  of four bytes of letters and newlines; patterns of three against lines with
  stars. Scripts of two patterns with a status file, a log, stderr and a second
  log, some with a second `e`, against all texts of five bytes, with lines of four
  looked at: so lines
  are shorter than, as long as, and longer than what is looked at, and end with
  a newline or with the text. Numbers below, between and above their bounds.
* **environ**: two names; files of up to two bytes, letters, spaces, newlines
  and NULs; old environments of up to three strings, so that a removed string
  is the first, the last, the only one, or there twice.
* **svscan**: a table of two for three directories, so that it is full; two
  directories with one inode number on two devices; names that move between
  directories; four process identifiers: for two services, the log of one, and
  one that is not reaped yet. `svscan_live` has one name and one directory with
  a log, in a table of one, and kills svscan twice: with four process
  identifiers the supervises of the svscan before are there while those of the
  next are started, and fork() fails for the want of identifiers. Two kills,
  because the second finds supervises of three kinds: those of this svscan,
  which hold the pipe of readproctitle, and those of the one before, which were
  told to end or were missed, and hold another.
* **pauses**: a second has four units of `poll()` and eight steps of the clock,
  a `poll()` is cut at two seconds; pauses of none, one and three seconds are
  below and beyond that. The clock begins anywhere in a second, and is set once,
  to anywhere in 0..12, before or behind. The seconds of
  the time stamps are wide enough for the clock and the deadline
  (`ClockAssumption`), as the 64 bits of the code are; that `taia_sub()` is right
  at their turn as well is no matter of this run, but of `SubUndoesAdd`
  (section 6).

## 5. Fairness

What is assumed, and why the code justifies it:

* `Supervise!FairSpec`: supervise takes its steps, for none of them waits for
  anything but `iopause()`, and that returns when a descriptor is readable
  (weak fairness of `Program`, which has `IopauseReady` and not
  `IopauseTimeout`). A service that has received SIGTERM or SIGKILL and is not
  stopped dies: this is what svc -d counts on, and a service that ignores
  SIGTERM is not brought down by it. Nothing makes a service die otherwise, svc
  come, or supervise be killed. `DeathNoticed` thus owes nothing to the timeout
  of 1000 seconds or to commands that happen to come.
* `Supervise!TimedSpec` adds what speaks for the code in `supervise_forkfail`:
  the timeout happens, and fork() succeeds if it is tried again and again.
* `Cyclog!FairSpec`: multilog goes on with a recovery or rotation it has begun
  (weak fairness of `Restart \/ Finishing \/ FullCurrent`);
  a processor that is started again and again ends well at last (strong
  fairness of `ProcessDone`, `multilog.c:231-246` repeats it for ever).
* `CWrite!FairSpec`: `write()` goes on; it takes at least one byte, or is
  repeated.
* `MultilogInput!FairSpec`: multilog goes on. Neither writer nor signals have
  to come, nor the pipe to be closed.
* `Svscan!FairSpec`: svscan goes on (weak fairness of `PassOver`, `Drop` and
  `Sleep`) and children get to their lock. When nobody holds the pipe of
  readproctitle any more, that reads the end of its input, and init starts
  svscanboot again, which goes on to the next svscan (weak fairness of `Boot`,
  `Tell` and `Launch`): this is what `respawn` in `boot.inittab` is for. That
  the shell is killed (`Cut`) is not promised, nor that a service without a
  supervise ends. `opendir()`, the whole of
  `readdir()`, and both forks for a name work at last if they are tried for
  ever, as every scan tries them (strong fairness of `OpenDir`, `EndOfDir` and
  `StartBoth`). A supervise that was told to exit does so when its service dies
  (`Supervise` has `ExitObeyed`). No other supervise has to die, no
  administrator to act.

## 6. Theorems

All are checked by TLAPS for every value of the constants that satisfies the
modules' assumptions: any set of process identifiers, any requests, any sizes.

**`SuperviseProofs`** assumes `SuperviseAssumption` (0 is no process
identifier; commands are those of svc). The properties are not inductive by
themselves: nothing in "pid is the one child" says that `trystart()` is not
reached with a service running, and nothing in "no death is slept through" says
what holds before the sleep. `IInv` has the missing parts:

* `StartInv`, what is known of `pid` and `flagexit` at each place: a start is
  attempted only with the service down and supervise to stay; below the top of
  the loop, `flagexit` means that there is a service still;
* `ChildInv`, the only process that is `child` or `zombie` is `pid`;
* `WakeInv`, an unreaped service has its wake-up on the way at *every* place:
  SIGCHLD pending, the self-pipe full, or the program in the wait loop already.
  This is what the order of block, drain and reap in 139-146 is for;
* `StatusInv`, from the first `announce()` on the file is this supervise's, not
  only while `supervise/ok` is open;
* `TypeOK` and `PausedTrue`, which are inductive with the rest.

There is a lemma for each part (`TypeStep`, `StartStep`, `ChildStep`,
`WakeStep`, `StatusStep`, `PausedTrueStep`), with a case for each action.

| theorem | says |
|---|---|
| `TypeCorrect` | `[]TypeOK` |
| `OneChild` | `[]OwnChild` |
| `DeathsAwaken` | `[]NoLostDeath` |
| `StatusIsTrue` | `[]StatusTrue` |
| `PausedIsTrue` | `[]PausedTrue` |
| `NothingIsLeft` | `[]NothingLeft` |
| `NoLateStart` | `NoStartAfterExit` |
| `Refinement` | `Contract`: every step of supervise is one of `Service`, or none |

**`CWriteProofs`** assumes `CWriteAssumption` (the margin is less than the size:
2000 and at least 4096 in the code). That a full current tears no line of less
than the margin is not inductive: `write()` may take less than it is given, and
stop behind a newline that is in the margin, but before the last one, up to
which `c_write()` wanted to write. `Owed` is what is then still owed: if a line
begins in the margin of current, then `chunk` has a newline for which there is
room, so that the next `write()` that ends in the margin can end with a line.

| theorem | says |
|---|---|
| `FileBounded` | `[]TypeOK`: current never has more than `Size` bytes |
| `LinesAreWhole` | `[]WholeLines` |

**`Svstat`**, also in `SuperviseProofs`: `ReportTrue` follows from `StatusTrue`, from the fact that a
supervise that is killed takes `supervise/ok` with it, and from the order in
which the next one writes its status and opens `ok`: whatever the file says while
svstat is between its two steps was true when it was written, or when svstat
looked. No run checks `Svstat`, which adds a reader to the states of
`supervise_safety` and nothing to what supervise does: the theorem is what is
said of it.

| theorem | says |
|---|---|
| `ReportIsTrue` | `[]ReportTrue` |

**`EnvironProofs`** assumes `EnvironAssumption` (environments are sequences of
settings). `IInv` has what `EnvironmentRight` does not say of the way there:
`plus` has each name that was read once and with what its file says (`PlusInv`),
and after `done` settings, `e` is the old environment but for the names among
those (`OverlayInv`). `WithoutOne` and `WithOne` are the two halves of a time
round the loop of `pathexec()`: dropping a string and putting the last in its
place disturbs no other name. For `TypeOK` the strings must be counted: `e` has
no more of them than the old environment and the settings done so far.

| theorem | says |
|---|---|
| `EnvironIsRight` | `[]EnvironmentRight` |
| `TypeCorrect` | `[]TypeOK`: values are whole, and no more strings are written than `pathexec()` has made room for |

**`CyclogProofs`** assumes `CyclogAssumption` (n is at least 2, and a size is
positive). `IInv` has three parts. `Types` is `TypeOK` and that no file has more
lines than were written. `Notes` says what is true of the files at each place:

* `Stages` and `Finishes`, which of the three files are there, in sync, or
  copies of each other, at each step of the recovery, of a rotation and of
  `finish()`;
* `MarkCurrent` and `MarkDone`, what the `x` bits say *and where the program may
  be when one is set*: `CleanMark` alone would let a rotation begin with the
  mark of the last clean exit on;
* `Links`, a file with two names is the newest archive, and the next that
  `finish()` comes to; without it, a crash between `link()` and `unlink()`
  could archive a file twice;
* `Orphans`, an orphan writes only while nothing counts on `processed`;
* `Sizes`, `Vacant` (what a missing file looks like), and `SafeMeansSafe`.

`Order` is `InOrder`, and that no line has a number beyond the last written.

For `StateMatches` (`FedInv`) the lines that the processor has not seen are
followed through a rotation: while multilog collects them they are `current`,
and after the rename `previous`; either begins with the line behind `state` and
ends with the last one written (`Continues`), or is empty, with nothing left to
see. Once the processor has ended, `newstate` is that last line (`Keeping`), and
stays so until it is `state`. What a crash leaves is judged by one bit: an
`x` on `current` says that it still continues `state`, and without it the
recovery removes `state` before anything else is written. `Emptied` is what
makes the induction close: where `current` has no line although a rotation
begins, `Continues` would be satisfied by nothing.

For the refinement two things more have to be known (`RInv`): `HalfDone`, a
`processed` that does not count has only lines that `previous` has, and `previous`
is on disk, so that unlinking the one or overwriting it loses nothing; and
`Twins`, both names of a file are equally synced. Each action then either leaves
the readable and the secure lines alone, adds the line just written, makes
more of them secure, loses lines in an outage that were not secure, or removes
the oldest archive; the last is a step of `CyclicLog` because the lines of an
archive are before all others (`InOrder`), where the least line that remains is
found with the well-foundedness of the natural numbers.

| theorem | says |
|---|---|
| `TypeCorrect` | `[]TypeOK` |
| `SafeIsSafe` | `[]SafeMeansSafe` |
| `MarkIsTrue` | `[]MarkMeansDone` |
| `CleanIsClean` | `[]CleanMark` |
| `StaysBounded` | `[]Bounded` |
| `KeepsOrder` | `[]InOrder` |
| `StateIsRight` | `[]StateMatches` |
| `Implements` | `Contract`: every step is one of `CyclicLog`, or none |

**`MultilogInputProofs`** assumes `InputAssumption`. `IInv` has `TypeOK`, and what
the counts say of the bytes: `Line`, the bytes that `linelen` counts are the
last of a line; `Emptied`, what is written at each place; `Newline`, the flag is
about the last byte that was read; `Leaving` and `Quitting`, on the way out; and
that what is rotated ends a line, or lies in a long one (`Cut`).

| theorem | says |
|---|---|
| `TypeCorrect` | `[]TypeOK`: `line[]` is never written beyond its end |
| `EndsClean` | `[]CleanExit` |
| `HoldsNothing` | `[]NothingHeldBack` |
| `RotatesClean` | `[]RotatedBetweenLines` |

**`SvscanProofs`** assumes `SvscanAssumption`. That two services do not share a
pipe depends on what `KnownChildren` says of the processes, and the other way
round `KnownChildren` depends on a directory having one slot. `IInv` has
`TypeOK`; `Named` (a child on its way has a name); `OneSlot`; `Piped` (the pipe of
a slot is that of its living children, and of no other slot); `Found` and `Ours`,
the two halves of `KnownChildren`. `FreshPipe` shows that there is always a pipe
that is not in use, by counting.

| theorem | says |
|---|---|
| `TypeCorrect` | `[]TypeOK`: the table is not written beyond its end |
| `ChildrenKnown` | `[]KnownChildren` |
| `OnePipe` | `[]PipeShared` |
| `RightSlot` | `StartedInSlot`: from `OneSlot`, and what one `start()` does |

**`DeepsleepProofs`** assumes `DeepsleepAssumption`, the widths of the numbers,
of which the code has 2^64, 10^9, and 10^6 steps of 1000 nanoseconds; and
`ClockAssumption`: what the clock can show before the pause ends fits into the
seconds of a time stamp, which have 64 bits, so that the pause does not run
into the year 10^11.

For `InTime` the proof leaves time stamps for the clock's own steps. `Due` is the
step that `deadline` stands for, computed from what has passed and how the clock
was set; `AddNow`, `SubNow` and `LessNow` say that the three functions on time
stamps do on `TaiaNow(c)` what `+`, `-` and `<` do on c, and `MillisNow` that the
milliseconds that `poll()` gets are at least what is left (but for its cap), and
not more than the slack above it. `DueInv` has: no setting of the clock moves the
deadline (`Deadline`); a `poll()` waits for its whole cap or past the deadline
(`Polling`), so that after k calls at least k caps have passed, or the pause is
over, which bounds the calls (`Few`).

| theorem | says |
|---|---|
| `Typed` | `[]TypeOK`: no `poll()` is longer than its cap |
| `PausesInTime` | `[]InTime` |
| `SubUndoesAdd` | `taia_sub()` takes away what `taia_add()` added, with all carries and borrows |
| `LessIsOrder` | `taia_less()` is a strict total order |

**`SelectionProofs`** assumes `SelectionAssumption`: scripts, patterns and texts
are sequences of any length over any bytes. A pattern that matches has a cut of
the line, a function that says where the piece of each character begins.
`MatchInv` says how `match()` finds it without going back. Between two characters
(`Between`) there is a cut of what is behind, and *every* cut of the whole line
comes by the place where `match()` is; behind a star (`Searching`) every cut has
the star begin where it did, and none has it end before the byte that is
looked at. So when `match()` gives up, no cut is left. `SelectionInv` adds that
each call gets a pattern of the script and bytes of `line[]`, which is never
written beyond its end (`LineHeld`).

`ScriptObeyed` speaks of the end only, and needs to know what is due at every
step. `ObeyInv` says that multilog is at some line s of the text, or behind the
last one (`At(s)`): how far the text has been read (`Position`); that `line[]` has
the line so far, and nothing of another (`LineRight`); that the flag is what the
actions before i make of the line, and that each log before i has been told so
(`Choice`); that each log has the lines of its share before s, and of s as much
as was put (`LogsAt`, by `Holds`, which grows with each `buffer_put()`: `HoldsMore`,
and from line to line: `HoldsNext`); that a status file has the last line that it
was given (`StatusAt`), and stderr all that was said (`ErrAt`); `SettingsAt` has the
logs that `c_init()` has prepared so far. Each action of the model keeps each of
these (`InitSteps` to `EndLineStep`); the actions of the script go by `SelectedNext`,
which is where `Verdict` is used. That no two logs share a place in `c` is
`PlaceOrder`.

| theorem | says |
|---|---|
| `VerdictIsRight` | `[]Verdict` |
| `ScriptIsObeyed` | `[]ScriptObeyed` |

Only model-checked: all liveness (`DeathNoticed`, `DownObeyed`, `ExitObeyed`,
`KeptUp`, `Recovers`, `TermEndsWait`, `Taken`, `Supervised`, `Drained`): TLAPS does
not reason about fairness with ENABLED. Every invariant and every action property
that a run checks is stated by a theorem.

## 7. Findings

**A failed fork() is not made good** (`supervise_forkfail`). `trystart()` warns
"unable to fork for DIR, sleeping 60 seconds", sleeps, wakes the main loop with
`trigger()` (`supervise.c:97`) and returns. The loop then finds no child of its
own to reap, and calls `trystart()` only after reaping one (146-152) or for the
bytes `u` and `o`. So a service that is wanted up stays down, with `want up` in
its status, until somebody types svc -u.

**SIGALRM can wait for input** (`multilog_alarm`). `flushread()` looks at
`flagforcerotate` (`multilog.c:454`) and `flagexitasap` (462), unblocks the
signals (467-468), and reads (470). A signal that was pending is handled
between the two, and `read()` then waits: the rotation comes with the next
bytes, the exit after SIGTERM likewise. `CHANGES:56-57` says "multilog accepts
ALRM to immediately rotate all cyclic logs". `TermEndsWait` shows that a signal
that finds multilog in `read()` is obeyed at once.

**A variable can get the value of another one** (no run of its own). If a file
in the directory of envdir cannot be opened because it is not there (it was
removed after `readdir()`, or is a link to nothing), `openreadclose()` returns 0
and leaves `sa` alone (`openreadclose.c:13`), and envdir takes only -1 for an
error (`envdir.c:57`): the variable is set to the value of the file before, with
a newline behind it, or removed if there was none or it was empty. `ReadFile`
has this; `EnvironmentRight` and its theorem are about the other names.

**A killed svscan does not come back beside what it left** (no run of its own;
nothing in the repository says otherwise). The shell of svscanboot waits for
readproctitle, and that for the last process that holds its pipe
(`svscanboot.sh:10-11`, `readproctitle.c:18-26`). As long as one supervise, or a
service that kept its standard error, goes on, no supervise that dies is started
again. `Supervised` has this as its exception `Waiting`, and says that all is
well again once they have ended or the shell is killed; without the exception
TLC finds a counterexample of two steps.

## 8. What is not modelled

* Time, but in `Deepsleep`. Sleeps and pauses of the other modules end when they
  may. Time stamps of archives go forward; a clock that is set back breaks their
  order by construction. Of `iopause()` the variant with `select()`.
* supervise: the contents of `./run`, the time stamp in the status, and
  anything before the FIFO is open that ends supervise with an error.
* svstat: the time, and `./down`.
* multilog: an orphaned processor that opens its files only after the next
  multilog has started. Bytes, selection and files are three modules that are
  not composed: `MultilogInput` has one log that takes every line, `Selection`
  no files, `Cyclog` lines only. `Outage` loses data that was not synced, but
  takes directories and modes to reach the disk in order, as multilog syncs no
  directory.
* envdir: names with `=` in them, and names that the old environment has twice
  (one of them is replaced; they are in the model, but no property is about
  them). The search in `PATH` of `pathexec_run.c`.
* svscan: a device and inode of a removed directory are not used again while its
  slot is there. `svc -dx` goes to a name and its log in one step. A supervise
  that is killed while its service goes on: the next one starts another
  (`supervise.c` has no means to know of the first), and nothing more is said of
  it than that it may hold the pipe of readproctitle. The shell of svscanboot
  killed while svscan runs, after which init starts a second svscan beside the
  first; readproctitle killed while svscan runs, after which svscan dies when it
  next has something to complain of, and init need not wait (`Kill`, `Cut`).
* What readproctitle does with what it reads; fghack, tai64n, tai64nlocal: loops
  over bytes with no state that outlives a line or another process could see.
* pgrphack, setlock, softlimit, setuidgid, envuidgid: a sequence
  of system calls that either works or ends the program; there is no state that
  another step could find in the wrong condition.
* The library, used through what it promises, but for `buffer_get.c`,
  `buffer_put.c` and `byte_rchr.c`, which are in `MultilogInput` and `CWrite`,
  and `iopause.c` and `taia_*.c` in `Deepsleep`.
* `package/` and the Makefile: they build the programs.

## 9. Plan

What is done, in the order of its importance, and what is left.

1. `Supervise`, `Service`, and their proofs: done.
2. `Cyclog`, `CyclicLog`, with crashes and orphaned processors, and their proofs:
   done.
3. `MultilogInput`, `CWrite` and their proofs: done. `Selection` with `Match`, and
   their proofs: done.
4. `Svscan` with svscanboot, and its proofs: done.
5. `Svstat` and its proof: done.
6. `Deepsleep` and its proofs: done.
7. Small tools against a definition: `Environ` and its proofs are done; the
   parser of `tai64nlocal`, and `fghack` with descendants that close its pipe,
   are left.
