------------------------------ MODULE Deepsleep ------------------------------
(***************************************************************************)
(* deepsleep() and iopause() (deepsleep.c, iopause.c), with which supervise  *)
(* and multilog pause, and the arithmetic of time stamps below them          *)
(* (taia_*.c).  The pause is measured with the clock of the system, which     *)
(* may be set while it lasts, and poll() may be interrupted by a signal.      *)
(*                                                                          *)
(* A time stamp is a record of seconds, nano- and attoseconds, of the widths  *)
(* the code has.  Time passes in the steps of gettimeofday(), the program     *)
(* takes none but in poll(), which wakes up Late steps after its time at the  *)
(* most.                                                                    *)
(***************************************************************************)
EXTENDS Integers

CONSTANTS
  Wrap,    \* 2^64: seconds are counted modulo it
  Word,    \* an unsigned long is counted modulo it
  Giga,    \* 10^9: nanoseconds in a second, attoseconds in a nanosecond
  Epoch,   \* tai_unix(): the second that time() calls 0
  Step,    \* nanoseconds in a step of gettimeofday(): 1000
  Steps,   \* steps in a second: 1000000
  Unit,    \* steps in a unit of poll(): a millisecond
  Units,   \* units in a second: 1000
  Cap,     \* most seconds that iopause() waits: 1000
  Slack,   \* units that iopause() adds: 20
  Late,    \* poll() returns so many steps too late at the most
  Sleeps,  \* arguments of deepsleep()
  Clock,   \* the clock is set to 0..Clock (bounds the model)
  MaxSet   \* so many times (bounds the model)

ASSUME DeepsleepAssumption ==
  /\ Giga \in Nat /\ Step \in Nat /\ Steps \in Nat /\ Unit \in Nat
  /\ Units \in Nat /\ Cap \in Nat \ {0} /\ Slack \in Nat /\ Late \in Nat
  /\ Step >= 2 /\ Giga = Step * Steps /\ Steps = Unit * Units
  /\ Unit > 0 /\ Units > 0 /\ Slack >= 2
  /\ Word \in Nat /\ Word >= 2 * Giga
  /\ Wrap \in Nat \ {0} /\ Epoch \in Nat
  /\ Sleeps \subseteq Nat /\ \A s \in Sleeps : s < Wrap
  /\ Clock \in Nat /\ MaxSet \in Nat

\* The seconds of the clock are far from their turn: tai_unix() puts them in the
\* middle of 64 bits. Past Clock the clock only goes on while deepsleep() runs.
ASSUME ClockAssumption ==
  \A s \in Sleeps :
    Epoch + (Clock + s * Steps + Cap * Steps + Slack * Unit + Late) \div Steps
      < Wrap

VARIABLES
  pc,
  seconds,   \* the argument of deepsleep()
  deadline,
  millis,    \* the last argument of poll()
  \* the world
  clock,     \* what gettimeofday() returns, in steps
  waited,    \* steps that poll() has taken
  passed,    \* steps since deepsleep() was called
  forward,   \* steps that the clock was set forward since then
  back,      \* steps that it was set back
  polls,     \* poll()s since the call, or since the last disturbance
  sets       \* settings of the clock so far

sleeper == <<pc, seconds, deadline, millis>>
world   == <<clock, waited, passed, forward, back, polls, sets>>
vars    == <<sleeper, world>>

(***************************************************************************)
(* Time stamps.                                                            *)
(***************************************************************************)

Digits == 0..(Giga - 1)
Taia   == [sec : 0..(Wrap - 1), nano : Digits, atto : Digits]

\* Sum and difference of unsigned numbers of m values.
Plus(a, b, m)  == IF a + b < m THEN a + b ELSE a + b - m
Minus(a, b, m) == IF a >= b THEN a - b ELSE a - b + m

\* The digit that is left of c, and what is carried to the next.
Digit(c) == IF c >= Giga THEN c - Giga ELSE c
Carry(c) == IF c >= Giga THEN 1 ELSE 0

TaiaAdd(u, v) ==
  LET atto == u.atto + v.atto
      nano == u.nano + v.nano + Carry(atto) IN
  [sec  |-> Plus(Plus(u.sec, v.sec, Wrap), Carry(nano), Wrap),
   nano |-> Digit(nano), atto |-> Digit(atto)]

\* (mutant) The borrow of the nanoseconds is not looked for.
TaiaSub_NoBorrow(u, v) ==
  [sec  |-> Minus(u.sec, v.sec, Wrap),
   nano |-> Minus(u.nano, v.nano, Word), atto |-> Minus(u.atto, v.atto, Word)]

\* The difference is greater than what it was taken from when it has wrapped.
TaiaSub(u, v) ==
  LET atto    == Minus(u.atto, v.atto, Word)
      borrow  == IF atto > u.atto THEN 1 ELSE 0
      nano    == Minus(Minus(u.nano, v.nano, Word), borrow, Word)
      borrow2 == IF nano > u.nano THEN 1 ELSE 0 IN
  [sec  |-> Minus(Minus(u.sec, v.sec, Wrap), borrow2, Wrap),
   nano |-> IF borrow2 = 1 THEN Plus(nano, Giga, Word) ELSE nano,
   atto |-> IF borrow = 1 THEN Plus(atto, Giga, Word) ELSE atto]

TaiaLess(t, u) ==
  \/ t.sec < u.sec
  \/ t.sec = u.sec /\ t.nano < u.nano
  \/ t.sec = u.sec /\ t.nano = u.nano /\ t.atto < u.atto

TaiaUint(s) == [sec |-> s, nano |-> 0, atto |-> 0]

TaiUnix(u) == (Epoch + u) % Wrap

\* When the clock shows c.
TaiaNow(c) == [sec  |-> TaiUnix(c \div Steps),
               nano |-> Step * (c % Steps) + Step \div 2,
               atto |-> 0]

\* In nanoseconds: the double has no room for the attoseconds.
TaiaFrac(t)   == t.nano
TaiaApprox(t) == t.sec * Giga + TaiaFrac(t)

(***************************************************************************)
(* iopause() without descriptors.                                          *)
(***************************************************************************)

\* A whole number of units that is no whole number of seconds may come out of
\* the doubles one lower.
Rounded(d) == d % Giga # 0 /\ (d * Units) % Giga = 0

\* The argument of poll() for d nanoseconds.
MillisFor(d) ==
  LET units == (d * Units) \div Giga + Slack IN
  IF d >= Cap * Giga THEN {Cap * Units + Slack}
  ELSE {u \in {units - 1, units} : u = units \/ Rounded(d)}

IopauseMillis(stamp) ==
  IF TaiaLess(deadline, stamp) THEN {0}
  ELSE MillisFor(TaiaApprox(TaiaSub(deadline, stamp)))

\* poll() is called.
Iopause(stamp) ==
  /\ pc' = "poll"
  /\ millis' \in IopauseMillis(stamp)
  /\ waited' = 0
  /\ polls' = polls + 1

(***************************************************************************)
(* deepsleep().                                                            *)
(***************************************************************************)

Call ==
  /\ pc = "call"
  /\ pc' = "loop"
  /\ deadline' = TaiaAdd(TaiaNow(clock), TaiaUint(seconds))
  /\ passed' = 0 /\ forward' = 0 /\ back' = 0 /\ polls' = 0
  /\ UNCHANGED <<seconds, millis, clock, waited, sets>>

Loop ==
  /\ pc = "loop"
  /\ LET now == TaiaNow(clock) IN
       IF TaiaLess(deadline, now)
       THEN pc' = "done" /\ UNCHANGED <<millis, waited, polls>>
       ELSE Iopause(now)
  /\ UNCHANGED <<seconds, deadline, clock, passed, forward, back, sets>>

(***************************************************************************)
(* The world.                                                              *)
(***************************************************************************)

Tick ==
  /\ pc = "poll"
  /\ waited < millis * Unit + Late
  /\ clock' = clock + 1 /\ waited' = waited + 1 /\ passed' = passed + 1
  /\ UNCHANGED <<sleeper, forward, back, polls, sets>>

PollEnds ==
  /\ pc = "poll"
  /\ waited >= millis * Unit
  /\ pc' = "loop"
  /\ UNCHANGED <<seconds, deadline, millis, world>>

\* A signal was caught.
Interrupted ==
  /\ pc = "poll"
  /\ pc' = "loop" /\ polls' = 0
  /\ UNCHANGED <<seconds, deadline, millis, clock, waited, passed, forward,
                 back, sets>>

\* Settings that go by before deepsleep() reads the clock are not seen.
SetClock(c) ==
  /\ sets < MaxSet
  /\ pc \in {"loop", "poll"}
  /\ c # clock
  /\ sets' = sets + 1
  /\ clock' = c /\ polls' = 0
  /\ IF c > clock THEN forward' = forward + (c - clock) /\ UNCHANGED back
                  ELSE back' = back + (clock - c) /\ UNCHANGED forward
  /\ UNCHANGED <<sleeper, waited, passed>>

(***************************************************************************)
(* The specification.                                                      *)
(***************************************************************************)

Init ==
  /\ pc = "call" /\ seconds \in Sleeps
  /\ deadline = TaiaUint(0) /\ millis = 0
  /\ clock \in 0..Clock /\ waited = 0
  /\ passed = 0 /\ forward = 0 /\ back = 0 /\ polls = 0 /\ sets = 0

Next ==
  \/ Call \/ Loop \/ Tick \/ PollEnds \/ Interrupted
  \/ \E c \in 0..Clock : SetClock(c)

Spec == Init /\ [][Next]_vars

(***************************************************************************)
(* Properties.                                                             *)
(***************************************************************************)

\* Every variable has its type: the digits of a time stamp are in their range,
\* and no poll() is longer than Cap seconds and the slack, wherever the clock is
\* set.
TypeOK ==
  /\ pc \in {"call", "loop", "poll", "done"}
  /\ seconds \in Sleeps /\ deadline \in Taia
  /\ millis \in 0..(Cap * Units + Slack)
  /\ waited \in 0..(millis * Unit + Late)
  /\ {clock, passed, forward, back} \subseteq Nat
  /\ polls \in Nat /\ sets \in 0..MaxSet

\* A pause of so many seconds is one: it ends too early only by how far the
\* clock was set forward meanwhile, and too late only by how far it was set
\* back, the slack, and what the system needs to wake up.  It takes no more
\* calls of poll() than its length asks for: deepsleep() does not spin at the
\* deadline.
InTime ==
  /\ pc = "done" => passed + forward > seconds * Steps + back
  /\ pc \in {"loop", "poll", "done"} =>
       passed =< seconds * Steps + back + Slack * Unit + Late
  /\ polls =< (seconds + back \div Steps + 1) \div Cap + 1
=============================================================================
