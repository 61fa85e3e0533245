--------------------------- MODULE DeepsleepProofs ---------------------------
(***************************************************************************)
(* Proofs about Deepsleep: time stamps are added, subtracted and compared     *)
(* right, for every value of their digits; and a pause is in time, for every  *)
(* length, unit and setting of the clock.                                    *)
(***************************************************************************)
EXTENDS Deepsleep, TLAPS

LEMMA AddType ==
  ASSUME NEW u \in Taia, NEW v \in Taia
  PROVE  TaiaAdd(u, v) \in Taia
  BY DeepsleepAssumption
  DEF Taia, Digits, TaiaAdd, Plus, Digit, Carry

LEMMA SubType ==
  ASSUME NEW u \in Taia, NEW v \in Taia
  PROVE  TaiaSub(u, v) \in Taia
  BY DeepsleepAssumption
  DEF Taia, Digits, TaiaSub, Minus, Plus

\* One digit, with the carry c from the right.
LEMMA DigitBack ==
  ASSUME NEW a \in Digits, NEW b \in Digits, NEW c \in {0, 1},
         NEW x, x = Digit(a + b + c),
         NEW y, y = Minus(Minus(x, b, Word), c, Word)
  PROVE  /\ Carry(a + b + c) = 1 => y > x /\ Plus(y, Giga, Word) = a
         /\ Carry(a + b + c) # 1 => ~(y > x) /\ y = a
  BY DeepsleepAssumption DEF Digits, Digit, Carry, Minus, Plus

LEMMA SecondBack ==
  ASSUME NEW p \in 0..(Wrap - 1), NEW q \in 0..(Wrap - 1), NEW c \in {0, 1}
  PROVE  Minus(Minus(Plus(Plus(p, q, Wrap), c, Wrap), q, Wrap), c, Wrap) = p
  BY DeepsleepAssumption DEF Minus, Plus

\* What is added is what is left when it is subtracted again, carries, borrows
\* and the turn of the seconds included (taia_add.c, taia_sub.c).
THEOREM SubUndoesAdd ==
  ASSUME NEW u \in Taia, NEW v \in Taia
  PROVE  TaiaSub(TaiaAdd(u, v), v) = u
<1> DEFINE c1 == Carry(u.atto + v.atto)
           x1 == Digit(u.atto + v.atto)
           y1 == Minus(x1, v.atto, Word)
           c2 == Carry(u.nano + v.nano + c1)
           x2 == Digit(u.nano + v.nano + c1)
           y2 == Minus(Minus(x2, v.nano, Word), c1, Word)
           z  == Plus(Plus(u.sec, v.sec, Wrap), c2, Wrap)
<1>1. /\ u.atto \in Digits /\ u.nano \in Digits /\ u.sec \in 0..(Wrap - 1)
      /\ v.atto \in Digits /\ v.nano \in Digits /\ v.sec \in 0..(Wrap - 1)
      /\ u = [sec |-> u.sec, nano |-> u.nano, atto |-> u.atto]
  BY DEF Taia
<1>2. c1 \in {0, 1} /\ c2 \in {0, 1}
  BY DEF Carry
<1>3. /\ u.atto + v.atto + 0 = u.atto + v.atto
      /\ y1 = Minus(Minus(x1, v.atto, Word), 0, Word)
  BY <1>1, DeepsleepAssumption DEF Digits, Digit, Minus
<1>4. /\ c1 = 1 => y1 > x1 /\ Plus(y1, Giga, Word) = u.atto
      /\ c1 # 1 => ~(y1 > x1) /\ y1 = u.atto
  BY <1>1, <1>3, DigitBack
<1>5. /\ c2 = 1 => y2 > x2 /\ Plus(y2, Giga, Word) = u.nano
      /\ c2 # 1 => ~(y2 > x2) /\ y2 = u.nano
  BY <1>1, <1>2, DigitBack
<1>6. Minus(Minus(z, v.sec, Wrap), c2, Wrap) = u.sec
  BY <1>1, <1>2, SecondBack
<1> HIDE DEF c1, x1, y1, c2, x2, y2, z
<1>7. TaiaAdd(u, v) = [sec |-> z, nano |-> x2, atto |-> x1]
  BY DEF TaiaAdd, c1, x1, c2, x2, z
<1>8. TaiaSub(TaiaAdd(u, v), v) =
        [sec  |-> Minus(Minus(z, v.sec, Wrap), c2, Wrap),
         nano |-> IF c2 = 1 THEN Plus(y2, Giga, Word) ELSE y2,
         atto |-> IF c1 = 1 THEN Plus(y1, Giga, Word) ELSE y1]
  <2>1. (IF y1 > x1 THEN 1 ELSE 0) = c1 /\ (IF y2 > x2 THEN 1 ELSE 0) = c2
    BY <1>2, <1>4, <1>5
  <2> QED
    BY <1>7, <2>1 DEF TaiaSub, y1, y2
<1> QED
  BY <1>1, <1>2, <1>4, <1>5, <1>6, <1>8

\* taia_less() is a strict total order.
THEOREM LessIsOrder ==
  /\ \A t, u \in Taia : TaiaLess(t, u) \/ TaiaLess(u, t) \/ t = u
  /\ \A t, u \in Taia : TaiaLess(t, u) => ~TaiaLess(u, t) /\ t # u
  /\ \A t, u, v \in Taia : TaiaLess(t, u) /\ TaiaLess(u, v) => TaiaLess(t, v)
  BY DeepsleepAssumption DEF Taia, Digits, TaiaLess

(***************************************************************************)
(* Types.                                                                  *)
(***************************************************************************)

LEMMA DivMod ==
  ASSUME NEW c \in Nat, NEW k \in Nat \ {0}
  PROVE  /\ c \div k \in Nat /\ c % k \in 0..(k - 1)
         /\ c = k * (c \div k) + (c % k)
  OBVIOUS

LEMMA Times ==
  ASSUME NEW i \in Nat, NEW j \in Nat, NEW k \in Nat, i =< j
  PROVE  k * i \in Nat /\ k * i =< k * j
  OBVIOUS

LEMMA NowType ==
  ASSUME NEW c \in Nat
  PROVE  TaiaNow(c) \in Taia
<1> USE DeepsleepAssumption
<1>1. /\ Steps \in Nat \ {0}
      /\ c \div Steps \in Nat /\ c % Steps \in 0..(Steps - 1)
  <2>1. Steps # 0
    OBVIOUS
  <2> QED
    BY <2>1, DivMod
<1>2. Step * (c % Steps) \in Nat /\ Step * (c % Steps) =< Step * (Steps - 1)
  BY <1>1, Times
<1>3. Step * (Steps - 1) = Giga - Step
  BY <1>1
<1>4. Step \div 2 \in Nat /\ Step \div 2 < Step
  OBVIOUS
<1>5. TaiaNow(c).nano \in Digits
  BY <1>2, <1>3, <1>4 DEF TaiaNow, Digits
<1>6. TaiUnix(c \div Steps) \in 0..(Wrap - 1)
  BY <1>1, DivMod DEF TaiUnix
<1>7. 0 \in Digits
  BY <1>5 DEF Digits
<1> QED
  BY <1>5, <1>6, <1>7 DEF TaiaNow, Taia

LEMMA UintType ==
  ASSUME NEW s \in Sleeps
  PROVE  TaiaUint(s) \in Taia
<1>1. 0 \in Digits
  BY NowType DEF TaiaNow, Taia, Digits
<1> QED
  BY <1>1, DeepsleepAssumption DEF TaiaUint, Taia

LEMMA DivBound ==
  ASSUME NEW n \in Nat, NEW k \in Nat \ {0}, NEW m \in Nat, n =< k * m
  PROVE  n \div k \in 0..m
<1> DEFINE q == n \div k
<1>1. q \in Nat /\ n % k \in Nat /\ n = k * q + (n % k)
  BY DivMod
<1> HIDE DEF q
<1>2. q =< m
  <2>1. SUFFICES ASSUME m + 1 =< q
                 PROVE  FALSE
    BY <1>1
  <2>2. k * (m + 1) \in Nat /\ k * (m + 1) =< k * q
    BY <1>1, <2>1, Times
  <2>3. k * (m + 1) = k * m + k
    OBVIOUS
  <2>4. k * m \in Nat /\ k * q \in Nat
    BY <1>1
  <2> QED
    BY <1>1, <2>2, <2>3, <2>4
<1> QED
  BY <1>1, <1>2 DEF q

\* No time is too long for poll() (iopause.c:20-21).
LEMMA MillisType ==
  ASSUME NEW d \in Nat
  PROVE  MillisFor(d) \subseteq 0..(Cap * Units + Slack)
<1> DEFINE n == d * Units
           m == Cap * Units
<1>1. m \in Nat /\ n \in Nat /\ Slack \in Nat /\ Slack >= 2
  BY DeepsleepAssumption
<1>2. Giga \in Nat \ {0} /\ Cap * Giga \in Nat
  <2>1. Steps # 0
    BY DeepsleepAssumption
  <2>2. Step * Steps # 0
    BY <2>1, DeepsleepAssumption
  <2> QED
    BY <2>2, DeepsleepAssumption
<1> HIDE DEF n, m
<1>3. CASE d >= Cap * Giga
  <2>1. MillisFor(d) = {m + Slack}
    BY <1>3 DEF MillisFor, m
  <2> QED
    BY <1>1, <2>1 DEF m
<1>4. CASE ~(d >= Cap * Giga)
  <2> DEFINE units == n \div Giga + Slack
  <2>1. Units * d =< Units * (Cap * Giga)
    BY <1>2, <1>4, Times, DeepsleepAssumption
  <2>2. n =< Giga * m
    BY <1>2, <2>1, DeepsleepAssumption DEF n, m
  <2>3. n \div Giga \in 0..m
    BY <1>1, <1>2, <2>2, DivBound
  <2>4. units \in 2..(m + Slack)
    BY <1>1, <2>3
  <2>5. MillisFor(d) = {u \in {units - 1, units} : u = units \/ Rounded(d)}
    BY <1>4, Zenon DEF MillisFor, n
  <2> HIDE DEF units
  <2>6. ASSUME NEW S
        PROVE  {u \in S : u = units \/ Rounded(d)} \subseteq S
    OBVIOUS
  <2>7. MillisFor(d) \subseteq {units - 1, units}
    BY <2>5, <2>6, Zenon
  <2>8. MillisFor(d) \subseteq 0..(m + Slack)
    BY <1>1, <2>4, <2>7
  <2> QED
    BY <2>8 DEF m
<1> QED
  BY <1>3, <1>4

\* poll() with the argument m may take from 0 to m * Unit + Late steps.
LEMMA PollTime ==
  ASSUME NEW m \in 0..(Cap * Units + Slack)
  PROVE  /\ m * Unit \in Nat
         /\ 0 \in 0..(m * Unit + Late)
<1>1. {Cap, Units, Slack, Unit, Late} \subseteq Nat
  BY DeepsleepAssumption
<1>2. Units * Cap \in Nat /\ Units * Cap = Cap * Units
  BY <1>1, Times
<1>3. m \in Nat
  BY <1>1, <1>2
<1>4. m * Unit \in Nat
  BY <1>1, <1>3, Times
<1>5. ASSUME NEW i \in Nat
      PROVE  0 \in 0..(i + Late)
  BY <1>1
<1> QED
  BY <1>4, <1>5

\* deepsleep() is called with any number of seconds, at any time.
LEMMA TypeInit ==
  Init => TypeOK
<1> USE DeepsleepAssumption
<1>1. ASSUME Init
      PROVE  TaiaUint(0) \in Taia
  BY NowType, DeepsleepAssumption DEF TaiaUint, TaiaNow, Taia, Digits
<1> QED
  BY <1>1 DEF Init, TypeOK

\* Every step keeps the types.
LEMMA TypeStep ==
  TypeOK /\ [Next]_vars => TypeOK'
<1> USE DeepsleepAssumption
<1> SUFFICES ASSUME TypeOK, [Next]_vars
             PROVE  TypeOK'
  OBVIOUS
<1> USE DEF TypeOK, sleeper, world
<1>1. CASE Call
  BY <1>1, NowType, UintType, AddType DEF Call
<1>2. CASE Loop
  <2> DEFINE now == TaiaNow(clock)
  <2>1. now \in Taia
    BY NowType
  <2>2. CASE TaiaLess(deadline, now)
    BY <1>2, <2>2 DEF Loop
  <2>3. CASE ~TaiaLess(deadline, now)
    <3>1. TaiaSub(deadline, now) \in Taia
      BY <2>1, SubType
    <3>2. TaiaApprox(TaiaSub(deadline, now)) \in Nat
      BY <3>1 DEF TaiaApprox, TaiaFrac, Taia, Digits
    <3>3. Iopause(now) /\ UNCHANGED <<seconds, deadline, clock, passed,
                                      forward, back, sets>>
      BY <1>2, <2>3 DEF Loop
    <3>4. millis' \in 0..(Cap * Units + Slack)
      BY <2>3, <3>2, <3>3, MillisType DEF Iopause, IopauseMillis
    <3>5. 0 \in 0..(millis' * Unit + Late)
      BY <3>4, PollTime, Zenon
    <3> HIDE DEF now
    <3>6. pc' = "poll" /\ waited' = 0 /\ polls' = polls + 1
      BY <3>3 DEF Iopause
    <3>7. waited' \in 0..(millis' * Unit + Late)
      BY <3>5, <3>6, Zenon
    <3>8. polls' \in Nat
      BY <3>6
    <3> QED
      BY <3>3, <3>4, <3>6, <3>7, <3>8, Zenon
  <2> QED
    BY <2>2, <2>3
<1>3. CASE Tick
  <2>1. millis * Unit \in Nat
    BY PollTime, Zenon
  <2> HIDE DEF TypeOK
  <2>2. ASSUME NEW t \in Nat, waited \in 0..(t + Late), waited < t + Late
        PROVE  waited + 1 \in 0..(t + Late)
    BY <2>2
  <2>3. waited' \in 0..(millis' * Unit + Late)
    BY <1>3, <2>1, <2>2, Zenon DEF Tick, TypeOK
  <2>4. clock' \in Nat /\ passed' \in Nat
    BY <1>3 DEF Tick, TypeOK
  <2> QED
    BY <1>3, <2>3, <2>4, Zenon DEF Tick, TypeOK
<1>4. CASE PollEnds
  BY <1>4 DEF PollEnds
<1>5. CASE Interrupted
  BY <1>5 DEF Interrupted
<1>6. ASSUME NEW c \in 0..Clock, SetClock(c)
      PROVE  TypeOK'
  BY <1>6 DEF SetClock
<1>7. CASE UNCHANGED vars
  BY <1>7 DEF vars
<1> QED
  BY <1>1, <1>2, <1>3, <1>4, <1>5, <1>6, <1>7 DEF Next

\* Every variable has its type, and no poll() is longer than its cap and the
\* slack, wherever the clock is set, for clocks and seconds of any width.
THEOREM Typed == Spec => []TypeOK
  BY TypeInit, TypeStep, PTL DEF Spec

(***************************************************************************)
(* Time stamps as clocks: what they stand for is added, subtracted and      *)
(* compared.                                                                *)
(***************************************************************************)

\* No unit of time is nothing.
LEMMA Numbers ==
  /\ Steps \in Nat \ {0} /\ Giga \in Nat \ {0} /\ Unit \in Nat \ {0}
  /\ Units \in Nat \ {0} /\ Cap \in Nat \ {0} /\ Step \in Nat \ {0}
<1>1. Unit \in Nat \ {0} /\ Units \in Nat \ {0} /\ Step \in Nat \ {0}
      /\ Cap \in Nat \ {0} /\ Steps = Unit * Units /\ Giga = Step * Steps
  BY DeepsleepAssumption
<1>2. \A i, j \in Nat \ {0} : i * j \in Nat \ {0}
  OBVIOUS
<1>3. Steps \in Nat \ {0}
  BY <1>1, <1>2
<1> QED
  BY <1>1, <1>2, <1>3

\* SMT finds this of names, not of the terms they stand for.
LEMMA Product ==
  ASSUME NEW i \in Nat, NEW j \in Nat
  PROVE  i * j \in Nat
  OBVIOUS

\* There is one way to divide.
LEMMA Division ==
  ASSUME NEW k \in Nat \ {0}, NEW q \in Nat, NEW r \in 0..(k - 1)
  PROVE  (k * q + r) \div k = q /\ (k * q + r) % k = r
<1> DEFINE c == k * q + r  p == c \div k
<1>1. c \in Nat /\ k * q \in Nat
  OBVIOUS
<1>2. /\ p \in Nat /\ c % k \in 0..(k - 1) /\ c = k * p + (c % k)
      /\ k * p \in Nat
  <2> HIDE DEF c
  <2>1. p \in Nat /\ c % k \in 0..(k - 1) /\ c = k * p + (c % k)
    BY <1>1, DivMod
  <2> QED
    BY <2>1, Product
<1>3. ASSUME NEW i \in Nat, NEW j \in Nat, i + 1 =< j
      PROVE  k * i + k =< k * j
  <2>1. k * (i + 1) =< k * j
    BY <1>3, Times
  <2>2. k * (i + 1) = k * i + k
    OBVIOUS
  <2> QED
    BY <2>1, <2>2
<1> HIDE DEF p
<1>4. ~(p + 1 =< q)
  BY <1>1, <1>2, <1>3
<1>5. ~(q + 1 =< p)
  BY <1>1, <1>2, <1>3
<1>6. p = q
  BY <1>2, <1>4, <1>5
<1> QED
  BY <1>1, <1>2, <1>6 DEF p

\* Whole seconds come in the order of their clocks.
LEMMA DivMonotone ==
  ASSUME NEW i \in Nat, NEW j \in Nat, NEW k \in Nat \ {0}, i =< j
  PROVE  i \div k =< j \div k
<1> DEFINE q == j \div k
<1>1. q \in Nat /\ j % k \in 0..(k - 1) /\ j = k * q + (j % k)
  BY DivMod
<1> DEFINE p == i \div k
<1>2. p \in Nat /\ i % k \in 0..(k - 1) /\ i = k * p + (i % k)
  BY DivMod
<1> HIDE DEF p, q
<1>3. ~(q + 1 =< p)
  <2>1. SUFFICES ASSUME q + 1 =< p
                 PROVE  FALSE
    OBVIOUS
  <2>2. k * (q + 1) =< k * p /\ k * q \in Nat /\ k * p \in Nat
    BY <1>1, <1>2, <2>1, Times
  <2>3. k * (q + 1) = k * q + k
    BY <1>1
  <2> QED
    BY <1>1, <1>2, <2>2, <2>3
<1>4. p =< q
  BY <1>1, <1>2, <1>3
<1> QED
  BY <1>4 DEF p, q

\* The clocks whose seconds have not turned.
Shown == {c \in Nat : Epoch + c \div Steps < Wrap}

\* What the digits of a clock are.
LEMMA Digital ==
  ASSUME NEW c \in Shown
  PROVE  LET q == c \div Steps
             r == c % Steps
             h == Step \div 2 IN
         /\ q \in Nat /\ r \in 0..(Steps - 1) /\ c = Steps * q + r
         /\ h \in Nat /\ Step * r \in Nat /\ Step * r + h < Giga
         /\ TaiaNow(c) = [sec |-> Epoch + q, nano |-> Step * r + h, atto |-> 0]
<1> DEFINE q == c \div Steps
           r == c % Steps
           h == Step \div 2
<1>1. q \in Nat /\ r \in 0..(Steps - 1) /\ c = Steps * q + r
  BY Numbers, DivMod DEF Shown
<1>2. TaiaNow(c) \in Taia
  BY NowType DEF Shown
<1>3. h \in Nat
  BY DeepsleepAssumption
<1>4. Step * r \in Nat
  BY <1>1, Numbers, Product
<1>5. Epoch + q < Wrap /\ Epoch \in Nat /\ Wrap \in Nat
  BY DeepsleepAssumption DEF Shown
<1>6. TaiaNow(c) = [sec  |-> (Epoch + q) % Wrap,
                    nano |-> Step * r + h, atto |-> 0]
  BY DEF TaiaNow, TaiUnix
<1> HIDE DEF q, r, h
<1>7. (Epoch + q) % Wrap = Epoch + q
  BY <1>1, <1>5
<1>8. Step * r + h < Giga
  BY <1>2, <1>3, <1>4, <1>6, Numbers DEF Taia, Digits
<1> QED
  BY <1>1, <1>3, <1>4, <1>6, <1>7, <1>8 DEF q, r, h

\* taia_add() of whole seconds.
LEMMA AddNow ==
  ASSUME NEW c \in Shown, NEW s \in Nat, c + s * Steps \in Shown
  PROVE  TaiaAdd(TaiaNow(c), TaiaUint(s)) = TaiaNow(c + s * Steps)
<1> DEFINE q == c \div Steps
           r == c % Steps
           m == Step * r + Step \div 2
           d == c + s * Steps
<1>1. /\ q \in Nat /\ r \in 0..(Steps - 1) /\ c = Steps * q + r
      /\ m \in Nat /\ m < Giga
      /\ TaiaNow(c) = [sec |-> Epoch + q, nano |-> m, atto |-> 0]
  BY Digital
<1>2. d = Steps * (q + s) + r
  BY <1>1, Numbers
<1>3. d \div Steps = q + s /\ d % Steps = r
  <2> HIDE DEF q, r, m, d
  <2>1. q + s \in Nat
    BY <1>1
  <2> QED
    BY <1>1, <1>2, <2>1, Numbers, Division
<1>4. TaiaNow(d) = [sec |-> Epoch + (q + s), nano |-> m, atto |-> 0]
      /\ Epoch + (q + s) < Wrap
  BY <1>3, Digital DEF Shown
<1> HIDE DEF q, r, m, d
<1>5. Epoch \in Nat /\ Wrap \in Nat /\ Giga \in Nat \ {0}
  BY Numbers, DeepsleepAssumption
<1>6. /\ Plus(Plus(Epoch + q, s, Wrap), 0, Wrap) = Epoch + (q + s)
      /\ Digit(m) = m /\ Carry(m) = 0 /\ Digit(0) = 0 /\ Carry(0) = 0
      /\ m + 0 + 0 = m /\ 0 + 0 = 0
  BY <1>1, <1>4, <1>5 DEF Plus, Digit, Carry
<1>7. TaiaAdd(TaiaNow(c), TaiaUint(s)) =
        [sec |-> Epoch + (q + s), nano |-> m, atto |-> 0]
  BY <1>1, <1>6 DEF TaiaAdd, TaiaUint
<1> QED
  BY <1>4, <1>7 DEF d

\* Step times a number of steps.
LEMMA Scaled ==
  ASSUME NEW i \in Nat, NEW j \in Nat
  PROVE  (Step * i < Step * j) <=> (i < j)
<1>1. i =< j => Step * i =< Step * j
  BY Numbers, Times
<1>2. j =< i => Step * j =< Step * i
  BY Numbers, Times
<1>3. i + 1 =< j => Step * i + Step =< Step * j
  <2>1. i + 1 =< j => Step * (i + 1) =< Step * j
    BY Numbers, Times
  <2>2. Step * (i + 1) = Step * i + Step
    BY Numbers
  <2> QED
    BY <2>1, <2>2
<1>4. Step * i \in Nat /\ Step * j \in Nat /\ Step \in Nat \ {0}
  BY Numbers, Product
<1> QED
  BY <1>2, <1>3, <1>4

\* Of two clocks the one with the later second is later, or the one with the
\* later step of the same second.
LEMMA Later ==
  ASSUME NEW k \in Nat \ {0}, NEW p \in Nat, NEW q \in Nat,
         NEW i \in 0..(k - 1), NEW j \in 0..(k - 1)
  PROVE  (k * p + i < k * q + j) <=> (p < q \/ (p = q /\ i < j))
<1>1. k * p \in Nat /\ k * q \in Nat
  BY Product
<1>2. \A a, b \in Nat : a + 1 =< b => k * a + k =< k * b
  <2>1. SUFFICES ASSUME NEW a \in Nat, NEW b \in Nat, a + 1 =< b
                 PROVE  k * a + k =< k * b
    OBVIOUS
  <2>2. k * (a + 1) =< k * b
    BY <2>1, Times
  <2> QED
    BY <2>2
<1>3. p < q => k * p + k =< k * q
  BY <1>2
<1>4. q < p => k * q + k =< k * p
  BY <1>2
<1> QED
  BY <1>1, <1>3, <1>4

\* taia_less() compares clocks.
LEMMA LessNow ==
  ASSUME NEW a \in Shown, NEW b \in Shown
  PROVE  TaiaLess(TaiaNow(a), TaiaNow(b)) <=> a < b
<1> DEFINE p == a \div Steps  i == a % Steps
           q == b \div Steps  j == b % Steps
           h == Step \div 2
           x == Step * i      y == Step * j
<1>1. /\ p \in Nat /\ i \in 0..(Steps - 1) /\ a = Steps * p + i
      /\ h \in Nat /\ x \in Nat
      /\ TaiaNow(a) = [sec |-> Epoch + p, nano |-> x + h, atto |-> 0]
  BY Digital
<1>2. /\ q \in Nat /\ j \in 0..(Steps - 1) /\ b = Steps * q + j /\ y \in Nat
      /\ TaiaNow(b) = [sec |-> Epoch + q, nano |-> y + h, atto |-> 0]
  BY Digital
<1>3. x < y <=> i < j
  BY <1>1, <1>2, Scaled
<1> HIDE DEF p, i, q, j, h, x, y
<1>4. a < b <=> (p < q \/ (p = q /\ i < j))
  <2>1. Steps \in Nat \ {0}
    BY Numbers
  <2> QED
    BY <1>1, <1>2, <2>1, Later
<1>5. Epoch \in Nat
  BY DeepsleepAssumption
<1> QED
  BY <1>1, <1>2, <1>3, <1>4, <1>5 DEF TaiaLess

\* taia_sub() and taia_approx(): the time between two clocks in nanoseconds.
LEMMA SubNow ==
  ASSUME NEW a \in Shown, NEW b \in Shown, b =< a
  PROVE  TaiaApprox(TaiaSub(TaiaNow(a), TaiaNow(b))) = Step * (a - b)
<1> DEFINE p == a \div Steps  i == a % Steps
           q == b \div Steps  j == b % Steps
           h == Step \div 2
           x == Step * i      y == Step * j
<1>1. /\ p \in Nat /\ i \in 0..(Steps - 1) /\ a = Steps * p + i
      /\ h \in Nat /\ x \in Nat /\ x + h < Giga
      /\ TaiaNow(a) = [sec |-> Epoch + p, nano |-> x + h, atto |-> 0]
  BY Digital
<1>2. /\ q \in Nat /\ j \in 0..(Steps - 1) /\ b = Steps * q + j
      /\ y \in Nat /\ y + h < Giga
      /\ TaiaNow(b) = [sec |-> Epoch + q, nano |-> y + h, atto |-> 0]
  BY Digital
<1>3. ~(a < b) /\ (a < b <=> (p < q \/ (p = q /\ i < j)))
  <2> HIDE DEF p, i, q, j
  <2>1. Steps \in Nat \ {0}
    BY Numbers
  <2>2. a < b <=> (p < q \/ (p = q /\ i < j))
    BY <1>1, <1>2, <2>1, Later
  <2>3. a \in Nat /\ b \in Nat
    BY DEF Shown
  <2> QED
    BY <2>2, <2>3
<1>4. x < y <=> i < j
  BY <1>1, <1>2, Scaled
<1>5. Step * (a - b) = Giga * (p - q) + (x - y)
  <2> HIDE DEF p, i, q, j
  <2>1. /\ Step \in Nat /\ Steps \in Nat /\ Giga = Step * Steps
        /\ i \in Nat /\ j \in Nat
    BY <1>1, <1>2, DeepsleepAssumption
  <2>2. a - b = Steps * (p - q) + (i - j)
    BY <1>1, <1>2, <2>1
  <2>3. Step * (a - b) = Step * (Steps * (p - q)) + Step * (i - j)
    BY <1>1, <1>2, <2>1, <2>2
  <2>4. Step * (Steps * (p - q)) = Giga * (p - q)
    BY <1>1, <1>2, <2>1
  <2>5. Step * (i - j) = x - y
    BY <2>1
  <2> QED
    BY <2>3, <2>4, <2>5
<1> DEFINE n == IF x < y THEN x - y + Giga ELSE x - y
           s == IF x < y THEN p - q - 1 ELSE p - q
<1>6. TaiaSub(TaiaNow(a), TaiaNow(b)) = [sec |-> s, nano |-> n, atto |-> 0]
  <2> HIDE DEF p, i, q, j, h, x, y
  <2>1. /\ Epoch \in Nat /\ Giga \in Nat \ {0} /\ Wrap \in Nat
        /\ Word \in Nat /\ Word >= 2 * Giga
    BY DeepsleepAssumption, Numbers
  <2> DEFINE m == Minus(Minus(x + h, y + h, Word), 0, Word)
             o == IF m > x + h THEN 1 ELSE 0
  <2>2. /\ x < y => m = x - y + Word /\ o = 1
        /\ ~(x < y) => m = x - y /\ o = 0
    BY <1>1, <1>2, <2>1 DEF Minus
  <2>3. /\ Minus(0, 0, Word) = 0 /\ ~(0 > 0)
        /\ x < y => Plus(m, Giga, Word) = n
        /\ ~(x < y) => m = n
    BY <1>1, <1>2, <2>1, <2>2 DEF Minus, Plus
  <2>4. Minus(Minus(Epoch + p, Epoch + q, Wrap), o, Wrap) = s
    BY <1>1, <1>2, <1>3, <1>4, <2>1, <2>2 DEF Minus
  <2> HIDE DEF n, s
  <2>5. TaiaSub(TaiaNow(a), TaiaNow(b)) =
          [sec  |-> Minus(Minus(Epoch + p, Epoch + q, Wrap), o, Wrap),
           nano |-> IF o = 1 THEN Plus(m, Giga, Word) ELSE m,
           atto |-> 0]
    BY <1>1, <1>2, <2>3 DEF TaiaSub
  <2> QED
    BY <2>2, <2>3, <2>4, <2>5
<1>7. TaiaApprox(TaiaSub(TaiaNow(a), TaiaNow(b))) = s * Giga + n
  BY <1>6 DEF TaiaApprox, TaiaFrac
<1> HIDE DEF p, i, q, j, h, x, y
<1>8. s * Giga + n = Giga * (p - q) + (x - y)
  BY <1>1, <1>2, Numbers
<1> QED
  BY <1>5, <1>7, <1>8

(***************************************************************************)
(* The pause, in steps of the clock.                                       *)
(***************************************************************************)

Asked == seconds * Steps    \* what deepsleep() was asked for
Full  == Cap * Steps        \* what one poll() can wait for
Extra == Slack * Unit
Wait  == millis * Unit      \* what the last poll() was asked for
Top   == Clock + Asked + Full + Extra + Late

\* The clock that deadline stands for; the settings of the clock are not in it.
Due == clock - passed - forward + back + Asked

\* What was left to wait for when poll() was called, if nothing came between.
Left == Due - (clock - waited)

Deadline ==
  /\ Due \in Nat /\ Due =< Clock + Asked /\ deadline = TaiaNow(Due)
  /\ passed =< Asked + back + Extra + Late
  /\ pc \in {"loop", "done"} => clock =< Top
  /\ pc = "done" => Due < clock

Polling ==
  /\ Wait =< Full + Extra /\ clock + Wait + Late - waited =< Top
  /\ passed + Wait - waited =< Asked + back + Extra
  /\ polls > 0 => /\ 0 =< Left /\ Left =< Asked + back - (polls - 1) * Full
                  /\ Wait >= Full \/ Wait > Left

Few == polls =< (seconds + back \div Steps + 1) \div Cap + 1

DueInv ==
  /\ TypeOK /\ Few
  /\ pc = "call" => clock =< Clock
  /\ pc # "call" => Deadline
  /\ pc = "poll" => Polling
  /\ pc = "loop" => Due < clock \/ Due - clock =< Asked + back - polls * Full

\* What may be shown while deepsleep() runs has not turned.
LEMMA TopShown ==
  ASSUME TypeOK, NEW c \in Nat, c =< Top
  PROVE  c \in Shown
<1>1. seconds \in Sleeps /\ seconds \in Nat
  BY DeepsleepAssumption DEF TypeOK
<1>2. Epoch + Top \div Steps < Wrap
  BY <1>1, ClockAssumption DEF Top, Asked, Full, Extra
<1>3. Top \in Nat
  BY <1>1, Numbers, Product, DeepsleepAssumption DEF Top, Asked, Full, Extra
<1>4. c \div Steps =< Top \div Steps
  BY <1>3, Numbers, DivMonotone
<1>5. c \div Steps \in Nat /\ Top \div Steps \in Nat
  BY <1>3, Numbers, DivMod
<1> QED
  BY <1>2, <1>4, <1>5, DeepsleepAssumption DEF Shown

\* No call of poll() waits for longer than its cap and the slack.
LEMMA WaitFits ==
  ASSUME NEW m \in 0..(Cap * Units + Slack)
  PROVE  m * Unit \in Nat /\ m * Unit =< Full + Extra
<1>1. Cap * Units \in Nat /\ Slack \in Nat
  BY Numbers, Product, DeepsleepAssumption
<1>2. m \in Nat /\ m =< Cap * Units + Slack
  BY <1>1
<1>3. Unit * m \in Nat /\ Unit * m =< Unit * (Cap * Units + Slack)
  BY <1>1, <1>2, Numbers, Times
<1>4. Unit * (Cap * Units + Slack) = Cap * (Unit * Units) + Slack * Unit
  BY <1>1, Numbers
<1>5. Unit * m = m * Unit
  BY <1>2, Numbers
<1> QED
  BY <1>3, <1>4, <1>5, DeepsleepAssumption DEF Full, Extra

\* All amounts are natural numbers, and poll() is not late by more than Late.
LEMMA Amounts ==
  ASSUME TypeOK
  PROVE  /\ Asked \in Nat /\ Full \in Nat \ {0} /\ Extra \in Nat /\ Wait \in Nat
         /\ Top \in Nat /\ Top = Clock + Asked + Full + Extra + Late
         /\ Wait =< Full + Extra
         /\ {seconds, millis, clock, waited, passed, forward, back, polls, Late,
             Clock} \subseteq Nat
         /\ waited =< Wait + Late
<1>1. /\ {seconds, clock, passed, forward, back, polls} \subseteq Nat
      /\ {Clock, Late, Slack} \subseteq Nat
  BY DeepsleepAssumption DEF TypeOK
<1>2. Asked \in Nat /\ Full \in Nat \ {0} /\ Extra \in Nat
  <2>1. \A i, j \in Nat \ {0} : i * j \in Nat \ {0}
    OBVIOUS
  <2> QED
    BY <1>1, <2>1, Numbers, Product DEF Asked, Full, Extra
<1>3. /\ Cap * Units \in Nat /\ millis \in 0..(Cap * Units + Slack)
      /\ waited \in 0..(millis * Unit + Late)
  BY Numbers, Product DEF TypeOK
<1>4. millis \in Nat /\ Wait \in Nat
  BY <1>1, <1>3, Numbers, Product DEF Wait
<1>5. waited \in Nat /\ waited =< Wait + Late
  BY <1>1, <1>3, <1>4 DEF Wait
<1>6. Wait =< Full + Extra
  BY <1>3, WaitFits DEF Wait
<1> QED
  BY <1>1, <1>2, <1>4, <1>5, <1>6 DEF Top

\* poll() is asked for what is left, or for what it can wait, and for a little
\* more: never for so little that the deadline is not behind it.
LEMMA MillisNow ==
  ASSUME NEW r \in Nat, NEW m \in MillisFor(Step * r)
  PROVE  /\ m * Unit =< r + Extra
         /\ m * Unit >= Full \/ m * Unit > r
<1>1. /\ Steps = Unit * Units /\ Giga = Step * Steps
      /\ Slack \in Nat /\ Slack >= 2
  BY DeepsleepAssumption
<1>2. (Step * r >= Cap * Giga) <=> (r >= Full)
  <2>1. Full \in Nat
    BY Numbers, Product DEF Full
  <2>2. Cap * Giga = Step * Full
    BY <1>1, Numbers DEF Full
  <2>3. (Step * r < Step * Full) <=> (r < Full)
    BY <2>1, Scaled
  <2>4. Step * r \in Nat /\ Step * Full \in Nat
    BY <2>1, Numbers, Product
  <2> QED
    BY <2>1, <2>2, <2>3, <2>4
<1>3. CASE Step * r >= Cap * Giga
  <2>1. m = Cap * Units + Slack
    BY <1>3 DEF MillisFor
  <2>2. m * Unit = Full + Extra
    BY <1>1, <2>1, Numbers DEF Full, Extra
  <2>3. Full \in Nat /\ Extra \in Nat
    BY <1>1, Numbers, Product DEF Full, Extra
  <2> QED
    BY <1>2, <1>3, <2>2, <2>3
<1>4. CASE ~(Step * r >= Cap * Giga)
  <2> DEFINE q == r \div Unit
             t == r % Unit
  <2>1. q \in Nat /\ t \in 0..(Unit - 1) /\ r = Unit * q + t
    BY Numbers, DivMod
  <2> HIDE DEF q, t
  <2>2. (Step * r * Units) \div Giga = q
    <3> DEFINE k == Step * Units  u == k * t
    <3>1. k \in Nat \ {0} /\ Giga = k * Unit
      <4>1. \A i, j \in Nat \ {0} : i * j \in Nat \ {0}
        OBVIOUS
      <4> QED
        BY <1>1, <4>1, Numbers
    <3>2. u \in Nat /\ u + k =< Giga
      <4> HIDE DEF k
      <4>1. k * (t + 1) =< k * Unit
        BY <2>1, <3>1, Numbers, Times
      <4>2. k * (t + 1) = k * t + k
        BY <2>1, <3>1
      <4>3. k * t \in Nat
        BY <2>1, <3>1, Product
      <4> QED
        BY <3>1, <4>1, <4>2, <4>3
    <3>3. Step * r * Units = Giga * q + u
      <4>1. Step * r * Units = k * r
        <5>1. \A i, j, l \in Nat : i * j * l = (i * l) * j
          OBVIOUS
        <5> QED
          BY <5>1, Numbers
      <4> HIDE DEF k
      <4>2. k * r = k * (Unit * q) + k * t
        BY <2>1, <3>1, Numbers
      <4>3. k * (Unit * q) = (k * Unit) * q
        BY <2>1, <3>1, Numbers
      <4> QED
        BY <3>1, <4>1, <4>2, <4>3
    <3>4. u \in 0..(Giga - 1)
      <4> HIDE DEF u, k
      <4> QED
        BY <3>1, <3>2, Numbers
    <3> HIDE DEF u, k
    <3> QED
      BY <2>1, <3>3, <3>4, Numbers, Division
  <2>3. m \in Nat /\ q + 1 =< m /\ m =< q + Slack
    <3> DEFINE d == Step * r
               units == (d * Units) \div Giga + Slack
    <3>1. MillisFor(d) = {u \in {units - 1, units} : u = units \/ Rounded(d)}
      BY <1>4, Zenon DEF MillisFor
    <3>2. units = q + Slack
      BY <2>2
    <3>3. m \in MillisFor(d)
      OBVIOUS
    <3> HIDE DEF d, units
    <3>4. m \in {units - 1, units}
      BY <3>1, <3>3, Zenon
    <3> QED
      BY <1>1, <2>1, <3>2, <3>4
  <2>4. /\ Unit * (q + 1) =< Unit * m /\ Unit * m =< Unit * (q + Slack)
    BY <1>1, <2>1, <2>3, Numbers, Times
  <2>5. /\ Unit * (q + 1) = Unit * q + Unit
        /\ Unit * (q + Slack) = Unit * q + Slack * Unit
        /\ Unit * m = m * Unit
    BY <1>1, <2>1, <2>3, Numbers
  <2>6. Unit * q \in Nat /\ m * Unit \in Nat /\ Slack * Unit \in Nat
    BY <1>1, <2>1, <2>3, Numbers, Product
  <2> QED
    BY <2>1, <2>4, <2>5, <2>6, Numbers DEF Extra
<1> QED
  BY <1>3, <1>4

\* So many poll()s of the full length do not fit into the pause.
LEMMA Counting ==
  ASSUME NEW i \in Nat, NEW s \in Nat, NEW b \in Nat,
         i * Full =< s * Steps + b
  PROVE  i =< (s + b \div Steps + 1) \div Cap
<1> DEFINE q == b \div Steps
           r == b % Steps
<1>1. q \in Nat /\ r \in 0..(Steps - 1) /\ b = Steps * q + r
  BY Numbers, DivMod
<1> HIDE DEF q, r
<1> DEFINE j == s + q + 1
           k == Cap * i
<1>2. j \in Nat /\ k \in Nat
  BY <1>1, Numbers, Product
<1>3. Steps * k < Steps * j
  <2>1. Steps * k = i * Full
    BY Numbers DEF Full
  <2>2. Steps * j = s * Steps + Steps * q + Steps
    BY <1>1, Numbers
  <2>3. i * Full \in Nat /\ s * Steps \in Nat /\ Steps * q \in Nat
    BY <1>1, <1>2, <2>1, Numbers, Product
  <2> QED
    BY <1>1, <2>1, <2>2, <2>3, Numbers
<1> HIDE DEF j, k
<1>4. k =< j
  <2>1. j =< k => Steps * j =< Steps * k
    BY <1>2, Numbers, Times
  <2>2. Steps * j \in Nat /\ Steps * k \in Nat
    BY <1>2, Numbers, Product
  <2> QED
    BY <1>2, <1>3, <2>1, <2>2
<1>5. k \div Cap =< j \div Cap
  BY <1>2, <1>4, Numbers, DivMonotone
<1>6. k \div Cap = i
  <2>1. k = Cap * i + 0 /\ 0 \in 0..(Cap - 1)
    BY Numbers DEF k
  <2> QED
    BY <2>1, Numbers, Division
<1> QED
  BY <1>5, <1>6 DEF j, q

\* The number of calls that a pause asks for.
LEMMA FewType ==
  ASSUME NEW s \in Nat, NEW b \in Nat
  PROVE  (s + b \div Steps + 1) \div Cap \in Nat
<1>1. b \div Steps \in Nat
  BY Numbers, DivMod
<1>2. s + b \div Steps + 1 \in Nat
  BY <1>1
<1> QED
  BY <1>2, Numbers, DivMod

\* deepsleep() computes its deadline.
LEMMA CallDue ==
  ASSUME DueInv, TypeOK', Call
  PROVE  DueInv'
<1> USE DEF Call
<1>1. /\ pc' = "loop" /\ seconds' = seconds /\ clock' = clock
      /\ passed' = 0 /\ forward' = 0 /\ back' = 0 /\ polls' = 0
      /\ clock =< Clock /\ TypeOK
  BY DEF DueInv
<1>2. /\ {Asked, Full, Extra, Late, Clock, clock, Top, seconds} \subseteq Nat
      /\ Top = Clock + Asked + Full + Extra + Late
  BY <1>1, Amounts
<1>3. Asked' = Asked /\ Due' = clock + Asked /\ Top' = Top
  BY <1>1, <1>2 DEF Asked, Due, Top
<1>4. deadline' = TaiaNow(clock + Asked)
  <2>1. clock \in Shown /\ clock + Asked \in Shown
    BY <1>1, <1>2, TopShown
  <2> QED
    BY <1>2, <2>1, AddNow DEF Asked
<1>5. Deadline'
  BY <1>1, <1>2, <1>3, <1>4 DEF Deadline, Extra
<1>6. Few'
  <2>1. (seconds + 0 \div Steps + 1) \div Cap \in Nat
    BY <1>2, FewType
  <2> QED
    BY <1>1, <2>1 DEF Few
<1>7. Due' - clock' =< Asked' + back' - polls' * Full'
  <2>1. Full' = Full
    BY DEF Full
  <2> QED
    BY <1>1, <1>2, <1>3, <2>1
<1> QED
  BY <1>1, <1>5, <1>6, <1>7 DEF DueInv

\* deepsleep() reads the clock, and ends or calls poll().
LEMMA LoopDue ==
  ASSUME DueInv, TypeOK', Loop
  PROVE  DueInv'
<1> DEFINE now == TaiaNow(clock)
<1>1. /\ pc = "loop" /\ seconds' = seconds /\ clock' = clock /\ back' = back
      /\ passed' = passed /\ forward' = forward /\ deadline' = deadline
      /\ TypeOK /\ Deadline /\ clock =< Top /\ Few
      /\ Due < clock \/ Due - clock =< Asked + back - polls * Full
  BY DEF Loop, DueInv, Deadline
<1>2. /\ {Asked, Extra, Late, Clock, clock, Top, back, polls,
          passed} \subseteq Nat
      /\ Full \in Nat \ {0} /\ Due \in Nat
      /\ Top = Clock + Asked + Full + Extra + Late
  BY <1>1, Amounts DEF Deadline
<1>3. /\ Asked' = Asked /\ Due' = Due /\ Top' = Top /\ Full' = Full
      /\ Extra' = Extra
  BY <1>1 DEF Asked, Due, Top, Full, Extra
<1>4. Due \in Shown /\ clock \in Shown
  BY <1>1, <1>2, TopShown DEF Deadline
<1>5. TaiaLess(deadline, now) <=> Due < clock
  BY <1>1, <1>4, LessNow DEF Deadline
<1>6. CASE Due < clock
  <2>1. pc' = "done" /\ polls' = polls
    BY <1>5, <1>6 DEF Loop
  <2>2. Deadline' /\ Few'
    BY <1>1, <1>3, <1>6, <2>1 DEF Deadline, Few
  <2> QED
    BY <2>1, <2>2 DEF DueInv
<1>7. CASE ~(Due < clock)
  <2> DEFINE r == Due - clock
  <2>1. /\ pc' = "poll" /\ waited' = 0 /\ polls' = polls + 1
        /\ millis' \in MillisFor(TaiaApprox(TaiaSub(deadline, now)))
    BY <1>5, <1>7 DEF Loop, Iopause, IopauseMillis
  <2>2. r \in Nat /\ r =< Asked + back - polls * Full
    BY <1>1, <1>2, <1>7
  <2>3. TaiaApprox(TaiaSub(deadline, now)) = Step * r
    BY <1>1, <1>2, <1>4, <1>7, SubNow DEF Deadline
  <2>4. /\ Wait' =< r + Extra /\ (Wait' >= Full \/ Wait' > r)
        /\ Wait' \in Nat /\ Wait' =< Full + Extra
    <3>1. /\ millis' * Unit =< r + Extra
          /\ millis' * Unit >= Full \/ millis' * Unit > r
      <4> HIDE DEF r
      <4> QED
        BY <2>1, <2>2, <2>3, MillisNow
    <3>2. Wait' \in Nat /\ Wait' =< Full' + Extra'
      <4>1. millis' \in 0..(Cap * Units + Slack)
        BY DEF TypeOK
      <4> QED
        BY <1>3, <4>1, WaitFits DEF Wait
    <3> QED
      BY <1>3, <3>1, <3>2 DEF Wait
  <2>5. r = Asked + back - passed - forward /\ forward \in Nat
    BY <1>1, <1>2, Amounts DEF Due
  <2>6. Deadline'
    BY <1>1, <1>3, <2>1 DEF Deadline
  <2>7. Left' = r
    BY <1>1, <1>2, <1>3, <2>1 DEF Left
  <2>8. polls * Full \in Nat /\ (polls' - 1) * Full = polls * Full
    BY <1>2, <2>1, Product
  <2> HIDE DEF r
  <2>9. Polling'
    <3>1. clock + Wait' + Late - 0 =< Top
      BY <1>1, <1>2, <1>7, <2>2, <2>4 DEF Deadline, r
    <3>2. passed + Wait' - 0 =< Asked + back + Extra
      BY <1>2, <2>2, <2>4, <2>5
    <3> QED
      BY <1>1, <1>2, <1>3, <2>1, <2>2, <2>4, <2>7, <2>8, <3>1, <3>2 DEF Polling
  <2>10. Few'
    <3>1. polls * Full =< seconds * Steps + back
      BY <1>2, <2>2, <2>8 DEF Asked
    <3>2. polls =< (seconds + back \div Steps + 1) \div Cap
      BY <1>1, <1>2, <3>1, Counting, Amounts
    <3>3. (seconds + back \div Steps + 1) \div Cap \in Nat
      BY <1>1, <1>2, Amounts, FewType
    <3> QED
      BY <1>1, <1>2, <2>1, <3>2, <3>3 DEF Few
  <2> QED
    BY <2>1, <2>6, <2>9, <2>10 DEF DueInv
<1> QED
  BY <1>6, <1>7

\* Time passes in poll().
LEMMA TickDue ==
  ASSUME DueInv, TypeOK', Tick
  PROVE  DueInv'
<1>1. /\ pc = "poll" /\ pc' = "poll" /\ seconds' = seconds /\ millis' = millis
      /\ clock' = clock + 1 /\ waited' = waited + 1 /\ passed' = passed + 1
      /\ forward' = forward /\ back' = back /\ polls' = polls
      /\ deadline' = deadline /\ waited < Wait + Late
      /\ TypeOK /\ Deadline /\ Polling /\ Few
  BY DEF Tick, DueInv, sleeper, Wait
<1>2. /\ {Asked, Extra, Late, Clock, clock, Top, back, polls, passed, forward,
          waited, Wait} \subseteq Nat
      /\ Full \in Nat \ {0} /\ Due \in Nat
  BY <1>1, Amounts DEF Deadline
<1>3. /\ Asked' = Asked /\ Top' = Top /\ Full' = Full /\ Extra' = Extra
      /\ Wait' = Wait
  BY <1>1 DEF Asked, Top, Full, Extra, Wait
<1>4. Due' = Due /\ Left' = Left
  BY <1>1, <1>2, <1>3 DEF Due, Left
<1>5. Deadline'
  <2>1. passed' =< Asked + back + Extra + Late
    BY <1>1, <1>2 DEF Polling
  <2> QED
    BY <1>1, <1>3, <1>4, <2>1 DEF Deadline
<1>6. Polling'
  BY <1>1, <1>2, <1>3, <1>4 DEF Polling
<1>7. Few'
  BY <1>1 DEF Few
<1> QED
  BY <1>1, <1>5, <1>6, <1>7 DEF DueInv

\* poll() returns: the deadline is behind, or its full length has passed.
LEMMA EndDue ==
  ASSUME DueInv, TypeOK', PollEnds \/ Interrupted
  PROVE  DueInv'
<1>1. /\ pc = "poll" /\ pc' = "loop" /\ seconds' = seconds /\ millis' = millis
      /\ clock' = clock /\ waited' = waited /\ passed' = passed
      /\ forward' = forward /\ back' = back /\ deadline' = deadline
      /\ polls' = 0 \/ (polls' = polls /\ waited >= Wait)
      /\ TypeOK /\ Deadline /\ Polling /\ Few
  BY DEF PollEnds, Interrupted, DueInv, world, Wait
<1>2. /\ {Asked, Extra, Late, Clock, clock, Top, back, polls, passed, forward,
          waited, Wait} \subseteq Nat
      /\ Full \in Nat \ {0} /\ Due \in Nat /\ waited =< Wait + Late
  BY <1>1, Amounts DEF Deadline
<1>3. /\ Asked' = Asked /\ Top' = Top /\ Full' = Full /\ Extra' = Extra
      /\ Wait' = Wait /\ Due' = Due
  BY <1>1 DEF Asked, Top, Full, Extra, Wait, Due
<1>4. Deadline'
  BY <1>1, <1>2, <1>3 DEF Deadline, Polling
<1>5. Few'
  <2>1. (seconds + back \div Steps + 1) \div Cap \in Nat
    BY <1>1, Amounts, FewType
  <2> QED
    BY <1>1, <2>1 DEF Few
<1>6. Due' < clock' \/ Due' - clock' =< Asked' + back' - polls' * Full'
  <2>1. CASE polls' = 0
    <3>1. Due - clock =< Asked + back
      BY <1>2 DEF Due
    <3> QED
      BY <1>1, <1>2, <1>3, <2>1, <3>1
  <2>2. CASE polls' # 0
    <3>1. /\ polls' = polls /\ polls > 0 /\ waited >= Wait
          /\ 0 =< Left /\ Left =< Asked + back - (polls - 1) * Full
          /\ Wait >= Full \/ Wait > Left
      BY <1>1, <1>2, <2>2 DEF Polling
    <3>2. Due - clock = Left - waited /\ Left \in Int
      BY <1>2 DEF Left
    <3>3. (polls - 1) * Full = polls * Full - Full /\ polls * Full \in Nat
      BY <1>2, Product
    <3> QED
      BY <1>1, <1>2, <1>3, <3>1, <3>2, <3>3
  <2> QED
    BY <2>1, <2>2
<1> QED
  BY <1>1, <1>4, <1>5, <1>6 DEF DueInv

\* The clock is set, before poll() or in it.
LEMMA SetDue ==
  ASSUME DueInv, TypeOK', NEW c \in 0..Clock, SetClock(c)
  PROVE  DueInv'
<1>1. /\ pc \in {"loop", "poll"} /\ pc' = pc /\ seconds' = seconds
      /\ millis' = millis /\ waited' = waited /\ passed' = passed
      /\ deadline' = deadline /\ clock' = c /\ polls' = 0
      /\ \/ c > clock /\ forward' = forward + (c - clock) /\ back' = back
         \/ ~(c > clock) /\ back' = back + (clock - c) /\ forward' = forward
      /\ TypeOK /\ Deadline /\ (pc = "poll" => Polling) /\ Few
  BY DEF SetClock, DueInv, sleeper
<1>2. /\ {Asked, Extra, Late, Clock, clock, Top, back, polls, passed, forward,
          waited, Wait} \subseteq Nat
      /\ Full \in Nat \ {0} /\ Due \in Nat /\ waited =< Wait + Late
      /\ Top = Clock + Asked + Full + Extra + Late
      /\ c \in Nat /\ c =< Clock /\ Wait =< Full + Extra
  BY <1>1, Amounts DEF Deadline
<1>3. /\ Asked' = Asked /\ Top' = Top /\ Full' = Full /\ Extra' = Extra
      /\ Wait' = Wait
  BY <1>1 DEF Asked, Top, Full, Extra, Wait
<1>4. Due' = Due
  BY <1>1, <1>2, <1>3 DEF Due
<1>5. /\ forward' \in Nat /\ back' \in Nat /\ back' >= back
  BY <1>1, <1>2
<1>6. Deadline'
  BY <1>1, <1>2, <1>3, <1>4, <1>5 DEF Deadline
<1>7. Few'
  <2>1. (seconds' + back' \div Steps + 1) \div Cap \in Nat
    BY <1>1, <1>5, Amounts, FewType
  <2> QED
    BY <1>1, <2>1 DEF Few
<1>8. pc' = "poll" => Polling'
  BY <1>1, <1>2, <1>3, <1>4, <1>5 DEF Polling
<1>9. Due' - clock' =< Asked' + back' - polls' * Full'
  <2>1. Due' - clock' =< Asked' + back'
    BY <1>1, <1>2, <1>3, <1>5 DEF Due
  <2> QED
    BY <1>1, <1>2, <1>3, <1>5, <2>1
<1> QED
  BY <1>1, <1>6, <1>7, <1>8, <1>9 DEF DueInv

\* A pause is as long as it was asked to be, but for how far the clock was set
\* meanwhile, the slack and the time to wake up; and it takes no more calls of
\* poll() than its length asks for. This is for every unit, length and setting
\* of the clock, as long as its seconds do not turn.
THEOREM PausesInTime == Spec => []InTime
<1>1. Init => DueInv
  <2> SUFFICES ASSUME Init PROVE DueInv
    OBVIOUS
  <2>1. TypeOK /\ pc = "call" /\ clock =< Clock /\ polls = 0 /\ back = 0
    BY TypeInit, DeepsleepAssumption DEF Init
  <2>2. Few
    <3>1. (seconds + back \div Steps + 1) \div Cap \in Nat
      BY <2>1, Amounts, FewType
    <3> QED
      BY <2>1, <3>1 DEF Few
  <2> QED
    BY <2>1, <2>2 DEF DueInv
<1>2. DueInv /\ [Next]_vars => DueInv'
  <2> SUFFICES ASSUME DueInv, [Next]_vars PROVE DueInv'
    OBVIOUS
  <2>1. TypeOK'
    BY TypeStep DEF DueInv
  <2>2. CASE UNCHANGED vars
    BY <2>2 DEF vars, sleeper, world, DueInv, TypeOK, Few, Deadline, Polling,
       Left, Due, Asked, Top, Full, Extra, Wait
  <2> QED
    BY <2>1, <2>2, CallDue, LoopDue, TickDue, EndDue, SetDue DEF Next
<1>3. DueInv => InTime
  <2> SUFFICES ASSUME DueInv PROVE InTime
    OBVIOUS
  <2>1. /\ {Asked, Extra, clock, back, passed, forward} \subseteq Nat
        /\ pc \in {"call", "loop", "poll", "done"} /\ TypeOK
    BY Amounts DEF DueInv, TypeOK
  <2>2. pc = "done" => passed + forward > Asked + back
    BY <2>1 DEF DueInv, Deadline, Due
  <2> QED
    BY <2>1, <2>2 DEF DueInv, Deadline, InTime, Few, Asked, Extra
<1> QED
  BY <1>1, <1>2, <1>3, PTL DEF Spec
=============================================================================
