---------------------------- MODULE EnvironProofs ----------------------------
(***************************************************************************)
(* envdir makes the right environment, for every directory and every        *)
(* environment it starts from.                                              *)
(***************************************************************************)
EXTENDS Environ, SequenceTheorems, WellFoundedInduction, TLAPS

(***************************************************************************)
(* The inductive invariant.                                                *)
(***************************************************************************)

\* plus and e are sequences of something.
SeqInv ==
  /\ \E T : plus \in Seq(T)
  /\ \E T : e \in Seq(T)
  /\ environ \in Seq(Setting)
  /\ done \in 0..Len(plus)

\* plus has each name that was read, once, and what its file says.
PlusInv ==
  /\ \A k \in 1..Len(plus) :
       LET n == plus[k].name IN
       /\ n \in Names \ todo /\ dir[n].st \notin {"none", "unreadable"}
       /\ dir[n].st # "gone" =>
            /\ plus[k].set <=> dir[n].text # <<>>
            /\ plus[k].value = Value(dir[n].text)
  /\ \A k, l \in 1..Len(plus) : plus[k].name = plus[l].name => k = l
  /\ \A n \in todo : dir[n].st # "none"
  /\ \A n \in Names \ todo :
       dir[n].st # "none" => \E k \in 1..Len(plus) : plus[k].name = n

\* Where envdir is.
PlaceInv ==
  /\ pc \in {"overlay", "run"} => todo = {}
  /\ pc = "read" => done = 0
  /\ pc = "run" => done = Len(plus)

\* What is said of n in the first d settings of plus.
Said(n, d) == {k \in 1..d : plus[k].name = n}

\* The first settings of plus are in e, whose other variables are as they were.
OverlayInv ==
  pc \in {"overlay", "run"} =>
    \A n \in Names : Once(environ, n) =>
      /\ Once(e, n)
      /\ Values(e, n) = IF Said(n, done) = {} THEN Values(environ, n)
                        ELSE {plus[k].value :
                                k \in {l \in Said(n, done) : plus[l].set}}

IInv == SeqInv /\ PlusInv /\ PlaceInv /\ OverlayInv

(***************************************************************************)
(* Sequences of settings.                                                  *)
(***************************************************************************)

\* A setting that was appended is at the end.
LEMMA Appended ==
  ASSUME NEW T, NEW s \in Seq(T), NEW x
  PROVE  /\ \E U : Append(s, x) \in Seq(U)
         /\ Len(s) \in Nat
         /\ Len(Append(s, x)) = Len(s) + 1
         /\ Append(s, x)[Len(s) + 1] = x
         /\ \A k \in 1..Len(s) : Append(s, x)[k] = s[k]
<1> DEFINE U == T \cup {x}
<1>1. s \in Seq(U) /\ x \in U
  OBVIOUS
<1>2. /\ Append(s, x) \in Seq(U)
      /\ Len(s) \in Nat
      /\ Len(Append(s, x)) = Len(s) + 1
      /\ Append(s, x)[Len(s) + 1] = x
      /\ \A k \in 1..Len(s) : Append(s, x)[k] = s[k]
  BY <1>1, SMT
<1> QED
  BY <1>2

\* The last string takes the place of the one that goes.
LEMMA Dropped ==
  ASSUME NEW T, NEW s \in Seq(T), NEW t \in 1..Len(s)
  PROVE  LET r == SubSeq([s EXCEPT ![t] = s[Len(s)]], 1, Len(s) - 1) IN
         /\ r \in Seq(T)
         /\ Len(s) \in Nat \ {0}
         /\ Len(r) = Len(s) - 1
         /\ \A u \in 1..(Len(s) - 1) : r[u] = IF u = t THEN s[Len(s)] ELSE s[u]
<1> DEFINE q == [s EXCEPT ![t] = s[Len(s)]]
           r == SubSeq(q, 1, Len(s) - 1)
<1>1. Len(s) \in Nat \ {0}
  BY SMT
<1>2. q \in Seq(T) /\ Len(q) = Len(s)
  BY <1>1, SMT
<1>3. \A u \in 1..Len(s) : q[u] = IF u = t THEN s[Len(s)] ELSE s[u]
  BY <1>1, SMT
<1>4. /\ r \in Seq(T) /\ Len(r) = Len(s) - 1
      /\ \A u \in 1..(Len(s) - 1) : r[u] = q[u]
  <2> HIDE DEF q
  <2> QED
    BY <1>1, <1>2, SMT
<1> QED
  BY <1>1, <1>3, <1>4

\* Dropping the first string of the name n disturbs no other name, and leaves
\* none of n if there was only one.
LEMMA WithoutOne ==
  ASSUME NEW T, e \in Seq(T), NEW n
  PROVE  /\ Without(n) \in Seq(T)
         /\ \A m : m # n /\ Once(e, m) =>
              Once(Without(n), m) /\ Values(Without(n), m) = Values(e, m)
         /\ Once(e, n) => Values(Without(n), n) = {}
<1> DEFINE r == Without(n)
<1>1. Len(e) \in Nat /\ DOMAIN e = 1..Len(e)
  BY SMT
<1>2. CASE First(n) = {}
  <2>1. r = e
    BY <1>2 DEF Without
  <2>2. ASSUME Once(e, n), NEW t \in DOMAIN e, e[t].name = n
        PROVE  FALSE
    <3>1. \A u \in 1..(t - 1) : e[u].name # n
      BY <1>1, <2>2, SMT DEF Once
    <3> QED
      BY <1>2, <2>2, <3>1 DEF First
  <2> QED
    BY <2>1, <2>2 DEF Values
<1>3. CASE First(n) # {}
  <2>1. PICK t \in First(n) :
          r = SubSeq([e EXCEPT ![t] = e[Len(e)]], 1, Len(e) - 1)
    BY <1>3 DEF Without
  <2>2. t \in 1..Len(e) /\ e[t].name = n
    BY <1>1, <2>1 DEF First
  <2> DEFINE f(u) == IF u = t THEN Len(e) ELSE u
  <2>3. /\ r \in Seq(T) /\ Len(e) \in Nat \ {0} /\ Len(r) = Len(e) - 1
        /\ \A u \in 1..(Len(e) - 1) : r[u] = e[f(u)]
    <3> HIDE DEF r
    <3> QED
      BY <2>1, <2>2, Dropped
  <2> HIDE DEF r
  <2>4. DOMAIN r = 1..(Len(e) - 1)
    BY <2>3, SMT
  <2>5. \A u \in DOMAIN r : f(u) \in DOMAIN e /\ f(u) # t
    <3> TAKE u \in DOMAIN r
    <3>1. u \in 1..Len(e) /\ u # Len(e) /\ Len(e) \in 1..Len(e)
      BY <2>3, <2>4, SMT
    <3>2. CASE u = t
      BY <1>1, <3>1, <3>2
    <3>3. CASE u # t
      BY <1>1, <3>1, <3>3
    <3> QED
      BY <3>2, <3>3
  <2>6. \A u, v \in DOMAIN r : f(u) = f(v) => u = v
    BY <1>1, <2>2, <2>3, <2>4, SMT
  <2>7. \A w \in DOMAIN e \ {t} : \E u \in DOMAIN r : f(u) = w
    <3> TAKE w \in DOMAIN e \ {t}
    <3>1. CASE w = Len(e)
      <4>1. t \in DOMAIN r
        BY <2>2, <2>3, <2>4, <3>1, SMT
      <4>2. f(t) = w
        BY <3>1
      <4> QED
        BY <4>1, <4>2
    <3>2. CASE w # Len(e)
      <4>1. w \in DOMAIN r
        BY <1>1, <2>3, <2>4, <3>2, SMT
      <4>2. f(w) = w
        OBVIOUS
      <4> QED
        BY <4>1, <4>2
    <3> QED
      BY <3>1, <3>2
  <2>8. \A u \in DOMAIN r : r[u] = e[f(u)]
    BY <2>3, <2>4
  <2> HIDE DEF f
  <2>9. ASSUME NEW m, m # n, Once(e, m)
        PROVE  Once(r, m) /\ Values(r, m) = Values(e, m)
    <3>1. Once(r, m)
      BY <2>5, <2>6, <2>8, <2>9 DEF Once
    <3>2. Values(r, m) \subseteq Values(e, m)
      BY <2>5, <2>8 DEF Values
    <3>3. ASSUME NEW w \in DOMAIN e, e[w].name = m
          PROVE  \E u \in DOMAIN r : r[u].name = m /\ r[u].value = e[w].value
      BY <2>2, <2>7, <2>8, <2>9, <3>3
    <3>4. Values(e, m) \subseteq Values(r, m)
      BY <3>3 DEF Values
    <3> QED
      BY <3>1, <3>2, <3>4
  <2>10. ASSUME Once(e, n), NEW u \in DOMAIN r, r[u].name = n
         PROVE  FALSE
    BY <1>1, <2>2, <2>5, <2>8, <2>10 DEF Once
  <2>11. Once(e, n) => Values(r, n) = {}
    BY <2>10 DEF Values
  <2> QED
    BY <2>3, <2>9, <2>11 DEF r
<1> QED
  BY <1>2, <1>3

\* A setting is added to the values of its name only.
LEMMA WithOne ==
  ASSUME NEW T, NEW r \in Seq(T), NEW s
  PROVE  /\ \E U : With(r, s) \in Seq(U)
         /\ \A m : m # s.name /\ Once(r, m) =>
              Once(With(r, s), m) /\ Values(With(r, s), m) = Values(r, m)
         /\ Values(r, s.name) = {} =>
              /\ Once(With(r, s), s.name)
              /\ Values(With(r, s), s.name) = IF s.set THEN {s.value} ELSE {}
<1>1. CASE ~s.set
  <2>1. With(r, s) = r
    BY <1>1 DEF With
  <2> QED
    BY <1>1, <2>1 DEF Values, Once
<1>2. CASE s.set
  <2> DEFINE x == [name |-> s.name, value |-> s.value]
             a == Append(r, x)
  <2>1. With(r, s) = a
    BY <1>2 DEF With
  <2>2. /\ \E U : a \in Seq(U)
        /\ Len(r) \in Nat /\ Len(a) = Len(r) + 1
        /\ a[Len(r) + 1] = x
        /\ \A k \in 1..Len(r) : a[k] = r[k]
    BY Appended
  <2> HIDE DEF a
  <2>3. DOMAIN r = 1..Len(r) /\ DOMAIN a = 1..(Len(r) + 1)
    BY <2>2, SMT
  <2>4. \A k \in DOMAIN r : k \in DOMAIN a /\ a[k] = r[k] /\ k # Len(r) + 1
    BY <2>2, <2>3, SMT
  <2>5. \A k \in DOMAIN a : k \in DOMAIN r \/ k = Len(r) + 1
    BY <2>2, <2>3, SMT
  <2>6. Len(r) + 1 \in DOMAIN a
    BY <2>2, <2>3, SMT
  <2>7. x.name = s.name /\ x.value = s.value
    OBVIOUS
  <2> HIDE DEF x
  <2>8. ASSUME NEW m, m # s.name, Once(r, m)
        PROVE  Once(a, m) /\ Values(a, m) = Values(r, m)
    <3>1. Once(a, m)
      BY <2>2, <2>4, <2>5, <2>7, <2>8 DEF Once
    <3>2. Values(a, m) \subseteq Values(r, m)
      BY <2>2, <2>4, <2>5, <2>7, <2>8 DEF Values
    <3>3. Values(r, m) \subseteq Values(a, m)
      BY <2>4 DEF Values
    <3> QED
      BY <3>1, <3>2, <3>3
  <2>9. ASSUME Values(r, s.name) = {}
        PROVE  Once(a, s.name) /\ Values(a, s.name) = {s.value}
    <3>1. \A k \in DOMAIN r : r[k].name # s.name
      BY <2>9 DEF Values
    <3>2. \A k \in DOMAIN a : a[k].name = s.name <=> k = Len(r) + 1
      BY <2>2, <2>4, <2>5, <2>6, <2>7, <3>1
    <3> QED
      BY <2>2, <2>6, <2>7, <3>2 DEF Once, Values
  <2> QED
    BY <1>2, <2>1, <2>2, <2>8, <2>9
<1> QED
  BY <1>1, <1>2

(***************************************************************************)
(* The steps.                                                              *)
(***************************************************************************)

\* What is to be shown of e after a step that leaves plus alone.
LEMMA OverlayFrame ==
  ASSUME plus' = plus,
         pc' \in {"overlay", "run"} =>
           \A n \in Names : Once(environ', n) =>
             /\ Once(e', n)
             /\ Values(e', n) =
                  IF Said(n, done') = {} THEN Values(environ', n)
                  ELSE {plus[k].value :
                          k \in {l \in Said(n, done') : plus[l].set}}
  PROVE  OverlayInv'
<1>1. \A n : Said(n, done') = {k \in 1..done' : plus'[k].name = n}
  BY DEF Said
<1>2. ASSUME NEW n \in Names, Once(environ', n), pc' \in {"overlay", "run"}
      PROVE  /\ Once(e', n)
             /\ Values(e', n) =
                  IF {k \in 1..done' : plus'[k].name = n} = {}
                  THEN Values(environ', n)
                  ELSE {plus'[k].value :
                          k \in {l \in {k \in 1..done' : plus'[k].name = n} :
                                  plus'[l].set}}
  BY <1>1, <1>2
<1> QED
  BY <1>2 DEF OverlayInv, Said, Once, Values

\* The initial states satisfy the invariant.
LEMMA InitIInv == Init => IInv
<1> SUFFICES ASSUME Init
             PROVE  IInv
  OBVIOUS
<1> DEFINE NoString == <<>>
<1>1. NoString \in Seq({}) /\ Len(NoString) = 0
  BY SMT
<1>2. plus \in Seq({}) /\ e \in Seq({}) /\ Len(plus) = 0
  BY <1>1 DEF Init
<1>3. environ \in Seq(Setting) /\ done \in 0..Len(plus)
  BY <1>2, EnvironAssumption, SMT DEF Init
<1>4. 1..Len(plus) = {}
  BY <1>2, SMT
<1>5. PlusInv
  BY <1>4 DEF Init, PlusInv
<1> QED
  BY <1>2, <1>3, <1>5 DEF Init, IInv, SeqInv, PlaceInv, OverlayInv

\* A file goes into plus with what is to be said of its name.
LEMMA ReadFileStep ==
  ASSUME IInv, NEW n \in Names, ReadFile(n)
  PROVE  IInv'
<1> USE DEF IInv
<1> DEFINE s == IF dir[n].st = "gone" THEN sa ELSE dir[n].text
           x == [name |-> n, set |-> s # <<>>, value |-> Value(s)]
<1>1. /\ pc = "read" /\ n \in todo /\ dir[n].st # "unreadable"
      /\ plus' = Append(plus, x) /\ todo' = todo \ {n}
      /\ UNCHANGED <<environ, dir, pc, e, done>>
  BY DEF ReadFile, OpenReadClose, PathexecEnv
<1>2. x.name = n /\ (x.set <=> s # <<>>) /\ x.value = Value(s)
  OBVIOUS
<1>3. dir[n].st # "gone" =>
        (x.set <=> dir[n].text # <<>>) /\ x.value = Value(dir[n].text)
  BY <1>2
<1> HIDE DEF x
<1>4. /\ \E T : plus' \in Seq(T)
      /\ Len(plus) \in Nat /\ Len(plus') = Len(plus) + 1
      /\ plus'[Len(plus) + 1] = x
      /\ \A k \in 1..Len(plus) : plus'[k] = plus[k]
  <2>1. PICK T : plus \in Seq(T)
    BY DEF SeqInv
  <2> QED
    BY <1>1, <2>1, Appended
<1>5. \A k \in 1..Len(plus') : k \in 1..Len(plus) \/ k = Len(plus) + 1
  BY <1>4, SMT
<1>6. /\ Len(plus) + 1 \in 1..Len(plus')
      /\ \A k \in 1..Len(plus) : k \in 1..Len(plus')
  BY <1>4, SMT
<1>7. SeqInv'
  <2>1. done' \in 0..Len(plus')
    BY <1>1, <1>4, SMT DEF SeqInv
  <2> QED
    BY <1>1, <1>4, <2>1 DEF SeqInv
<1>8. PlusInv'
  <2>1. dir[n].st # "none" /\ n \in Names \ todo'
    <3>1. \A m \in todo : dir[m].st # "none"
      BY DEF PlusInv
    <3> QED
      BY <1>1, <3>1
  <2>2. ASSUME NEW k \in 1..Len(plus')
        PROVE  LET m == plus'[k].name IN
               /\ m \in Names \ todo' /\ dir[m].st \notin {"none", "unreadable"}
               /\ dir[m].st # "gone" =>
                    /\ plus'[k].set <=> dir[m].text # <<>>
                    /\ plus'[k].value = Value(dir[m].text)
    <3>1. CASE k \in 1..Len(plus)
      BY <1>1, <1>4, <3>1 DEF PlusInv
    <3>2. CASE k = Len(plus) + 1
      BY <1>1, <1>2, <1>3, <1>4, <2>1, <3>2
    <3> QED
      BY <1>5, <3>1, <3>2
  <2>3. \A k \in 1..Len(plus) : plus[k].name # n
    BY <1>1 DEF PlusInv
  <2>4. \A k, l \in 1..Len(plus') : plus'[k].name = plus'[l].name => k = l
    <3>1. plus'[Len(plus) + 1].name = n
      BY <1>2, <1>4
    <3>2. \A k \in 1..Len(plus) : plus'[k].name = plus[k].name
      BY <1>4
    <3>3. \A k, l \in 1..Len(plus) : plus[k].name = plus[l].name => k = l
      BY DEF PlusInv
    <3> QED
      BY <1>5, <2>3, <3>1, <3>2, <3>3
  <2>5. ASSUME NEW m \in Names \ todo', dir[m].st # "none"
        PROVE  \E k \in 1..Len(plus') : plus'[k].name = m
    <3>1. CASE m = n
      BY <1>2, <1>4, <1>6, <3>1
    <3>2. CASE m # n
      <4>1. PICK k \in 1..Len(plus) : plus[k].name = m
        BY <1>1, <2>5, <3>2 DEF PlusInv
      <4> QED
        BY <1>4, <1>6, <4>1
    <3> QED
      BY <3>1, <3>2
  <2>6. \A m \in todo' : dir'[m].st # "none"
    BY <1>1 DEF PlusInv
  <2> QED
    BY <1>1, <2>2, <2>4, <2>5, <2>6 DEF PlusInv
<1> QED
  BY <1>1, <1>7, <1>8 DEF PlaceInv, OverlayInv

\* pathexec() begins with the environment of envdir.
LEMMA EndOfDirStep ==
  ASSUME IInv, EndOfDir
  PROVE  IInv'
<1> USE DEF IInv
<1>1. /\ todo = {} /\ done = 0 /\ pc' = "overlay" /\ e' = environ
      /\ UNCHANGED <<environ, dir, todo, sa, plus, done>>
  BY DEF EndOfDir, PlaceInv
<1>2. \A n \in Names : Said(n, 0) = {}
  BY SMT DEF Said
<1>3. OverlayInv'
  BY <1>1, <1>2 DEF OverlayInv, Said, Once, Values
<1> QED
  BY <1>1, <1>3 DEF SeqInv, PlusInv, PlaceInv

\* One setting more is in e.
LEMMA OverlayStep ==
  ASSUME IInv, Overlay
  PROVE  IInv'
<1> USE DEF IInv
<1> DEFINE s == plus[done + 1]
           r == Without(s.name)
<1>1. /\ pc = "overlay" /\ done < Len(plus)
      /\ done' = done + 1
      /\ e' = With(r, s)
      /\ UNCHANGED <<environ, dir, pc, todo, sa, plus>>
  BY DEF Overlay
<1>2. Len(plus) \in Nat /\ done \in 0..Len(plus)
  BY SMT DEF SeqInv
<1>3. /\ done + 1 \in 1..Len(plus) /\ done + 1 \in 0..Len(plus)
      /\ 1..done \subseteq 1..Len(plus)
      /\ 1..(done + 1) = 1..done \cup {done + 1}
      /\ done + 1 \notin 1..done
  BY <1>1, <1>2, SMT
<1>4. PICK T : e \in Seq(T)
  BY DEF SeqInv
<1> HIDE DEF s, r
<1>5. /\ r \in Seq(T)
      /\ \A m : m # s.name /\ Once(e, m) =>
           Once(r, m) /\ Values(r, m) = Values(e, m)
      /\ Once(e, s.name) => Values(r, s.name) = {}
  BY <1>4, WithoutOne DEF r
<1>6. /\ \E U : With(r, s) \in Seq(U)
      /\ \A m : m # s.name /\ Once(r, m) =>
           Once(With(r, s), m) /\ Values(With(r, s), m) = Values(r, m)
      /\ Values(r, s.name) = {} =>
           /\ Once(With(r, s), s.name)
           /\ Values(With(r, s), s.name) = IF s.set THEN {s.value} ELSE {}
  BY <1>5, WithOne
<1>7. SeqInv'
  BY <1>1, <1>3, <1>6 DEF SeqInv
<1>8. ASSUME NEW n \in Names, Once(environ, n)
      PROVE  /\ Once(e', n)
             /\ Values(e', n) =
                  IF Said(n, done + 1) = {} THEN Values(environ, n)
                  ELSE {plus[k].value :
                          k \in {l \in Said(n, done + 1) : plus[l].set}}
  <2>1. /\ Once(e, n)
        /\ Values(e, n) =
             IF Said(n, done) = {} THEN Values(environ, n)
             ELSE {plus[k].value : k \in {l \in Said(n, done) : plus[l].set}}
    BY <1>1, <1>8 DEF OverlayInv
  <2>2. CASE s.name # n
    <3>1. Said(n, done + 1) = Said(n, done)
      BY <1>3, <2>2 DEF Said, s
    <3>2. Once(e', n) /\ Values(e', n) = Values(e, n)
      BY <1>1, <1>5, <1>6, <2>1, <2>2
    <3> QED
      BY <2>1, <3>1, <3>2
  <2>3. CASE s.name = n
    <3>1. Said(n, done + 1) = {done + 1}
      <4>1. \A k, l \in 1..Len(plus) : plus[k].name = plus[l].name => k = l
        BY DEF PlusInv
      <4>2. \A k \in 1..done : plus[k].name # plus[done + 1].name
        BY <1>3, <4>1
      <4>3. plus[done + 1].name = n
        BY <2>3 DEF s
      <4> QED
        BY <1>3, <4>2, <4>3 DEF Said
    <3>2. Once(e', n) /\ Values(e', n) = IF s.set THEN {s.value} ELSE {}
      BY <1>1, <1>5, <1>6, <2>1, <2>3
    <3>3. {plus[k].value : k \in {l \in {done + 1} : plus[l].set}} =
            IF s.set THEN {s.value} ELSE {}
      BY DEF s
    <3> QED
      BY <3>1, <3>2, <3>3
  <2> QED
    BY <2>2, <2>3
<1>9. OverlayInv'
  BY <1>1, <1>8, OverlayFrame
<1> QED
  BY <1>1, <1>7, <1>9 DEF PlusInv, PlaceInv

\* Running the program, or giving up, changes nothing of what was made.
LEMMA LastSteps ==
  ASSUME IInv, Run \/ Complain
  PROVE  IInv'
<1> USE DEF IInv
<1>1. /\ UNCHANGED <<environ, dir, todo, plus, e, done>>
      /\ pc' \in {"overlay", "run"} => pc = "overlay"
  BY DEF Run, Complain
<1>2. SeqInv' /\ PlusInv'
  BY <1>1 DEF SeqInv, PlusInv
<1>3. PlaceInv'
  BY <1>1 DEF Run, Complain, PlaceInv
<1>4. OverlayInv'
  BY <1>1, OverlayFrame DEF OverlayInv
<1> QED
  BY <1>2, <1>3, <1>4

\* Every step keeps the invariant.
LEMMA StepIInv == IInv /\ [Next]_vars => IInv'
<1> SUFFICES ASSUME IInv, [Next]_vars
             PROVE  IInv'
  OBVIOUS
<1>1. ASSUME NEW n \in Names, ReadFile(n)
      PROVE  IInv'
  BY <1>1, ReadFileStep
<1>2. CASE UNCHANGED vars
  <2>1. UNCHANGED <<environ, dir, pc, todo, plus, e, done>>
    BY <1>2 DEF vars
  <2>2. OverlayInv'
    BY <2>1, OverlayFrame DEF IInv, OverlayInv
  <2> QED
    BY <2>1, <2>2 DEF IInv, SeqInv, PlusInv, PlaceInv
<1> QED
  BY <1>1, <1>2, EndOfDirStep, OverlayStep, LastSteps DEF Next

LEMMA Invariance == Spec => []IInv
<1> QED
  BY InitIInv, StepIInv, PTL DEF Spec

(***************************************************************************)
(* The theorem.                                                            *)
(***************************************************************************)

\* When all of plus is in e, e is as the files want it.
LEMMA IInvImpliesRight == IInv => EnvironmentRight
<1> SUFFICES ASSUME IInv, pc = "run",
                    NEW n \in Names, Once(environ, n), dir[n].st # "gone"
             PROVE  Once(e, n) /\ Values(e, n) = Wanted(n)
  BY DEF EnvironmentRight
<1> DEFINE V == {plus[k].value : k \in {l \in Said(n, done) : plus[l].set}}
<1>1. /\ Once(e, n)
      /\ Values(e, n) = IF Said(n, done) = {} THEN Values(environ, n) ELSE V
  BY DEF IInv, OverlayInv
<1>2. done = Len(plus) /\ todo = {}
  BY DEF IInv, PlaceInv
<1>3. CASE dir[n].st = "none"
  <2>1. \A k \in 1..Len(plus) : plus[k].name # n
    BY <1>3 DEF IInv, PlusInv
  <2>2. Said(n, done) = {}
    BY <1>2, <2>1 DEF Said
  <2> QED
    BY <1>1, <1>3, <2>2 DEF Wanted
<1>4. CASE dir[n].st # "none"
  <2>1. PICK k \in 1..Len(plus) : plus[k].name = n
    BY <1>2, <1>4 DEF IInv, PlusInv
  <2>2. \A l \in 1..Len(plus) : plus[l].name = plus[k].name => l = k
    BY <2>1 DEF IInv, PlusInv
  <2>3. Said(n, done) = {k}
    BY <1>2, <2>1, <2>2 DEF Said
  <2>4. /\ plus[k].set <=> dir[n].text # <<>>
        /\ plus[k].value = Value(dir[n].text)
    BY <2>1 DEF IInv, PlusInv
  <2>5. V = IF plus[k].set THEN {plus[k].value} ELSE {}
    BY <2>3
  <2> QED
    BY <1>1, <1>4, <2>3, <2>4, <2>5 DEF Wanted
<1> QED
  BY <1>3, <1>4

\* The program that envdir runs (envdir.c:79) has each variable once and as its
\* file has it, or as it was before if it has no file (pathexec_env.c:33-73),
\* but for those that were there twice, and those whose file vanished.
THEOREM EnvironIsRight == Spec => []EnvironmentRight
<1> QED
  BY Invariance, IInvImpliesRight, PTL

(***************************************************************************)
(* Types.                                                                  *)
(***************************************************************************)

Bytes   == Chars \cup {Newline, Nul}
Strings == Seq((Chars \ {Nul}) \cup {Newline})
Call    == [name : Names, set : BOOLEAN, value : Strings]

\* What TypeOK leaves out, and how many strings e has on its way.
TypeInv ==
  /\ TypeOK
  /\ environ \in Seq(Setting) /\ plus \in Seq(Call)
  /\ sa \in Seq(Bytes) /\ \A n \in Names : dir[n].text \in Seq(Bytes)
  /\ Len(e) =< Len(environ) + done

\* A set of numbers has a least element, and a greatest one if it has a bound.
LEMMA LeastOf ==
  ASSUME NEW S \in SUBSET Nat, S # {}
  PROVE  \E m \in S : \A k \in S : m =< k
<1> DEFINE R == {p \in Nat \X Nat : p[1] < p[2]}
<1>1. IsWellFoundedOn(R, Nat)
  BY NatLessThanWellFounded DEF OpToRel
<1>2. \A k, m \in Nat : <<k, m>> \notin R => m =< k
  OBVIOUS
<1> HIDE DEF R
<1>3. PICK m \in S : \A k \in S : ~(<<k, m>> \in R)
  BY <1>1, WFMin
<1>4. \A k \in S : k \in Nat
  OBVIOUS
<1> QED
  BY <1>2, <1>3, <1>4, Zenon

LEMMA MinIsIn ==
  ASSUME NEW S \in SUBSET Nat, S # {}
  PROVE  Min(S) \in S
<1>1. PICK m \in S : \A k \in S : m =< k
  BY LeastOf
<1> QED
  BY <1>1, Zenon DEF Min

LEMMA MaxIsIn ==
  ASSUME NEW b \in Nat, NEW S \in SUBSET (0..b), S # {}
  PROVE  Max(S) \in S
<1> DEFINE R == {k \in 0..b : b - k \in S}
<1>1. PICK s \in S : TRUE
  OBVIOUS
<1>2. b - s \in R
  <2>1. s \in 0..b /\ b - s \in 0..b /\ b - (b - s) = s
    BY <1>1
  <2> QED
    BY <2>1
<1>3. R \in SUBSET Nat /\ R # {}
  <2>1. R \in SUBSET Nat
    OBVIOUS
  <2> QED
    BY <1>2, <2>1, Zenon
<1>4. PICK m \in R : \A k \in R : m =< k
  <2> HIDE DEF R
  <2> QED
    BY <1>3, LeastOf
<1>5. \A k \in S : b - m >= k
  <2> SUFFICES ASSUME NEW k \in S PROVE b - m >= k
    OBVIOUS
  <2>1. k \in 0..b /\ b - k \in 0..b /\ b - (b - k) = k /\ m \in 0..b
    BY <1>4
  <2>2. b - k \in R
    BY <2>1
  <2>3. m =< b - k
    BY <1>4, <2>2
  <2> QED
    BY <2>1, <2>3
<1>6. b - m \in S
  BY <1>4
<1> QED
  BY <1>5, <1>6, Zenon DEF Max

\* A value is a string that no NUL ends.
LEMMA ValueIsString ==
  ASSUME NEW s \in Seq(Bytes)
  PROVE  Value(s) \in Strings
<1> DEFINE M == {Len(s) + 1} \cup {i \in DOMAIN s : s[i] = Newline}
           f == FirstLine(s)
           N == {0} \cup {i \in DOMAIN f : f[i] \notin Blanks}
           t == Trimmed(f)
<1>1. Len(s) \in Nat /\ DOMAIN s = 1..Len(s)
  BY SMT
<1>2. Min(M) \in M
  <2>1. M \in SUBSET Nat /\ M # {}
    BY <1>1
  <2> QED
    BY <2>1, MinIsIn
<1>3. Min(M) - 1 \in 0..Len(s)
  BY <1>1, <1>2
<1>4. f \in Seq(Bytes)
  <2>1. \A k \in 0..Len(s) : SubSeq(s, 1, k) \in Seq(Bytes)
    BY <1>1, SMT
  <2> QED
    BY <1>3, <2>1, Zenon DEF FirstLine
<1> HIDE DEF f
<1>5. Len(f) \in Nat /\ DOMAIN f = 1..Len(f)
  BY <1>4, SMT
<1>6. Max(N) \in 0..Len(f)
  <2>1. N \in SUBSET (0..Len(f)) /\ N # {}
    BY <1>5
  <2> QED
    BY <1>5, <2>1, MaxIsIn
<1>7. t \in Seq(Bytes)
  <2>1. \A k \in 0..Len(f) : SubSeq(f, 1, k) \in Seq(Bytes)
    BY <1>4, <1>5, SMT
  <2> QED
    BY <1>6, <2>1, Zenon DEF Trimmed
<1> HIDE DEF t
<1>8. Value(s) = [i \in DOMAIN t |-> IF t[i] = Nul THEN Newline ELSE t[i]]
  BY DEF Value, t, f
<1>9. /\ Len(t) \in Nat /\ DOMAIN t = 1..Len(t)
      /\ \A i \in 1..Len(t) : t[i] \in Bytes
  BY <1>7, SMT
<1>10. \A i \in 1..Len(t) : (IF t[i] = Nul THEN Newline ELSE t[i])
                              \in (Chars \ {Nul}) \cup {Newline}
  BY <1>9 DEF Bytes
<1> QED
  BY <1>8, <1>9, <1>10 DEF Strings

LEMMA InitTypes == Init => TypeInv
<1> SUFFICES ASSUME Init PROVE TypeInv
  OBVIOUS
<1>1. environ \in Seq(Setting)
  BY EnvironAssumption DEF Init
<1>2. ASSUME NEW n \in Names PROVE dir[n].text \in Seq(Bytes)
  <2>1. dir[n] \in [st : {"file"}, text : Texts]
                     \cup [st : {"none", "gone", "unreadable"}, text : {<<>>}]
    BY DEF Init
  <2>2. dir[n].text \in Texts \cup {<<>>}
    BY <2>1
  <2>3. ASSUME NEW k \in 0..MaxFile, NEW t \in [1..k -> Chars]
        PROVE  t \in Seq(Bytes)
    <3>1. k \in Nat /\ t \in [1..k -> Bytes]
      BY EnvironAssumption DEF Bytes
    <3> QED
      BY <3>1
  <2>4. <<>> \in Seq(Bytes)
    OBVIOUS
  <2> QED
    BY <2>2, <2>3, <2>4, Zenon DEF Texts
<1>3. plus \in Seq(Call) /\ sa \in Seq(Bytes) /\ e \in Seq(Setting)
  BY DEF Init
<1>4. Len(e) = 0 /\ Len(plus) = 0 /\ done = 0 /\ Len(environ) \in Nat
  BY <1>1, SMT DEF Init
<1>5. pc = "read" /\ todo \subseteq Names
  BY DEF Init
<1> QED
  BY <1>1, <1>2, <1>3, <1>4, <1>5, SMT DEF TypeInv, TypeOK

\* What is read and said of a file.
LEMMA ReadTypes ==
  ASSUME TypeInv, NEW n \in Names, ReadFile(n)
  PROVE  TypeInv'
<1> DEFINE s == OpenReadClose(n)
<1>1. s \in Seq(Bytes)
  BY DEF OpenReadClose, TypeInv
<1>2. Value(s) \in Strings
  BY <1>1, ValueIsString
<1> HIDE DEF s
<1>3. sa' \in Seq(Bytes)
  <2>1. sa' = IF s = <<>> THEN s ELSE Append(Value(s), Nul)
    BY DEF ReadFile, s
  <2>2. Value(s) \in Seq(Bytes) /\ Nul \in Bytes
    BY <1>2 DEF Strings, Bytes
  <2>3. Append(Value(s), Nul) \in Seq(Bytes)
    BY <2>2
  <2> QED
    BY <1>1, <2>1, <2>3
<1>4. plus' \in Seq(Call) /\ Len(plus') = Len(plus) + 1 /\ Len(plus) \in Nat
  <2> DEFINE c == [name |-> n, set |-> s # <<>>, value |-> Value(s)]
  <2>1. plus' = Append(plus, c)
    BY Zenon DEF ReadFile, PathexecEnv, s
  <2>2. c \in Call
    BY <1>2 DEF Call
  <2> HIDE DEF c
  <2> QED
    BY <2>1, <2>2 DEF TypeInv
<1>5. UNCHANGED <<environ, dir, pc, e, done>> /\ todo' \subseteq todo
  BY DEF ReadFile
<1> QED
  BY <1>3, <1>4, <1>5, SMT DEF TypeInv, TypeOK

\* One time round the loop of pathexec().
LEMMA OverlayTypes ==
  ASSUME TypeInv, Overlay
  PROVE  TypeInv'
<1> DEFINE s == plus[done + 1]
           r == Without(s.name)
<1>1. /\ done \in Nat /\ done + 1 \in 1..Len(plus) /\ done' = done + 1
      /\ Len(environ) \in Nat /\ Len(e) \in Nat
      /\ e' = With(r, s)
  BY SMT DEF Overlay, TypeInv, TypeOK
<1>2. s \in Call
  BY <1>1 DEF TypeInv
<1>3. r \in Seq(Setting) /\ Len(r) =< Len(e)
  <2>1. CASE First(s.name) = {}
    BY <1>1, <2>1, SMT DEF Without, TypeInv, TypeOK
  <2>2. CASE First(s.name) # {}
    <3>1. PICK t \in First(s.name) :
            r = SubSeq([e EXCEPT ![t] = e[Len(e)]], 1, Len(e) - 1)
      BY <2>2 DEF Without
    <3>2. t \in 1..Len(e) /\ e \in Seq(Setting)
      BY <3>1 DEF First, TypeInv, TypeOK
    <3> HIDE DEF r
    <3> QED
      BY <1>1, <3>1, <3>2, Dropped
  <2> QED
    BY <2>1, <2>2
<1> HIDE DEF r
<1>4. e' \in Seq(Setting) /\ Len(e') =< Len(e) + 1
  <2>1. CASE ~s.set
    BY <1>1, <1>3, <2>1 DEF With
  <2>2. CASE s.set
    <3>1. [name |-> s.name, value |-> s.value] \in Setting
      BY <1>2 DEF Call, Strings, Setting
    <3> QED
      BY <1>1, <1>3, <2>2, <3>1 DEF With
  <2> QED
    BY <2>1, <2>2
<1>5. Len(e') \in Nat
  BY <1>4
<1>6. UNCHANGED <<environ, dir, pc, todo, sa, plus>>
  BY DEF Overlay
<1> QED
  BY <1>1, <1>4, <1>5, <1>6, SMT DEF TypeInv, TypeOK

LEMMA StepTypes == TypeInv /\ [Next]_vars => TypeInv'
<1> SUFFICES ASSUME TypeInv, [Next]_vars PROVE TypeInv'
  OBVIOUS
<1>1. CASE EndOfDir
  <2>1. e' = environ /\ pc' = "overlay"
    BY <1>1 DEF EndOfDir
  <2>2. UNCHANGED <<environ, dir, todo, sa, plus, done>>
    BY <1>1 DEF EndOfDir
  <2>3. Len(environ) \in Nat /\ Len(plus) \in Nat
    BY SMT DEF TypeInv
  <2> QED
    BY <2>1, <2>2, <2>3, SMT DEF TypeInv, TypeOK
<1>2. CASE Run \/ Complain
  BY <1>2, SMT DEF Run, Complain, TypeInv, TypeOK
<1>3. CASE UNCHANGED vars
  BY <1>3, SMT DEF vars, TypeInv, TypeOK
<1> QED
  BY <1>1, <1>2, <1>3, ReadTypes, OverlayTypes DEF Next

\* Every value that the program is given is a string that no NUL ends early, and
\* pathexec() writes no more strings than it has counted (pathexec_env.c:36-43).
THEOREM TypeCorrect == Spec => []TypeOK
<1>1. TypeInv => TypeOK
  BY DEF TypeInv
<1> QED
  BY InitTypes, StepTypes, <1>1, PTL DEF Spec
=============================================================================
