-------------------------------- MODULE Loop -------------------------------
(***************************************************************************)
(* A loop over a sequence or up a count, and what holds when it is         *)
(* through: the argument the proofs use for every loop of the code that a  *)
(* module writes as a fold or as a recursive function of the count.  A     *)
(* proof instantiates the module with the body of the loop and the         *)
(* invariant the loop keeps.                                               *)
(***************************************************************************)
EXTENDS Integers, WellFoundedInduction, TLAPS

CONSTANTS
    Step(_, _, _), \* Step(q, a, x): the state after the turn of x from a
    Good(_, _, _)  \* Good(p, k, a): a may be the state after k turns

Last(S) == CHOOSE x \in S : \A y \in S : x >= y

\* FoldLeft(LAMBDA a, x : Step(q, a, x), base, s), written out.
Turns(q, base, s) ==
    LET iter[S \in SUBSET DOMAIN s] ==
            IF S = {} THEN base
            ELSE LET x == Last(S) IN Step(q, iter[S \ {x}], s[x])
    IN  iter[DOMAIN s]

\* What holds of 0, and of n + 1 if it holds of n, holds up to m.
LEMMA CountUp ==
    ASSUME NEW T, NEW m \in Nat, 0 \in T,
           \A n \in 0 .. m - 1 : n \in T => n + 1 \in T
    PROVE  0 .. m \subseteq T
<1> DEFINE lacks == (0 .. m) \ T
<1> SUFFICES ASSUME lacks # {} PROVE FALSE
  OBVIOUS
<1>1. PICK x \in lacks : \A y \in lacks : ~ (<<y, x>> \in OpToRel(<, Nat))
  <2>1. lacks \subseteq Nat
    OBVIOUS
  <2> HIDE DEF lacks
  <2> QED
    BY <2>1, WFMin, NatLessThanWellFounded
<1>2. x \in Nat /\ x # 0 /\ x <= m
  OBVIOUS
<1>3. x - 1 \in T
  <2>1. <<x - 1, x>> \in OpToRel(<, Nat)
    <3>1. <<x - 1, x>> \in Nat \X Nat /\ x - 1 < x
      BY <1>2
    <3>2. <<x - 1, x>> \in {ss \in Nat \X Nat : ss[1] < ss[2]}
      BY <3>1
    <3> QED
      BY <3>2, Zenon DEF OpToRel
  <2>2. x - 1 \notin lacks
    <3> HIDE DEF lacks
    <3> QED
      BY <1>1, <2>1
  <2> QED
    BY <1>2, <2>2
<1>4. x - 1 \in 0 .. m - 1 /\ (x - 1) + 1 = x
  BY <1>2
<1>5. x \in T
  BY <1>3, <1>4
<1> QED
  BY <1>5

\* The last of the numbers up to n + 1 is n + 1.
LEMMA LastIs ==
    ASSUME NEW n \in Nat, NEW S \in SUBSET (1 .. n + 1), n + 1 \in S
    PROVE  Last(S) = n + 1
<1>1. \A y \in S : n + 1 >= y
  OBVIOUS
<1>2. \A x \in S : (\A y \in S : x >= y) => x = n + 1
  OBVIOUS
<1> QED
  BY <1>1, <1>2 DEF Last

\* An invariant that the start has and that every turn keeps holds at the end.
THEOREM TurnsReach ==
    ASSUME NEW p, NEW q, NEW base, NEW s, NEW n \in Nat, DOMAIN s = 1 .. n,
           Good(p, 0, base),
           \A k \in 1 .. n : \A a :
               Good(p, k - 1, a) => Good(p, k, Step(q, a, s[k]))
    PROVE  Good(p, n, Turns(q, base, s))
<1> DEFINE Body(f, S) == IF S = {} THEN base
                         ELSE Step(q, f[S \ {Last(S)}], s[Last(S)])
           Iter(f, m) == f = [S \in SUBSET (1 .. m) |-> Body(f, S)]
           iter == CHOOSE f : Iter(f, n)
           T == {m \in 0 .. n : \E f : Iter(f, m)}
           U == {m \in 0 .. n : Good(p, m, iter[1 .. m])}
<1>1. 0 \in T
  <2> DEFINE f == [S \in SUBSET (1 .. 0) |-> base]
  <2>1. Iter(f, 0)
    <3>1. \A S \in SUBSET (1 .. 0) : S = {}
      OBVIOUS
    <3> QED
      BY <3>1
  <2> HIDE DEF f, Iter
  <2> QED
    BY <2>1
<1>2. ASSUME NEW m \in 0 .. n - 1, m \in T PROVE m + 1 \in T
  <2>1. PICK f : Iter(f, m)
    BY <1>2
  <2> DEFINE more == [S \in SUBSET (1 .. m + 1) |->
                        IF m + 1 \in S
                        THEN Step(q, f[S \ {m + 1}], s[m + 1]) ELSE f[S]]
  <2>2. \A S \in SUBSET (1 .. m) : f[S] = Body(f, S)
    <3> HIDE DEF Body
    <3> QED
      BY <2>1
  <2>3. \A S \in SUBSET (1 .. m + 1) : more[S] = Body(more, S)
    <3> SUFFICES ASSUME NEW S \in SUBSET (1 .. m + 1)
                 PROVE  more[S] = Body(more, S)
      OBVIOUS
    <3>1. CASE m + 1 \in S
      <4>1. Last(S) = m + 1
        BY <3>1, LastIs
      <4>2. S \ {m + 1} \in SUBSET (1 .. m + 1) /\ m + 1 \notin S \ {m + 1}
        OBVIOUS
      <4>3. more[S \ {m + 1}] = f[S \ {m + 1}]
        BY <4>2
      <4>4. more[S] = Step(q, f[S \ {m + 1}], s[m + 1])
        BY <3>1
      <4> HIDE DEF more
      <4> QED
        BY <3>1, <4>1, <4>3, <4>4
    <3>2. CASE m + 1 \notin S
      <4>1. S \in SUBSET (1 .. m) /\ S \ {Last(S)} \in SUBSET (1 .. m + 1)
            /\ m + 1 \notin S \ {Last(S)}
        <5>1. S \subseteq 1 .. m
          BY <3>2
        <5> HIDE DEF Body, more
        <5> QED
          BY <3>2, <5>1
      <4>2. more[S] = f[S] /\ more[S \ {Last(S)}] = f[S \ {Last(S)}]
        BY <3>2, <4>1
      <4>3. f[S] = Body(f, S)
        BY <2>2, <4>1
      <4> HIDE DEF more
      <4> QED
        BY <4>2, <4>3
    <3> QED
      BY <3>1, <3>2
  <2>4. Iter(more, m + 1)
    <3>1. more = [S \in SUBSET (1 .. m + 1) |-> more[S]]
      OBVIOUS
    <3> HIDE DEF more, Body
    <3> QED
      BY <2>3, <3>1
  <2> HIDE DEF more, Iter
  <2> QED
    BY <2>4
<1>3. n \in T
  <2> HIDE DEF T
  <2>1. 0 .. n \subseteq T
    BY <1>1, <1>2, CountUp
  <2> QED
    BY <2>1
<1>4. Iter(iter, n)
  <2>1. \E f : Iter(f, n)
    BY <1>3
  <2> HIDE DEF Iter
  <2> QED
    BY <2>1
<1> HIDE DEF iter, T
<1>5. \A S \in SUBSET (1 .. n) : iter[S] = Body(iter, S)
  <2> HIDE DEF Body
  <2> QED
    BY <1>4
<1>6. 0 \in U
  <2>1. iter[1 .. 0] = base
    <3>1. 1 .. 0 = {} /\ 1 .. 0 \in SUBSET (1 .. n)
      OBVIOUS
    <3> QED
      BY <1>5, <3>1
  <2> QED
    BY <2>1
<1>7. ASSUME NEW m \in 0 .. n - 1, m \in U PROVE m + 1 \in U
  <2>1. /\ 1 .. m + 1 \in SUBSET (1 .. n) /\ m + 1 \in 1 .. m + 1
        /\ (1 .. m + 1) \ {m + 1} = 1 .. m /\ m + 1 \in 1 .. n
        /\ (m + 1) - 1 = m
    OBVIOUS
  <2>2. Last(1 .. m + 1) = m + 1
    BY <2>1, LastIs
  <2>3. iter[1 .. m + 1] = Step(q, iter[1 .. m], s[m + 1])
    BY <1>5, <2>1, <2>2
  <2>4. Good(p, m, iter[1 .. m])
    BY <1>7
  <2>5. Good(p, m + 1, iter[1 .. m + 1])
    BY <2>1, <2>3, <2>4
  <2> QED
    BY <2>1, <2>5
<1>8. n \in U
  <2> HIDE DEF U
  <2>1. 0 .. n \subseteq U
    BY <1>6, <1>7, CountUp
  <2> QED
    BY <2>1
<1>9. Turns(q, base, s) = iter[1 .. n]
  BY DEF Turns, iter
<1> QED
  BY <1>8, <1>9

-----------------------------------------------------------------------------
(* A function that is defined from one number to the next. *)

\* f[k \in 0 .. m] == IF k = 0 THEN base ELSE Step(q, f[k - 1], k).
Counted(q, base, m) ==
    LET f[k \in 0 .. m] == IF k = 0 THEN base ELSE Step(q, f[k - 1], k) IN f

\* There is such a function: what its definition says holds of it.
THEOREM CountedIs ==
    ASSUME NEW q, NEW base, NEW m \in Nat
    PROVE  LET f == Counted(q, base, m)
           IN  f = [k \in 0 .. m |->
                       IF k = 0 THEN base ELSE Step(q, f[k - 1], k)]
<1> DEFINE Turn(f, k) == IF k = 0 THEN base ELSE Step(q, f[k - 1], k)
           Is(f, n) == f = [k \in 0 .. n |-> Turn(f, k)]
           T == {n \in 0 .. m : \E f : Is(f, n)}
<1>1. 0 \in T
  <2> DEFINE f == [k \in 0 .. 0 |-> base]
  <2>1. f = [k \in 0 .. 0 |-> Turn(f, k)]
    <3>1. \A k \in 0 .. 0 : Turn(f, k) = base
      OBVIOUS
    <3> HIDE DEF Turn
    <3> QED
      BY <3>1
  <2> HIDE DEF f, Turn
  <2> QED
    BY <2>1
<1>2. ASSUME NEW n \in 0 .. m - 1, n \in T PROVE n + 1 \in T
  <2>1. PICK f : Is(f, n)
    BY <1>2
  <2> DEFINE more == [k \in 0 .. n + 1 |->
                        IF k <= n THEN f[k] ELSE Step(q, f[n], n + 1)]
  <2>2. \A k \in 0 .. n : f[k] = Turn(f, k)
    <3> HIDE DEF Turn
    <3> QED
      BY <2>1
  <2>3. ASSUME NEW k \in 0 .. n + 1 PROVE more[k] = Turn(more, k)
    <3>1. CASE k = 0
      <4>1. more[0] = f[0] /\ f[0] = base
        BY <2>2
      <4> HIDE DEF more
      <4> QED
        BY <3>1, <4>1
    <3>2. CASE k # 0 /\ k <= n
      <4>1. k - 1 \in 0 .. n + 1 /\ k - 1 <= n /\ k \in 0 .. n
        BY <3>2
      <4>2. more[k] = f[k] /\ more[k - 1] = f[k - 1]
        BY <3>2, <4>1
      <4>3. f[k] = Step(q, f[k - 1], k)
        BY <2>2, <3>2, <4>1
      <4> HIDE DEF more
      <4> QED
        BY <3>2, <4>2, <4>3
    <3>3. CASE ~(k <= n)
      <4>1. k = n + 1 /\ k # 0 /\ k - 1 = n /\ n \in 0 .. n + 1
        BY <3>3
      <4>2. more[k] = Step(q, f[n], n + 1) /\ more[k - 1] = f[n]
        BY <3>3, <4>1
      <4> HIDE DEF more
      <4> QED
        BY <4>1, <4>2
    <3> QED
      BY <3>1, <3>2, <3>3
  <2>4. Is(more, n + 1)
    <3>1. more = [k \in 0 .. n + 1 |-> more[k]]
      OBVIOUS
    <3> HIDE DEF more, Turn
    <3> QED
      BY <2>3, <3>1
  <2> HIDE DEF more, Is
  <2> QED
    BY <2>4
<1>3. m \in T
  <2> HIDE DEF T
  <2>1. 0 .. m \subseteq T
    BY <1>1, <1>2, CountUp
  <2> QED
    BY <2>1
<1>4. \E f : Is(f, m)
  BY <1>3
<1>5. Is(CHOOSE f : Is(f, m), m)
  <2> HIDE DEF Is
  <2> QED
    BY <1>4
<1> QED
  BY <1>5 DEF Counted
=============================================================================
