-------------------------------- MODULE Recursion --------------------------------
(***************************************************************************)
(* Induction and recursion over the naturals, stated about sets and        *)
(* functions rather than about operators: what the loops of the code are   *)
(* proved with.                                                            *)
(***************************************************************************)
EXTENDS Integers, TLAPS, WellFoundedInduction

\* The order of the naturals as a relation.
LEMMA LessThan ==
    \E R : IsWellFoundedOn(R, Nat) /\ \A i, j \in Nat : i < j => <<i, j>> \in R
<1>1. \A i, j \in Nat : i < j => <<i, j>> \in OpToRel(<, Nat)
  BY DEF OpToRel
<1> QED BY <1>1, NatLessThanWellFounded, Zenon

\* A set of naturals that is not empty has a smallest one.
LEMMA SmallestExists ==
    ASSUME NEW F, F \subseteq Nat, F # {}
    PROVE  \E first \in F : \A j \in F : first <= j
<1>1. PICK R : IsWellFoundedOn(R, Nat) /\ \A i, j \in Nat : i < j => <<i, j>> \in R
  BY LessThan
<1>2. IsWellFoundedOn(R, Nat)
  BY <1>1
<1>3. \E i \in F : \A j \in F : ~ (<<j, i>> \in R)
  BY <1>2, WFMin, Zenon
<1>4. PICK i \in F : \A j \in F : ~ (<<j, i>> \in R)
  BY <1>3
<1>5. ASSUME NEW j \in F PROVE i <= j
  <2>1. i \in Nat /\ j \in Nat /\ ~ (<<j, i>> \in R)
    BY <1>4, <1>5
  <2>2. ~ (j < i)
    BY <1>1, <2>1
  <2> QED BY <2>1, <2>2
<1> QED BY <1>5

\* Induction: a set of naturals that has zero, and with a number the next one up
\* to a bound, has every number up to the bound.
LEMMA Induction ==
    ASSUME NEW N \in Nat, NEW S, 0 \in S,
           \A n \in 0 .. N : n \in S /\ n < N => n + 1 \in S
    PROVE  0 .. N \subseteq S
<1> DEFINE missing == (0 .. N) \ S
<1>1. SUFFICES ASSUME missing # {} PROVE FALSE
  OBVIOUS
<1>2. PICK first \in missing : \A j \in missing : first <= j
  <2>1. missing \subseteq Nat
    OBVIOUS
  <2> HIDE DEF missing
  <2> QED BY <1>1, <2>1, SmallestExists
<1>3. first # 0 /\ first \in Nat /\ first <= N
  BY <1>2
<1>4. first - 1 \in 0 .. N /\ first - 1 < N /\ first - 1 \notin missing
  BY <1>2, <1>3
<1> QED BY <1>2, <1>3, <1>4

\* A loop of N turns, each a function of the state before it, and its states.
AreTurns(step, N, T) == step \in [1 .. N -> [T -> T]]
AreStates(f, N, base, step) == f[0] = base /\ \A n \in 1 .. N : f[n] = step[n][f[n - 1]]

\* Recursion: a loop has its states.
LEMMA LoopExists ==
    ASSUME NEW T, NEW N \in Nat, NEW base \in T, NEW step, AreTurns(step, N, T)
    PROVE  \E f \in [0 .. N -> T] : AreStates(f, N, base, step)
<1> USE DEF AreTurns
<1> DEFINE Run(f, k) == \A n \in 0 .. k : f[n] = IF n = 0 THEN base ELSE step[n][f[n - 1]]
           S == {k \in 0 .. N : \E f \in [0 .. k -> T] : Run(f, k)}
<1>1. 0 \in S
  <2> DEFINE f == [n \in 0 .. 0 |-> base]
  <2>1. f \in [0 .. 0 -> T] /\ Run(f, 0)
    OBVIOUS
  <2> HIDE DEF f
  <2> QED BY <2>1
<1>2. ASSUME NEW k \in 0 .. N, k \in S, k < N PROVE k + 1 \in S
  <2>1. PICK f \in [0 .. k -> T] : Run(f, k)
    BY <1>2
  <2> DEFINE g == [n \in 0 .. k + 1 |-> IF n = k + 1 THEN step[k + 1][f[k]] ELSE f[n]]
  <2>2. step[k + 1][f[k]] \in T
    BY <1>2
  <2>3. g \in [0 .. k + 1 -> T]
    BY <2>2
  <2>4. ASSUME NEW n \in 0 .. k + 1
        PROVE  g[n] = IF n = 0 THEN base ELSE step[n][g[n - 1]]
    <3>1. CASE n = k + 1
      BY <3>1
    <3>2. CASE n \in 0 .. k
      BY <3>2, <2>1
    <3> QED BY <3>1, <3>2
  <2>5. Run(g, k + 1) /\ k + 1 \in 0 .. N
    BY <1>2, <2>4
  <2> HIDE DEF g, Run
  <2> QED BY <2>3, <2>5
<1> HIDE DEF S
<1>3. 0 .. N \subseteq S
  BY <1>1, <1>2, Induction
<1>4. PICK f \in [0 .. N -> T] : Run(f, N)
  BY <1>3 DEF S
<1> QED BY <1>4 DEF AreStates

===============================================================================
