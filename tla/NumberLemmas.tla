---------------------------- MODULE NumberLemmas ----------------------------
(***************************************************************************)
(* What the other proofs need of numbers: induction, functions that are      *)
(* defined by recursion, and the largest element of a set.                   *)
(***************************************************************************)
EXTENDS Integers, FiniteSetsExt, WellFoundedInduction, TLAPS

\* A set of numbers has a least one.
LEMMA LeastNumber ==
  ASSUME NEW T \in SUBSET Nat, T # {}
  PROVE  \E x \in T : \A y \in T : x <= y
<1>1. PICK x \in T : \A y \in T : ~(<<y, x>> \in OpToRel(<, Nat))
  BY NatLessThanWellFounded, WFMin
<1>2. \A y \in Nat : y < x => <<y, x>> \in OpToRel(<, Nat)
  BY Zenon DEF OpToRel
<1>3. \A y \in T : ~(y < x)
  BY <1>1, <1>2, Zenon
<1> QED
  BY <1>3

\* What holds of 0, and of each number up to m if of the one before it, holds
\* of all of them.  T stands for the numbers that it holds of.
LEMMA Induction ==
  ASSUME NEW m \in Nat, NEW T, 0 \in T, \A i \in 1 .. m : i - 1 \in T => i \in T
  PROVE  \A i \in 0 .. m : i \in T
<1> SUFFICES ASSUME NEW k \in 0 .. m, k \notin T PROVE FALSE
  OBVIOUS
<1>1. PICK Others : Others = (0 .. m) \ T
  OBVIOUS
<1>2. Others \subseteq Nat /\ Others # {}
  BY <1>1
<1>3. PICK i \in Others : \A j \in Others : i <= j
  BY <1>2, LeastNumber
<1>4. i \in 1 .. m /\ i - 1 \in 0 .. m /\ ~(i <= i - 1)
  BY <1>1, <1>3
<1> QED
  BY <1>1, <1>3, <1>4

\* f starts at a in A and goes on to m by steps.
Steps(step, m, A) == step \in [1 .. m -> [A -> A]]
Iterates(f, a, step, m, A) ==
  f \in [0 .. m -> A] /\ f[0] = a /\ \A i \in 1 .. m : f[i] = step[i][f[i - 1]]

\* There is such a function.
LEMMA Recursion ==
  ASSUME NEW A, NEW a \in A, NEW m \in Nat, NEW step, Steps(step, m, A)
  PROVE  \E f : Iterates(f, a, step, m, A)
<1> DEFINE Until(n) == \E f : Iterates(f, a, step, n, A)
<1>1. Until(0)
  <2>1. PICK f : f = [i \in 0 .. 0 |-> a]
    OBVIOUS
  <2>2. f \in [0 .. 0 -> A] /\ f[0] = a /\ \A i \in 1 .. 0 : FALSE
    BY <2>1
  <2> QED
    BY <2>2 DEF Iterates
<1>2. ASSUME NEW n \in 1 .. m, Until(n - 1) PROVE Until(n)
  <2>1. PICK g : Iterates(g, a, step, n - 1, A)
    BY <1>2
  <2>2. g \in [0 .. n - 1 -> A] /\ g[0] = a /\ \A i \in 1 .. n - 1 : g[i] = step[i][g[i - 1]]
    BY <2>1 DEF Iterates
  <2>3. n - 1 \in 0 .. n - 1 /\ g[n - 1] \in A
    BY <2>2
  <2>4. step[n][g[n - 1]] \in A
    BY <2>3 DEF Steps
  <2>5. PICK f : f = [i \in 0 .. n |-> IF i = n THEN step[n][g[n - 1]] ELSE g[i]]
    OBVIOUS
  <2>6. f \in [0 .. n -> A]
    BY <2>2, <2>4, <2>5
  <2>7. f[0] = a
    BY <2>2, <2>5
  <2>8. \A i \in 1 .. n : f[i] = step[i][f[i - 1]]
    <3>1. \A i \in 1 .. n - 1 : f[i] = g[i] /\ f[i - 1] = g[i - 1]
      BY <2>5
    <3>2. f[n] = step[n][g[n - 1]] /\ f[n - 1] = g[n - 1]
      BY <2>5
    <3>3. \A i \in 1 .. n - 1 : f[i] = step[i][f[i - 1]]
      BY <2>2, <3>1
    <3>4. \A i \in 1 .. n : i = n \/ i \in 1 .. n - 1
      OBVIOUS
    <3> QED
      BY <3>2, <3>3, <3>4
  <2> QED
    BY <2>6, <2>7, <2>8 DEF Iterates
<1> HIDE DEF Until
<1>3. PICK T : T = {n \in 0 .. m : Until(n)}
  OBVIOUS
<1>4. T \in SUBSET (0 .. m) /\ 0 \in T /\ \A n \in 1 .. m : n - 1 \in T => n \in T
  BY <1>1, <1>2, <1>3
<1>5. m \in T
  BY <1>4, Induction
<1>6. Until(m)
  BY <1>3, <1>5
<1> QED
  BY <1>6 DEF Until

\* A set of numbers with a bound has a largest one.
LEMMA MaxFound ==
  ASSUME NEW n \in Nat, NEW T \in SUBSET (0 .. n), T # {}
  PROVE  Max(T) \in T /\ \A y \in T : y <= Max(T)
<1>1. PICK U : U = {n - x : x \in T}
  OBVIOUS
<1>2. U \subseteq Nat /\ U # {}
  <2>1. \A x \in T : n - x \in Nat
    OBVIOUS
  <2>2. \E x \in T : n - x \in U
    BY <1>1
  <2> QED
    BY <1>1, <2>1, <2>2
<1>3. PICK u \in U : \A y \in U : u <= y
  BY <1>2, LeastNumber
<1>4. PICK x \in T : u = n - x
  BY <1>1, <1>3
<1>5. \A y \in T : x >= y
  <2>1. \A y \in T : n - x <= n - y
    BY <1>1, <1>3, <1>4
  <2> QED
    BY <2>1
<1>6. \E z \in T : \A y \in T : z >= y
  BY <1>5
<1>7. Max(T) \in T /\ \A y \in T : Max(T) >= y
  BY <1>6 DEF Max
<1> QED
  BY <1>7

=============================================================================
