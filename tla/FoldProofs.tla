----------------------------- MODULE FoldProofs -----------------------------
(***************************************************************************)
(* Induction on the numbers, put into facts about sets and functions, and  *)
(* the recursive functions over the elements of a sequence that the models *)
(* fold with.  What a loop keeps (FoldKeeps) is proved here for any step   *)
(* Op and any Good; the modules that use it instantiate this one with the  *)
(* body of each loop.                                                      *)
(***************************************************************************)
EXTENDS Naturals, Sequences, Folding, WellFoundedInduction, TLAPS

CONSTANTS
  Op(_, _, _),   \* the body of a loop: a parameter of the loop, the value so far, an element
  Good(_, _, _)  \* what is true of the value after some of the elements: the parameter, how many, the value

\* A set of numbers has a least one.
LEMMA LeastOfNat ==
  ASSUME NEW S, S \subseteq Nat, S # {}
  PROVE  \E i \in S : \A n \in S : i <= n
<1>1. IsWellFoundedOn(OpToRel(<, Nat), Nat)
  BY NatLessThanWellFounded
<1>2. OpToRel(<, Nat) = {pair \in Nat \X Nat : pair[1] < pair[2]}
  BY DEF OpToRel
<1>3. PICK i \in S : \A n \in S : ~ (<<n, i>> \in {pair \in Nat \X Nat : pair[1] < pair[2]})
  BY <1>1, <1>2, WFMin
<1>4. ASSUME NEW n \in S PROVE i <= n
  <2>1. ~ (n < i)
    BY <1>3
  <2> QED BY <2>1
<1> QED BY <1>4

LEMMA InductionUpTo ==
  ASSUME NEW N \in Nat, NEW S, 0 \in S, \A n \in 1 .. N : n - 1 \in S => n \in S
  PROVE  \A n \in 0 .. N : n \in S
<1> DEFINE bad == (0 .. N) \ S
<1> SUFFICES ASSUME bad # {} PROVE FALSE
  OBVIOUS
<1>0. bad \subseteq Nat
  OBVIOUS
<1> HIDE DEF bad
<1>1. PICK i \in bad : \A n \in bad : i <= n
  BY <1>0, LeastOfNat
<1> USE DEF bad
<1>2. i \in 1 .. N
  BY <1>1
<1>3. i - 1 \in 0 .. N /\ ~ (i <= i - 1)
  BY <1>2
<1>4. i - 1 \in S
  BY <1>1, <1>3
<1> QED BY <1>1, <1>2, <1>4

\* What is true of a function at 0, and at each number when at the one before, is true throughout.
LEMMA ValuesUpTo ==
  ASSUME NEW N \in Nat, NEW G, NEW f, f[0] \in G[0],
         \A n \in 1 .. N : f[n - 1] \in G[n - 1] => f[n] \in G[n]
  PROVE  f[N] \in G[N]
<1> DEFINE S == {m \in 0 .. N : f[m] \in G[m]}
<1>1. 0 \in S
  OBVIOUS
<1>2. \A n \in 1 .. N : n - 1 \in S => n \in S
  OBVIOUS
<1> HIDE DEF S
<1>3. \A n \in 0 .. N : n \in S
  BY <1>1, <1>2, InductionUpTo
<1> QED BY <1>3 DEF S

\* f is the function that starts at base and takes the step of each number after the other
Recurs(f, N, base, step) == f = [n \in 0 .. N |-> IF n = 0 THEN base ELSE step[n][f[n - 1]]]

\* A function may be defined by what it is at 0 and what follows at each number, and what
\* the steps keep is true of all its values: G[n] holds what may be reached after n of them.
LEMMA RecursionUpTo ==
  ASSUME NEW N \in Nat, NEW G, NEW base, base \in G[0], NEW step,
         \A n \in 1 .. N : \A g \in G[n - 1] : step[n][g] \in G[n]
  PROVE  \E f : Recurs(f, N, base, step) /\ \A n \in 0 .. N : f[n] \in G[n]
<1> DEFINE Upto(f, m) == /\ DOMAIN f = 0 .. m /\ f[0] = base
                         /\ \A n \in 1 .. m : f[n] = step[n][f[n - 1]]
                         /\ \A n \in 0 .. m : f[n] \in G[n]
           S == {m \in 0 .. N : \E f : Upto(f, m)}
<1>1. 0 \in S
  <2> DEFINE f == [n \in 0 .. 0 |-> base]
  <2>1. Upto(f, 0)
    OBVIOUS
  <2> HIDE DEF f, Upto
  <2> QED BY <2>1
<1>2. ASSUME NEW m \in 1 .. N, m - 1 \in S PROVE m \in S
  <2>1. PICK f : Upto(f, m - 1)
    BY <1>2
  <2> DEFINE g == [n \in 0 .. m |-> IF n = m THEN step[m][f[m - 1]] ELSE f[n]]
  <2>2. \A n \in 0 .. m - 1 : g[n] = f[n] /\ n # m
    OBVIOUS
  <2>3. g[m] = step[m][f[m - 1]] /\ g[m - 1] = f[m - 1] /\ f[m - 1] \in G[m - 1]
    BY <2>1, <2>2
  <2>4. g[m] \in G[m]
    BY <2>3
  <2>5. DOMAIN g = 0 .. m /\ g[0] = base
    BY <2>1, <2>2
  <2> HIDE DEF g
  <2>6. ASSUME NEW n \in 1 .. m PROVE g[n] = step[n][g[n - 1]]
    <3>1. CASE n = m
      BY <2>3, <3>1
    <3>2. CASE n # m
      <4>1. n \in 1 .. m - 1 /\ n \in 0 .. m - 1 /\ n - 1 \in 0 .. m - 1
        BY <3>2
      <4> QED BY <2>1, <2>2, <4>1
    <3> QED BY <3>1, <3>2
  <2>7. ASSUME NEW n \in 0 .. m PROVE g[n] \in G[n]
    <3>1. CASE n = m
      BY <2>4, <3>1
    <3>2. CASE n # m
      <4>1. n \in 0 .. m - 1
        BY <3>2
      <4> QED BY <2>1, <2>2, <4>1
    <3> QED BY <3>1, <3>2
  <2>8. Upto(g, m)
    BY <2>5, <2>6, <2>7
  <2> QED BY <2>8
<1> HIDE DEF S
<1>3. N \in S
  <2>1. \A n \in 0 .. N : n \in S
    BY <1>1, <1>2, InductionUpTo
  <2> QED BY <2>1
<1>4. PICK h : Upto(h, N)
  BY <1>3 DEF S
<1> DEFINE f == [n \in 0 .. N |-> h[n]]
<1>5. \A n \in 0 .. N : f[n] = h[n]
  OBVIOUS
<1>6. ASSUME NEW n \in 0 .. N PROVE f[n] = IF n = 0 THEN base ELSE step[n][f[n - 1]]
  <2>1. CASE n = 0
    BY <1>4, <2>1
  <2>2. CASE n # 0
    <3>1. n \in 1 .. N /\ n - 1 \in 0 .. N
      BY <2>2
    <3> QED BY <1>4, <1>5, <2>2, <3>1
  <2> QED BY <2>1, <2>2
<1>7. f = [n \in 0 .. N |-> IF n = 0 THEN base ELSE step[n][f[n - 1]]]
  <2>1. f = [n \in 0 .. N |-> f[n]]
    OBVIOUS
  <2> HIDE DEF f
  <2> QED BY <1>6, <2>1
<1> QED BY <1>4, <1>5, <1>7 DEF Recurs

-----------------------------------------------------------------------------
(* Loops *)

Looped(p, base, s) == Folded(LAMBDA x, e : Op(p, x, e), base, s)

\* What is true before a loop, and kept by each of its rounds, is true after it.
LEMMA FoldKeeps ==
  ASSUME NEW p, NEW base, NEW s, Len(s) \in Nat, Good(p, 0, base),
         \A x : \A n \in 1 .. Len(s) : Good(p, n - 1, x) => Good(p, n, Op(p, x, s[n]))
  PROVE  Good(p, Len(s), Looped(p, base, s))
<1> DEFINE N == Len(s)
           Upto(f, m) == /\ DOMAIN f = 0 .. m /\ f[0] = base
                         /\ \A n \in 1 .. m : f[n] = Op(p, f[n - 1], s[n])
           S == {m \in 0 .. N : \E f : Upto(f, m)}
           Is(f) == f = [n \in 0 .. N |-> IF n = 0 THEN base ELSE Op(p, f[n - 1], s[n])]
<1> HIDE DEF N
<1>0. N \in Nat
  BY DEF N
<1>1. 0 \in S
  <2> DEFINE f == [n \in 0 .. 0 |-> base]
  <2>1. Upto(f, 0)
    OBVIOUS
  <2> HIDE DEF f, Upto
  <2> QED BY <2>1, <1>0
<1>2. ASSUME NEW m \in 1 .. N, m - 1 \in S PROVE m \in S
  <2>1. PICK f : Upto(f, m - 1)
    BY <1>2
  <2> DEFINE g == [n \in 0 .. m |-> IF n = m THEN Op(p, f[m - 1], s[m]) ELSE f[n]]
  <2>2. \A n \in 0 .. m - 1 : g[n] = f[n] /\ n # m
    BY <1>0
  <2>3. g[m] = Op(p, f[m - 1], s[m]) /\ g[m - 1] = f[m - 1]
    BY <2>2, <1>0
  <2>4. DOMAIN g = 0 .. m /\ g[0] = base
    BY <2>1, <2>2, <1>0
  <2> HIDE DEF g
  <2>5. ASSUME NEW n \in 1 .. m PROVE g[n] = Op(p, g[n - 1], s[n])
    <3>1. CASE n = m
      BY <2>3, <3>1
    <3>2. CASE n # m
      <4>1. n \in 1 .. m - 1 /\ n \in 0 .. m - 1 /\ n - 1 \in 0 .. m - 1
        BY <3>2, <1>0
      <4> QED BY <2>1, <2>2, <4>1
    <3> QED BY <3>1, <3>2
  <2>6. Upto(g, m)
    BY <2>4, <2>5
  <2> QED BY <2>6, <1>0
<1> HIDE DEF S
<1>3. PICK h : Upto(h, N)
  <2>1. \A n \in 0 .. N : n \in S
    BY <1>0, <1>1, <1>2, InductionUpTo
  <2>2. N \in S
    BY <2>1, <1>0
  <2> QED BY <2>2 DEF S
<1>4. \E f : Is(f)
  <2> DEFINE f == [n \in 0 .. N |-> h[n]]
  <2>1. \A n \in 0 .. N : f[n] = h[n]
    OBVIOUS
  <2>2. ASSUME NEW n \in 0 .. N PROVE f[n] = IF n = 0 THEN base ELSE Op(p, f[n - 1], s[n])
    <3>1. n = 0 \/ (n \in 1 .. N /\ n - 1 \in 0 .. N)
      BY <1>0
    <3> QED BY <1>3, <2>1, <3>1
  <2>3. f = [n \in 0 .. N |-> f[n]]
    OBVIOUS
  <2> HIDE DEF f
  <2>4. Is(f)
    BY <2>2, <2>3
  <2> QED BY <2>4
<1> DEFINE f == CHOOSE f : Is(f)
<1>5. Is(f)
  <2> HIDE DEF Is
  <2> QED BY <1>4
<1>6. Looped(p, base, s) = f[N]
  BY Zenon DEF Folded, N, Looped
<1> HIDE DEF f
<1>7. f[0] = base /\ \A n \in 1 .. N : f[n] = Op(p, f[n - 1], s[n])
  BY <1>5, <1>0
<1> HIDE DEF Is
<1>8. Good(p, N, f[N])
  <2> DEFINE Q == {n \in 0 .. N : Good(p, n, f[n])}
  <2>1. 0 \in Q
    BY <1>7, <1>0
  <2>2. ASSUME NEW n \in 1 .. N, n - 1 \in Q PROVE n \in Q
    <3>1. Good(p, n - 1, f[n - 1])
      BY <2>2
    <3>2. Good(p, n, f[n])
      BY <1>7, <3>1 DEF N
    <3> QED BY <3>2, <1>0
  <2> HIDE DEF Q
  <2>3. \A n \in 0 .. N : n \in Q
    BY <1>0, <2>1, <2>2, InductionUpTo
  <2> QED BY <2>3, <1>0 DEF Q
<1> QED BY <1>6, <1>8 DEF N
=============================================================================
