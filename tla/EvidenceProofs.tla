--------------------------- MODULE EvidenceProofs ---------------------------
(***************************************************************************)
(* Proofs about what a node is given by others and checks for itself, for  *)
(* any content, block size and tokens.  Content fetched by its id is the   *)
(* content that was shared: the hashes of a manifest are read back from its*)
(* root, level by level.  A request served under a policy was granted: the *)
(* tokens checked are a path from the policy's issuer.  The manifest's     *)
(* folding and the walk of a chain are recursive functions; that they are  *)
(* defined, and what they give, is by induction over the naturals.         *)
(***************************************************************************)
EXTENDS Content, Ucan, WellFoundedInduction, TLAPS

\* A set of naturals with 0 and with the next of each of its members is all of them.
LEMMA Induction ==
    ASSUME NEW S \in SUBSET Nat, 0 \in S, \A n \in S : n + 1 \in S
    PROVE  S = Nat
<1> DEFINE R == {ss \in Nat \X Nat : ss[1] < ss[2]}
           T == Nat \ S
<1>0. OpToRel(<, Nat) = R
    BY Zenon DEF OpToRel
<1>1. IsWellFoundedOn(R, Nat)
    BY <1>0, NatLessThanWellFounded, Zenon
<1> HIDE DEF R
<1>2. ASSUME T # {} PROVE FALSE
  <2>1. T \in SUBSET Nat
    BY Zenon
  <2>2. \E x \in T : \A y \in T : ~(<<y, x>> \in R)
    BY <1>1, <1>2, <2>1, WFMin, Zenon
  <2>3. PICK x \in T : \A y \in T : ~(<<y, x>> \in R)
    BY <2>2, Zenon
  <2>4. x \in Nat /\ x # 0 /\ x \notin S
    BY Zenon
  <2>5. x - 1 \in Nat /\ x = (x - 1) + 1 /\ <<x - 1, x>> \in R
    BY <2>4 DEF R
  <2>6. x - 1 \in S
    BY <2>3, <2>5, Zenon
  <2> QED
    BY <2>4, <2>5, <2>6, Zenon
<1> QED
    BY <1>2, Zenon

-----------------------------------------------------------------------------
(* Content *)

\* A sequence, whatever its elements are.
IsSeq(s) == Len(s) \in Nat /\ s = [i \in 1..Len(s) |-> s[i]]

\* A function on the first n positions is a sequence of length n.
LEMMA FunctionIsSeq ==
    ASSUME NEW n \in Nat, NEW f, f = [i \in 1..n |-> f[i]]
    PROVE  IsSeq(f) /\ Len(f) = n
<1> DEFINE S == {f[i] : i \in 1..n}
<1>1. f \in [1..n -> S]
  BY Zenon
<1> HIDE DEF S
<1>2. f \in Seq(S) /\ Len(f) = n
  BY <1>1
<1> QED
  BY <1>2, Zenon DEF IsSeq

\* Sequences of one length and with the same elements are the same.
LEMMA SameSeq ==
    ASSUME NEW a, NEW b, IsSeq(a), IsSeq(b), Len(a) = Len(b), \A i \in 1..Len(a) : a[i] = b[i]
    PROVE  a = b
  BY Zenon DEF IsSeq

\* One pass leaves half the hashes.
LEMMA CombineIs ==
    ASSUME NEW hs, IsSeq(hs), Len(hs) > 1
    PROVE  /\ IsSeq(combine(hs)) /\ Len(combine(hs)) = (Len(hs) + 1) \div 2
           /\ 1 <= Len(combine(hs)) /\ Len(combine(hs)) < Len(hs)
<1> DEFINE n == (Len(hs) + 1) \div 2
<1>1. Len(hs) \in Nat
  BY Zenon DEF IsSeq
<1>2. n \in Nat /\ 1 <= n /\ n < Len(hs)
  BY <1>1
<1>3. combine(hs) = [i \in 1..n |-> combine(hs)[i]]
  BY Zenon DEF combine
<1> HIDE DEF n
<1>4. IsSeq(combine(hs)) /\ Len(combine(hs)) = n
  BY <1>2, <1>3, FunctionIsSeq, Zenon
<1> QED
  BY <1>2, <1>4, Zenon DEF n

\* What a pass combined can be read off its result.
LEMMA CombineApart ==
    ASSUME NEW a, NEW b, IsSeq(a), IsSeq(b), Len(a) = Len(b), Len(a) > 1, combine(a) = combine(b)
    PROVE  a = b
<1>1. Len(a) \in Nat
  BY Zenon DEF IsSeq
<1>2. ASSUME NEW i \in 1..((Len(a) + 1) \div 2)
      PROVE  a[2 * i - 1] = b[2 * i - 1] /\ (2 * i <= Len(a) => a[2 * i] = b[2 * i])
  <2>1. combine(a)[i] = <<"pair", a[2 * i - 1], IF 2 * i <= Len(a) THEN a[2 * i] ELSE a[2 * i - 1]>>
    BY Zenon DEF combine
  <2>2. combine(b)[i] = <<"pair", b[2 * i - 1], IF 2 * i <= Len(a) THEN b[2 * i] ELSE b[2 * i - 1]>>
    BY Zenon DEF combine
  <2> QED
    BY <2>1, <2>2
<1>3. ASSUME NEW j \in 1..Len(a) PROVE a[j] = b[j]
  <2>1. \E i \in 1..((Len(a) + 1) \div 2) : j = 2 * i - 1 \/ (j = 2 * i /\ 2 * i <= Len(a))
    <3>1. (j + 1) \div 2 \in 1..((Len(a) + 1) \div 2)
      BY <1>1
    <3>2. j = 2 * ((j + 1) \div 2) - 1 \/ (j = 2 * ((j + 1) \div 2) /\ 2 * ((j + 1) \div 2) <= Len(a))
      BY <1>1
    <3> QED
      BY <3>1, <3>2, Zenon
  <2> QED
    BY <1>2, <2>1, Zenon
<1> QED
  BY <1>3, SameSeq, Zenon

\* The passes folded makes.
Levels(hs, f) == f = [n \in 0..Len(hs) |-> IF n = 0 THEN hs
                                           ELSE IF Len(f[n - 1]) > 1 THEN combine(f[n - 1]) ELSE f[n - 1]]

\* What folded gives, by those passes.
LEMMA FoldedIs ==
    ASSUME NEW hs
    PROVE  folded(hs) = (CHOOSE f : Levels(hs, f))[Len(hs)][1]
  BY Zenon DEF folded, Levels

\* The passes are defined.
LEMMA LevelsExist ==
    ASSUME NEW hs, Len(hs) \in Nat
    PROVE  \E f : Levels(hs, f)
<1> DEFINE Pass(f, n) == IF n = 0 THEN hs ELSE IF Len(f[n - 1]) > 1 THEN combine(f[n - 1]) ELSE f[n - 1]
           Upto(m, f) == f = [n \in 0..m |-> Pass(f, n)]
           M == {m \in Nat : \E f : Upto(m, f)}
<1>1. 0 \in M
  <2> DEFINE f == [n \in 0..0 |-> hs]
  <2>1. \A n \in 0..0 : n = 0
    OBVIOUS
  <2>2. Upto(0, f)
    BY <2>1, Zenon
  <2>3. 0 \in Nat
    OBVIOUS
  <2> QED
    BY <2>2, <2>3, Zenon
<1>2. ASSUME NEW m \in M PROVE m + 1 \in M
  <2>1. m \in Nat /\ m + 1 \in Nat
    BY SMT
  <2>2. PICK f : Upto(m, f)
    BY Zenon
  <2> DEFINE g == [n \in 0..(m + 1) |-> Pass(f, n)]
  <2>3. ASSUME NEW n \in 0..m PROVE n \in 0..(m + 1) /\ g[n] = f[n]
    <3>1. n \in 0..(m + 1)
      BY <2>1
    <3>2. f[n] = Pass(f, n)
      BY <2>2, Zenon
    <3> QED
      BY <3>1, <3>2, Zenon
  <2>4. \A n \in 0..(m + 1) : n = 0 \/ n - 1 \in 0..m
    BY <2>1
  <2>5. \A n \in 0..(m + 1) : Pass(f, n) = Pass(g, n)
    BY <2>3, <2>4, Zenon
  <2>6. Upto(m + 1, g)
    BY <2>5, Zenon
  <2> QED
    BY <2>1, <2>6, Zenon
<1>3. M = Nat
  <2>1. M \in SUBSET Nat
    BY Zenon
  <2> HIDE DEF M
  <2> QED
    BY <1>1, <1>2, <2>1, Induction, Zenon
<1>4. PICK f : Upto(Len(hs), f)
  BY <1>3, Zenon
<1>5. Levels(hs, f)
  BY <1>4, Zenon DEF Levels
<1> QED
  BY <1>5, Zenon

\* The first of them and one after another.
LEMMA LevelsAt ==
    ASSUME NEW hs, Len(hs) \in Nat, NEW f, Levels(hs, f)
    PROVE  /\ f[0] = hs
           /\ \A n \in Nat : n + 1 <= Len(hs) => f[n + 1] = IF Len(f[n]) > 1 THEN combine(f[n]) ELSE f[n]
<1>1. 0 \in 0..Len(hs)
  OBVIOUS
<1>2. f[0] = hs
  BY <1>1, Zenon DEF Levels
<1>3. ASSUME NEW n \in Nat, n + 1 <= Len(hs)
      PROVE  f[n + 1] = IF Len(f[n]) > 1 THEN combine(f[n]) ELSE f[n]
  <2>1. n + 1 \in 0..Len(hs) /\ n + 1 # 0 /\ (n + 1) - 1 = n
    BY <1>3
  <2> QED
    BY <2>1, Zenon DEF Levels
<1> QED
  BY <1>2, <1>3, Zenon

\* Each pass leaves fewer hashes, until one is left.
LEMMA LevelsShrink ==
    ASSUME NEW hs, IsSeq(hs), Len(hs) > 0, NEW f, Levels(hs, f)
    PROVE  \A n \in Nat : n <= Len(hs) =>
              IsSeq(f[n]) /\ Len(f[n]) >= 1 /\ (Len(f[n]) = 1 \/ Len(f[n]) <= Len(hs) - n)
<1>0. Len(hs) \in Nat
  BY Zenon DEF IsSeq
<1>a. /\ f[0] = hs
      /\ \A n \in Nat : n + 1 <= Len(hs) => f[n + 1] = IF Len(f[n]) > 1 THEN combine(f[n]) ELSE f[n]
  BY <1>0, LevelsAt
<1> DEFINE Holds(n) == IsSeq(f[n]) /\ Len(f[n]) >= 1 /\ (Len(f[n]) = 1 \/ Len(f[n]) <= Len(hs) - n)
           N == {n \in Nat : n <= Len(hs) => Holds(n)}
<1>1. 0 \in N
  <2>1. f[0] = hs
    BY <1>a, Zenon
  <2>2. 0 \in Nat /\ Len(hs) >= 1 /\ Len(hs) <= Len(hs) - 0
    BY <1>0
  <2> QED
    BY <2>1, <2>2, Zenon
<1>2. ASSUME NEW n \in N PROVE n + 1 \in N
  <2>1. n \in Nat /\ n + 1 \in Nat /\ (n <= Len(hs) => Holds(n))
    BY SMT
  <2>2. ASSUME n + 1 <= Len(hs) PROVE Holds(n + 1)
    <3>1. n <= Len(hs)
      BY <1>0, <2>1, <2>2
    <3>2. IsSeq(f[n]) /\ Len(f[n]) >= 1 /\ (Len(f[n]) = 1 \/ Len(f[n]) <= Len(hs) - n)
      BY <2>1, <3>1, Zenon
    <3>3. Len(f[n]) \in Nat
      BY <3>2, Zenon DEF IsSeq
    <3>4. f[n + 1] = IF Len(f[n]) > 1 THEN combine(f[n]) ELSE f[n]
      BY <1>a, <2>1, <2>2, Zenon
    <3>5. CASE Len(f[n]) > 1
      <4>1. /\ f[n + 1] = combine(f[n]) /\ IsSeq(f[n + 1])
            /\ 1 <= Len(f[n + 1]) /\ Len(f[n + 1]) < Len(f[n])
        BY <3>2, <3>4, <3>5, CombineIs, Zenon
      <4>2. Len(f[n + 1]) \in Nat
        BY <4>1, Zenon DEF IsSeq
      <4>3. Len(f[n + 1]) >= 1 /\ Len(f[n + 1]) <= Len(hs) - (n + 1)
        <5> DEFINE u == Len(f[n])
                   v == Len(f[n + 1])
                   w == Len(hs)
        <5>1. u \in Nat /\ v \in Nat /\ w \in Nat /\ u > 1 /\ 1 <= v /\ v < u /\ (u = 1 \/ u <= w - n)
          BY <1>0, <3>2, <3>3, <3>5, <4>1, <4>2, Zenon
        <5> HIDE DEF N, u, v, w
        <5>2. v >= 1 /\ v <= w - (n + 1)
          BY <2>1, <5>1
        <5> QED
          BY <5>2, Zenon DEF v, w
      <4> QED
        BY <4>1, <4>3, Zenon
    <3>6. CASE ~(Len(f[n]) > 1)
      <4>1. f[n + 1] = f[n]
        BY <3>4, <3>6, Zenon
      <4>2. Len(f[n]) = 1
        <5> DEFINE u == Len(f[n])
        <5>1. u \in Nat /\ u >= 1 /\ ~(u > 1)
          BY <3>2, <3>3, <3>6, Zenon
        <5> HIDE DEF N, u
        <5>2. u = 1
          BY <5>1
        <5> QED
          BY <5>2, Zenon DEF u
      <4> QED
        BY <3>2, <4>1, <4>2, Zenon
    <3> QED
      BY <3>5, <3>6, Zenon
  <2> QED
    BY <2>1, <2>2, Zenon
<1>3. N = Nat
  <2>1. N \in SUBSET Nat
    BY Zenon
  <2> HIDE DEF N
  <2> QED
    BY <1>1, <1>2, <2>1, Induction, Zenon
<1> QED
  BY <1>3, Zenon

\* Two folds of as many hashes pass through as many at each level.
LEMMA LevelsAlike ==
    ASSUME NEW a, NEW b, IsSeq(a), IsSeq(b), Len(a) = Len(b), Len(a) > 0,
           NEW f, Levels(a, f), NEW g, Levels(b, g)
    PROVE  \A n \in Nat : n <= Len(a) => Len(f[n]) = Len(g[n])
<1>0. Len(a) \in Nat
  BY Zenon DEF IsSeq
<1>a. /\ f[0] = a
      /\ \A n \in Nat : n + 1 <= Len(a) => f[n + 1] = IF Len(f[n]) > 1 THEN combine(f[n]) ELSE f[n]
  BY <1>0, LevelsAt
<1>b. /\ g[0] = b
      /\ \A n \in Nat : n + 1 <= Len(b) => g[n + 1] = IF Len(g[n]) > 1 THEN combine(g[n]) ELSE g[n]
  BY <1>0, LevelsAt
<1>c. (\A n \in Nat : n <= Len(a) => IsSeq(f[n])) /\ (\A n \in Nat : n <= Len(b) => IsSeq(g[n]))
  BY LevelsShrink
<1> DEFINE N == {n \in Nat : n <= Len(a) => Len(f[n]) = Len(g[n])}
<1>1. 0 \in N
  <2>1. f[0] = a /\ g[0] = b
    BY <1>a, <1>b, Zenon
  <2>2. 0 \in Nat
    OBVIOUS
  <2> QED
    BY <2>1, <2>2, Zenon
<1>2. ASSUME NEW n \in N PROVE n + 1 \in N
  <2>1. n \in Nat /\ n + 1 \in Nat /\ (n <= Len(a) => Len(f[n]) = Len(g[n]))
    BY SMT
  <2>2. ASSUME n + 1 <= Len(a) PROVE Len(f[n + 1]) = Len(g[n + 1])
    <3>1. n <= Len(a) /\ n <= Len(b)
      BY <1>0, <2>1, <2>2
    <3>2. IsSeq(f[n]) /\ IsSeq(g[n]) /\ Len(f[n]) = Len(g[n])
      BY <1>c, <2>1, <3>1, Zenon
    <3>3. /\ f[n + 1] = (IF Len(f[n]) > 1 THEN combine(f[n]) ELSE f[n])
          /\ g[n + 1] = (IF Len(g[n]) > 1 THEN combine(g[n]) ELSE g[n])
      BY <1>a, <1>b, <2>1, <2>2, Zenon
    <3>4. CASE Len(f[n]) > 1
      <4>1. Len(combine(f[n])) = (Len(f[n]) + 1) \div 2 /\ Len(combine(g[n])) = (Len(g[n]) + 1) \div 2
        BY <3>2, <3>4, CombineIs, Zenon
      <4> QED
        BY <3>2, <3>3, <3>4, <4>1, Zenon
    <3>5. CASE ~(Len(f[n]) > 1)
      BY <3>2, <3>3, <3>5, Zenon
    <3> QED
      BY <3>4, <3>5, Zenon
  <2> QED
    BY <2>1, <2>2, Zenon
<1>3. N = Nat
  <2>1. N \in SUBSET Nat
    BY Zenon
  <2> HIDE DEF N
  <2> QED
    BY <1>1, <1>2, <2>1, Induction, Zenon
<1> QED
  BY <1>3, Zenon

\* As many hashes with the same root are the same hashes: the tree is read back
\* from its root, level by level.
LEMMA FoldedApart ==
    ASSUME NEW a, NEW b, IsSeq(a), IsSeq(b), Len(a) = Len(b), Len(a) > 0, folded(a) = folded(b)
    PROVE  a = b
<1> DEFINE f == CHOOSE f : Levels(a, f)
           g == CHOOSE g : Levels(b, g)
           L == Len(a)
<1>0. L \in Nat /\ Len(b) \in Nat
  BY Zenon DEF IsSeq
<1>1. Levels(a, f) /\ Levels(b, g)
  BY <1>0, LevelsExist, Zenon
<1>2. f[L][1] = g[L][1]
  BY FoldedIs, Zenon
<1> HIDE DEF f, g
<1>a. /\ f[0] = a
      /\ \A n \in Nat : n + 1 <= Len(a) => f[n + 1] = IF Len(f[n]) > 1 THEN combine(f[n]) ELSE f[n]
  BY <1>0, <1>1, LevelsAt
<1>b. /\ g[0] = b
      /\ \A n \in Nat : n + 1 <= Len(b) => g[n + 1] = IF Len(g[n]) > 1 THEN combine(g[n]) ELSE g[n]
  BY <1>0, <1>1, LevelsAt
<1>c. \A n \in Nat : n <= L => IsSeq(f[n]) /\ Len(f[n]) >= 1 /\ (Len(f[n]) = 1 \/ Len(f[n]) <= L - n)
  BY <1>1, LevelsShrink
<1>d. \A n \in Nat : n <= Len(b) => IsSeq(g[n])
  BY <1>1, LevelsShrink
<1>e. \A n \in Nat : n <= L => Len(f[n]) = Len(g[n])
  BY <1>1, LevelsAlike
<1>3. \A n \in Nat : n <= L => /\ IsSeq(f[n]) /\ Len(f[n]) >= 1 /\ (Len(f[n]) = 1 \/ Len(f[n]) <= L - n)
                               /\ IsSeq(g[n]) /\ Len(f[n]) = Len(g[n])
  BY <1>c, <1>d, <1>e, Zenon
<1> DEFINE N == {m \in Nat : m <= L => f[L - m] = g[L - m]}
<1>4. 0 \in N
  <2>1. L <= L /\ L - 0 = L /\ 0 \in Nat /\ L - L = 0
    BY <1>0
  <2>2. IsSeq(f[L]) /\ IsSeq(g[L]) /\ Len(f[L]) = Len(g[L]) /\ Len(f[L]) >= 1 /\ (Len(f[L]) = 1 \/ Len(f[L]) <= L - L)
    BY <1>0, <1>3, <2>1, Zenon
  <2>3. Len(f[L]) \in Nat
    BY <2>2, Zenon DEF IsSeq
  <2>4. Len(f[L]) = 1 /\ \A i \in 1..Len(f[L]) : i = 1
    <3> DEFINE u == Len(f[L])
    <3>1. u \in Nat /\ u >= 1 /\ (u = 1 \/ u <= 0)
      BY <2>1, <2>2, <2>3, Zenon
    <3> HIDE DEF u, N
    <3>2. u = 1 /\ \A i \in 1..u : i = 1
      BY <3>1
    <3> QED
      BY <3>2, Zenon DEF u
  <2>5. f[L] = g[L]
    BY <1>2, <2>2, <2>4, SameSeq, Zenon
  <2> QED
    BY <2>1, <2>5, Zenon
<1>5. ASSUME NEW m \in N PROVE m + 1 \in N
  <2>1. m \in Nat /\ m + 1 \in Nat /\ (m <= L => f[L - m] = g[L - m])
    BY SMT
  <2>2. ASSUME m + 1 <= L PROVE f[L - (m + 1)] = g[L - (m + 1)]
    <3> DEFINE n == L - (m + 1)
    <3>1. n \in Nat /\ n <= L /\ n + 1 = L - m /\ n + 1 <= L /\ n + 1 <= Len(b) /\ m <= L
      BY <1>0, <2>1, <2>2
    <3> HIDE DEF n
    <3>2. IsSeq(f[n]) /\ IsSeq(g[n]) /\ Len(f[n]) = Len(g[n])
      BY <1>3, <3>1, Zenon
    <3>3. /\ f[n + 1] = (IF Len(f[n]) > 1 THEN combine(f[n]) ELSE f[n])
          /\ g[n + 1] = (IF Len(g[n]) > 1 THEN combine(g[n]) ELSE g[n])
      BY <1>a, <1>b, <3>1, Zenon
    <3>4. f[n + 1] = g[n + 1]
      BY <2>1, <3>1, Zenon
    <3>5. f[n] = g[n]
      BY <3>2, <3>3, <3>4, CombineApart, Zenon
    <3> QED
      BY <3>5, Zenon DEF n
  <2> QED
    BY <2>1, <2>2, Zenon
<1>6. N = Nat
  <2>1. N \in SUBSET Nat
    BY Zenon
  <2> HIDE DEF N
  <2> QED
    BY <1>4, <1>5, <2>1, Induction, Zenon
<1>7. L <= L /\ L - L = 0
  BY <1>0
<1>8. f[0] = g[0]
  BY <1>0, <1>6, <1>7, Zenon
<1> QED
  BY <1>8, <1>a, <1>b, Zenon

\* Where a number of blocks starts and ends.
LEMMA DivIs ==
    ASSUME NEW x \in Nat, NEW n \in Nat \ {0}
    PROVE  x \div n \in Nat /\ (x \div n) * n <= x /\ x < (x \div n) * n + n
  OBVIOUS

\* A smaller multiple is of a smaller number.
LEMMA MultipleIs ==
    ASSUME NEW i \in Int, NEW j \in Int, NEW n \in Nat \ {0}, i * n < j * n
    PROVE  i < j
  OBVIOUS

\* The next multiple is n more.
LEMMA NextMultiple ==
    ASSUME NEW i \in Int, NEW n \in Nat \ {0}
    PROVE  (i + 1) * n = i * n + n /\ i * n \in Int
  OBVIOUS

\* A part of a sequence is a sequence of its elements.
LEMMA PartIs ==
    ASSUME NEW s \in Seq(Nat), NEW m \in Int, NEW n \in Int, 1 <= m, m <= n, n <= Len(s)
    PROVE  /\ SubSeq(s, m, n) \in Seq(Nat)
           /\ \A k \in m..n : SubSeq(s, m, n)[k - m + 1] = s[k]
<1>1. SubSeq(s, m, n) = [i \in 1..(n - m + 1) |-> s[i + m - 1]]
  OBVIOUS
<1>2. \A i \in 1..(n - m + 1) : i + m - 1 \in 1..Len(s)
  OBVIOUS
<1>3. n - m + 1 \in Nat /\ \A i \in 1..(n - m + 1) : s[i + m - 1] \in Nat
  BY <1>2
<1>4. [i \in 1..(n - m + 1) |-> s[i + m - 1]] \in Seq(Nat)
  BY <1>3
<1>5. ASSUME NEW k \in m..n PROVE [i \in 1..(n - m + 1) |-> s[i + m - 1]][k - m + 1] = s[k]
  <2>1. k - m + 1 \in 1..(n - m + 1) /\ (k - m + 1) + m - 1 = k
    BY <1>5
  <2> QED
    BY <2>1, Zenon
<1> QED
  BY <1>1, <1>4, <1>5, Zenon

\* The block a byte is cut into, its position there, and how many blocks there are.
LEMMA ChunkHolds ==
    ASSUME NEW data \in Seq(Nat), NEW k \in 1..Len(data)
    PROVE  LET j == (k - 1) \div MaxBlock
           IN  /\ j + 1 \in 1..((Len(data) + MaxBlock - 1) \div MaxBlock)
               /\ doChunk(data)[j + 1][k - j * MaxBlock] = data[k]
<1> DEFINE B == MaxBlock
           L == Len(data)
           j == (k - 1) \div B
           n == (L + B - 1) \div B
           lo == j * B + 1
           hi == IF (j + 1) * B > L THEN L ELSE (j + 1) * B
<1>0. B \in Nat \ {0} /\ L \in Nat /\ k \in Nat /\ k - 1 \in Nat /\ k <= L /\ L + B - 1 \in Nat
  BY ContentAssumption
<1> HIDE DEF B, L
<1>1. j \in Nat /\ j * B <= k - 1 /\ k - 1 < j * B + B
  BY <1>0, DivIs, Zenon
<1>2. n \in Nat /\ n * B <= L + B - 1 /\ L + B - 1 < n * B + B
  BY <1>0, DivIs, Zenon
<1> HIDE DEF j, n
<1>3. j * B \in Int /\ n * B \in Int /\ (j + 1) * B = j * B + B
  BY <1>0, <1>1, <1>2, NextMultiple
<1>4. j * B < n * B
  BY <1>0, <1>1, <1>2, <1>3
<1>5. j < n
  BY <1>0, <1>1, <1>2, <1>4, MultipleIs
<1>6. j + 1 \in 1..n
  BY <1>1, <1>2, <1>5
<1>7. lo \in Int /\ hi \in Int /\ 1 <= lo /\ lo <= k /\ k <= hi /\ hi <= L /\ lo <= hi
  BY <1>0, <1>1, <1>3
<1>8. k \in lo..hi /\ k - lo + 1 = k - j * B
  BY <1>0, <1>3, <1>7
<1> HIDE DEF lo, hi
<1>9. SubSeq(data, lo, hi)[k - lo + 1] = data[k]
  BY <1>7, <1>8, PartIs, Zenon DEF L
<1>10. doChunk(data)[j + 1] = SubSeq(data, lo, hi)
  <2>1. (j + 1) - 1 = j
    BY <1>1
  <2>2. doChunk(data)[j + 1] = SubSeq(data, ((j + 1) - 1) * B + 1, IF (j + 1) * B > L THEN L ELSE (j + 1) * B)
    BY <1>6, Zenon DEF doChunk, n, B, L
  <2> QED
    BY <2>1, <2>2, Zenon DEF lo, hi
<1>11. doChunk(data)[j + 1][k - j * B] = data[k]
  BY <1>8, <1>9, <1>10, Zenon
<1> QED
  BY <1>6, <1>11, Zenon DEF j, n, B, L

\* The blocks are byte sequences, as many as it takes.
LEMMA ChunksAre ==
    ASSUME NEW data \in Seq(Nat)
    PROVE  /\ (Len(data) + MaxBlock - 1) \div MaxBlock \in Nat
           /\ IsSeq(doChunk(data)) /\ Len(doChunk(data)) = (Len(data) + MaxBlock - 1) \div MaxBlock
           /\ \A i \in 1..Len(doChunk(data)) : doChunk(data)[i] \in Seq(Nat)
<1> DEFINE B == MaxBlock
           L == Len(data)
           n == (L + B - 1) \div B
<1>0. B \in Nat \ {0} /\ L \in Nat /\ L + B - 1 \in Nat
  BY ContentAssumption
<1> HIDE DEF B, L
<1>2. n \in Nat /\ n * B <= L + B - 1
  BY <1>0, DivIs, Zenon
<1>3. doChunk(data) = [i \in 1..n |-> doChunk(data)[i]]
  BY Zenon DEF doChunk, n, B, L
<1> HIDE DEF n
<1>4. IsSeq(doChunk(data)) /\ Len(doChunk(data)) = n
  BY <1>2, <1>3, FunctionIsSeq, Zenon
<1>5. ASSUME NEW i \in 1..n PROVE doChunk(data)[i] \in Seq(Nat)
  <2> DEFINE lo == (i - 1) * B + 1
             hi == IF i * B > L THEN L ELSE i * B
  <2>1. i \in Int /\ i - 1 \in Nat /\ (i - 1) + 1 = i /\ i <= n
    BY <1>2, <1>5
  <2>2. i * B = (i - 1) * B + B /\ (i - 1) * B \in Int /\ n * B \in Int
    BY <1>0, <1>2, <2>1, NextMultiple
  <2>3. (i - 1) * B >= 0 /\ i * B <= n * B
    BY <1>0, <1>2, <2>1
  <2>4. lo \in Int /\ hi \in Int /\ 1 <= lo /\ lo <= hi /\ hi <= L
    BY <1>0, <1>2, <2>2, <2>3
  <2>5. doChunk(data)[i] = SubSeq(data, lo, hi)
    BY Zenon DEF doChunk, n, B, L
  <2> HIDE DEF lo, hi
  <2> QED
    BY <2>4, <2>5, PartIs, Zenon DEF L
<1> QED
  BY <1>2, <1>4, <1>5, Zenon DEF n, B, L

\* What was cut is known from the blocks.
LEMMA ChunksApart ==
    ASSUME NEW a \in Seq(Nat), NEW b \in Seq(Nat), Len(a) = Len(b), doChunk(a) = doChunk(b)
    PROVE  a = b
<1>1. \A k \in 1..Len(a) : a[k] = b[k]
  BY ChunkHolds, Zenon
<1>2. IsSeq(a) /\ IsSeq(b)
  BY DEF IsSeq
<1> QED
  BY <1>1, <1>2, SameSeq, Zenon

\* The hashes of the blocks.
LEMMA HashesAre ==
    ASSUME NEW cut, IsSeq(cut)
    PROVE  LET hs == Hashes(makeChunkInfos(cut))
           IN  IsSeq(hs) /\ Len(hs) = Len(cut) /\ \A i \in 1..Len(cut) : hs[i] = <<"block", cut[i]>>
<1> DEFINE infos == makeChunkInfos(cut)
           hs == Hashes(infos)
<1>0. Len(cut) \in Nat
  BY Zenon DEF IsSeq
<1>1. infos = [i \in 1..Len(cut) |-> infos[i]] /\ \A i \in 1..Len(cut) : infos[i].hash = hash(cut[i])
  BY DEF makeChunkInfos
<1> HIDE DEF infos
<1>2. Len(infos) = Len(cut)
  BY <1>0, <1>1, FunctionIsSeq, Zenon
<1>3. hs = [i \in 1..Len(cut) |-> hs[i]] /\ \A i \in 1..Len(cut) : hs[i] = infos[i].hash
  BY <1>2, Zenon DEF Hashes
<1> HIDE DEF hs
<1>4. IsSeq(hs) /\ Len(hs) = Len(cut)
  BY <1>0, <1>3, FunctionIsSeq, Zenon
<1>5. \A i \in 1..Len(cut) : hs[i] = <<"block", cut[i]>>
  BY <1>1, <1>3, Zenon DEF hash
<1> QED
  BY <1>4, <1>5, Zenon DEF hs, infos

\* Bytes of one length with the same root hash are the same bytes.
LEMMA RootTells ==
    ASSUME NEW a \in Seq(Nat), NEW b \in Seq(Nat), Len(a) = Len(b),
           rootHashFor(Hashes(makeChunkInfos(doChunk(a)))) = rootHashFor(Hashes(makeChunkInfos(doChunk(b))))
    PROVE  a = b
<1> DEFINE ca == doChunk(a)
           cb == doChunk(b)
           ha == Hashes(makeChunkInfos(ca))
           hb == Hashes(makeChunkInfos(cb))
<1>1. IsSeq(ca) /\ IsSeq(cb) /\ Len(ca) = Len(cb) /\ Len(ca) \in Nat
  BY ChunksAre, Zenon
<1> HIDE DEF ca, cb
<1>2. /\ IsSeq(ha) /\ Len(ha) = Len(ca) /\ \A i \in 1..Len(ca) : ha[i] = <<"block", ca[i]>>
      /\ IsSeq(hb) /\ Len(hb) = Len(cb) /\ \A i \in 1..Len(cb) : hb[i] = <<"block", cb[i]>>
  BY <1>1, HashesAre, Zenon
<1>3. rootHashFor(ha) = rootHashFor(hb)
  BY Zenon DEF ca, cb
<1> HIDE DEF ha, hb
<1>4. ca = cb
  <2>1. CASE Len(ca) = 0
    <3>1. \A i \in 1..0 : FALSE
      OBVIOUS
    <3> QED
      BY <1>1, <2>1, <3>1, SameSeq, Zenon
  <2>2. CASE Len(ca) # 0
    <3>0. Len(<<>>) = 0
      OBVIOUS
    <3>1. ha # <<>> /\ hb # <<>>
      BY <1>1, <1>2, <2>2, <3>0, Zenon
    <3>2. folded(ha) = folded(hb)
      BY <1>3, <3>1, Zenon DEF rootHashFor
    <3>3. Len(ca) > 0
      BY <1>1, <2>2
    <3>4. ha = hb
      BY <1>1, <1>2, <3>2, <3>3, FoldedApart, Zenon
    <3>5. ASSUME NEW i \in 1..Len(ca) PROVE ca[i] = cb[i]
      <4>1. <<"block", ca[i]>> = <<"block", cb[i]>>
        BY <1>1, <1>2, <3>4, Zenon
      <4> QED
        BY <4>1
    <3> QED
      BY <1>1, <3>5, SameSeq, Zenon
  <2> QED
    BY <2>1, <2>2, Zenon
<1> QED
  BY <1>4, ChunksApart, Zenon DEF ca, cb

\* What Joined puts together, part by part.
Wholes(parts, f) == f = [n \in 0..Len(parts) |-> IF n = 0 THEN <<>> ELSE f[n - 1] \o parts[n]]

\* What Joined gives, by those.
LEMMA JoinedIs ==
    ASSUME NEW parts
    PROVE  Joined(parts) = (CHOOSE f : Wholes(parts, f))[Len(parts)]
  BY Zenon DEF Joined, Wholes

\* They are defined.
LEMMA WholesExist ==
    ASSUME NEW parts, Len(parts) \in Nat
    PROVE  \E f : Wholes(parts, f)
<1> DEFINE Next1(f, n) == IF n = 0 THEN <<>> ELSE f[n - 1] \o parts[n]
           Upto(m, f) == f = [n \in 0..m |-> Next1(f, n)]
           M == {m \in Nat : \E f : Upto(m, f)}
<1>1. 0 \in M
  <2> DEFINE f == [n \in 0..0 |-> <<>>]
  <2>1. \A n \in 0..0 : n = 0
    OBVIOUS
  <2>2. Upto(0, f)
    BY <2>1, Zenon
  <2>3. 0 \in Nat
    OBVIOUS
  <2> QED
    BY <2>2, <2>3, Zenon
<1>2. ASSUME NEW m \in M PROVE m + 1 \in M
  <2>1. m \in Nat /\ m + 1 \in Nat
    BY SMT
  <2>2. PICK f : Upto(m, f)
    BY Zenon
  <2> DEFINE g == [n \in 0..(m + 1) |-> Next1(f, n)]
  <2>3. ASSUME NEW n \in 0..m PROVE n \in 0..(m + 1) /\ g[n] = f[n]
    <3>1. n \in 0..(m + 1)
      BY <2>1
    <3>2. f[n] = Next1(f, n)
      BY <2>2, Zenon
    <3> QED
      BY <3>1, <3>2, Zenon
  <2>4. \A n \in 0..(m + 1) : n = 0 \/ n - 1 \in 0..m
    BY <2>1
  <2>5. \A n \in 0..(m + 1) : Next1(f, n) = Next1(g, n)
    BY <2>3, <2>4, Zenon
  <2>6. Upto(m + 1, g)
    BY <2>5, Zenon
  <2> QED
    BY <2>1, <2>6, Zenon
<1>3. M = Nat
  <2>1. M \in SUBSET Nat
    BY Zenon
  <2> HIDE DEF M
  <2> QED
    BY <1>1, <1>2, <2>1, Induction, Zenon
<1>4. PICK f : Upto(Len(parts), f)
  BY <1>3, Zenon
<1>5. Wholes(parts, f)
  BY <1>4, Zenon DEF Wholes
<1> QED
  BY <1>5, Zenon

\* Parts of bytes joined are bytes.
LEMMA JoinedType ==
    ASSUME NEW c \in Nat, NEW parts \in [1..c -> Seq(Nat)]
    PROVE  Joined(parts) \in Seq(Nat)
<1> DEFINE f == CHOOSE f : Wholes(parts, f)
<1>0. Len(parts) = c
  <2>1. parts = [i \in 1..c |-> parts[i]]
    BY Zenon
  <2> QED
    BY <2>1, FunctionIsSeq, Zenon
<1>1. Wholes(parts, f)
  BY <1>0, WholesExist, Zenon
<1>2. Joined(parts) = f[c]
  BY <1>0, JoinedIs, Zenon
<1> HIDE DEF f
<1>3. \A n \in 0..c : f[n] = IF n = 0 THEN <<>> ELSE f[n - 1] \o parts[n]
  BY <1>0, <1>1, Zenon DEF Wholes
<1> DEFINE N == {n \in Nat : n <= c => f[n] \in Seq(Nat)}
<1>4. 0 \in N
  <2>1. 0 \in Nat /\ 0 \in 0..c /\ <<>> \in Seq(Nat)
    OBVIOUS
  <2> QED
    BY <1>3, <2>1, Zenon
<1>5. ASSUME NEW n \in N PROVE n + 1 \in N
  <2>1. n \in Nat /\ n + 1 \in Nat
    BY SMT
  <2>2. SUFFICES ASSUME n + 1 <= c PROVE f[n + 1] \in Seq(Nat)
    BY <2>1, Zenon
  <2>3. n <= c /\ n + 1 \in 0..c /\ n + 1 \in 1..c /\ n + 1 # 0 /\ (n + 1) - 1 = n
    BY <2>1, <2>2
  <2>4. f[n + 1] = f[n] \o parts[n + 1] /\ f[n] \in Seq(Nat) /\ parts[n + 1] \in Seq(Nat)
    BY <1>3, <2>1, <2>3, Zenon
  <2> QED
    BY <2>4
<1>6. N = Nat
  <2>1. N \in SUBSET Nat
    BY Zenon
  <2> HIDE DEF N
  <2> QED
    BY <1>4, <1>5, <2>1, Induction, Zenon
<1>7. c <= c
  OBVIOUS
<1> QED
  BY <1>2, <1>6, <1>7, Zenon

\* The fields of a fetch of chunks.
PartsFields == {"step", "of", "left", "from", "m", "parts", "fed", "at", "closed", "cancelled"}

\* What a fetch knows: it was asked for content that is shared; the manifest it
\* takes has the id it asked for; every part it holds is bytes.
FetchInv ==
    /\ chunks \subseteq Seq(Nat)
    /\ fetch.step \in {"next", "root", "parts"} => fetch.of \in Shared
    /\ fetch.step = "parts" =>
         /\ DOMAIN fetch = PartsFields
         /\ McidFor(fetch.m) = Mcid(fetch.of)
         /\ \E c \in Nat : fetch.parts \in [1..c -> Seq(Nat)]
    /\ FetchedIsAsked

\* A manifest with the id of shared content has its size, its number of chunks
\* and its root hash.
LEMMA ManifestTells ==
    ASSUME NEW m, NEW data \in Seq(Nat), McidFor(m) = Mcid(data)
    PROVE  /\ m.size = Len(data) /\ m.count \in Nat
           /\ m.root = rootHashFor(Hashes(makeChunkInfos(doChunk(data))))
<1> DEFINE infos == makeChunkInfos(doChunk(data))
<1>1. ~IsBlock(data)
  BY DEF McidFor, Mcid, BlockMcid
<1>2. McidFor(m) = McidFor(createWithCreated(data))
  BY <1>1, Zenon DEF Mcid
<1>3. m.size = createWithCreated(data).size /\ m.count = createWithCreated(data).count /\ m.root = createWithCreated(data).root
  BY <1>2 DEF McidFor
<1>4. createWithCreated(data).size = Len(data) /\ createWithCreated(data).count = Len(infos) /\ createWithCreated(data).root = rootHashFor(Hashes(infos))
  BY DEF createWithCreated
<1>5. Len(infos) \in Nat
  <2>1. Len(doChunk(data)) \in Nat
    BY ChunksAre, Zenon
  <2>2. infos = [i \in 1..Len(doChunk(data)) |-> infos[i]]
    BY Zenon DEF makeChunkInfos
  <2> QED
    BY <2>1, <2>2, FunctionIsSeq, Zenon
<1> QED
  BY <1>3, <1>4, <1>5, Zenon

\* A block with the id of shared content is the content.
LEMMA BlockTells ==
    ASSUME NEW b, NEW data, BlockMcid(b) = Mcid(data)
    PROVE  b = data
  BY DEF McidFor, Mcid, BlockMcid, hash

\* Bytes that verify against a manifest with the id of shared content are it.
LEMMA VerifyTells ==
    ASSUME NEW m, NEW data \in Seq(Nat), McidFor(m) = Mcid(data), NEW b \in Seq(Nat), Verify(m, b)
    PROVE  b = data
<1>1. m.size = Len(data) /\ m.root = rootHashFor(Hashes(makeChunkInfos(doChunk(data))))
  BY ManifestTells, Zenon
<1>2. Len(b) = Len(data)
  BY <1>1, Zenon DEF Verify
<1>3. rootHashFor(Hashes(makeChunkInfos(doChunk(b)))) = rootHashFor(Hashes(makeChunkInfos(doChunk(data))))
  BY <1>1, Zenon DEF Verify
<1> QED
  BY <1>2, <1>3, RootTells, Zenon

\* The chunks a share keeps are bytes.
LEMMA ChunksOfType ==
    ASSUME NEW data \in Shared
    PROVE  ChunksOf(data) \subseteq Seq(Nat)
<1>1. data \in Seq(Nat)
  BY ContentAssumption, Zenon
<1> QED
  BY <1>1, ChunksAre, Zenon DEF ChunksOf

\* A fetch begins without content.
LEMMA FetchInit == CtInit => FetchInv
  BY DEF CtInit, FetchInv, NoFetch, FetchedIsAsked

\* The sharer touches no fetch, and keeps bytes.
LEMMA ShareStep ==
    ASSUME FetchInv, UNCHANGED fetch, chunks' \subseteq Seq(Nat)
    PROVE  FetchInv'
  BY Zenon DEF FetchInv, FetchedIsAsked, PartsFields

\* Asking the next sharer.
LEMMA SharerFailsStep ==
    ASSUME FetchInv, UNCHANGED chunks, fetch.step \in {"next", "root", "parts"}, SharerFails
    PROVE  FetchInv'
  BY DEF FetchInv, SharerFails, FetchedIsAsked

\* An answer of what was asked.
LEMMA AnsweredStep ==
    ASSUME FetchInv, UNCHANGED chunks, Answered(fetch.of)
    PROVE  FetchInv'
  BY DEF FetchInv, Answered, FetchedIsAsked

\* A fetch of chunks that stays one, its manifest kept.
LEMMA PartsStep ==
    ASSUME FetchInv, UNCHANGED chunks, fetch.step = "parts", fetch'.step = "parts",
           DOMAIN fetch' = DOMAIN fetch, fetch'.of = fetch.of, fetch'.m = fetch.m,
           \E c \in Nat : fetch'.parts \in [1..c -> Seq(Nat)]
    PROVE  FetchInv'
<1>1. fetch.of \in Shared /\ DOMAIN fetch = PartsFields /\ McidFor(fetch.m) = Mcid(fetch.of)
  BY DEF FetchInv
<1>2. McidFor(fetch'.m) = Mcid(fetch'.of)
  BY <1>1, Zenon
<1>3. "parts" # "done" /\ chunks \subseteq Seq(Nat)
  BY DEF FetchInv
<1> QED
  BY <1>1, <1>2, <1>3, Zenon DEF FetchInv, FetchedIsAsked, PartsFields

\* The answer to the request for a root.
LEMMA RootStep == FetchInv /\ RootAnswered => FetchInv'
<1> SUFFICES ASSUME FetchInv, RootAnswered PROVE FetchInv'
  OBVIOUS
<1>1. fetch.step = "root" /\ UNCHANGED chunks
  BY Zenon DEF RootAnswered
<1>2. fetch.of \in Shared
  BY <1>1, Zenon DEF FetchInv
<1>3. fetch.of \in Seq(Nat)
  BY <1>2, ContentAssumption, Zenon
<1>4. CASE SharerFails
  BY <1>1, <1>4, SharerFailsStep, Zenon
<1>5. ASSUME NEW body, BlockMcid(body.bytes) = Mcid(fetch.of), Answered(body.bytes) PROVE FetchInv'
  <2>1. body.bytes = fetch.of
    BY <1>5, BlockTells, Zenon
  <2>2. Answered(fetch.of)
    BY <1>5, <2>1, Zenon DEF Answered
  <2> QED
    BY <1>1, <2>2, AnsweredStep, Zenon
<1>6. ASSUME NEW body, ManifestTaken(body.m, Mcid(fetch.of)),
             fetch' = [step |-> "parts", of |-> fetch.of, left |-> fetch.left, from |-> fetch.from,
                       m |-> body.m, parts |-> [i \in 1..body.m.count |-> <<>>],
                       fed |-> 0, at |-> [w \in Worker |-> 0], closed |-> FALSE,
                       cancelled |-> FALSE]
      PROVE  FetchInv'
  <2>1. McidFor(body.m) = Mcid(fetch.of)
    BY <1>6, Zenon DEF ManifestTaken
  <2>2. body.m.count \in Nat
    BY <1>3, <2>1, ManifestTells, Zenon
  <2>3. <<>> \in Seq(Nat)
    OBVIOUS
  <2>4. [i \in 1..body.m.count |-> <<>>] \in [1..body.m.count -> Seq(Nat)]
    BY <2>3, Zenon
  <2>5. /\ fetch'.step = "parts" /\ fetch'.of = fetch.of /\ fetch'.m = body.m
        /\ fetch'.parts = [i \in 1..body.m.count |-> <<>>] /\ DOMAIN fetch' = PartsFields
    BY <1>6 DEF PartsFields
  <2>6. \E c \in Nat : fetch'.parts \in [1..c -> Seq(Nat)]
    BY <2>2, <2>4, <2>5, Zenon
  <2>7. McidFor(fetch'.m) = Mcid(fetch'.of)
    BY <2>1, <2>5, Zenon
  <2>8. "parts" # "done"
    OBVIOUS
  <2> QED
    BY <1>1, <1>2, <2>5, <2>6, <2>7, <2>8, Zenon DEF FetchInv, FetchedIsAsked, PartsFields
<1> QED
  BY <1>4, <1>5, <1>6, Zenon DEF RootAnswered

\* The index handed to a worker.
LEMMA FeedStep ==
    ASSUME NEW w, FetchInv, feedChunks(w) \/ FeedStops
    PROVE  FetchInv'
<1>1. fetch.step = "parts" /\ UNCHANGED chunks
  BY Zenon DEF feedChunks, FeedStops
<1>2. DOMAIN fetch = PartsFields /\ \E c \in Nat : fetch.parts \in [1..c -> Seq(Nat)]
  BY <1>1, Zenon DEF FetchInv
<1>3. /\ DOMAIN fetch' = DOMAIN fetch /\ fetch'.step = "parts" /\ fetch'.of = fetch.of
      /\ fetch'.m = fetch.m /\ fetch'.parts = fetch.parts
  <2>1. CASE feedChunks(w)
    BY <1>1, <1>2, <2>1 DEF feedChunks, PartsFields
  <2>2. CASE FeedStops
    BY <1>1, <1>2, <2>2 DEF FeedStops, PartsFields
  <2> QED
    BY <2>1, <2>2, Zenon
<1> QED
  BY <1>1, <1>2, <1>3, PartsStep, Zenon

\* The blocks a sharer may give are bytes.
LEMMA ChunkBodiesType ==
    ASSUME FetchInv, NEW h
    PROVE  ChunkBodies(h) \subseteq Seq(Nat)
  BY ContentAssumption, Zenon DEF ChunkBodies, FetchInv

\* A chunk taken, or the fetch given up.
LEMMA ChunkStep ==
    ASSUME NEW w, FetchInv, fetchChunk(w)
    PROVE  FetchInv'
<1> DEFINE i == fetch.at[w]
           h == fetch.m.chunks[i].hash
<1>1. fetch.step = "parts" /\ UNCHANGED chunks
  BY Zenon DEF fetchChunk
<1>2. DOMAIN fetch = PartsFields
  BY <1>1, Zenon DEF FetchInv
<1>3. PICK c \in Nat : fetch.parts \in [1..c -> Seq(Nat)]
  BY <1>1, Zenon DEF FetchInv
<1>4. CASE fetch' = [fetch EXCEPT !.at[w] = 0, !.cancelled = TRUE]
  <2>1. /\ DOMAIN fetch' = DOMAIN fetch /\ fetch'.step = "parts" /\ fetch'.of = fetch.of
        /\ fetch'.m = fetch.m /\ fetch'.parts = fetch.parts
    BY <1>1, <1>2, <1>4 DEF PartsFields
  <2> QED
    BY <1>1, <1>3, <2>1, PartsStep, Zenon
<1>5. ASSUME NEW b \in ChunkBodies(h), fetch' = [fetch EXCEPT !.at[w] = 0, !.parts[i] = b] PROVE FetchInv'
  <2>1. /\ DOMAIN fetch' = DOMAIN fetch /\ fetch'.step = "parts" /\ fetch'.of = fetch.of
        /\ fetch'.m = fetch.m /\ fetch'.parts = [fetch.parts EXCEPT ![i] = b]
    BY <1>1, <1>2, <1>5 DEF PartsFields
  <2>2. b \in Seq(Nat)
    BY <1>5, ChunkBodiesType, Zenon
  <2>3. fetch'.parts \in [1..c -> Seq(Nat)]
    BY <1>3, <2>1, <2>2, Zenon
  <2> QED
    BY <1>1, <1>3, <2>1, <2>3, PartsStep, Zenon
<1> QED
  BY <1>4, <1>5, Zenon DEF fetchChunk

\* The chunks joined and verified.
LEMMA JoinStep == FetchInv /\ fetchChunks => FetchInv'
<1> SUFFICES ASSUME FetchInv, fetchChunks PROVE FetchInv'
  OBVIOUS
<1>1. fetch.step = "parts" /\ UNCHANGED chunks
  BY Zenon DEF fetchChunks
<1>2. fetch.of \in Shared /\ McidFor(fetch.m) = Mcid(fetch.of)
  BY <1>1, Zenon DEF FetchInv
<1>3. PICK c \in Nat : fetch.parts \in [1..c -> Seq(Nat)]
  BY <1>1, Zenon DEF FetchInv
<1>4. CASE SharerFails
  BY <1>1, <1>4, SharerFailsStep, Zenon
<1>5. CASE Verify(fetch.m, Joined(fetch.parts)) /\ Answered(Joined(fetch.parts))
  <2>1. Joined(fetch.parts) \in Seq(Nat) /\ fetch.of \in Seq(Nat)
    BY <1>2, <1>3, JoinedType, ContentAssumption, Zenon
  <2>2. Joined(fetch.parts) = fetch.of
    BY <1>2, <1>5, <2>1, VerifyTells, Zenon
  <2>3. Answered(fetch.of)
    BY <1>5, <2>2, Zenon
  <2> QED
    BY <1>1, <2>3, AnsweredStep, Zenon
<1> QED
  BY <1>4, <1>5, Zenon DEF fetchChunks

\* The lookup, and the choice of a sharer.
LEMMA AskStep ==
    ASSUME FetchInv, (\E d \in Shared : GetContent(d)) \/ NextSharer
    PROVE  FetchInv'
<1>1. UNCHANGED chunks
  BY Zenon DEF GetContent, NextSharer
<1>2. ASSUME NEW d \in Shared, GetContent(d) PROVE FetchInv'
  BY <1>1, <1>2 DEF GetContent, FetchInv, FetchedIsAsked
<1>3. CASE NextSharer
  <2>1. fetch.step = "next" /\ fetch.of \in Shared
    BY <1>3, Zenon DEF NextSharer, FetchInv
  <2> QED
    BY <1>1, <1>3, <2>1 DEF NextSharer, FetchInv, FetchedIsAsked
<1> QED
  BY <1>2, <1>3, Zenon

\* Every step keeps what a fetch knows.
LEMMA FetchStep == FetchInv /\ [CtNext]_ctvars => FetchInv'
<1> SUFFICES ASSUME FetchInv, [CtNext]_ctvars PROVE FetchInv'
  OBVIOUS
<1>0. chunks \subseteq Seq(Nat)
  BY Zenon DEF FetchInv
<1>1. ASSUME NEW o \in Op, NEW d \in Shared, ShareKeeps(o, d) PROVE FetchInv'
  <2>1. UNCHANGED fetch /\ chunks' = chunks \union ChunksOf(d)
    BY <1>1, Zenon DEF ShareKeeps
  <2>2. chunks' \subseteq Seq(Nat)
    BY <1>0, <2>1, ChunksOfType, Zenon
  <2> QED
    BY <2>1, <2>2, ShareStep, Zenon
<1>2. ASSUME NEW o \in Op, NEW d \in Shared, UnshareContent(o, d) PROVE FetchInv'
  <2>1. UNCHANGED fetch /\ chunks' \subseteq chunks
    BY <1>2, Zenon DEF UnshareContent, forgetShared
  <2>2. chunks' \subseteq Seq(Nat)
    BY <1>0, <2>1, Zenon
  <2> QED
    BY <2>1, <2>2, ShareStep, Zenon
<1>3. ASSUME NEW o \in Op, AnnounceContent(o) \/ ShareInstalls(o) \/ ShareFails(o) \/ Withdrawn(o) PROVE FetchInv'
  <2>1. UNCHANGED fetch /\ chunks' \subseteq chunks
    BY <1>3, Zenon DEF AnnounceContent, ShareInstalls, ShareFails, Withdrawn, forgetShared
  <2>2. chunks' \subseteq Seq(Nat)
    BY <1>0, <2>1, Zenon
  <2> QED
    BY <2>1, <2>2, ShareStep, Zenon
<1>4. ASSUME NEW r, RenewStops(r) \/ RenewBegins(r) \/ RenewPuts(r) PROVE FetchInv'
  <2>1. UNCHANGED <<fetch, chunks>>
    BY <1>4, Zenon DEF RenewStops, RenewBegins, RenewPuts
  <2> QED
    BY <1>0, <2>1, ShareStep, Zenon
<1>5. CASE UNCHANGED ctvars
  <2>1. UNCHANGED <<fetch, chunks>>
    BY <1>5, Zenon DEF ctvars
  <2> QED
    BY <1>0, <2>1, ShareStep, Zenon
<1> QED
  BY <1>1, <1>2, <1>3, <1>4, <1>5, AskStep, RootStep, JoinStep, FeedStep, ChunkStep, Zenon DEF CtNext

\* pool/content.go, manifest/manifest.go: for every content, block size, number
\* of workers and answer of a sharer, what a fetch gives is what was shared
\* under the id it asked for.
THEOREM FetchesGiveWhatWasAsked == CtSpec => []FetchedIsAsked
<1>1. FetchInv => FetchedIsAsked
  BY Zenon DEF FetchInv
<1> QED
  BY <1>1, FetchInit, FetchStep, PTL DEF CtSpec

-----------------------------------------------------------------------------
(* Capability tokens *)

\* The least of some naturals is one of them.
LEMMA MinIs ==
    ASSUME NEW S \in SUBSET Nat, S # {}
    PROVE  Min(S) \in S
<1> DEFINE R == {ss \in Nat \X Nat : ss[1] < ss[2]}
<1>0. OpToRel(<, Nat) = R
    BY Zenon DEF OpToRel
<1>1. IsWellFoundedOn(R, Nat)
    BY <1>0, NatLessThanWellFounded, Zenon
<1> HIDE DEF R
<1>2. \E x \in S : \A y \in S : ~(<<y, x>> \in R)
    BY <1>1, WFMin, Zenon
<1>3. PICK x \in S : \A y \in S : ~(<<y, x>> \in R)
    BY <1>2, Zenon
<1>4. ASSUME NEW y \in S PROVE x =< y
  <2>1. ~(<<y, x>> \in R)
    BY <1>3, Zenon
  <2>2. x \in Nat /\ y \in Nat
    BY Zenon
  <2> QED
    BY <2>1, <2>2 DEF R
<1> QED
    BY <1>4, Zenon DEF Min

\* What a chain of checks answers: nothing if none fails, or the error of one that fails.
LEMMA FaultIs ==
    ASSUME NEW checks, DOMAIN checks \subseteq Nat
    PROVE  \/ FirstFault(checks) = "none" /\ \A i \in DOMAIN checks : ~checks[i][1]
           \/ \E i \in DOMAIN checks : checks[i][1] /\ FirstFault(checks) = checks[i][2]
<1> DEFINE failing == {i \in DOMAIN checks : checks[i][1]}
<1>1. CASE failing = {}
    BY <1>1, Zenon DEF FirstFault
<1>2. CASE failing # {}
  <2>1. Min(failing) \in failing
    BY <1>2, MinIs, Zenon
  <2>2. FirstFault(checks) = checks[Min(failing)][2]
    BY <1>2, Zenon DEF FirstFault
  <2> QED
    BY <2>1, <2>2, Zenon
<1> QED
    BY <1>1, <1>2, Zenon

\* A chain of checks that answers nothing, and has an error for each, has none that fails.
LEMMA Passes ==
    ASSUME NEW checks, DOMAIN checks \subseteq Nat,
           \A i \in DOMAIN checks : checks[i][1] => checks[i][2] # "none",
           FirstFault(checks) = "none"
    PROVE  \A i \in DOMAIN checks : ~checks[i][1]
    BY FaultIs, Zenon

\* What is covered by what is covered is covered.
LEMMA CoversOn ==
    ASSUME NEW a, NEW b, NEW c, Covers(a, b), Covers(b, c)
    PROVE  Covers(a, c)
  BY DEF Covers

\* The first of some positions is one of them, or 0.
LEMMA FirstIs ==
    ASSUME NEW S \in SUBSET Nat, First(S) # 0
    PROVE  First(S) \in S
  BY MinIs, Zenon DEF First

\* The faults a token that was made may have.
MadeFault == TokenFault \ {"not_identity_key", "beyond_lifetime", "never_opens"}

\* A token that passes the checks of one token is sound, and for whom it has to be.
LEMMA TokenPasses ==
    ASSUME NEW t, NEW audience, tokens[t].fault \in MadeFault, tokenFault(t, audience) = "none"
    PROVE  Sound(t) /\ (audience # {} => tokens[t].aud \in audience)
<1> DEFINE f == tokens[t].fault
           out == audience # {} /\ tokens[t].aud \notin audience
           checks == <<
              <<f = "form", "malformed">>,
              <<f = "alg", "wrong_algorithm">>,
              <<f = "claims", "malformed">>,
              <<f = "signature", "signature_invalid">>,
              <<out, "not_the_audience">>,
              <<f = "expired", "expired">>,
              <<f = "lifetime", "exp_beyond_max_lifetime">>,
              <<f = "early", "not_yet_valid">> >>
<1>1. tokenFault(t, audience) = FirstFault(checks)
  BY Zenon DEF tokenFault
<1>2. f \in MadeFault
  BY Zenon
<1> HIDE DEF f, out
<1>3. DOMAIN checks = 1..8
  OBVIOUS
<1>4. \A i \in 1..8 : checks[i][2] # "none"
  OBVIOUS
<1>5. /\ checks[1][1] = (f = "form") /\ checks[2][1] = (f = "alg") /\ checks[3][1] = (f = "claims")
      /\ checks[4][1] = (f = "signature") /\ checks[5][1] = out /\ checks[6][1] = (f = "expired")
      /\ checks[7][1] = (f = "lifetime") /\ checks[8][1] = (f = "early")
  BY Zenon
<1> HIDE DEF checks
<1>6. DOMAIN checks \subseteq Nat
  BY <1>3
<1>7. \A i \in 1..8 : ~checks[i][1]
  BY <1>1, <1>3, <1>4, <1>6, Passes, Zenon
<1>8. 1 \in 1..8 /\ 2 \in 1..8 /\ 3 \in 1..8 /\ 4 \in 1..8 /\ 5 \in 1..8 /\ 6 \in 1..8 /\ 7 \in 1..8 /\ 8 \in 1..8
  OBVIOUS
<1>9. f = "none" /\ ~out
  BY <1>2, <1>5, <1>7, <1>8, Zenon DEF MadeFault, TokenFault
<1> QED
  BY <1>9, Zenon DEF f, out, Sound

\* A chain of checks that does not pass answers with an error.
LEMMA Refuses ==
    ASSUME NEW checks, DOMAIN checks \subseteq Nat,
           \A i \in DOMAIN checks : checks[i][1] => checks[i][2] # "none",
           NEW k \in DOMAIN checks, checks[k][1]
    PROVE  FirstFault(checks) # "none"
  BY Passes, Zenon

\* There is always a reason why a proof does not narrow.
LEMMA NarrowsRefused ==
    ASSUME NEW caps, NEW child
    PROVE  whyNotNarrowed(caps, child) # "none"
<1> DEFINE a == grant(caps[1].with) # "none" \/ grant(child.with) # "none" \/ caps[1].with.realm # child.with.realm
           b == Covers(caps[1].with, child.with)
           checks == << <<a, "wrong_realm">>, <<b, "can_changed">>, <<TRUE, "grants_more_than_proof">> >>
<1>1. whyNotNarrowed(caps, child) = IF caps = <<>> THEN "grants_more_than_proof" ELSE FirstFault(checks)
  BY Zenon DEF whyNotNarrowed
<1> HIDE DEF a, b
<1>2. DOMAIN checks \subseteq Nat /\ 3 \in DOMAIN checks /\ checks[3][1]
  OBVIOUS
<1>3. \A i \in DOMAIN checks : checks[i][2] # "none"
  OBVIOUS
<1> HIDE DEF checks
<1>4. FirstFault(checks) # "none"
  BY <1>2, <1>3, Refuses, Zenon
<1>5. "grants_more_than_proof" # "none"
  OBVIOUS
<1> QED
  BY <1>1, <1>4, <1>5, Zenon

\* Nor is a token that does not grant what was requested refused with nothing.
LEMMA GrantRefused ==
    ASSUME NEW caps
    PROVE  whyNotGranted(caps) # "none"
<1> DEFINE i == First({k \in DOMAIN caps : caps[k].with.kind # "untext"})
           g == grant(caps[i].with)
           r == caps[i].with.realm = Requested.realm
           checks == << <<g = "malformed", "missing_capability">>, <<g # "none", g>>,
                        <<r, "missing_capability">>, <<TRUE, "wrong_realm">> >>
<1>1. whyNotGranted(caps) = IF i = 0 THEN "missing_capability" ELSE FirstFault(checks)
  BY Zenon DEF whyNotGranted
<1> HIDE DEF i, g, r
<1>2. DOMAIN checks = 1..4 /\ 4 \in 1..4 /\ checks[4][1]
  OBVIOUS
<1>3. /\ checks[1][2] = "missing_capability" /\ checks[2][1] = (g # "none") /\ checks[2][2] = g
      /\ checks[3][2] = "missing_capability" /\ checks[4][2] = "wrong_realm"
  BY Zenon
<1>4. \A k \in 1..4 : k = 1 \/ k = 2 \/ k = 3 \/ k = 4
  OBVIOUS
<1>5. "missing_capability" # "none" /\ "wrong_realm" # "none"
  OBVIOUS
<1>6. \A k \in 1..4 : checks[k][1] => checks[k][2] # "none"
  <2> HIDE DEF checks
  <2> QED
    BY <1>3, <1>4, <1>5, Zenon
<1>7. 1..4 \subseteq Nat
  OBVIOUS
<1> HIDE DEF checks
<1>8. FirstFault(checks) # "none"
  BY <1>7, <1>2, <1>6, Refuses, Zenon
<1> QED
  BY <1>1, <1>5, <1>8, Zenon

\* The tokens that can have been made.
Tokens ==
    {[iss |-> mp[1].iss, aud |-> mp[1].aud, cap |-> mp[1].cap, fault |-> mp[1].fault, prf |-> mp[2]] :
       mp \in {made \in UNION {Made[i] : i \in DOMAIN Made} : Creatable(made.fault)} \X Seq(Nat)}

\* Their form.
LEMMA TokensAre ==
    ASSUME NEW k \in Tokens
    PROVE  k.fault \in MadeFault /\ DOMAIN k.cap \subseteq Nat /\ k.prf \in Seq(Nat)
<1>1. PICK mp \in {made \in UNION {Made[i] : i \in DOMAIN Made} : Creatable(made.fault)} \X Seq(Nat) :
          k = [iss |-> mp[1].iss, aud |-> mp[1].aud, cap |-> mp[1].cap, fault |-> mp[1].fault, prf |-> mp[2]]
  BY Zenon DEF Tokens
<1>2. mp[1] \in {made \in UNION {Made[i] : i \in DOMAIN Made} : Creatable(made.fault)} /\ mp[2] \in Seq(Nat)
  BY <1>1, Zenon
<1>3. mp[1].fault \in TokenFault /\ DOMAIN mp[1].cap \subseteq Nat /\ Creatable(mp[1].fault)
  BY <1>2, MadeAssumption, Zenon
<1>4. mp[1].fault \in MadeFault
  BY <1>3, Zenon DEF MadeFault, Creatable
<1>5. k.cap = mp[1].cap /\ k.fault = mp[1].fault /\ k.prf = mp[2]
  BY <1>1
<1> QED
  BY <1>2, <1>3, <1>4, <1>5, Zenon

\* The capability of the proof that narrows to the child's.
LEMMA CoveringIs ==
    ASSUME NEW caps, DOMAIN caps \subseteq Nat, NEW child, covering(caps, child) # 0
    PROVE  LET k == covering(caps, child)
           IN  k \in DOMAIN caps /\ caps[k].can = child.can /\ Covers(caps[k].with, child.with)
<1> DEFINE S == {k \in DOMAIN caps : caps[k].can = child.can /\ Covers(caps[k].with, child.with)}
<1>1. covering(caps, child) = First(S) /\ S \in SUBSET Nat
  BY Zenon DEF covering
<1>2. First(S) \in S
  <2> HIDE DEF S
  <2> QED
    BY <1>1, FirstIs, Zenon
<1> QED
  BY <1>1, <1>2, Zenon

\* The capability of the request's token that covers what is requested.
LEMMA RequestedIs ==
    ASSUME NEW caps, DOMAIN caps \subseteq Nat, NEW gate, requested(gate, caps) # 0
    PROVE  LET k == requested(gate, caps)
           IN  /\ k \in DOMAIN caps /\ (gate = "member" => caps[k].can = Can)
               /\ Covers(caps[k].with, Requested)
<1> DEFINE S == {k \in DOMAIN caps : /\ gate = "member" => caps[k].can = Can
                                     /\ Covers(caps[k].with, Requested)}
<1>1. requested(gate, caps) = First(S) /\ S \in SUBSET Nat
  BY Zenon DEF requested
<1>2. First(S) \in S
  <2> HIDE DEF S
  <2> QED
    BY <1>1, FirstIs, Zenon
<1> QED
  BY <1>1, <1>2, Zenon

\* The path climbed so far: m tokens from t, the capability used of each, and the
\* proofs that are left.
Positions == UNION {DOMAIN tokens[t].cap : t \in DOMAIN tokens}
Climbed(gate, t, proofs, m, path, used, c) ==
    /\ path \in [1..m -> DOMAIN tokens] /\ used \in [1..m -> Positions]
    /\ path[1] = t /\ path[m] = c.at
    /\ c.cap = tokens[path[m]].cap[used[m]]
    /\ c.left = proofs \ {path[i] : i \in 2..m} /\ {path[i] : i \in 2..m} \subseteq proofs
    /\ \A i \in 1..m :
         /\ Sound(path[i])
         /\ used[i] \in DOMAIN tokens[path[i]].cap
         /\ Covers(tokens[path[i]].cap[used[i]].with, Requested)
         /\ gate = "member" => tokens[path[i]].cap[used[i]].can = Can
    /\ \A i \in 2..m :
         /\ tokens[path[i - 1]].prf = <<path[i]>>
         /\ tokens[path[i]].aud = tokens[path[i - 1]].iss
         /\ Covers(tokens[path[i]].cap[used[i]].with, tokens[path[i - 1]].cap[used[i - 1]].with)

\* The path goes on from c to d, which is at p by its capability k.
GoesOn(c, p, k, d) ==
    /\ p \in DOMAIN tokens /\ p \in c.left /\ Sound(p)
    /\ tokens[c.at].prf = <<p>> /\ tokens[p].aud = tokens[c.at].iss
    /\ k \in DOMAIN tokens[p].cap /\ tokens[p].cap[k].can = c.cap.can
    /\ Covers(tokens[p].cap[k].with, c.cap.with)
    /\ d.at = p /\ d.cap = tokens[p].cap[k] /\ d.left = c.left \ {p}

\* One proof more on the path.
LEMMA ClimbedOn ==
    ASSUME NEW gate, NEW t, NEW proofs, NEW m \in Nat \ {0}, NEW path, NEW used, NEW c,
           Climbed(gate, t, proofs, m, path, used, c), NEW p, NEW k, NEW d, GoesOn(c, p, k, d)
    PROVE  \E path1, used1 : Climbed(gate, t, proofs, m + 1, path1, used1, d)
<1>0. /\ p \in DOMAIN tokens /\ p \in c.left /\ Sound(p)
      /\ tokens[c.at].prf = <<p>> /\ tokens[p].aud = tokens[c.at].iss
      /\ k \in DOMAIN tokens[p].cap /\ tokens[p].cap[k].can = c.cap.can
      /\ Covers(tokens[p].cap[k].with, c.cap.with)
      /\ d.at = p /\ d.cap = tokens[p].cap[k] /\ d.left = c.left \ {p}
  BY Zenon DEF GoesOn
<1> DEFINE q == [i \in 1..(m + 1) |-> IF i = m + 1 THEN p ELSE path[i]]
           u == [i \in 1..(m + 1) |-> IF i = m + 1 THEN k ELSE used[i]]
<1>1. m + 1 \in 1..(m + 1) /\ 1 \in 1..m /\ m \in 1..m /\ m + 1 # 1 /\ m + 1 # m /\ (m + 1) - 1 = m
  OBVIOUS
<1>2. \A i \in 1..(m + 1) : i = m + 1 \/ (i \in 1..m /\ i # m + 1)
  OBVIOUS
<1>3. \A i \in 1..m : i \in 1..(m + 1) /\ i # m + 1
  OBVIOUS
<1>4. \A i \in 2..(m + 1) : i = m + 1 \/ (i \in 2..m /\ i \in 1..m /\ i # m + 1 /\ i - 1 \in 1..m)
  OBVIOUS
<1>5. \A i \in 2..m : i \in 1..m /\ i - 1 \in 1..m /\ i \in 2..(m + 1)
  OBVIOUS
<1>6. m + 1 \in 2..(m + 1)
  OBVIOUS
<1>7. q[m + 1] = p /\ u[m + 1] = k /\ \A i \in 1..m : q[i] = path[i] /\ u[i] = used[i]
  BY <1>1, <1>3, Zenon
<1>8. q \in [1..(m + 1) -> DOMAIN tokens] /\ u \in [1..(m + 1) -> Positions]
  <2>1. k \in Positions
    BY <1>0, Zenon DEF Positions
  <2>2. path \in [1..m -> DOMAIN tokens] /\ used \in [1..m -> Positions]
    BY Zenon DEF Climbed
  <2>3. \A i \in 1..(m + 1) : q[i] \in DOMAIN tokens /\ u[i] \in Positions
    BY <1>0, <1>2, <1>7, <2>1, <2>2, Zenon
  <2> QED
    BY <2>3, Zenon
<1> HIDE DEF q, u
<1>9. {q[i] : i \in 2..(m + 1)} = {path[i] : i \in 2..m} \union {p}
  <2>1. ASSUME NEW i \in 2..(m + 1) PROVE q[i] \in {path[j] : j \in 2..m} \union {p}
    BY <1>4, <1>7, Zenon
  <2>2. ASSUME NEW i \in 2..m PROVE path[i] \in {q[j] : j \in 2..(m + 1)}
    <3>1. i \in 2..(m + 1) /\ q[i] = path[i]
      BY <1>5, <1>7, Zenon
    <3> QED
      BY <3>1, Zenon
  <2>3. p \in {q[j] : j \in 2..(m + 1)}
    BY <1>6, <1>7, Zenon
  <2>4. {q[j] : j \in 2..(m + 1)} \subseteq {path[j] : j \in 2..m} \union {p}
    BY <2>1, Zenon
  <2>5. {path[j] : j \in 2..m} \subseteq {q[j] : j \in 2..(m + 1)}
    BY <2>2, Zenon
  <2> DEFINE Q == {q[j] : j \in 2..(m + 1)}
             P == {path[j] : j \in 2..m}
  <2> HIDE DEF Q, P
  <2>6. Q = P \union {p}
    BY <2>3, <2>4, <2>5, Zenon DEF Q, P
  <2> QED
    BY <2>6, Zenon DEF Q, P
<1>10. q[1] = t /\ q[m + 1] = d.at
  BY <1>0, <1>1, <1>7, Zenon DEF Climbed
<1>11. d.cap = tokens[q[m + 1]].cap[u[m + 1]]
  BY <1>0, <1>7, Zenon
<1>12. d.left = proofs \ {q[i] : i \in 2..(m + 1)} /\ {q[i] : i \in 2..(m + 1)} \subseteq proofs
  BY <1>0, <1>9, Zenon DEF Climbed
<1>13. path[m] = c.at /\ c.cap = tokens[path[m]].cap[used[m]]
  BY Zenon DEF Climbed
<1>14. Covers(c.cap.with, Requested) /\ (gate = "member" => c.cap.can = Can)
  BY <1>1, <1>13, Zenon DEF Climbed
<1>15. Covers(tokens[p].cap[k].with, Requested) /\ (gate = "member" => tokens[p].cap[k].can = Can)
  BY <1>0, <1>14, CoversOn, Zenon
<1>16. ASSUME NEW i \in 1..(m + 1)
       PROVE  /\ Sound(q[i])
              /\ u[i] \in DOMAIN tokens[q[i]].cap
              /\ Covers(tokens[q[i]].cap[u[i]].with, Requested)
              /\ gate = "member" => tokens[q[i]].cap[u[i]].can = Can
  <2>1. CASE i = m + 1
    BY <1>0, <1>7, <1>15, <2>1, Zenon
  <2>2. CASE i \in 1..m
    BY <1>7, <2>2, Zenon DEF Climbed
  <2> QED
    BY <1>2, <2>1, <2>2, Zenon
<1>17. ASSUME NEW i \in 2..(m + 1)
       PROVE  /\ tokens[q[i - 1]].prf = <<q[i]>>
              /\ tokens[q[i]].aud = tokens[q[i - 1]].iss
              /\ Covers(tokens[q[i]].cap[u[i]].with, tokens[q[i - 1]].cap[u[i - 1]].with)
  <2>1. CASE i = m + 1
    <3>1. q[i] = p /\ u[i] = k /\ q[i - 1] = path[m] /\ u[i - 1] = used[m]
      BY <1>1, <1>7, <2>1, Zenon
    <3> QED
      BY <1>0, <1>13, <3>1, Zenon
  <2>2. CASE i \in 2..m
    <3>1. q[i] = path[i] /\ u[i] = used[i] /\ q[i - 1] = path[i - 1] /\ u[i - 1] = used[i - 1]
      BY <1>5, <1>7, <2>2, Zenon
    <3> QED
      BY <2>2, <3>1, Zenon DEF Climbed
  <2> QED
    BY <1>4, <2>1, <2>2, Zenon
<1>18. Climbed(gate, t, proofs, m + 1, q, u, d)
  BY <1>8, <1>10, <1>11, <1>12, <1>16, <1>17, Zenon DEF Climbed
<1> QED
  BY <1>18, Zenon

\* Where a call of walk is after n of them, if it has not failed.
Walked(gate, t, proofs, n, c) ==
    c.error \in {"climbing", "none"} =>
        /\ DOMAIN c = {"at", "cap", "left", "error"}
        /\ \E m \in 1..(n + 1) : \E path, used :
             /\ Climbed(gate, t, proofs, m, path, used, c)
             /\ c.error = "none" => tokens[c.at].prf = <<>> /\ tokens[c.at].iss = Root /\ m <= n

\* A number that is not 0 nor more than 1.
LEMMA OnlyOne ==
    ASSUME NEW n \in Nat, n # 0, ~(n > 1)
    PROVE  n = 1
  OBVIOUS

\* A sequence of one element.
LEMMA OneIs ==
    ASSUME NEW s \in Seq(Nat), s # <<>>, ~(Len(s) > 1)
    PROVE  s = <<s[1]>>
<1>1. Len(s) \in Nat /\ Len(s) # 0
  OBVIOUS
<1>2. Len(s) = 1
  BY <1>1, OnlyOne, Zenon
<1>3. IsSeq(s) /\ IsSeq(<<s[1]>>) /\ Len(<<s[1]>>) = 1 /\ <<s[1]>>[1] = s[1]
  BY DEF IsSeq
<1>4. \A i \in 1..1 : i = 1
  OBVIOUS
<1> QED
  BY <1>2, <1>3, <1>4, SameSeq, Zenon

\* What a proof that is accepted satisfies.
LEMMA ProofPasses ==
    ASSUME NEW c, NEW parent,
           FirstFault(<<
               <<parent \notin c.left, "missing_proof">>,
               <<tokenFault(parent, {}) # "none", tokenFault(parent, {})>>,
               <<tokens[parent].aud # tokens[c.at].iss, "not_the_delegate">>,
               <<covering(tokens[parent].cap, c.cap) = 0, whyNotNarrowed(tokens[parent].cap, c.cap)>> >>) = "none"
    PROVE  /\ parent \in c.left /\ tokenFault(parent, {}) = "none"
           /\ tokens[parent].aud = tokens[c.at].iss /\ covering(tokens[parent].cap, c.cap) # 0
<1> DEFINE a1 == parent \notin c.left
           e2 == tokenFault(parent, {})
           a3 == tokens[parent].aud # tokens[c.at].iss
           a4 == covering(tokens[parent].cap, c.cap) = 0
           e4 == whyNotNarrowed(tokens[parent].cap, c.cap)
           checks == << <<a1, "missing_proof">>, <<e2 # "none", e2>>, <<a3, "not_the_delegate">>, <<a4, e4>> >>
<1>1. FirstFault(checks) = "none"
  BY Zenon
<1>2. e4 # "none"
  BY NarrowsRefused, Zenon
<1> HIDE DEF a1, e2, a3, a4, e4
<1>3. DOMAIN checks = 1..4 /\ 1..4 \subseteq Nat /\ 1 \in 1..4 /\ 2 \in 1..4 /\ 3 \in 1..4 /\ 4 \in 1..4
  OBVIOUS
<1>4. /\ checks[1][1] = a1 /\ checks[2][1] = (e2 # "none") /\ checks[3][1] = a3 /\ checks[4][1] = a4
      /\ checks[1][2] = "missing_proof" /\ checks[2][2] = e2 /\ checks[3][2] = "not_the_delegate" /\ checks[4][2] = e4
  BY Zenon
<1>5. "missing_proof" # "none" /\ "not_the_delegate" # "none" /\ \A i \in 1..4 : i = 1 \/ i = 2 \/ i = 3 \/ i = 4
  OBVIOUS
<1> HIDE DEF checks
<1>6. \A i \in 1..4 : checks[i][1] => checks[i][2] # "none"
  BY <1>2, <1>4, <1>5, Zenon
<1>7. \A i \in 1..4 : ~checks[i][1]
  BY <1>1, <1>3, <1>6, Passes, Zenon
<1>8. ~a1 /\ e2 = "none" /\ ~a3 /\ ~a4
  BY <1>3, <1>4, <1>7, Zenon
<1> QED
  BY <1>8, Zenon DEF a1, e2, a3, a4

\* One call of walk keeps to the path.
LEMMA ClimbStep ==
    ASSUME tokens \in Seq(Tokens), NEW gate, NEW t, NEW proofs \in SUBSET (DOMAIN tokens), NEW n \in Nat, NEW c,
           Walked(gate, t, proofs, n, c), c.error = "climbing"
    PROVE  Walked(gate, t, proofs, n + 1, climb(c))
<1> DEFINE prf == tokens[c.at].prf
           parent == prf[1]
           error == FirstFault(<<
               <<parent \notin c.left, "missing_proof">>,
               <<tokenFault(parent, {}) # "none", tokenFault(parent, {})>>,
               <<tokens[parent].aud # tokens[c.at].iss, "not_the_delegate">>,
               <<covering(tokens[parent].cap, c.cap) = 0, whyNotNarrowed(tokens[parent].cap, c.cap)>> >>)
           k == covering(tokens[parent].cap, c.cap)
           up == [at |-> parent, cap |-> Narrowed(parent, c.cap), left |-> c.left \ {parent}, error |-> "climbing"]
<1>0. "climbing" # "none" /\ "not_the_issuer" \notin {"climbing", "none"} /\ "chain_not_linear" \notin {"climbing", "none"}
  OBVIOUS
<1>1. DOMAIN c = {"at", "cap", "left", "error"}
  BY Zenon DEF Walked
<1>2. PICK m \in 1..(n + 1) : \E path, used : Climbed(gate, t, proofs, m, path, used, c)
  BY Zenon DEF Walked
<1>3. PICK path, used : Climbed(gate, t, proofs, m, path, used, c)
  BY <1>2, Zenon
<1>4. m \in Nat \ {0} /\ m \in 1..m /\ m <= n + 1 /\ m \in 1..((n + 1) + 1) /\ m + 1 \in 1..((n + 1) + 1)
  OBVIOUS
<1>5. c.at \in DOMAIN tokens /\ c.left \subseteq DOMAIN tokens
  BY <1>3, <1>4, Zenon DEF Climbed
<1>6. \A x \in DOMAIN tokens : tokens[x] \in Tokens
  OBVIOUS
<1>7. prf \in Seq(Nat)
  BY <1>5, <1>6, TokensAre, Zenon
<1>8. ASSUME NEW e PROVE [c EXCEPT !.error = e].error = e /\ [c EXCEPT !.error = e].at = c.at
                         /\ [c EXCEPT !.error = e].cap = c.cap /\ [c EXCEPT !.error = e].left = c.left
                         /\ DOMAIN [c EXCEPT !.error = e] = DOMAIN c
  BY <1>1
<1>9. ASSUME NEW e PROVE Climbed(gate, t, proofs, m, path, used, [c EXCEPT !.error = e])
  BY <1>3, <1>8, Zenon DEF Climbed
<1>10. CASE prf = <<>>
  <2> DEFINE d == [c EXCEPT !.error = issuedBy(c.at)]
  <2>1. climb(c) = d
    BY <1>10, Zenon DEF climb
  <2>2. d.error = issuedBy(c.at) /\ d.at = c.at /\ DOMAIN d = DOMAIN c
    BY <1>8, Zenon
  <2>3. d.error = "none" => tokens[d.at].iss = Root
    BY <1>0, <2>2, Zenon DEF issuedBy
  <2>4. Climbed(gate, t, proofs, m, path, used, d)
    BY <1>9, Zenon
  <2> HIDE DEF d
  <2> QED
    BY <1>1, <1>4, <1>10, <2>1, <2>2, <2>3, <2>4, Zenon DEF Walked
<1>11. ASSUME NEW e, e # "none", climb(c) = [c EXCEPT !.error = e] PROVE Walked(gate, t, proofs, n + 1, climb(c))
  <2> DEFINE d == [c EXCEPT !.error = e]
  <2>1. climb(c) = d /\ d.error # "none" /\ DOMAIN d = DOMAIN c /\ Climbed(gate, t, proofs, m, path, used, d)
    BY <1>8, <1>9, <1>11, Zenon
  <2> HIDE DEF d
  <2> QED
    BY <1>1, <1>4, <2>1, Zenon DEF Walked
<1>12. CASE prf # <<>> /\ Len(prf) > 1
  BY <1>0, <1>11, <1>12, Zenon DEF climb
<1>13. CASE prf # <<>> /\ ~(Len(prf) > 1) /\ error # "none"
  <2>1. climb(c) = [c EXCEPT !.error = error]
    BY <1>13, Zenon DEF climb
  <2> HIDE DEF error
  <2> QED
    BY <1>11, <1>13, <2>1, Zenon
<1>14. CASE prf # <<>> /\ ~(Len(prf) > 1) /\ error = "none"
  <2>1. climb(c) = up
    BY <1>14, Zenon DEF climb
  <2>2. parent \in c.left /\ tokenFault(parent, {}) = "none" /\ tokens[parent].aud = tokens[c.at].iss /\ k # 0
    BY <1>14, ProofPasses, Zenon
  <2>3. prf = <<parent>>
    BY <1>7, <1>14, OneIs, Zenon
  <2> HIDE DEF parent
  <2>4. parent \in DOMAIN tokens /\ tokens[parent].fault \in MadeFault /\ DOMAIN tokens[parent].cap \subseteq Nat
    BY <1>5, <1>6, <2>2, TokensAre, Zenon
  <2>5. Sound(parent)
    BY <2>2, <2>4, TokenPasses, Zenon
  <2>6. /\ k \in DOMAIN tokens[parent].cap /\ tokens[parent].cap[k].can = c.cap.can
        /\ Covers(tokens[parent].cap[k].with, c.cap.with)
    BY <2>2, <2>4, CoveringIs, Zenon
  <2>7. /\ up.at = parent /\ up.cap = tokens[parent].cap[k] /\ up.left = c.left \ {parent} /\ up.error = "climbing"
        /\ DOMAIN up = {"at", "cap", "left", "error"}
    BY DEF Narrowed
  <2> HIDE DEF up, k
  <2>8. GoesOn(c, parent, k, up)
    BY <2>2, <2>3, <2>4, <2>5, <2>6, <2>7, Zenon DEF GoesOn
  <2>9. \E path1, used1 : Climbed(gate, t, proofs, m + 1, path1, used1, up)
    BY <1>3, <1>4, <2>8, ClimbedOn, Zenon
  <2> QED
    BY <1>0, <1>4, <2>1, <2>7, <2>9, Zenon DEF Walked
<1> QED
  BY <1>10, <1>12, <1>13, <1>14, Zenon

\* The calls walk makes.
Calls(t, cap, proofs, f) ==
    f = [n \in 0..Len(tokens) |->
           IF n = 0 THEN [at |-> t, cap |-> cap, left |-> proofs, error |-> "climbing"]
           ELSE IF f[n - 1].error = "climbing" THEN climb(f[n - 1]) ELSE f[n - 1]]

\* What walk gives, by those calls.
LEMMA WalkIs ==
    ASSUME NEW t, NEW cap, NEW proofs
    PROVE  walk(t, cap, proofs) = (CHOOSE f : Calls(t, cap, proofs, f))[Len(tokens)]
  BY Zenon DEF walk, Calls

\* The calls are defined.
LEMMA CallsExist ==
    ASSUME NEW t, NEW cap, NEW proofs, Len(tokens) \in Nat
    PROVE  \E f : Calls(t, cap, proofs, f)
<1> DEFINE First0 == [at |-> t, cap |-> cap, left |-> proofs, error |-> "climbing"]
           Next1(f, n) == IF n = 0 THEN First0 ELSE IF f[n - 1].error = "climbing" THEN climb(f[n - 1]) ELSE f[n - 1]
           Upto(m, f) == f = [n \in 0..m |-> Next1(f, n)]
           M == {m \in Nat : \E f : Upto(m, f)}
<1>1. 0 \in M
  <2> DEFINE f == [n \in 0..0 |-> First0]
  <2>1. \A n \in 0..0 : n = 0
    OBVIOUS
  <2>2. Upto(0, f)
    <3> HIDE DEF First0
    <3> QED
      BY <2>1, Zenon
  <2>3. 0 \in Nat
    OBVIOUS
  <2> QED
    BY <2>2, <2>3, Zenon
<1>2. ASSUME NEW m \in M PROVE m + 1 \in M
  <2>1. m \in Nat /\ m + 1 \in Nat
    BY SMT
  <2>2. PICK f : Upto(m, f)
    BY Zenon
  <2> HIDE DEF First0
  <2> DEFINE g == [n \in 0..(m + 1) |-> Next1(f, n)]
  <2>3. ASSUME NEW n \in 0..m PROVE n \in 0..(m + 1) /\ g[n] = f[n]
    <3>1. n \in 0..(m + 1)
      BY <2>1
    <3>2. f[n] = Next1(f, n)
      BY <2>2, Zenon
    <3> QED
      BY <3>1, <3>2, Zenon
  <2>4. \A n \in 0..(m + 1) : n = 0 \/ n - 1 \in 0..m
    BY <2>1
  <2>5. \A n \in 0..(m + 1) : Next1(f, n) = Next1(g, n)
    BY <2>3, <2>4, Zenon
  <2>6. Upto(m + 1, g)
    BY <2>5, Zenon
  <2> QED
    BY <2>1, <2>6, Zenon
<1>3. M = Nat
  <2>1. M \in SUBSET Nat
    BY Zenon
  <2> HIDE DEF M
  <2> QED
    BY <1>1, <1>2, <2>1, Induction, Zenon
<1>4. PICK f : Upto(Len(tokens), f)
  BY <1>3, Zenon
<1>5. Calls(t, cap, proofs, f)
  BY <1>4, Zenon DEF Calls
<1> QED
  BY <1>5, Zenon

\* A chain that is accepted is a path to the policy's issuer.
LEMMA WalkTells ==
    ASSUME tokens \in Seq(Tokens), NEW gate, NEW t \in DOMAIN tokens, NEW proofs \in SUBSET (DOMAIN tokens),
           Sound(t), NEW k \in DOMAIN tokens[t].cap, Covers(tokens[t].cap[k].with, Requested),
           gate = "member" => tokens[t].cap[k].can = Can
    PROVE  Walked(gate, t, proofs, Len(tokens), walk(t, tokens[t].cap[k], proofs))
<1> DEFINE cap == tokens[t].cap[k]
           f == CHOOSE f : Calls(t, cap, proofs, f)
           start == [at |-> t, cap |-> cap, left |-> proofs, error |-> "climbing"]
           L == Len(tokens)
<1>0. L \in Nat
  OBVIOUS
<1>1. Calls(t, cap, proofs, f)
  BY <1>0, CallsExist, Zenon
<1>2. walk(t, cap, proofs) = f[L]
  BY WalkIs, Zenon
<1> HIDE DEF f
<1>3. \A n \in 0..L : f[n] = IF n = 0 THEN start ELSE IF f[n - 1].error = "climbing" THEN climb(f[n - 1]) ELSE f[n - 1]
  BY <1>1, Zenon DEF Calls
<1>4. Walked(gate, t, proofs, 0, start)
  <2> DEFINE path == [i \in 1..1 |-> t]
             used == [i \in 1..1 |-> k]
  <2>1. 1 \in 1..1 /\ (\A i \in 1..1 : i = 1) /\ (\A i \in 2..1 : FALSE) /\ 1 \in 1..(0 + 1)
    OBVIOUS
  <2>2. /\ start.at = t /\ start.cap = cap /\ start.left = proofs /\ start.error = "climbing"
        /\ DOMAIN start = {"at", "cap", "left", "error"} /\ "climbing" # "none"
    <3> HIDE DEF cap
    <3> QED
      OBVIOUS
  <2> HIDE DEF start
  <2>3. k \in Positions
    BY Zenon DEF Positions
  <2>4. path[1] = t /\ used[1] = k /\ path \in [1..1 -> DOMAIN tokens] /\ used \in [1..1 -> Positions]
    BY <2>1, <2>3, Zenon
  <2> HIDE DEF path, used
  <2>5. {path[i] : i \in 2..1} = {}
    BY <2>1, Zenon
  <2>6. start.left = proofs \ {path[i] : i \in 2..1} /\ {path[i] : i \in 2..1} \subseteq proofs
    BY <2>2, <2>5, Zenon
  <2>7. Climbed(gate, t, proofs, 1, path, used, start)
    BY <2>1, <2>2, <2>4, <2>6, Zenon DEF Climbed
  <2> QED
    BY <2>1, <2>2, <2>7, Zenon DEF Walked
<1> DEFINE N == {n \in Nat : n <= L => Walked(gate, t, proofs, n, f[n])}
<1>5. 0 \in N
  <2>1. 0 \in Nat /\ 0 \in 0..L
    BY <1>0
  <2>2. f[0] = start
    BY <1>3, <2>1, Zenon
  <2> HIDE DEF start
  <2> QED
    BY <1>4, <2>1, <2>2, Zenon
<1>6. ASSUME NEW n \in N PROVE n + 1 \in N
  <2>1. n \in Nat /\ n + 1 \in Nat
    BY SMT
  <2>2. SUFFICES ASSUME n + 1 <= L PROVE Walked(gate, t, proofs, n + 1, f[n + 1])
    BY <2>1, Zenon
  <2>3. n <= L /\ n + 1 \in 0..L /\ n + 1 # 0 /\ (n + 1) - 1 = n
    BY <1>0, <2>1, <2>2
  <2>4. Walked(gate, t, proofs, n, f[n])
    BY <2>3, Zenon
  <2>5. f[n + 1] = IF f[n].error = "climbing" THEN climb(f[n]) ELSE f[n]
    BY <1>3, <2>3, Zenon
  <2>6. CASE f[n].error = "climbing"
    <3>1. f[n + 1] = climb(f[n])
      BY <2>5, <2>6, Zenon
    <3>2. Walked(gate, t, proofs, n + 1, climb(f[n]))
      BY <2>1, <2>4, <2>6, ClimbStep, Zenon
    <3> QED
      BY <3>1, <3>2, Zenon
  <2>7. CASE f[n].error # "climbing"
    <3>1. f[n + 1] = f[n]
      BY <2>5, <2>7, Zenon
    <3>2. \A m \in 1..(n + 1) : m \in 1..((n + 1) + 1) /\ (m <= n => m <= n + 1)
      BY <2>1
    <3> QED
      BY <2>4, <3>1, <3>2, Zenon DEF Walked
  <2> QED
    BY <2>6, <2>7, Zenon
<1>7. N = Nat
  <2>1. N \in SUBSET Nat
    BY Zenon
  <2> HIDE DEF N
  <2> QED
    BY <1>5, <1>6, <2>1, Induction, Zenon
<1>8. L <= L
  BY <1>0
<1> QED
  BY <1>0, <1>2, <1>7, <1>8, Zenon

\* That a request with token t and those proofs was granted by the tokens toks.
Granted(toks, gate, t, proofs) ==
    \E n \in 1..Len(toks) :
    \E path \in [1..n -> DOMAIN toks], used \in [1..n -> UNION {DOMAIN toks[x].cap : x \in DOMAIN toks}] :
        LET cap(i) == toks[path[i]].cap[used[i]]
        IN  /\ path[1] = t /\ toks[path[1]].aud = Caller
            /\ {path[i] : i \in 2..n} = proofs
            /\ toks[path[n]].prf = <<>> /\ toks[path[n]].iss = Root
            /\ \A i \in 1..n :
                 /\ toks[path[i]].fault = "none"
                 /\ used[i] \in DOMAIN toks[path[i]].cap
                 /\ Covers(cap(i).with, Requested)
                 /\ gate = "member" => cap(i).can = Can
            /\ \A i \in 2..n :
                 /\ toks[path[i - 1]].prf = <<path[i]>>
                 /\ toks[path[i]].aud = toks[path[i - 1]].iss
                 /\ Covers(cap(i).with, cap(i - 1).with)

\* It is what ServedIsGranted says.
LEMMA GrantedIs ==
    ServedIsGranted <=> (verdict = "none" /\ policy # "open" => Granted(tokens, policy, sent.token, sent.proofs))
  BY Zenon DEF ServedIsGranted, Granted, Sound

\* A token that is authorized was granted.
LEMMA AuthorizeTells ==
    ASSUME tokens \in Seq(Tokens), NEW gate, NEW t \in DOMAIN tokens, NEW proofs \in SUBSET (DOMAIN tokens),
           NEW hasOrg, Authorize(gate, t, proofs, hasOrg) = "none"
    PROVE  Granted(tokens, gate, t, proofs)
<1> DEFINE own == tokenFault(t, {Caller})
           k == requested(gate, tokens[t].cap)
           chain == walk(t, tokens[t].cap[k], proofs)
           checks == << <<chain.error # "none", chain.error>>, <<chain.left # {}, "unreferenced_proof">> >>
<1>1. tokens[t] \in Tokens
  OBVIOUS
<1>2. tokens[t].fault \in MadeFault /\ DOMAIN tokens[t].cap \subseteq Nat
  BY <1>1, TokensAre, Zenon
<1>3. own = "none" /\ k # 0 /\ FirstFault(checks) = "none"
  <2>1. "procedure_without_org" # "none"
    OBVIOUS
  <2> QED
    BY <2>1, GrantRefused, Zenon DEF Authorize
<1>4. Sound(t) /\ tokens[t].aud = Caller
  <2>1. {Caller} # {}
    BY Zenon
  <2>2. Sound(t) /\ tokens[t].aud \in {Caller}
    BY <1>2, <1>3, <2>1, TokenPasses, Zenon
  <2> QED
    BY <2>2, Zenon
<1>5. k \in DOMAIN tokens[t].cap /\ (gate = "member" => tokens[t].cap[k].can = Can) /\ Covers(tokens[t].cap[k].with, Requested)
  BY <1>2, <1>3, RequestedIs, Zenon
<1>6. Walked(gate, t, proofs, Len(tokens), chain)
  BY <1>4, <1>5, WalkTells, Zenon
<1> HIDE DEF chain
<1>7. chain.error = "none" /\ chain.left = {}
  <2>1. DOMAIN checks = 1..2 /\ 1..2 \subseteq Nat /\ 1 \in 1..2 /\ 2 \in 1..2
    OBVIOUS
  <2>2. /\ checks[1][1] = (chain.error # "none") /\ checks[1][2] = chain.error
        /\ checks[2][1] = (chain.left # {}) /\ checks[2][2] = "unreferenced_proof"
    BY Zenon
  <2>3. "unreferenced_proof" # "none" /\ \A i \in 1..2 : i = 1 \/ i = 2
    OBVIOUS
  <2> HIDE DEF checks
  <2>4. \A i \in 1..2 : checks[i][1] => checks[i][2] # "none"
    BY <2>2, <2>3, Zenon
  <2>5. \A i \in 1..2 : ~checks[i][1]
    BY <1>3, <2>1, <2>4, Passes, Zenon
  <2> QED
    BY <2>1, <2>2, <2>5, Zenon
<1>8. PICK m \in 1..(Len(tokens) + 1) : \E path, used :
         /\ Climbed(gate, t, proofs, m, path, used, chain)
         /\ tokens[chain.at].prf = <<>> /\ tokens[chain.at].iss = Root /\ m <= Len(tokens)
  BY <1>6, <1>7, Zenon DEF Walked
<1>9. PICK path, used :
         /\ Climbed(gate, t, proofs, m, path, used, chain)
         /\ tokens[chain.at].prf = <<>> /\ tokens[chain.at].iss = Root /\ m <= Len(tokens)
  BY <1>8, Zenon
<1>10. m \in 1..Len(tokens)
  BY <1>9
<1>11. {path[i] : i \in 2..m} = proofs
  <2> DEFINE P == {path[i] : i \in 2..m}
  <2>1. {} = proofs \ P /\ P \subseteq proofs
    BY <1>7, <1>9, Zenon DEF Climbed
  <2> HIDE DEF P
  <2>2. P = proofs
    BY <2>1, Zenon
  <2> QED
    BY <2>2, Zenon DEF P
<1>12. path \in [1..m -> DOMAIN tokens] /\ used \in [1..m -> Positions] /\ path[1] = t /\ path[m] = chain.at
  BY <1>9, Zenon DEF Climbed
<1>13. /\ \A i \in 1..m :
         /\ Sound(path[i])
         /\ used[i] \in DOMAIN tokens[path[i]].cap
         /\ Covers(tokens[path[i]].cap[used[i]].with, Requested)
         /\ gate = "member" => tokens[path[i]].cap[used[i]].can = Can
       /\ \A i \in 2..m :
         /\ tokens[path[i - 1]].prf = <<path[i]>>
         /\ tokens[path[i]].aud = tokens[path[i - 1]].iss
         /\ Covers(tokens[path[i]].cap[used[i]].with, tokens[path[i - 1]].cap[used[i - 1]].with)
  BY <1>9, Zenon DEF Climbed
<1>14. tokens[path[m]].prf = <<>> /\ tokens[path[m]].iss = Root /\ tokens[path[1]].aud = Caller
  BY <1>4, <1>9, <1>12, Zenon
<1> QED
  BY <1>10, <1>11, <1>12, <1>13, <1>14, Zenon DEF Granted, Positions, Sound

\* What holds of every request: it carries tokens that were made, it is judged
\* once, and it is served only if it was granted.
RequestInv ==
    /\ tokens \in Seq(Tokens)
    /\ sent = NotSent => verdict = "undecided"
    /\ ServedIsGranted

\* No request was judged at the start.
LEMMA RequestInit == UInit => RequestInv
<1> SUFFICES ASSUME UInit PROVE RequestInv
  OBVIOUS
<1>1. tokens \in Seq(Tokens)
  BY DEF UInit
<1>2. "undecided" # "none"
  OBVIOUS
<1> QED
  BY <1>1, <1>2, Zenon DEF UInit, RequestInv, ServedIsGranted

\* A token made is one of those that can be.
LEMMA CreateStep ==
    ASSUME RequestInv, Len(tokens) < Len(Made), NEW made \in Made[Len(tokens) + 1],
           NEW prf \in {<<>>, <<Len(tokens)>>, <<2, 1>>}, Create(made, prf)
    PROVE  RequestInv'
<1>0. tokens \in Seq(Tokens) /\ Len(tokens) \in Nat
  BY DEF RequestInv
<1>1. Len(tokens) + 1 \in DOMAIN Made
  BY <1>0, MadeAssumption
<1>2. prf \in Seq(Nat)
  <2>1. <<>> \in Seq(Nat) /\ <<2, 1>> \in Seq(Nat) /\ \A n \in Nat : <<n>> \in Seq(Nat)
    OBVIOUS
  <2> QED
    BY <1>0, <2>1, Zenon
<1>3. Creatable(made.fault) /\ sent = NotSent /\ UNCHANGED <<sent, verdict>>
  BY Zenon DEF Create
<1> DEFINE new == [iss |-> made.iss, aud |-> made.aud, cap |-> made.cap, fault |-> made.fault, prf |-> prf]
<1>4. new \in Tokens
  <2>1. made \in {x \in UNION {Made[i] : i \in DOMAIN Made} : Creatable(x.fault)}
    BY <1>1, <1>3, Zenon
  <2> DEFINE mp == <<made, prf>>
  <2>2. mp \in {x \in UNION {Made[i] : i \in DOMAIN Made} : Creatable(x.fault)} \X Seq(Nat) /\ mp[1] = made /\ mp[2] = prf
    BY <1>2, <2>1, Zenon
  <2> HIDE DEF mp
  <2>3. new = [iss |-> mp[1].iss, aud |-> mp[1].aud, cap |-> mp[1].cap, fault |-> mp[1].fault, prf |-> mp[2]]
    BY <2>2, Zenon
  <2> HIDE DEF new
  <2> QED
    BY <2>2, <2>3, Zenon DEF Tokens
<1>5. tokens' = Append(tokens, new)
  BY Zenon DEF Create
<1> HIDE DEF new
<1>6. tokens' \in Seq(Tokens)
  BY <1>0, <1>4, <1>5
<1>7. verdict' = "undecided" /\ "undecided" # "none"
  BY <1>3 DEF RequestInv
<1> QED
  BY <1>6, <1>7, Zenon DEF RequestInv, ServedIsGranted, Tokens

\* A request served was granted.
LEMMA RequestStep ==
    ASSUME RequestInv, tokens # <<>>, NEW gate, NEW proofs \in SUBSET (1..(Len(tokens) - 1)),
           NEW hasOrg, Request(gate, Len(tokens), proofs, hasOrg)
    PROVE  RequestInv'
<1> DEFINE t == Len(tokens)
<1>0. tokens \in Seq(Tokens) /\ t \in DOMAIN tokens /\ proofs \in SUBSET (DOMAIN tokens) /\ t # 0
  BY DEF RequestInv
<1>1. /\ policy' = gate /\ sent' = [token |-> t, proofs |-> proofs]
      /\ verdict' = authorize(gate, t, proofs, hasOrg) /\ UNCHANGED tokens
  BY Zenon DEF Request
<1> HIDE DEF t
<1>2. sent'.token = t /\ sent'.proofs = proofs
  BY <1>1
<1>3. sent' # NotSent
  <2>1. NotSent.token = 0
    BY DEF NotSent
  <2> QED
    BY <1>0, <1>2, <2>1, Zenon
<1>4. ASSUME verdict' = "none", policy' # "open" PROVE Granted(tokens, gate, t, proofs)
  <2>1. Authorize(gate, t, proofs, hasOrg) = "none"
    <3>1. "malformed_frame" # "none" /\ "unauthorized" # "none"
      OBVIOUS
    <3> QED
      BY <1>1, <1>4, <3>1, Zenon DEF authorize
  <2> QED
    BY <1>0, <2>1, AuthorizeTells, Zenon
<1>5. ServedIsGranted'
  <2>1. verdict' = "none" /\ policy' # "open" => Granted(tokens', policy', sent'.token, sent'.proofs)
    BY <1>1, <1>2, <1>4, Zenon
  <2>2. ServedIsGranted' <=> (verdict' = "none" /\ policy' # "open" => Granted(tokens', policy', sent'.token, sent'.proofs))
    BY Zenon DEF ServedIsGranted, Granted, Sound
  <2> QED
    BY <2>1, <2>2, Zenon
<1>6. tokens' \in Seq(Tokens')
  BY <1>0, <1>1, Zenon DEF Tokens
<1> QED
  BY <1>3, <1>5, <1>6, Zenon DEF RequestInv

\* Every step keeps it.
LEMMA RequestNext == RequestInv /\ [UNext]_uvars => RequestInv'
<1> SUFFICES ASSUME RequestInv, [UNext]_uvars PROVE RequestInv'
  OBVIOUS
<1>1. CASE UNCHANGED uvars
  <2>1. tokens' = tokens /\ policy' = policy /\ sent' = sent /\ verdict' = verdict
    BY <1>1, Zenon DEF uvars
  <2>2. ServedIsGranted' <=> (verdict' = "none" /\ policy' # "open" => Granted(tokens', policy', sent'.token, sent'.proofs))
    BY Zenon DEF ServedIsGranted, Granted, Sound
  <2>3. ServedIsGranted'
    BY <2>1, <2>2, GrantedIs, Zenon DEF RequestInv
  <2> QED
    BY <2>1, <2>3, Zenon DEF RequestInv, Tokens
<1> QED
  BY <1>1, CreateStep, RequestStep, Zenon DEF UNext

\* ucan/ucan.go Authorize, stationlink/authorize.go: whatever tokens are made,
\* delegated and spoilt, and whatever proofs are sent, a request that a gated
\* procedure serves was granted along an unbroken path from the policy's issuer.
THEOREM ServedRequestsAreGranted == USpec => []ServedIsGranted
<1>1. RequestInv => ServedIsGranted
  BY Zenon DEF RequestInv
<1> QED
  BY <1>1, RequestInit, RequestNext, PTL DEF USpec
=============================================================================
