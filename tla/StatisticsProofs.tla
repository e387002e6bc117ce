--------------------------- MODULE StatisticsProofs ---------------------------
(***************************************************************************)
(* The figures of both collectors, for any samples, widths and windows:    *)
(* each window is printed once and its percentiles are those of its        *)
(* samples; the mean and variance of Statistic are exact as long as the    *)
(* sum of the samples is an int and that of the squares a word.            *)
(***************************************************************************)
EXTENDS Statistics, SequenceTheorems, FunctionTheorems, FiniteSetTheorems, TLAPS

-----------------------------------------------------------------------------
\* Induction over the numbers, for a set of them.
LEMMA SetInduction ==
  ASSUME NEW T, 0 \in T, \A n \in Nat : n \in T => n + 1 \in T
  PROVE  Nat \subseteq T
<1> DEFINE Bad == Nat \ T
           Below == {0..n : n \in Bad}
<1>1. SUFFICES ASSUME Bad # {} PROVE FALSE
  OBVIOUS
<1>2. Below \subseteq FiniteSubsetsOf(Nat)
  <2> SUFFICES ASSUME NEW n \in Nat PROVE 0..n \in FiniteSubsetsOf(Nat)
    OBVIOUS
  <2>1. IsFiniteSet(0..n)
    BY FS_Interval
  <2> QED BY <2>1 DEF FiniteSubsetsOf
<1>3. Below # {}
  BY <1>1
<1>4. IsWellFoundedOn(StrictSubsetOrdering(Nat), FiniteSubsetsOf(Nat))
  BY FS_StrictSubsetOrderingWellFounded
<1> HIDE DEF Below
<1>5. PICK B \in Below : \A C \in Below : <<C, B>> \notin StrictSubsetOrdering(Nat)
  BY <1>2, <1>3, <1>4, WFMin
<1>6. PICK n \in Bad : B = 0..n
  BY DEF Below
<1>7. n # 0 /\ n - 1 \in Nat /\ n - 1 \in Bad
  OBVIOUS
<1>8. 0..(n - 1) \in Below
  BY <1>7 DEF Below
<1>9. /\ 0..(n - 1) \in SUBSET Nat /\ 0..n \in SUBSET Nat
      /\ 0..(n - 1) \subseteq 0..n /\ 0..(n - 1) # 0..n
  BY <1>7
<1>10. <<0..(n - 1), 0..n>> \in StrictSubsetOrdering(Nat)
  BY <1>9 DEF StrictSubsetOrdering
<1> QED BY <1>5, <1>6, <1>8, <1>10
-----------------------------------------------------------------------------
\* std::sort(): every sequence of numbers has an order.

Orders(p, s, n) == p \in Bijection(1..n, 1..n) /\ \A i, j \in 1..n : i < j => s[p[i]] <= s[p[j]]

\* Among the first samples there is a greatest.
Greatest(m, s, n) == m \in 1..n /\ \A i \in 1..n : s[i] <= s[m]

LEMMA HasGreatest == \A n \in Nat : \A s \in [1..(n + 1) -> Int] : \E m : Greatest(m, s, n + 1)
<1> DEFINE T == {n \in Nat : \A s \in [1..(n + 1) -> Int] : \E m : Greatest(m, s, n + 1)}
<1>1. 0 \in T
  <2> SUFFICES ASSUME NEW s \in [1..(0 + 1) -> Int] PROVE \E m : Greatest(m, s, 0 + 1)
    OBVIOUS
  <2>1. Greatest(1, s, 0 + 1)
    BY DEF Greatest
  <2> QED BY <2>1
<1>2. ASSUME NEW n \in Nat, n \in T PROVE n + 1 \in T
  <2> SUFFICES ASSUME NEW s \in [1..((n + 1) + 1) -> Int]
               PROVE  \E m : Greatest(m, s, (n + 1) + 1)
    OBVIOUS
  <2> DEFINE t == [i \in 1..(n + 1) |-> s[i]]
             z == (n + 1) + 1
  <2>1. t \in [1..(n + 1) -> Int]
    OBVIOUS
  <2>2. PICK m : Greatest(m, t, n + 1)
    BY <1>2, <2>1
  <2>3. m \in 1..(n + 1) /\ \A i \in 1..(n + 1) : s[i] <= s[m]
    BY <2>2 DEF Greatest
  <2>4. 1..z = 1..(n + 1) \cup {z} /\ z \in 1..z /\ m \in 1..z /\ s[z] \in Int /\ s[m] \in Int
    BY <2>3
  <2>5. \A i \in 1..(n + 1) : s[i] \in Int
    OBVIOUS
  <2> HIDE DEF t, z
  <2>6. s[m] <= s[z] => Greatest(z, s, z)
    BY <2>3, <2>4, <2>5 DEF Greatest
  <2>7. s[z] <= s[m] => Greatest(m, s, z)
    BY <2>3, <2>4 DEF Greatest
  <2>8. s[m] <= s[z] \/ s[z] <= s[m]
    BY <2>4
  <2> QED BY <2>6, <2>7, <2>8 DEF z
<1> HIDE DEF T
<1>3. Nat \subseteq T
  BY <1>1, <1>2, SetInduction
<1> QED BY <1>3 DEF T

\* The greatest of n + 1 samples goes last, its place to the last one, and the rest is sorted.
LEMMA HasOrder == \A n \in Nat : \A s \in [1..n -> Int] : \E p : Orders(p, s, n)
<1> DEFINE T == {n \in Nat : \A s \in [1..n -> Int] : \E p : Orders(p, s, n)}
<1>1. 0 \in T
  <2> SUFFICES ASSUME NEW s \in [1..0 -> Int] PROVE \E p : Orders(p, s, 0)
    OBVIOUS
  <2> DEFINE p == [i \in 1..0 |-> i]
  <2>1. p \in Bijection(1..0, 1..0)
    BY Fun_IsBij
  <2> QED BY <2>1 DEF Orders
<1>2. ASSUME NEW n \in Nat, n \in T PROVE n + 1 \in T
  <2> SUFFICES ASSUME NEW s \in [1..(n + 1) -> Int] PROVE \E q : Orders(q, s, n + 1)
    OBVIOUS
  <2>1. PICK m \in 1..(n + 1) : \A i \in 1..(n + 1) : s[i] <= s[m]
    BY HasGreatest DEF Greatest
  <2> DEFINE t == [i \in 1..n |-> IF i = m THEN s[n + 1] ELSE s[i]]
  <2>0. t \in [1..n -> Int]
    OBVIOUS
  <2>2. PICK p : Orders(p, t, n)
    BY <1>2, <2>0
  <2> DEFINE q == [i \in 1..(n + 1) |->
                     IF i = n + 1 THEN m ELSE IF p[i] = m THEN n + 1 ELSE p[i]]
  <2>3. /\ p \in [1..n -> 1..n]
        /\ \A a, b \in 1..n : p[a] = p[b] => a = b
        /\ \A c \in 1..n : \E a \in 1..n : p[a] = c
    BY <2>2, Fun_IsInj, Fun_IsSurj DEF Orders, Bijection, Injection, Surjection, IsInjective
  <2>4. /\ q \in [1..(n + 1) -> 1..(n + 1)]
        /\ q[n + 1] = m
        /\ \A a \in 1..n : q[a] = IF p[a] = m THEN n + 1 ELSE p[a]
    <3>1. \A a \in 1..n : p[a] \in 1..n
      BY <2>3
    <3>2. \A a \in 1..n : p[a] \in 1..(n + 1)
      BY <3>1
    <3>3. \A a \in 1..(n + 1) : a # n + 1 => a \in 1..n
      OBVIOUS
    <3> QED BY <3>2, <3>3
  <2> HIDE DEF q
  <2>s. 1..(n + 1) = 1..n \cup {n + 1} /\ n + 1 \notin 1..n
    OBVIOUS
  <2>5. \A a, b \in 1..(n + 1) : q[a] = q[b] => a = b
    <3>1. \A a \in 1..n : p[a] \in 1..n /\ p[a] # n + 1
      BY <2>3, <2>s
    <3>2. \A a \in 1..n : q[a] # m
      BY <2>4, <3>1
    <3>3. \A a, b \in 1..n : q[a] = q[b] => p[a] = p[b]
      BY <2>4, <3>1
    <3> QED BY <2>3, <2>4, <2>s, <3>2, <3>3
  <2>6. \A c \in 1..(n + 1) : \E a \in 1..(n + 1) : q[a] = c
    <3> SUFFICES ASSUME NEW c \in 1..(n + 1) PROVE \E a \in 1..(n + 1) : q[a] = c
      OBVIOUS
    <3>1. CASE c = m
      BY <2>4, <2>s, <3>1
    <3>2. CASE c # m /\ c = n + 1
      <4>1. m \in 1..n
        BY <2>s, <3>2
      <4>2. PICK a \in 1..n : p[a] = m
        BY <2>3, <4>1
      <4> QED BY <2>4, <2>s, <3>2, <4>2
    <3>3. CASE c # m /\ c # n + 1
      <4>1. PICK a \in 1..n : p[a] = c
        BY <2>3, <2>s, <3>3
      <4> QED BY <2>4, <2>s, <3>3, <4>1
    <3> QED BY <3>1, <3>2, <3>3
  <2>7. q \in Bijection(1..(n + 1), 1..(n + 1))
    BY <2>4, <2>5, <2>6, Fun_IsBij
  <2>8. \A i \in 1..n : s[q[i]] = t[p[i]]
    <3>1. \A i \in 1..n : t[i] = IF i = m THEN s[n + 1] ELSE s[i]
      OBVIOUS
    <3>2. \A i \in 1..n : p[i] \in 1..n
      BY <2>3
    <3> HIDE DEF t
    <3> QED BY <2>4, <3>1, <3>2
  <2> HIDE DEF t
  <2>9. \A i, j \in 1..(n + 1) : i < j => s[q[i]] <= s[q[j]]
    <3> SUFFICES ASSUME NEW i \in 1..(n + 1), NEW j \in 1..(n + 1), i < j PROVE s[q[i]] <= s[q[j]]
      OBVIOUS
    <3>1. CASE j = n + 1
      BY <2>1, <2>4, <3>1
    <3>2. CASE j # n + 1
      <4>1. i \in 1..n /\ j \in 1..n
        BY <3>2
      <4> QED BY <2>2, <2>8, <4>1 DEF Orders
    <3> QED BY <3>1, <3>2
  <2> QED BY <2>7, <2>9 DEF Orders
<1> HIDE DEF T
<1>3. Nat \subseteq T
  BY <1>1, <1>2, SetInduction
<1> QED BY <1>3 DEF T

\* Sorted, and the same samples in another order.
Rising(v) == \A i, j \in DOMAIN v : i < j => v[i] <= v[j]

LEMMA AscendingIs ==
  ASSUME NEW s \in Seq(Nat)
  PROVE  \E p \in Bijection(1..Len(s), 1..Len(s)) :
           /\ Ascending(s) = [i \in 1..Len(s) |-> s[p[i]]]
           /\ \A i, j \in 1..Len(s) : i < j => s[p[i]] <= s[p[j]]
<1> DEFINE n == Len(s)
           p == CHOOSE p \in Bijection(1..n, 1..n) : \A i, j \in 1..n : i < j => s[p[i]] <= s[p[j]]
<1>1. DOMAIN s = 1..n /\ n \in Nat /\ s \in [1..n -> Int]
  BY LenProperties
<1>2. \E q : Orders(q, s, n)
  BY <1>1, HasOrder
<1>3. p \in Bijection(1..n, 1..n) /\ \A i, j \in 1..n : i < j => s[p[i]] <= s[p[j]]
  BY <1>2, Zenon DEF Orders
<1> DEFINE d == DOMAIN s
           o == CHOOSE o \in Bijection(d, d) : \A i, j \in d : i < j => s[o[i]] <= s[o[j]]
<1>4. Ascending(s) = [i \in d |-> s[o[i]]]
  BY DEF Ascending
<1>5. d = 1..n
  BY <1>1
<1> HIDE DEF d
<1>6. o = p
  BY <1>5, Zenon
<1> HIDE DEF o
<1>7. Ascending(s) = [i \in 1..n |-> s[p[i]]]
  BY <1>4, <1>5, <1>6, Zenon
<1> HIDE DEF p
<1> QED BY <1>3, <1>7

LEMMA AscendingSorts ==
  ASSUME NEW s \in Seq(Nat)
  PROVE  Ascending(s) \in Seq(Nat) /\ Len(Ascending(s)) = Len(s) /\ Rising(Ascending(s))
<1> DEFINE n == Len(s)
           t == Ascending(s)
<1>1. DOMAIN s = 1..n /\ n \in Nat /\ \A i \in 1..n : s[i] \in Nat
  BY LenProperties, ElementOfSeq
<1>2. PICK p \in Bijection(1..n, 1..n) :
        /\ t = [i \in 1..n |-> s[p[i]]]
        /\ \A i, j \in 1..n : i < j => s[p[i]] <= s[p[j]]
  BY AscendingIs
<1>3. \A i \in 1..n : p[i] \in 1..n
  BY DEF Bijection, Injection
<1> HIDE DEF n, t
<1>4. DOMAIN t = 1..n /\ \A i \in 1..n : t[i] = s[p[i]]
  BY <1>2
<1>5. t \in [1..n -> Nat]
  BY <1>1, <1>2, <1>3
<1>6. t \in Seq(Nat) /\ Len(t) = n
  BY <1>1, <1>5
<1> QED BY <1>2, <1>4, <1>6 DEF Rising, n, t

\* A rank taken from sorted samples is one.
LEMMA SortedRank ==
  ASSUME NEW v \in Seq(Nat), Rising(v), NEW i \in Nat, i < Len(v)
  PROVE  HasRank(v[i + 1], i, v)
<1> DEFINE n == Len(v)
           x == v[i + 1]
           Less == {k \in DOMAIN v : v[k] < x}
           Upto == {k \in DOMAIN v : v[k] <= x}
<1>1. DOMAIN v = 1..n /\ n \in Nat /\ i + 1 \in 1..n /\ \A k \in 1..n : v[k] \in Nat
  BY LenProperties, ElementOfSeq
<1>2. Less \subseteq 1..i
  <2> SUFFICES ASSUME NEW k \in 1..n, v[k] < x PROVE k \in 1..i
    BY <1>1
  <2>1. k <= i \/ k = i + 1 \/ i + 1 < k
    BY <1>1
  <2>2. i + 1 < k => x <= v[k]
    BY <1>1 DEF Rising
  <2>3. x \in Nat /\ v[k] \in Nat
    BY <1>1
  <2> QED BY <1>1, <2>1, <2>2, <2>3
<1>3. 1..(i + 1) \subseteq Upto
  <2> SUFFICES ASSUME NEW k \in 1..(i + 1) PROVE k \in 1..n /\ v[k] <= x
    BY <1>1
  <2>1. k \in 1..n /\ (k < i + 1 \/ k = i + 1)
    BY <1>1
  <2>2. k < i + 1 => v[k] <= x
    BY <1>1, <2>1 DEF Rising
  <2> QED BY <1>1, <2>1, <2>2
<1>4. IsFiniteSet(1..i) /\ Cardinality(1..i) = i
  BY FS_Interval
<1>5. Cardinality(1..(i + 1)) = i + 1
  BY FS_Interval
<1>6. IsFiniteSet(Upto)
  <2>1. IsFiniteSet(1..n) /\ Upto \subseteq 1..n
    BY <1>1, FS_Interval
  <2> QED BY <2>1, FS_Subset
<1> HIDE DEF Less, Upto
<1>7. Cardinality(Less) <= i
  BY <1>2, <1>4, FS_Subset
<1>8. i + 1 <= Cardinality(Upto) /\ Cardinality(Upto) \in Nat
  BY <1>3, <1>5, <1>6, FS_Subset, FS_CardinalityType
<1> QED BY <1>7, <1>8 DEF HasRank, Less, Upto, x

\* As many samples are within a bound, in whatever order they are.
LEMMA SameCount ==
  ASSUME NEW n \in Nat, NEW p \in Bijection(1..n, 1..n), NEW C \in SUBSET (1..n)
  PROVE  Cardinality({k \in 1..n : p[k] \in C}) = Cardinality(C)
<1> DEFINE D == {k \in 1..n : p[k] \in C}
           f == [k \in D |-> p[k]]
<1>1. /\ p \in [1..n -> 1..n]
      /\ \A a, b \in 1..n : p[a] = p[b] => a = b
      /\ \A c \in 1..n : \E a \in 1..n : p[a] = c
  BY DEF Bijection, Injection, Surjection, IsInjective
<1>2. f \in [D -> C] /\ \A k \in D : f[k] = p[k]
  OBVIOUS
<1>3. \A a, b \in D : f[a] = f[b] => a = b
  BY <1>1, <1>2
<1>4. \A c \in C : \E a \in D : f[a] = c
  BY <1>1, <1>2
<1>5. f \in Bijection(D, C)
  BY <1>2, <1>3, <1>4, Fun_IsBij
<1>6. IsFiniteSet(D)
  <2>1. IsFiniteSet(1..n) /\ D \subseteq 1..n
    BY FS_Interval
  <2> QED BY <2>1, FS_Subset
<1> HIDE DEF D, f
<1>7. ExistsBijection(D, C)
  BY <1>5 DEF ExistsBijection
<1>8. Cardinality(D) = Cardinality(C)
  BY <1>6, <1>7, FS_Bijection
<1> QED BY <1>8 DEF D

\* A rank of the sorted samples is one of the samples as they came.
LEMMA RankKept ==
  ASSUME NEW s \in Seq(Nat), NEW i \in Nat, i < Len(s)
  PROVE  HasRank(Ascending(s)[i + 1], i, s)
<1> DEFINE n == Len(s)
           t == Ascending(s)
           x == t[i + 1]
<1>1. DOMAIN s = 1..n /\ n \in Nat
  BY LenProperties
<1>2. PICK p \in Bijection(1..n, 1..n) : t = [k \in 1..n |-> s[p[k]]]
  BY AscendingIs
<1>3. t \in Seq(Nat) /\ Len(t) = n /\ Rising(t)
  BY AscendingSorts
<1>4. \A k \in 1..n : p[k] \in 1..n
  BY DEF Bijection, Injection
<1>5. DOMAIN t = 1..n /\ \A k \in 1..n : t[k] = s[p[k]]
  BY <1>2
<1> HIDE DEF n, t
<1>6. HasRank(x, i, t)
  BY <1>3, SortedRank DEF n
<1> HIDE DEF x
<1> DEFINE Less == {k \in 1..n : s[k] < x}
           Upto == {k \in 1..n : s[k] <= x}
<1>7. {k \in DOMAIN t : t[k] < x} = {k \in 1..n : p[k] \in Less}
  BY <1>4, <1>5
<1>8. {k \in DOMAIN t : t[k] <= x} = {k \in 1..n : p[k] \in Upto}
  BY <1>4, <1>5
<1>9. Less \in SUBSET (1..n) /\ Upto \in SUBSET (1..n)
  OBVIOUS
<1> HIDE DEF Less, Upto
<1>10. Cardinality({k \in DOMAIN t : t[k] < x}) = Cardinality(Less)
  BY <1>1, <1>7, <1>9, SameCount
<1>11. Cardinality({k \in DOMAIN t : t[k] <= x}) = Cardinality(Upto)
  BY <1>1, <1>8, <1>9, SameCount
<1>12. Cardinality(Less) <= i /\ i < Cardinality(Upto)
  BY <1>6, <1>10, <1>11 DEF HasRank
<1> QED BY <1>1, <1>12 DEF HasRank, Less, Upto, x, t
-----------------------------------------------------------------------------
\* A sum is what a loop leaves: h is its body, given the sum so far and the index.
Loops(f, h, n) ==
  /\ f \in [0..n -> Int] /\ f[0] = 0
  /\ \A i \in 1..n : f[i] = h[<<f[i - 1], i>>]

LEMMA LoopEnds ==
  ASSUME NEW h \in [Int \X Int -> Int]
  PROVE  \A n \in Nat : \E f : Loops(f, h, n)
<1> DEFINE T == {n \in Nat : \E f : Loops(f, h, n)}
<1>1. 0 \in T
  <2> DEFINE f == [i \in 0..0 |-> 0]
  <2>1. Loops(f, h, 0)
    BY DEF Loops
  <2> QED BY <2>1
<1>2. ASSUME NEW n \in Nat, n \in T PROVE n + 1 \in T
  <2>1. PICK f : Loops(f, h, n)
    BY <1>2
  <2>2. /\ \A i \in 0..n : f[i] \in Int
        /\ f[0] = 0 /\ \A i \in 1..n : f[i] = h[<<f[i - 1], i>>]
    BY <2>1 DEF Loops
  <2> DEFINE v == h[<<f[n], n + 1>>]
             g == [i \in 0..(n + 1) |-> IF i = n + 1 THEN v ELSE f[i]]
  <2>3. v \in Int
    BY <2>2
  <2> HIDE DEF v
  <2>4. g \in [0..(n + 1) -> Int]
    BY <2>2, <2>3
  <2>5. /\ g[n + 1] = v /\ \A i \in 0..n : g[i] = f[i]
    OBVIOUS
  <2> HIDE DEF g
  <2>6. ASSUME NEW i \in 1..(n + 1) PROVE g[i] = h[<<g[i - 1], i>>]
    <3>1. CASE i = n + 1
      BY <2>5, <3>1 DEF v
    <3>2. CASE i # n + 1
      <4>1. i \in 1..n /\ i \in 0..n /\ i - 1 \in 0..n
        BY <3>2
      <4> QED BY <2>2, <2>5, <4>1
    <3> QED BY <3>1, <3>2
  <2>7. Loops(g, h, n + 1)
    BY <2>2, <2>4, <2>5, <2>6 DEF Loops
  <2> QED BY <2>7
<1> HIDE DEF T
<1>3. Nat \subseteq T
  BY <1>1, <1>2, SetInduction
<1> QED BY <1>3 DEF T

\* The true sum, step by step.
PartialSums(f, s) ==
  /\ f[0] = 0
  /\ \A i \in 1..Len(s) : f[i] = f[i - 1] + s[i]

LEMMA SumOfIs ==
  ASSUME NEW s \in Seq(Int)
  PROVE  \E f : PartialSums(f, s) /\ SumOf(s) = f[Len(s)]
<1> DEFINE n == Len(s)
           h == [x \in Int \X Int |-> IF x[2] \in 1..n THEN x[1] + s[x[2]] ELSE 0]
<1>1. n \in Nat /\ \A i \in 1..n : s[i] \in Int
  BY LenProperties, ElementOfSeq
<1>2. h \in [Int \X Int -> Int]
  BY <1>1
<1>3. \A a \in Int : \A i \in 1..n : h[<<a, i>>] = a + s[i]
  OBVIOUS
<1>4. PICK f : Loops(f, h, n)
  BY <1>1, <1>2, LoopEnds
<1> HIDE DEF h
<1>5. f = [i \in 0..n |-> IF i = 0 THEN 0 ELSE f[i - 1] + s[i]]
  <2>1. f \in [0..n -> Int] /\ f[0] = 0 /\ \A i \in 1..n : f[i] = h[<<f[i - 1], i>>]
    BY <1>4 DEF Loops
  <2>2. \A i \in 0..n : f[i] = IF i = 0 THEN 0 ELSE f[i - 1] + s[i]
    <3> SUFFICES ASSUME NEW i \in 0..n, i # 0 PROVE f[i] = f[i - 1] + s[i]
      BY <2>1
    <3>1. i \in 1..n /\ i - 1 \in 0..n
      BY <1>1
    <3>2. f[i - 1] \in Int
      BY <2>1, <3>1
    <3> QED BY <1>3, <2>1, <3>1, <3>2
  <2> QED BY <2>1, <2>2
<1> DEFINE sum[i \in 0..n] == IF i = 0 THEN 0 ELSE sum[i - 1] + s[i]
<1>6. sum = [i \in 0..n |-> IF i = 0 THEN 0 ELSE sum[i - 1] + s[i]]
  BY <1>5, Zenon
<1>7. SumOf(s) = sum[n]
  BY Zenon DEF SumOf
<1> HIDE DEF sum
<1>8. PartialSums(sum, s)
  <2> DEFINE g == [i \in 0..n |-> IF i = 0 THEN 0 ELSE sum[i - 1] + s[i]]
  <2>1. g[0] = 0 /\ \A i \in 1..n : g[i] = sum[i - 1] + s[i]
    BY <1>1
  <2> HIDE DEF g
  <2>2. sum = g
    BY <1>6 DEF g
  <2> QED BY <2>1, <2>2 DEF PartialSums
<1> QED BY <1>7, <1>8

\* What std::accumulate() does, step by step.
LEMMA ToIntType == \A x \in Int : ToInt(x) \in Int
BY StatisticsAssumption DEF ToInt

LEMMA AccumulateIs ==
  ASSUME NEW s \in Seq(Nat)
  PROVE  \E f : /\ Accumulate(s) = f[Len(s)] % WordMod
                /\ f[0] = 0
                /\ \A i \in 1..Len(s) : f[i] = ToInt((f[i - 1] + s[i]) % WordMod)
<1> DEFINE n == Len(s)
           h == [x \in Int \X Int |->
                   IF x[2] \in 1..n THEN ToInt((x[1] + s[x[2]]) % WordMod) ELSE 0]
<1>1. n \in Nat /\ \A i \in 1..n : s[i] \in Int
  BY LenProperties, ElementOfSeq
<1>2. h \in [Int \X Int -> Int]
  <2>1. \A x \in Int : x % WordMod \in Int
    BY StatisticsAssumption
  <2>2. \A a, b \in Int : a + b \in Int
    OBVIOUS
  <2>3. \A x \in Int \X Int : x[2] \in 1..n => ToInt((x[1] + s[x[2]]) % WordMod) \in Int
    BY <1>1, <2>1, <2>2, ToIntType
  <2> QED BY <2>3
<1>3. \A a \in Int : \A i \in 1..n : h[<<a, i>>] = ToInt((a + s[i]) % WordMod)
  OBVIOUS
<1>4. PICK f : Loops(f, h, n)
  BY <1>1, <1>2, LoopEnds
<1> HIDE DEF h
<1>5. f = [i \in 0..n |-> IF i = 0 THEN 0 ELSE ToInt((f[i - 1] + s[i]) % WordMod)]
  <2>1. f \in [0..n -> Int] /\ f[0] = 0 /\ \A i \in 1..n : f[i] = h[<<f[i - 1], i>>]
    BY <1>4 DEF Loops
  <2>2. \A i \in 0..n : f[i] = IF i = 0 THEN 0 ELSE ToInt((f[i - 1] + s[i]) % WordMod)
    <3> SUFFICES ASSUME NEW i \in 0..n, i # 0
                 PROVE  f[i] = ToInt((f[i - 1] + s[i]) % WordMod)
      BY <2>1
    <3>1. i \in 1..n /\ i - 1 \in 0..n
      BY <1>1
    <3>2. f[i - 1] \in Int
      BY <2>1, <3>1
    <3> QED BY <1>3, <2>1, <3>1, <3>2
  <2> QED BY <2>1, <2>2
<1> DEFINE sum[i \in 0..n] == IF i = 0 THEN 0 ELSE ToInt((sum[i - 1] + s[i]) % WordMod)
<1>6. sum = [i \in 0..n |-> IF i = 0 THEN 0 ELSE ToInt((sum[i - 1] + s[i]) % WordMod)]
  BY <1>5, Zenon
<1>7. Accumulate(s) = sum[n] % WordMod
  BY Zenon DEF Accumulate
<1> HIDE DEF sum
<1>8. sum[0] = 0 /\ \A i \in 1..n : sum[i] = ToInt((sum[i - 1] + s[i]) % WordMod)
  <2> DEFINE g == [i \in 0..n |-> IF i = 0 THEN 0 ELSE ToInt((sum[i - 1] + s[i]) % WordMod)]
  <2>1. g[0] = 0 /\ \A i \in 1..n : g[i] = ToInt((sum[i - 1] + s[i]) % WordMod)
    BY <1>1
  <2> HIDE DEF g
  <2>2. sum = g
    BY <1>6 DEF g
  <2> QED BY <2>1, <2>2
<1> QED BY <1>7, <1>8

\* The loop over the squares, of unsigned differences, step by step.
Diff(x, mean) == (x - mean) % WordMod

LEMMA SquaresIs ==
  ASSUME NEW s \in Seq(Nat), NEW mean \in Int
  PROVE  \E f : /\ Squares(s, mean) = f[Len(s)]
                /\ f[0] = 0
                /\ \A i \in 1..Len(s) :
                     f[i] = (f[i - 1] + Diff(s[i], mean) * Diff(s[i], mean)) % WordMod
<1> DEFINE n == Len(s)
           sq(i) == Diff(s[i], mean) * Diff(s[i], mean)
           h == [x \in Int \X Int |-> IF x[2] \in 1..n THEN (x[1] + sq(x[2])) % WordMod ELSE 0]
<1>1. n \in Nat /\ \A i \in 1..n : s[i] \in Int
  BY LenProperties, ElementOfSeq
<1>s. \A i \in 1..n : sq(i) \in Int
  <2>1. \A x \in Int : x % WordMod \in Int
    BY StatisticsAssumption
  <2>2. \A a, b \in Int : a - b \in Int /\ a * b \in Int
    OBVIOUS
  <2>3. \A i \in 1..n : Diff(s[i], mean) \in Int
    BY <1>1, <2>1, <2>2 DEF Diff
  <2> QED BY <2>2, <2>3
<1> HIDE DEF sq
<1>2. h \in [Int \X Int -> Int]
  <2>1. \A x \in Int : x % WordMod \in Int
    BY StatisticsAssumption
  <2>2. \A a, b \in Int : a + b \in Int
    OBVIOUS
  <2>3. \A x \in Int \X Int : x[2] \in 1..n => (x[1] + sq(x[2])) % WordMod \in Int
    BY <1>s, <2>1, <2>2
  <2> QED BY <2>3
<1>3. \A a \in Int : \A i \in 1..n : h[<<a, i>>] = (a + sq(i)) % WordMod
  OBVIOUS
<1>4. PICK f : Loops(f, h, n)
  BY <1>1, <1>2, LoopEnds
<1> HIDE DEF h
<1>5. f = [i \in 0..n |-> IF i = 0 THEN 0 ELSE (f[i - 1] + sq(i)) % WordMod]
  <2>1. f \in [0..n -> Int] /\ f[0] = 0 /\ \A i \in 1..n : f[i] = h[<<f[i - 1], i>>]
    BY <1>4 DEF Loops
  <2>2. \A i \in 0..n : f[i] = IF i = 0 THEN 0 ELSE (f[i - 1] + sq(i)) % WordMod
    <3> SUFFICES ASSUME NEW i \in 0..n, i # 0 PROVE f[i] = (f[i - 1] + sq(i)) % WordMod
      BY <2>1
    <3>1. i \in 1..n /\ i - 1 \in 0..n
      BY <1>1
    <3>2. f[i - 1] \in Int
      BY <2>1, <3>1
    <3> QED BY <1>3, <2>1, <3>1, <3>2
  <2> QED BY <2>1, <2>2
<1> DEFINE diff(x) == (x - mean) % WordMod
           var[i \in 0..n] ==
             IF i = 0 THEN 0 ELSE (var[i - 1] + diff(s[i]) * diff(s[i])) % WordMod
<1>6. var = [i \in 0..n |-> IF i = 0 THEN 0 ELSE (var[i - 1] + sq(i)) % WordMod]
  BY <1>5, Zenon DEF sq, Diff
<1>7. Squares(s, mean) = var[n]
  BY Zenon DEF Squares
<1> HIDE DEF var
<1>8. var[0] = 0 /\ \A i \in 1..n : var[i] = (var[i - 1] + sq(i)) % WordMod
  <2> DEFINE g == [i \in 0..n |-> IF i = 0 THEN 0 ELSE (var[i - 1] + sq(i)) % WordMod]
  <2>1. g[0] = 0 /\ \A i \in 1..n : g[i] = (var[i - 1] + sq(i)) % WordMod
    BY <1>1
  <2> HIDE DEF g
  <2>2. var = g
    BY <1>6 DEF g
  <2> QED BY <2>1, <2>2
<1> QED BY <1>7, <1>8 DEF sq
-----------------------------------------------------------------------------
\* Partial sums of samples only grow.
LEMMA SumsGrow ==
  ASSUME NEW s \in Seq(Nat), NEW f, PartialSums(f, s)
  PROVE  /\ \A i \in 0..Len(s) : f[i] \in Nat /\ f[i] <= f[Len(s)]
         /\ \A i \in 1..Len(s) : f[i] = f[i - 1] + s[i]
<1> DEFINE n == Len(s)
           T == {j \in Nat : j <= n => f[j] \in Nat /\ \A i \in 0..j : f[i] \in Nat /\ f[i] <= f[j]}
<1>1. n \in Nat /\ \A i \in 1..n : s[i] \in Nat
  BY LenProperties, ElementOfSeq
<1>2. f[0] = 0 /\ \A i \in 1..n : f[i] = f[i - 1] + s[i]
  BY DEF PartialSums
<1> HIDE DEF n
<1>3. 0 \in T
  BY <1>2
<1>4. ASSUME NEW j \in Nat, j \in T PROVE j + 1 \in T
  <2> SUFFICES ASSUME j + 1 <= n
               PROVE  f[j + 1] \in Nat /\ \A i \in 0..(j + 1) : f[i] \in Nat /\ f[i] <= f[j + 1]
    OBVIOUS
  <2>1. f[j] \in Nat /\ \A i \in 0..j : f[i] \in Nat /\ f[i] <= f[j]
    BY <1>1, <1>4
  <2>2. j + 1 \in 1..n /\ (j + 1) - 1 = j
    BY <1>1
  <2>3. f[j + 1] = f[j] + s[j + 1] /\ s[j + 1] \in Nat
    BY <1>1, <1>2, <2>2
  <2>4. 0..(j + 1) = 0..j \cup {j + 1}
    OBVIOUS
  <2> QED BY <2>1, <2>3, <2>4
<1> HIDE DEF T
<1>5. n \in T
  BY <1>1, <1>3, <1>4, SetInduction
<1> QED BY <1>1, <1>2, <1>5 DEF T, n

\* The widths: half an int is less than a word.
LEMMA Widths ==
  /\ IntMod \in Nat /\ IntMod \div 2 \in Nat /\ IntMod = 2 * (IntMod \div 2)
  /\ WordMod \in Nat /\ WordMod > 0
  /\ IntMod \div 2 <= WordMod
<1>1. /\ IntMod \in Nat \ {0} /\ IntMod % 2 = 0
      /\ WordMod \in Nat \ {0} /\ WordMod % IntMod = 0
  BY StatisticsAssumption
<1>2. IntMod \div 2 \in Nat /\ IntMod = 2 * (IntMod \div 2)
  BY <1>1
<1>3. ASSUME WordMod < IntMod PROVE FALSE
  <2>1. WordMod % IntMod = WordMod
    BY <1>1, <1>3
  <2> QED BY <1>1, <2>1
<1> QED BY <1>1, <1>2, <1>3

\* The sum is exact as long as it is an int.
LEMMA AccumulateExact ==
  ASSUME NEW s \in Seq(Nat), SumOf(s) < IntMod \div 2
  PROVE  Accumulate(s) = SumOf(s) /\ SumOf(s) \in Nat
<1> DEFINE n == Len(s)
           half == IntMod \div 2
<1>1. n \in Nat
  BY LenProperties
<1>2. s \in Seq(Int)
  BY ElementOfSeq, LenProperties
<1>3. PICK f : PartialSums(f, s) /\ SumOf(s) = f[n]
  BY <1>2, SumOfIs
<1>4. /\ \A i \in 0..n : f[i] \in Nat /\ f[i] <= f[n]
      /\ \A i \in 1..n : f[i] = f[i - 1] + s[i]
      /\ f[0] = 0
  BY <1>3, SumsGrow DEF PartialSums
<1>5. PICK g : /\ Accumulate(s) = g[n] % WordMod
               /\ g[0] = 0
               /\ \A i \in 1..n : g[i] = ToInt((g[i - 1] + s[i]) % WordMod)
  BY AccumulateIs
<1>6. ASSUME NEW x \in Nat, x < half PROVE x % WordMod = x /\ ToInt(x) = x
  <2>1. x < WordMod
    BY <1>6, Widths
  <2>2. x % WordMod = x
    BY <2>1, Widths
  <2>3. x + half \in Nat /\ x + half < IntMod
    BY <1>6, Widths
  <2>4. (x + half) % IntMod = x + half
    BY <2>3, Widths
  <2>5. half \in Nat
    BY Widths
  <2> HIDE DEF half
  <2> QED BY <2>2, <2>4, <2>5 DEF ToInt, half
<1> DEFINE T == {i \in Nat : i <= n => g[i] = f[i]}
<1>7. f[n] \in Nat /\ f[n] < half
  BY <1>1, <1>3, <1>4
<1>8. \A i \in 0..n : f[i] \in Nat /\ f[i] < half
  <2>1. half \in Nat
    BY Widths
  <2> QED BY <1>4, <1>7, <2>1
<1> HIDE DEF n, half
<1>9. 0 \in T
  BY <1>4, <1>5
<1>10. ASSUME NEW i \in Nat, i \in T PROVE i + 1 \in T
  <2> SUFFICES ASSUME i + 1 <= n PROVE g[i + 1] = f[i + 1]
    OBVIOUS
  <2>1. i + 1 \in 1..n /\ (i + 1) - 1 = i /\ i + 1 \in 0..n
    BY <1>1
  <2>2. g[i + 1] = ToInt((g[i] + s[i + 1]) % WordMod) /\ f[i + 1] = f[i] + s[i + 1]
    BY <1>4, <1>5, <2>1
  <2>3. g[i] = f[i]
    BY <1>1, <1>10
  <2> QED BY <1>6, <1>8, <2>1, <2>2, <2>3
<1> HIDE DEF T
<1>11. n \in T
  BY <1>1, <1>9, <1>10, SetInduction
<1>12. g[n] = f[n]
  BY <1>1, <1>11 DEF T
<1>13. Accumulate(s) = f[n]
  BY <1>5, <1>6, <1>7, <1>12
<1> QED BY <1>3, <1>7, <1>13

\* The square of a difference taken as an unsigned number is that of the difference, in a word.
LEMMA SquareInWord ==
  ASSUME NEW m \in Nat, m > 0, NEW e \in Int, NEW a \in Int,
         a + e * e \in Nat, a + e * e < m
  PROVE  (a + (e % m) * (e % m)) % m = a + e * e
<1> DEFINE d == e % m
           k == e \div m
<1>1. e = m * k + d /\ k \in Int /\ d \in Int
  OBVIOUS
<1> HIDE DEF d, k
<1>2. d = e - m * k
  <2> DEFINE mk == m * k
  <2>1. mk \in Int
    BY <1>1
  <2>2. e = mk + d
    BY <1>1
  <2> HIDE DEF mk
  <2>3. d = e - mk
    BY <1>1, <2>1, <2>2
  <2> QED BY <2>3 DEF mk
<1> DEFINE c == m * (k * k) - 2 * (k * e)
<1>3. c \in Int
  BY <1>1
<1>4. d * d = e * e + m * c
  BY <1>1, <1>2
<1> HIDE DEF c
<1> DEFINE r == a + e * e
           y == m * c
<1>5. a + d * d = m * c + r
  <2> DEFINE ee == e * e
  <2>1. ee \in Int /\ y \in Int
    BY <1>3
  <2>2. d * d = ee + y
    BY <1>4
  <2> HIDE DEF ee, y
  <2>3. a + (ee + y) = y + (a + ee)
    BY <2>1
  <2>4. a + d * d = y + (a + ee)
    BY <2>2, <2>3
  <2> QED BY <2>4 DEF ee, y
<1>6. r \in 0..(m - 1)
  OBVIOUS
<1> HIDE DEF r
<1>7. (m * c + r) % m = r
  BY <1>3, <1>6
<1> QED BY <1>5, <1>7 DEF r, d

\* The sum of the squares is exact as long as it is a word.
LEMMA SquaresExact ==
  ASSUME NEW s \in Seq(Nat), NEW mean \in Int,
         SumOf([i \in DOMAIN s |-> (s[i] - mean) * (s[i] - mean)]) < WordMod
  PROVE  Squares(s, mean) = SumOf([i \in DOMAIN s |-> (s[i] - mean) * (s[i] - mean)])
<1> DEFINE n == Len(s)
           t == [i \in DOMAIN s |-> (s[i] - mean) * (s[i] - mean)]
           e(i) == s[i] - mean
<1>1. DOMAIN s = 1..n /\ n \in Nat /\ \A i \in 1..n : s[i] \in Nat
  BY LenProperties, ElementOfSeq
<1>2. \A i \in 1..n : e(i) \in Int
  BY <1>1
<1>3. \A a \in Int : a * a \in Nat
  OBVIOUS
<1>4. t = [i \in 1..n |-> e(i) * e(i)]
  BY <1>1
<1> HIDE DEF t, e
<1>5. t \in [1..n -> Nat]
  BY <1>2, <1>3, <1>4
<1>6. t \in Seq(Nat) /\ t \in Seq(Int) /\ Len(t) = n /\ \A i \in 1..n : t[i] = e(i) * e(i)
  <2> HIDE DEF n
  <2>1. t \in [1..n -> Int]
    BY <1>5
  <2>2. t \in Seq(Nat) /\ t \in Seq(Int)
    BY <1>1, <1>5, <2>1
  <2>3. Len(t) = n
    BY <1>1, <1>5, <2>2, LenProperties
  <2> QED BY <1>4, <2>2, <2>3
<1>7. PICK f : PartialSums(f, t) /\ SumOf(t) = f[n]
  BY <1>6, SumOfIs
<1>8. /\ \A i \in 0..n : f[i] \in Nat /\ f[i] <= f[n]
      /\ \A i \in 1..n : f[i] = f[i - 1] + t[i]
      /\ f[0] = 0
  BY <1>6, <1>7, SumsGrow DEF PartialSums
<1>9. PICK g : /\ Squares(s, mean) = g[n]
               /\ g[0] = 0
               /\ \A i \in 1..n :
                    g[i] = (g[i - 1] + Diff(s[i], mean) * Diff(s[i], mean)) % WordMod
  BY SquaresIs
<1>10. f[n] < WordMod
  BY <1>7 DEF t
<1> HIDE DEF n
<1> DEFINE T == {i \in Nat : i <= n => g[i] = f[i]}
<1>11. 0 \in T
  BY <1>8, <1>9
<1>12. ASSUME NEW i \in Nat, i \in T PROVE i + 1 \in T
  <2> SUFFICES ASSUME i + 1 <= n PROVE g[i + 1] = f[i + 1]
    OBVIOUS
  <2>1. i + 1 \in 1..n /\ (i + 1) - 1 = i /\ i + 1 \in 0..n /\ i \in 0..n
    BY <1>1
  <2> DEFINE d == e(i + 1)
  <2>2. g[i + 1] = (g[i] + Diff(s[i + 1], mean) * Diff(s[i + 1], mean)) % WordMod
    BY <1>9, <2>1
  <2>3. Diff(s[i + 1], mean) = d % WordMod
    BY DEF Diff, e
  <2>4. f[i + 1] = f[i] + d * d
    <3>1. f[i + 1] = f[i] + t[i + 1] /\ t[i + 1] = d * d
      BY <1>6, <1>8, <2>1
    <3> QED BY <3>1
  <2>5. d \in Int
    BY <1>2, <2>1
  <2> HIDE DEF d
  <2>6. g[i] = f[i]
    BY <1>1, <1>12
  <2>7. f[i] \in Int /\ f[i] + d * d \in Nat /\ f[i] + d * d < WordMod
    <3>1. f[i + 1] \in Nat /\ f[i + 1] <= f[n] /\ f[i] \in Nat /\ f[n] \in Nat
      BY <1>1, <1>8, <2>1
    <3>2. f[i + 1] < WordMod
      BY <1>10, <3>1, Widths
    <3> QED BY <2>4, <3>1, <3>2
  <2>8. (f[i] + (d % WordMod) * (d % WordMod)) % WordMod = f[i] + d * d
    BY <2>5, <2>7, SquareInWord, Widths
  <2> QED BY <2>2, <2>3, <2>4, <2>6, <2>8
<1> HIDE DEF T
<1>13. n \in T
  BY <1>1, <1>11, <1>12, SetInduction
<1>14. g[n] = f[n]
  BY <1>1, <1>13 DEF T
<1> QED BY <1>7, <1>9, <1>14 DEF t
-----------------------------------------------------------------------------
\* The inductive invariant.

TypeOK ==
  /\ latencies \in Seq(Sample) /\ vec \in Seq(Sample)
  /\ given \in Seq(Sample) /\ count = Len(given)

\* The window holds the samples given last, those a multiple of PrintEvery leaves.
WindowKept ==
  /\ Len(latencies) = count % PrintEvery
  /\ \A i \in 1..Len(latencies) : latencies[i] = given[count - Len(latencies) + i]

\* The figures are those of the window before.
FiguresKept ==
  LET upto == count - Len(latencies) IN
  figures # <<>> =>
    /\ PrintEvery <= upto
    /\ figures = PrintOne(SubSeq(given, upto - PrintEvery + 1, upto))

\* The summary is that of the samples, which are sorted.
SummaryKept ==
  summary # <<>> => vec # <<>> /\ Rising(vec) /\ summary = SummaryOf(vec)

IInv == TypeOK /\ WindowKept /\ FiguresKept /\ SummaryKept

LEMMA SampleIsNat == Sample \subseteq Nat /\ \A s \in Seq(Sample) : s \in Seq(Nat)
<1>1. Sample \subseteq Nat
  BY StatisticsAssumption
<1>2. ASSUME NEW s \in Seq(Sample) PROVE s \in Seq(Nat)
  <2>1. Len(s) \in Nat /\ s \in [1..Len(s) -> Nat]
    <3>1. s \in [1..Len(s) -> Sample] /\ Len(s) \in Nat
      BY <1>2, LenProperties
    <3>2. \A i \in 1..Len(s) : s[i] \in Nat
      BY <1>1, <3>1
    <3> QED BY <3>1, <3>2
  <2> QED BY <2>1
<1> QED BY <1>1, <1>2

\* A window is the samples given last: the two are the same sequence.
LEMMA SameSequence ==
  ASSUME NEW S, NEW s \in Seq(S), NEW t \in Seq(S), Len(s) = Len(t),
         \A i \in 1..Len(s) : s[i] = t[i]
  PROVE  s = t
BY SeqEqual

LEMMA SamePart ==
  ASSUME NEW S, NEW s, NEW t, NEW m \in Int, NEW n \in Int,
         \A i \in m..n : s[i] \in S, \A i \in m..n : t[i] = s[i]
  PROVE  SubSeq(t, m, n) = SubSeq(s, m, n)
<1> DEFINE a == SubSeq(s, m, n)
           b == SubSeq(t, m, n)
           k == (n - m) + 1
<1>1. /\ a \in Seq(S) /\ Len(a) = IF m <= n THEN k ELSE 0
      /\ \A i \in 1..k : a[i] = s[m + i - 1]
  BY SubSeqProperties
<1>2. /\ b \in Seq(S) /\ Len(b) = IF m <= n THEN k ELSE 0
      /\ \A i \in 1..k : b[i] = t[m + i - 1]
  BY SubSeqProperties
<1>3. \A i \in 1..k : m + i - 1 \in m..n
  OBVIOUS
<1>4. ~(m <= n) => k <= 0
  OBVIOUS
<1> HIDE DEF a, b, k
<1>5. \A i \in 1..Len(a) : a[i] = b[i]
  <2>1. \A i \in 1..k : t[m + i - 1] = s[m + i - 1]
    BY <1>3
  <2> QED BY <1>1, <1>2, <2>1
<1>6. a = b
  BY <1>1, <1>2, <1>5, SameSequence
<1> QED BY <1>6 DEF a, b

\* What is counted next.
LEMMA NextCount ==
  ASSUME NEW c \in Nat, NEW m \in Nat, m > 0
  PROVE  /\ c % m \in 0..(m - 1) /\ c % m <= c
         /\ (c + 1) % m = IF (c % m) + 1 = m THEN 0 ELSE (c % m) + 1
<1> DEFINE q == c \div m
           r == c % m
<1>1. c = m * q + r /\ q \in Int /\ r \in 0..(m - 1)
  OBVIOUS
<1>2. q >= 0
  BY <1>1
<1>3. r <= c
  BY <1>1, <1>2
<1> HIDE DEF q, r
<1>4. CASE r + 1 = m
  <2>1. c + 1 = m * (q + 1) + 0
    BY <1>1, <1>4
  <2> DEFINE k == q + 1
  <2>2. k \in Int
    BY <1>1
  <2> HIDE DEF k
  <2>3. (m * k + 0) % m = 0
    BY <2>2
  <2> QED BY <1>1, <1>3, <1>4, <2>1, <2>3 DEF k, r
<1>5. CASE r + 1 # m
  <2>1. c + 1 = m * q + (r + 1) /\ r + 1 \in 0..(m - 1)
    BY <1>1, <1>5
  <2> DEFINE k == r + 1
  <2>2. k \in 0..(m - 1)
    BY <2>1
  <2> HIDE DEF k
  <2>3. (m * q + k) % m = k
    BY <1>1, <2>2
  <2> QED BY <1>1, <1>3, <1>5, <2>1, <2>3 DEF k, r
<1> QED BY <1>4, <1>5

LEMMA InitIInv == Init => IInv
<1> SUFFICES ASSUME Init PROVE IInv
  OBVIOUS
<1>1. <<>> \in Seq(Sample) /\ Len(<<>>) = 0 /\ 0 % PrintEvery = 0
  BY StatisticsAssumption
<1> QED BY <1>1 DEF Init, IInv, TypeOK, WindowKept, FiguresKept, SummaryKept

\* Add(): either the window is one sample longer, or it was printed and is empty.
LEMMA AddIInv ==
  ASSUME IInv, NEW x \in Sample, Add(x)
  PROVE  IInv'
<1> DEFINE n == Len(latencies)
           w == Append(latencies, x)
           P == PrintEvery
<1>1. /\ latencies \in Seq(Sample) /\ given \in Seq(Sample) /\ count = Len(given)
      /\ n \in Nat /\ count \in Nat /\ P \in Nat /\ P > 0
  BY StatisticsAssumption, LenProperties DEF IInv, TypeOK
<1>2. n = count % P /\ \A i \in 1..n : latencies[i] = given[count - n + i]
  BY DEF IInv, WindowKept
<1>3. /\ n \in 0..(P - 1) /\ n <= count
      /\ (count + 1) % P = IF n + 1 = P THEN 0 ELSE n + 1
  <2>1. /\ count % P \in 0..(P - 1) /\ count % P <= count
        /\ (count + 1) % P = IF (count % P) + 1 = P THEN 0 ELSE (count % P) + 1
    BY <1>1, NextCount
  <2> QED BY <1>2, <2>1
<1>4. w \in Seq(Sample) /\ Len(w) = n + 1 /\ w[n + 1] = x /\ \A i \in 1..n : w[i] = latencies[i]
  BY <1>1
<1>5. /\ given' = Append(given, x) /\ given' \in Seq(Sample) /\ Len(given') = count + 1
      /\ given'[count + 1] = x /\ \A i \in 1..count : given'[i] = given[i]
  BY <1>1 DEF Add
<1>6. count' = count + 1 /\ UNCHANGED <<vec, summary>>
  BY DEF Add
<1>7. \A i \in 1..(n + 1) : w[i] = given'[(count + 1) - (n + 1) + i]
  <2> SUFFICES ASSUME NEW i \in 1..(n + 1) PROVE w[i] = given'[(count - n) + i]
    BY <1>1
  <2>1. CASE i = n + 1
    <3>1. (count - n) + i = count + 1
      BY <1>1, <2>1
    <3> QED BY <1>4, <1>5, <2>1, <3>1
  <2>2. CASE i # n + 1
    <3>1. i \in 1..n /\ (count - n) + i \in 1..count
      BY <1>1, <1>3, <2>2
    <3> QED BY <1>2, <1>4, <1>5, <3>1
  <2> QED BY <2>1, <2>2
<1>8. SummaryKept'
  BY <1>6 DEF IInv, SummaryKept, Rising
<1>9. CASE n + 1 = P
  <2>1. figures' = PrintOne(w) /\ latencies' = <<>>
    BY <1>3, <1>6, <1>9 DEF Add
  <2>2. Len(latencies') = 0 /\ latencies' \in Seq(Sample)
    BY <2>1
  <2>3. TypeOK'
    BY <1>5, <1>6, <2>2 DEF TypeOK, IInv
  <2>4. WindowKept'
    BY <1>3, <1>6, <1>9, <2>2 DEF WindowKept
  <2> DEFINE t == SubSeq(given', (count + 1) - P + 1, count + 1)
  <2>5. /\ (count + 1) - P + 1 \in Int /\ count + 1 \in Int
        /\ \A i \in ((count + 1) - P + 1)..(count + 1) : given'[i] \in Sample
    <3>1. \A i \in ((count + 1) - P + 1)..(count + 1) : i \in 1..(count + 1)
      BY <1>1, <1>3, <1>9
    <3> QED BY <1>1, <1>5, <3>1, ElementOfSeq
  <2>6. /\ t \in Seq(Sample)
        /\ Len(t) = P
        /\ \A i \in 1..P : t[i] = given'[(count + 1) - P + i]
    <3>1. /\ SubSeq(given', (count + 1) - P + 1, count + 1) \in Seq(Sample)
          /\ Len(t) = IF (count + 1) - P + 1 <= count + 1
                      THEN (count + 1) - ((count + 1) - P + 1) + 1 ELSE 0
          /\ \A i \in 1..((count + 1) - ((count + 1) - P + 1) + 1) :
               t[i] = given'[((count + 1) - P + 1) + i - 1]
      BY <2>5, SubSeqProperties
    <3>2. (count + 1) - ((count + 1) - P + 1) + 1 = P
      BY <1>1
    <3>3. \A i \in 1..P : ((count + 1) - P + 1) + i - 1 = (count + 1) - P + i
      BY <1>1
    <3>4. (count + 1) - P + 1 <= count + 1
      BY <1>1
    <3> HIDE DEF t
    <3> QED BY <3>1, <3>2, <3>3, <3>4 DEF t
  <2> HIDE DEF t, w
  <2>7. w = t
    <3>1. Len(w) = Len(t)
      BY <1>4, <1>9, <2>6
    <3>2. \A i \in 1..Len(w) : w[i] = t[i]
      BY <1>4, <1>7, <1>9, <2>6
    <3> QED BY <1>4, <2>6, <3>1, <3>2, SameSequence
  <2>8. FiguresKept'
    <3>1. P <= (count - 0) + 1
      BY <1>1, <1>3, <1>9
    <3>2. count' - Len(latencies') = count + 1
      BY <1>1, <1>6, <2>2
    <3> DEFINE u == (count - Len(latencies))'
    <3>3. P <= u /\ figures' = PrintOne(SubSeq(given', u - P + 1, u))
      <4>1. u = count + 1
        BY <3>2
      <4> HIDE DEF u
      <4>2. t = SubSeq(given', u - P + 1, u)
        BY <4>1 DEF t
      <4> QED BY <1>1, <2>1, <2>7, <3>1, <4>1, <4>2
    <3> QED BY <3>3 DEF FiguresKept
  <2> QED BY <1>8, <2>3, <2>4, <2>8 DEF IInv
<1>10. CASE n + 1 # P
  <2>1. latencies' = w /\ figures' = figures
    BY <1>3, <1>6, <1>10 DEF Add
  <2>3. TypeOK'
    BY <1>4, <1>5, <1>6, <2>1 DEF TypeOK, IInv
  <2>4. WindowKept'
    BY <1>3, <1>4, <1>6, <1>7, <1>10, <2>1 DEF WindowKept
  <2> DEFINE upto == count - n
  <2>5. upto' = upto
    BY <1>1, <1>4, <1>6, <2>1
  <2>6. upto \in Nat /\ upto <= count
    BY <1>1, <1>3
  <2>7. figures # <<>> => /\ P <= upto
                          /\ figures = PrintOne(SubSeq(given, upto - P + 1, upto))
    BY DEF IInv, FiguresKept
  <2>8. P <= upto => SubSeq(given', upto - P + 1, upto) = SubSeq(given, upto - P + 1, upto)
    <3> HIDE DEF upto
    <3> SUFFICES ASSUME P <= upto
                 PROVE  SubSeq(given', upto - P + 1, upto) = SubSeq(given, upto - P + 1, upto)
      OBVIOUS
    <3>1. /\ upto - P + 1 \in Int /\ upto \in Int
          /\ \A i \in (upto - P + 1)..upto : i \in 1..count
      BY <1>1, <2>6
    <3>2. /\ \A i \in (upto - P + 1)..upto : given'[i] = given[i]
          /\ \A i \in (upto - P + 1)..upto : given[i] \in Sample
      BY <1>1, <1>5, <3>1, ElementOfSeq
    <3> QED BY <3>1, <3>2, SamePart
  <2> HIDE DEF upto
  <2>9. FiguresKept'
    <3>1. count' - Len(latencies') = upto
      BY <2>5 DEF upto
    <3> QED BY <2>1, <2>7, <2>8, <3>1 DEF FiguresKept
  <2> QED BY <1>8, <2>3, <2>4, <2>9 DEF IInv
<1> QED BY <1>9, <1>10

LEMMA RecordIInv ==
  ASSUME IInv, NEW x \in Sample, Record(x)
  PROVE  IInv'
<1>1. UNCHANGED <<latencies, count, figures, summary, given>> /\ summary = <<>>
  BY DEF Record
<1>2. vec' \in Seq(Sample)
  BY DEF Record, IInv, TypeOK
<1>3. TypeOK' /\ WindowKept' /\ FiguresKept'
  BY <1>1, <1>2 DEF IInv, TypeOK, WindowKept, FiguresKept
<1>4. SummaryKept'
  BY <1>1 DEF SummaryKept
<1> QED BY <1>3, <1>4 DEF IInv

LEMMA SummariseIInv ==
  ASSUME IInv, Summarise
  PROVE  IInv'
<1> DEFINE t == Ascending(vec)
<1>1. UNCHANGED <<latencies, count, figures, given>>
  BY DEF Summarise
<1>2. vec' = t /\ summary' = SummaryOf(vec') /\ vec # <<>>
  BY DEF Summarise
<1>3. vec \in Seq(Sample) /\ vec \in Seq(Nat) /\ Len(vec) # 0
  BY <1>2, SampleIsNat, EmptySeq DEF IInv, TypeOK
<1>4. t \in Seq(Nat) /\ Len(t) = Len(vec) /\ Rising(t)
  BY <1>3, AscendingSorts
<1>5. t \in Seq(Sample)
  <2>1. PICK p \in Bijection(1..Len(vec), 1..Len(vec)) : t = [i \in 1..Len(vec) |-> vec[p[i]]]
    BY <1>3, AscendingIs
  <2> DEFINE n == Len(vec)
  <2>2. \A i \in 1..n : p[i] \in 1..n
    BY DEF Bijection, Injection
  <2>3. n \in Nat /\ \A i \in 1..n : vec[i] \in Sample
    BY <1>3, LenProperties, ElementOfSeq
  <2> HIDE DEF n, t
  <2>4. t \in [1..n -> Sample]
    BY <2>1, <2>2, <2>3 DEF n
  <2> QED BY <2>3, <2>4
<1> HIDE DEF t
<1>6. TypeOK' /\ WindowKept' /\ FiguresKept'
  BY <1>1, <1>2, <1>5 DEF IInv, TypeOK, WindowKept, FiguresKept
<1>7. SummaryKept'
  <2>1. vec' # <<>> /\ Rising(vec)'
    BY <1>2, <1>3, <1>4 DEF Rising
  <2> QED BY <1>2, <2>1 DEF SummaryKept
<1> QED BY <1>6, <1>7 DEF IInv

\* Each step keeps the invariant.
LEMMA NextIInv == IInv /\ [Next]_vars => IInv'
<1> SUFFICES ASSUME IInv, [Next]_vars PROVE IInv'
  OBVIOUS
<1>1. ASSUME NEW x \in Sample, Add(x) PROVE IInv'
  BY <1>1, AddIInv
<1>2. ASSUME NEW x \in Sample, Record(x) PROVE IInv'
  BY <1>2, RecordIInv
<1>3. CASE Summarise
  BY <1>3, SummariseIInv
<1>4. CASE UNCHANGED vars
  BY <1>4 DEF vars, IInv, TypeOK, WindowKept, FiguresKept, SummaryKept, Rising
<1> QED BY <1>1, <1>2, <1>3, <1>4 DEF Next

\* The window of latency_stats.cc:4 holds the samples since the last figures, which are
\* those of the window before; what Statistic::print() left sorted is what it summarised.
THEOREM Invariance == Spec => []IInv
<1>1. Init => IInv
  BY InitIInv
<1>2. IInv /\ [Next]_vars => IInv'
  BY NextIInv
<1> QED BY <1>1, <1>2, PTL DEF Spec

LEMMA WindowFromIInv == IInv => WindowExact
<1> SUFFICES ASSUME IInv, figures # <<>> PROVE WindowExact
  BY DEF WindowExact
<1> DEFINE n == Len(latencies)
           P == PrintEvery
           upto == count - n
           w == SubSeq(given, upto - P + 1, upto)
<1>1. /\ given \in Seq(Sample) /\ count = Len(given) /\ count \in Nat
      /\ n \in Nat /\ P \in Nat /\ P > 0
  BY StatisticsAssumption, LenProperties DEF IInv, TypeOK
<1>2. n < P /\ n <= count
  <2>1. n = count % P
    BY DEF IInv, WindowKept
  <2> HIDE DEF n
  <2>2. count % P \in 0..(P - 1) /\ count % P <= count
    BY <1>1, NextCount
  <2> QED BY <1>1, <2>1, <2>2
<1>3. P <= upto /\ figures = PrintOne(w)
  BY DEF IInv, FiguresKept
<1> HIDE DEF n
<1>4. upto \in Nat /\ upto <= count
  BY <1>1, <1>2
<1> HIDE DEF upto
<1>5. w \in Seq(Sample) /\ Len(w) = P
  <2>1. \A i \in (upto - P + 1)..upto : given[i] \in Sample
    BY <1>1, <1>3, <1>4, ElementOfSeq
  <2>2. /\ upto - P + 1 \in Int /\ upto \in Int
        /\ upto - P + 1 <= upto /\ upto - (upto - P + 1) + 1 = P
    BY <1>1, <1>3, <1>4
  <2> QED BY <2>1, <2>2, SubSeqProperties
<1> HIDE DEF w
<1>6. w \in Seq(Nat)
  BY <1>5, SampleIsNat
<1>7. \A i \in Nat : i < P => HasRank(Ascending(w)[i + 1], i, w)
  BY <1>5, <1>6, RankKept
<1> DEFINE v == Ascending(w)
<1>8. Len(v) = P
  BY <1>5, <1>6, AscendingSorts
<1>9. /\ figures.min = v[1] /\ figures.max = Last(v)
      /\ figures.rank = [p \in {50, 90, 99} |-> Nth(v, (P * p) \div 100)]
  BY <1>3, <1>5 DEF PrintOne
<1> HIDE DEF v, P
<1>10. HasRank(figures.min, 0, w)
  <2>1. 0 + 1 = 1 /\ 0 \in Nat /\ 0 < P
    BY <1>1
  <2> QED BY <1>7, <1>9, <2>1 DEF v
<1>11. HasRank(figures.max, P - 1, w)
  <2>1. P - 1 \in Nat /\ P - 1 < P /\ (P - 1) + 1 = P
    BY <1>1
  <2>2. figures.max = v[P]
    BY <1>8, <1>9 DEF Last
  <2> QED BY <1>7, <2>1, <2>2 DEF v
<1>12. ASSUME NEW p \in {50, 90, 99} PROVE HasRank(figures.rank[p], (P * p) \div 100, w)
  <2>1. (P * p) \div 100 \in Nat /\ (P * p) \div 100 < P
    BY <1>1
  <2>2. figures.rank[p] = v[(P * p) \div 100 + 1]
    BY <1>9 DEF Nth
  <2> QED BY <1>7, <2>1, <2>2 DEF v
<1>13. DOMAIN figures.rank = {50, 90, 99}
  BY <1>9
<1> QED BY <1>2, <1>10, <1>11, <1>12, <1>13 DEF WindowExact, n, w, upto, P

\* LatencyStats prints each window once (latency_stats.cc:11-21): the figures it shows are
\* the ranks of the PrintEvery samples before the window it is filling, and of no others.
THEOREM WindowsExact == Spec => []WindowExact
BY Invariance, WindowFromIInv, PTL

LEMMA SummaryFromIInv == IInv => SummaryExact
<1> SUFFICES ASSUME IInv, summary # <<>> PROVE SummaryExact
  BY DEF SummaryExact
<1> DEFINE n == Len(vec)
           mean == SumOf(vec) \div n
           squares == SumOf([i \in DOMAIN vec |-> (vec[i] - mean) * (vec[i] - mean)])
<1>1. vec # <<>> /\ Rising(vec) /\ summary = SummaryOf(vec)
  BY DEF IInv, SummaryKept
<1>2. vec \in Seq(Nat)
  BY SampleIsNat DEF IInv, TypeOK
<1>3. n \in Nat /\ n > 0
  BY <1>1, <1>2, EmptySeq, LenProperties
<1>4. /\ summary.mean = Accumulate(vec) \div n
      /\ summary.var = Squares(vec, Accumulate(vec) \div n) \div n
      /\ summary.rank = [p \in {1, 10, 50, 90, 99} |-> Nth(vec, (n * p) \div 100)]
  BY <1>1 DEF SummaryOf
<1> HIDE DEF mean, squares
<1>5. ASSUME SumOf(vec) < IntMod \div 2
      PROVE  summary.mean = mean /\ (squares < WordMod => summary.var = squares \div n)
  <2>1. Accumulate(vec) = SumOf(vec) /\ SumOf(vec) \in Nat
    BY <1>2, <1>5, AccumulateExact
  <2>2. mean \in Int
    <3> DEFINE a == SumOf(vec)
    <3>1. a \in Nat
      BY <2>1
    <3> HIDE DEF a, n
    <3>2. a \div n \in Int
      BY <1>3, <3>1
    <3> QED BY <3>2 DEF a, n, mean
  <2>3. summary.mean = mean /\ summary.var = Squares(vec, mean) \div n
    BY <1>4, <2>1 DEF mean
  <2>4. squares < WordMod => Squares(vec, mean) = squares
    BY <1>2, <2>2, SquaresExact DEF squares
  <2> QED BY <2>3, <2>4
<1>6. ASSUME NEW p \in {1, 10, 50, 90, 99} PROVE HasRank(summary.rank[p], (n * p) \div 100, vec)
  <2> HIDE DEF n
  <2>1. (n * p) \div 100 \in Nat /\ (n * p) \div 100 < n
    BY <1>3
  <2>2. summary.rank[p] = vec[(n * p) \div 100 + 1]
    BY <1>4 DEF Nth
  <2> DEFINE i == (n * p) \div 100
  <2> HIDE DEF i
  <2>3. i \in Nat /\ i < n /\ summary.rank[p] = vec[i + 1]
    BY <2>1, <2>2 DEF i
  <2>4. HasRank(vec[i + 1], i, vec)
    BY <1>1, <1>2, <2>3, SortedRank DEF n
  <2> QED BY <2>3, <2>4 DEF i
<1>7. DOMAIN summary.rank = {1, 10, 50, 90, 99}
  BY <1>4
<1> QED BY <1>5, <1>6, <1>7 DEF SummaryExact, mean, squares

\* Statistic::print() (Statistic.h:21-50): the mean and the variance are exact while the sum
\* of the samples is an int and that of the squares a word, in spite of std::accumulate()
\* summing an int and of the differences being unsigned; its percentiles always are.
THEOREM SummaryIsExact == Spec => []SummaryExact
BY Invariance, SummaryFromIInv, PTL
=============================================================================
