--------------------------- MODULE OrderBookProofs ---------------------------
(***************************************************************************)
(* The order book, whoever owns the memory of the events: what each of its *)
(* operations does to the agreement of index and queues and to the sides   *)
(* staying apart.  OrderFlowProofs and ShmReaderProofs build on this.      *)
(***************************************************************************)
EXTENDS OrderBook, SequenceTheorems, FiniteSetTheorems, TLAPS

-----------------------------------------------------------------------------
\* Induction over the numbers, for a set of them.
LEMMA SetInduction ==
  ASSUME NEW T, 0 \in T, \A n \in Nat : n \in T => n + 1 \in T
  PROVE  Nat \subseteq T
<1> DEFINE Bad == Nat \ T
           Below == {0..n : n \in Bad}
<1>1. SUFFICES ASSUME Bad # {} PROVE FALSE
  OBVIOUS
<1>2. Below \subseteq FiniteSubsetsOf(Nat)
  <2> SUFFICES ASSUME NEW n \in Nat PROVE 0..n \in FiniteSubsetsOf(Nat)
    OBVIOUS
  <2>1. IsFiniteSet(0..n)
    BY FS_Interval
  <2> QED BY <2>1 DEF FiniteSubsetsOf
<1>3. Below # {}
  BY <1>1
<1>4. IsWellFoundedOn(StrictSubsetOrdering(Nat), FiniteSubsetsOf(Nat))
  BY FS_StrictSubsetOrderingWellFounded
<1> HIDE DEF Below
<1>5. PICK B \in Below : \A C \in Below : <<C, B>> \notin StrictSubsetOrdering(Nat)
  BY <1>2, <1>3, <1>4, WFMin
<1>6. PICK n \in Bad : B = 0..n
  BY DEF Below
<1>7. n # 0 /\ n - 1 \in Nat /\ n - 1 \in Bad
  OBVIOUS
<1>8. 0..(n - 1) \in Below
  BY <1>7 DEF Below
<1>9. /\ 0..(n - 1) \in SUBSET Nat /\ 0..n \in SUBSET Nat
      /\ 0..(n - 1) \subseteq 0..n /\ 0..(n - 1) # 0..n
  BY <1>7
<1>10. <<0..(n - 1), 0..n>> \in StrictSubsetOrdering(Nat)
  BY <1>9 DEF StrictSubsetOrdering
<1> QED BY <1>5, <1>6, <1>8, <1>10
-----------------------------------------------------------------------------
\* What is kept of the first i orders of a queue, given what is kept of fewer.
KeepNext(f, q, o, i) ==
  IF i = 0 THEN <<>> ELSE IF q[i] = o THEN f[i - 1] ELSE Append(f[i - 1], q[i])

Keeps(f, q, o, n) == f = [i \in 0..n |-> KeepNext(f, q, o, i)]

LEMMA KeepsAt ==
  ASSUME NEW q, NEW o, NEW n, NEW f, Keeps(f, q, o, n)
  PROVE  \A i \in 0..n : f[i] = KeepNext(f, q, o, i)
<1> DEFINE g == [i \in 0..n |-> KeepNext(f, q, o, i)]
<1>1. f = g
  BY Zenon DEF Keeps
<1>2. \A i \in 0..n : g[i] = KeepNext(f, q, o, i)
  OBVIOUS
<1> HIDE DEF g
<1> QED BY <1>1, <1>2

LEMMA KeepsExists ==
  ASSUME NEW q, NEW o
  PROVE  \A n \in Nat : \E f : Keeps(f, q, o, n)
<1> DEFINE T == {n \in Nat : \E f : Keeps(f, q, o, n)}
<1>1. 0 \in T
  <2> DEFINE f == [i \in 0..0 |-> <<>>]
  <2>1. Keeps(f, q, o, 0)
    BY DEF Keeps, KeepNext
  <2> QED BY <2>1
<1>2. ASSUME NEW n \in Nat, n \in T PROVE n + 1 \in T
  <2>1. PICK f : Keeps(f, q, o, n)
    BY <1>2
  <2>2. \A i \in 0..n : f[i] = KeepNext(f, q, o, i)
    BY <2>1, KeepsAt, Zenon
  <2> DEFINE g == [i \in 0..(n + 1) |-> IF i = n + 1 THEN KeepNext(f, q, o, i) ELSE f[i]]
  <2>3. \A i \in 0..(n + 1) : g[i] = KeepNext(g, q, o, i)
    <3> SUFFICES ASSUME NEW i \in 0..(n + 1) PROVE g[i] = KeepNext(g, q, o, i)
      OBVIOUS
    <3>1. g[i] = KeepNext(f, q, o, i)
      BY <2>2
    <3>2. i # 0 => g[i - 1] = f[i - 1]
      OBVIOUS
    <3> HIDE DEF g
    <3> QED BY <3>1, <3>2 DEF KeepNext
  <2>4. Keeps(g, q, o, n + 1)
    <3>1. g = [i \in 0..(n + 1) |-> g[i]]
      OBVIOUS
    <3> HIDE DEF g
    <3> QED BY <2>3, <3>1 DEF Keeps
  <2> QED BY <2>4
<1> HIDE DEF T
<1>3. Nat \subseteq T
  BY <1>1, <1>2, SetInduction
<1> QED BY <1>3 DEF T

LEMMA RemovedIs ==
  ASSUME NEW q, NEW o, Len(q) \in Nat
  PROVE  \E f : /\ Removed(q, o) = f[Len(q)]
                /\ \A i \in 0..Len(q) : f[i] = KeepNext(f, q, o, i)
<1>1. PICK g : Keeps(g, q, o, Len(q))
  BY KeepsExists
<1> DEFINE kept[i \in 0..Len(q)] ==
             IF i = 0 THEN <<>>
             ELSE IF q[i] = o THEN kept[i - 1] ELSE Append(kept[i - 1], q[i])
<1>2. kept = [i \in 0..Len(q) |->
                IF i = 0 THEN <<>>
                ELSE IF q[i] = o THEN kept[i - 1] ELSE Append(kept[i - 1], q[i])]
  BY <1>1, Zenon DEF Keeps, KeepNext
<1>3. Removed(q, o) = kept[Len(q)]
  BY Zenon DEF Removed
<1> HIDE DEF kept
<1>4. Keeps(kept, q, o, Len(q))
  BY <1>2, Zenon DEF Keeps, KeepNext
<1>5. \A i \in 0..Len(q) : kept[i] = KeepNext(kept, q, o, i)
  BY <1>4, KeepsAt, Zenon
<1> QED BY <1>3, <1>5

\* s is what is left of the first n orders of q without o, each related to those behind it.
LeftOf(s, q, o, n, R) ==
  /\ s \in Seq(Nat)
  /\ ToSet(s) = {q[i] : i \in 1..n} \ {o}
  /\ \A i, j \in 1..Len(s) : i < j => <<s[i], s[j]>> \in R

LEMMA OneMoreLeft ==
  ASSUME NEW q \in Seq(Nat), NEW o, NEW R, NEW n \in Nat, n + 1 <= Len(q),
         \A i, j \in 1..Len(q) : i < j => <<q[i], q[j]>> \in R,
         NEW s, LeftOf(s, q, o, n, R)
  PROVE  /\ q[n + 1] = o => LeftOf(s, q, o, n + 1, R)
         /\ q[n + 1] # o => LeftOf(Append(s, q[n + 1]), q, o, n + 1, R)
<1> DEFINE x == q[n + 1]
           t == Append(s, x)
           P == {q[i] : i \in 1..n}
<1>1. /\ s \in Seq(Nat) /\ ToSet(s) = P \ {o}
      /\ \A i, j \in 1..Len(s) : i < j => <<s[i], s[j]>> \in R
  BY DEF LeftOf
<1>2. Len(q) \in Nat /\ x \in Nat
  BY LenProperties, ElementOfSeq
<1>3. {q[i] : i \in 1..(n + 1)} = P \cup {x}
  <2>1. 1..(n + 1) = 1..n \cup {n + 1}
    OBVIOUS
  <2> QED BY <2>1
<1>4. \A y \in P : <<y, x>> \in R
  <2> SUFFICES ASSUME NEW i \in 1..n PROVE <<q[i], x>> \in R
    OBVIOUS
  <2>1. i \in 1..Len(q) /\ n + 1 \in 1..Len(q) /\ i < n + 1
    BY <1>2
  <2> QED BY <2>1
<1> HIDE DEF x, P
<1>5. DOMAIN s = 1..Len(s)
  BY <1>1, LenProperties
<1>6. \A i \in 1..Len(s) : s[i] \in P
  BY <1>1, <1>5 DEF ToSet
<1>7. /\ t \in Seq(Nat) /\ Len(t) = Len(s) + 1 /\ t[Len(s) + 1] = x /\ Len(s) \in Nat
      /\ \A i \in 1..Len(s) : t[i] = s[i]
  BY <1>1, <1>2, AppendProperties, LenProperties
<1>8. DOMAIN t = 1..Len(s) + 1
  BY <1>7, LenProperties
<1> HIDE DEF t
<1>9. ToSet(t) = ToSet(s) \cup {x}
  <2>1. ASSUME NEW i \in 1..Len(s) + 1 PROVE t[i] \in ToSet(s) \cup {x}
    <3>1. CASE i \in 1..Len(s)
      BY <1>5, <1>7, <3>1 DEF ToSet
    <3>2. CASE i = Len(s) + 1
      BY <1>7, <3>2
    <3> QED BY <1>7, <3>1, <3>2
  <2>2. \A i \in 1..Len(s) : s[i] \in ToSet(t)
    <3>1. \A i \in 1..Len(s) : i \in DOMAIN t
      BY <1>7, <1>8
    <3> QED BY <1>7, <3>1 DEF ToSet
  <2>3. x \in ToSet(t)
    <3>1. Len(s) + 1 \in 1..Len(s) + 1
      BY <1>7
    <3> QED BY <1>7, <1>8, <3>1 DEF ToSet
  <2> QED BY <1>5, <1>8, <2>1, <2>2, <2>3 DEF ToSet
<1>10. ASSUME NEW i \in 1..Len(t), NEW j \in 1..Len(t), i < j PROVE <<t[i], t[j]>> \in R
  <2>1. i \in 1..Len(s) /\ t[i] = s[i]
    <3>1. i \in 1..Len(s)
      BY <1>7, <1>10
    <3> QED BY <1>7, <3>1
  <2>2. CASE j \in 1..Len(s)
    <3>1. t[j] = s[j]
      BY <1>7, <2>2
    <3> QED BY <1>1, <1>10, <2>1, <2>2, <3>1
  <2>3. CASE j = Len(s) + 1
    <3>1. t[j] = x
      BY <1>7, <2>3
    <3> QED BY <1>4, <1>6, <2>1, <3>1
  <2> QED BY <1>7, <2>2, <2>3
<1>11. x = o => LeftOf(s, q, o, n + 1, R)
  BY <1>1, <1>3 DEF LeftOf
<1>12. x # o => LeftOf(t, q, o, n + 1, R)
  <2>1. x # o => ToSet(t) = (P \cup {x}) \ {o}
    BY <1>1, <1>9
  <2> QED BY <1>3, <1>7, <1>10, <2>1 DEF LeftOf
<1> QED BY <1>11, <1>12 DEF x, t

\* Removing an order keeps the others, and whatever relation holds between each order of a
\* queue and those behind it.
LEMMA RemovedKeeps ==
  ASSUME NEW q \in Seq(Nat), NEW o, NEW R,
         \A i, j \in 1..Len(q) : i < j => <<q[i], q[j]>> \in R
  PROVE  /\ Removed(q, o) \in Seq(Nat)
         /\ ToSet(Removed(q, o)) = ToSet(q) \ {o}
         /\ \A i, j \in 1..Len(Removed(q, o)) :
              i < j => <<Removed(q, o)[i], Removed(q, o)[j]>> \in R
<1>1. Len(q) \in Nat /\ DOMAIN q = 1..Len(q)
  BY LenProperties
<1>2. PICK f : /\ Removed(q, o) = f[Len(q)]
               /\ \A i \in 0..Len(q) : f[i] = KeepNext(f, q, o, i)
  BY <1>1, RemovedIs
<1> DEFINE T == {n \in Nat : n <= Len(q) => LeftOf(f[n], q, o, n, R)}
<1>3. 0 \in T
  <2>1. f[0] = <<>>
    BY <1>1, <1>2 DEF KeepNext
  <2>2. <<>> \in Seq(Nat) /\ Len(<<>>) = 0 /\ ToSet(<<>>) = {}
    BY EmptySeq DEF ToSet
  <2>3. LeftOf(<<>>, q, o, 0, R)
    BY <2>2 DEF LeftOf
  <2> QED BY <2>1, <2>3
<1>4. ASSUME NEW n \in Nat, n \in T PROVE n + 1 \in T
  <2> SUFFICES ASSUME n + 1 <= Len(q) PROVE LeftOf(f[n + 1], q, o, n + 1, R)
    OBVIOUS
  <2>1. LeftOf(f[n], q, o, n, R)
    BY <1>1, <1>4
  <2>2. f[n + 1] = IF q[n + 1] = o THEN f[n] ELSE Append(f[n], q[n + 1])
    BY <1>1, <1>2 DEF KeepNext
  <2>3. /\ q[n + 1] = o => LeftOf(f[n], q, o, n + 1, R)
        /\ q[n + 1] # o => LeftOf(Append(f[n], q[n + 1]), q, o, n + 1, R)
    BY <2>1, OneMoreLeft
  <2> QED BY <2>2, <2>3
<1> HIDE DEF T
<1>5. Nat \subseteq T
  BY <1>3, <1>4, SetInduction
<1>6. LeftOf(Removed(q, o), q, o, Len(q), R)
  <2>1. Len(q) <= Len(q)
    BY <1>1
  <2>2. Len(q) \in T
    BY <1>1, <1>5
  <2> QED BY <1>2, <2>1, <2>2 DEF T
<1>7. ToSet(q) = {q[i] : i \in 1..Len(q)}
  BY <1>1 DEF ToSet
<1> QED BY <1>6, <1>7 DEF LeftOf
-----------------------------------------------------------------------------
\* A side with levels has a best one.
LEMMA HasBest ==
  ASSUME NEW side \in Side
  PROVE  \A S \in SUBSET Int :
           IsFiniteSet(S) /\ S # {} => \E p \in S : \A q \in S : q = p \/ Better(side, p, q)
<1> DEFINE Ordered(S) == \E p \in S : \A q \in S : q = p \/ Better(side, p, q)
           T == {n \in Nat : \A S \in SUBSET Int :
                               IsFiniteSet(S) /\ Cardinality(S) = n /\ S # {} => Ordered(S)}
<1>1. 0 \in T
  BY FS_EmptySet
<1>2. ASSUME NEW n \in Nat, n \in T PROVE n + 1 \in T
  <2> SUFFICES ASSUME NEW S \in SUBSET Int, IsFiniteSet(S), Cardinality(S) = n + 1, S # {}
               PROVE  Ordered(S)
    OBVIOUS
  <2>1. PICK x \in S : TRUE
    OBVIOUS
  <2> DEFINE R == S \ {x}
  <2>2. IsFiniteSet(R) /\ Cardinality(R) = n /\ R \in SUBSET Int
    BY <2>1, FS_RemoveElement
  <2>3. CASE R = {}
    BY <2>1, <2>3
  <2>4. CASE R # {}
    <3>1. PICK p \in R : \A q \in R : q = p \/ Better(side, p, q)
      BY <1>2, <2>2, <2>4
    <3>2. x \in Int /\ p \in Int /\ x # p /\ p \in S /\ R \subseteq Int
      BY <2>1, <2>2, <3>1
    <3>3. CASE Better(side, p, x)
      <4>1. \A q \in S : q = p \/ Better(side, p, q)
        BY <3>1, <3>3
      <4> QED BY <3>2, <4>1
    <3>4. CASE ~Better(side, p, x)
      <4>1. \A q \in R : Better(side, x, q)
        BY <3>1, <3>2, <3>4 DEF Better, Side, Bid, Ask
      <4> QED BY <2>1, <4>1
    <3> QED BY <3>3, <3>4
  <2> QED BY <2>3, <2>4
<1> HIDE DEF T
<1>3. Nat \subseteq T
  BY <1>1, <1>2, SetInduction
<1>4. ASSUME NEW S \in SUBSET Int, IsFiniteSet(S), S # {} PROVE Ordered(S)
  <2>1. Cardinality(S) \in T
    BY <1>3, <1>4, FS_CardinalityType
  <2> QED BY <1>4, <2>1 DEF T
<1> QED BY <1>4
-----------------------------------------------------------------------------
EventType ==
  [type : {"none", "add", "cancel", "modify", "trade"}, id : Nat, side : Side, price : Int,
   amount : 0..(AmountMod - 1)]

MemOK == mem \in [DOMAIN mem -> EventType]

\* Each side has finitely many levels, and its queues hold pointers into the memory.
LevelsOK ==
  /\ DOMAIN levels = Side
  /\ \A side \in Side :
       /\ levels[side] \in [DOMAIN levels[side] -> Seq(Nat)]
       /\ DOMAIN levels[side] \subseteq Int /\ IsFiniteSet(DOMAIN levels[side])
       /\ \A price \in DOMAIN levels[side] : ToSet(levels[side][price]) \subseteq DOMAIN mem

\* The index holds pointers into the memory.
IndexOK == \A id \in DOMAIN order_map : order_map[id] \in DOMAIN mem

\* The sides are apart, also while an order is being matched: it is not in the book yet.
Apart == \A b \in DOMAIN levels[Bid] : \A a \in DOMAIN levels[Ask] : b < a

BookOK == MemOK /\ LevelsOK /\ IndexOK /\ IndexLive /\ QueuesSound

\* An order rests nowhere.
Outside(o) ==
  \A side \in Side : \A price \in DOMAIN levels[side] : o \notin ToSet(levels[side][price])

\* The records of the orders that rest, but for o, are as good afterwards.
OthersAlike(o) ==
  \A side \in Side : \A price \in DOMAIN levels[side] : \A x \in ToSet(levels[side][price]) :
    x # o => /\ x \in DOMAIN mem'
             /\ mem'[x].id = mem[x].id /\ mem'[x].side = mem[x].side
             /\ mem'[x].price = mem[x].price /\ mem'[x].amount > 0

\* The levels afterwards are those before without o.
OrderGone(o) ==
  /\ DOMAIN levels' = Side
  /\ \A side \in Side :
       /\ levels'[side] \in [DOMAIN levels'[side] -> Seq(Nat)]
       /\ DOMAIN levels'[side] \subseteq DOMAIN levels[side]
       /\ \A price \in DOMAIN levels[side] :
            IF price \in DOMAIN levels'[side]
              THEN /\ levels'[side][price] # <<>>
                   /\ ToSet(levels'[side][price]) = ToSet(levels[side][price]) \ {o}
                   /\ \A i, j \in DOMAIN levels'[side][price] :
                        levels'[side][price][i] = levels'[side][price][j] => i = j
              ELSE ToSet(levels[side][price]) \subseteq {o}

\* The index afterwards is the one before without id.
Forgotten(id) ==
  /\ DOMAIN order_map' = DOMAIN order_map \ {id}
  /\ \A i \in DOMAIN order_map' : order_map'[i] = order_map[i]
-----------------------------------------------------------------------------
\* The parts of IndexLive and QueuesSound, for one order.
LEMMA Indexed ==
  ASSUME IndexLive, NEW id \in DOMAIN order_map
  PROVE  /\ mem[order_map[id]].id = id
         /\ mem[order_map[id]].amount > 0
         /\ mem[order_map[id]].price \in DOMAIN levels[mem[order_map[id]].side]
         /\ order_map[id] \in ToSet(levels[mem[order_map[id]].side][mem[order_map[id]].price])
BY DEF IndexLive

LEMMA Queued ==
  ASSUME QueuesSound, NEW side \in Side, NEW price \in DOMAIN levels[side]
  PROVE  /\ levels[side][price] # <<>>
         /\ \A o \in ToSet(levels[side][price]) :
              mem[o].side = side /\ mem[o].price = price /\ mem[o].amount > 0
         /\ \A i, j \in DOMAIN levels[side][price] :
              levels[side][price][i] = levels[side][price][j] => i = j
BY DEF QueuesSound, ToSet

LEMMA FoundById ==
  ASSUME AllIndexed, NEW side \in Side, NEW price \in DOMAIN levels[side],
         NEW o \in ToSet(levels[side][price])
  PROVE  mem[o].id \in DOMAIN order_map /\ order_map[mem[o].id] = o
BY DEF AllIndexed, Resting

\* What the index holds is known, and rests on a side.
LEMMA IndexedOn ==
  ASSUME BookOK, NEW id \in DOMAIN order_map
  PROVE  /\ order_map[id] \in DOMAIN mem /\ mem[order_map[id]].side \in Side
         /\ mem[order_map[id]].price \in Int
         /\ mem[order_map[id]].amount \in 1..(AmountMod - 1)
<1>1. mem[order_map[id]] \in EventType /\ order_map[id] \in DOMAIN mem
  BY DEF BookOK, MemOK, IndexOK
<1>2. mem[order_map[id]].amount > 0
  BY Indexed DEF BookOK
<1> QED BY <1>1, <1>2, BookAssumption DEF EventType

\* Where the book does not change, and the records of its orders only in amounts.
LEMMA StillSound ==
  ASSUME BookOK, MemOK', levels' = levels, DOMAIN order_map' = DOMAIN order_map,
         \A i \in DOMAIN order_map : order_map'[i] = order_map[i],
         NEW o, OthersAlike(o), Outside(o)
  PROVE  BookOK' /\ (AllIndexed => AllIndexed') /\ (Apart => Apart')
<1>0. LevelsOK /\ IndexOK /\ IndexLive /\ QueuesSound
  BY DEF BookOK
<1>1. \A side \in Side : \A price \in DOMAIN levels[side] : \A x \in ToSet(levels[side][price]) :
        /\ x \in DOMAIN mem'
        /\ mem'[x].id = mem[x].id /\ mem'[x].side = mem[x].side
        /\ mem'[x].price = mem[x].price /\ mem'[x].amount > 0
  BY DEF OthersAlike, Outside
<1>2. LevelsOK'
  BY <1>0, <1>1 DEF LevelsOK
<1>3. QueuesSound'
  <2>1. \A side \in Side : \A price \in DOMAIN levels'[side] :
          /\ levels'[side][price] # <<>>
          /\ \A x \in ToSet(levels'[side][price]) :
               mem'[x].side = side /\ mem'[x].price = price /\ mem'[x].amount > 0
          /\ \A i, j \in DOMAIN levels'[side][price] :
               levels'[side][price][i] = levels'[side][price][j] => i = j
    BY <1>0, <1>1, Queued
  <2> QED BY <2>1 DEF QueuesSound, ToSet
<1>4. ASSUME NEW id \in DOMAIN order_map
      PROVE  LET x == order_map[id] IN
             /\ x \in DOMAIN mem'
             /\ mem'[x].id = id /\ mem'[x].amount > 0
             /\ mem'[x].price \in DOMAIN levels[mem'[x].side]
             /\ x \in ToSet(levels[mem'[x].side][mem'[x].price])
  <2> DEFINE x == order_map[id]
             side == mem[x].side
             price == mem[x].price
  <2>1. mem[x].id = id /\ price \in DOMAIN levels[side] /\ x \in ToSet(levels[side][price])
    BY <1>0, Indexed
  <2>2. side \in Side
    BY IndexedOn
  <2> QED BY <1>1, <2>1, <2>2
<1>5. IndexOK' /\ IndexLive'
  BY <1>4 DEF IndexOK, IndexLive
<1>7. ASSUME AllIndexed PROVE AllIndexed'
  <2>1. \A side \in Side : \A price \in DOMAIN levels'[side] : \A x \in ToSet(levels'[side][price]) :
          mem'[x].id \in DOMAIN order_map' /\ order_map'[mem'[x].id] = x
    BY <1>1, <1>7, FoundById
  <2> QED BY <2>1 DEF AllIndexed, Resting
<1>6. Apart => Apart'
  BY DEF Apart
<1> QED BY <1>2, <1>3, <1>5, <1>6, <1>7 DEF BookOK

\* Where an order leaves the queues, and its id the index.
LEMMA GoneSound ==
  ASSUME BookOK, MemOK', NEW o, OrderGone(o), OthersAlike(o), Forgotten(mem[o].id)
  PROVE  /\ BookOK' /\ (Apart => Apart')
         /\ AllIndexed /\ (mem[o].id \in DOMAIN order_map => order_map[mem[o].id] = o)
              => AllIndexed'
<1>0. LevelsOK /\ IndexOK /\ IndexLive /\ QueuesSound
  BY DEF BookOK
<1>1. ASSUME NEW side \in Side, NEW price \in DOMAIN levels'[side]
      PROVE  /\ price \in DOMAIN levels[side]
             /\ levels'[side][price] # <<>>
             /\ ToSet(levels'[side][price]) = ToSet(levels[side][price]) \ {o}
             /\ \A i, j \in DOMAIN levels'[side][price] :
                  levels'[side][price][i] = levels'[side][price][j] => i = j
  BY DEF OrderGone
<1>2. ASSUME NEW side \in Side, NEW price \in DOMAIN levels'[side],
             NEW x \in ToSet(levels'[side][price])
      PROVE  /\ x \in ToSet(levels[side][price]) /\ x # o
             /\ x \in DOMAIN mem' /\ mem'[x].id = mem[x].id
             /\ mem'[x].side = side /\ mem'[x].price = price /\ mem'[x].amount > 0
  <2>1. price \in DOMAIN levels[side] /\ x \in ToSet(levels[side][price]) /\ x # o
    BY <1>1
  <2>2. mem[x].side = side /\ mem[x].price = price
    BY <1>0, <2>1, Queued
  <2> QED BY <2>1, <2>2 DEF OthersAlike
<1>3. LevelsOK'
  <2>1. \A side \in Side :
          DOMAIN levels'[side] \subseteq Int /\ IsFiniteSet(DOMAIN levels'[side])
    BY <1>0, FS_Subset DEF LevelsOK, OrderGone
  <2>2. \A side \in Side : levels'[side] \in [DOMAIN levels'[side] -> Seq(Nat)]
    BY DEF OrderGone
  <2> QED BY <1>2, <2>1, <2>2 DEF LevelsOK, OrderGone
<1>4. QueuesSound'
  <2>1. \A side \in Side : \A price \in DOMAIN levels'[side] :
          /\ levels'[side][price] # <<>>
          /\ \A x \in ToSet(levels'[side][price]) :
               mem'[x].side = side /\ mem'[x].price = price /\ mem'[x].amount > 0
          /\ \A i, j \in DOMAIN levels'[side][price] :
               levels'[side][price][i] = levels'[side][price][j] => i = j
    BY <1>1, <1>2
  <2> QED BY <2>1 DEF QueuesSound, ToSet
<1>5. ASSUME NEW id \in DOMAIN order_map'
      PROVE  LET x == order_map'[id] IN
             /\ x \in DOMAIN mem'
             /\ mem'[x].id = id /\ mem'[x].amount > 0
             /\ mem'[x].price \in DOMAIN levels'[mem'[x].side]
             /\ x \in ToSet(levels'[mem'[x].side][mem'[x].price])
  <2> DEFINE x == order_map[id]
             side == mem[x].side
             price == mem[x].price
  <2>1. order_map'[id] = x /\ id \in DOMAIN order_map /\ id # mem[o].id
    BY DEF Forgotten
  <2>2. mem[x].id = id /\ price \in DOMAIN levels[side] /\ x \in ToSet(levels[side][price])
    BY <1>0, <2>1, Indexed
  <2>3. side \in Side /\ x # o
    BY <2>1, <2>2, IndexedOn
  <2>4. /\ x \in DOMAIN mem' /\ mem'[x].id = id /\ mem'[x].side = side
        /\ mem'[x].price = price /\ mem'[x].amount > 0
    BY <2>2, <2>3 DEF OthersAlike
  <2>5. price \in DOMAIN levels'[side] /\ x \in ToSet(levels'[side][price])
    BY <2>2, <2>3 DEF OrderGone
  <2> QED BY <2>1, <2>4, <2>5
<1>6. IndexOK' /\ IndexLive'
  BY <1>5 DEF IndexOK, IndexLive
<1>7. Apart => Apart'
  BY <1>1 DEF Apart, Side, Bid, Ask
<1>8. ASSUME AllIndexed, mem[o].id \in DOMAIN order_map => order_map[mem[o].id] = o
      PROVE  AllIndexed'
  <2>1. ASSUME NEW side \in Side, NEW price \in DOMAIN levels'[side],
               NEW x \in ToSet(levels'[side][price])
        PROVE  mem'[x].id \in DOMAIN order_map' /\ order_map'[mem'[x].id] = x
    <3>1. price \in DOMAIN levels[side] /\ x \in ToSet(levels[side][price]) /\ x # o
          /\ mem'[x].id = mem[x].id
      BY <1>1, <1>2
    <3>2. mem[x].id \in DOMAIN order_map /\ order_map[mem[x].id] = x
      BY <1>8, <3>1, FoundById
    <3>3. mem[x].id # mem[o].id
      BY <1>8, <3>1, <3>2
    <3> QED BY <3>1, <3>2, <3>3 DEF Forgotten
  <2> QED BY <2>1 DEF AllIndexed, Resting
<1> QED BY <1>3, <1>4, <1>6, <1>7, <1>8 DEF BookOK

\* The new queue of one price.
LEMMA SetQueueIs ==
  ASSUME LevelsOK, NEW side \in Side, NEW price \in Int, NEW q \in Seq(Nat),
         NEW lv, lv = SetQueue(levels, side, price, q)
  PROVE  /\ DOMAIN lv = Side
         /\ \A s \in Side : s # side => lv[s] = levels[s]
         /\ q = <<>> => /\ DOMAIN lv[side] = DOMAIN levels[side] \ {price}
                        /\ \A p \in DOMAIN lv[side] : lv[side][p] = levels[side][p]
         /\ q # <<>> => /\ DOMAIN lv[side] = DOMAIN levels[side] \cup {price}
                        /\ lv[side][price] = q
                        /\ \A p \in DOMAIN levels[side] : p # price => lv[side][p] = levels[side][p]
         /\ lv[side] \in [DOMAIN lv[side] -> Seq(Nat)]
<1>1. lv = [levels EXCEPT ![side] = IF q = <<>> THEN Without(levels[side], price)
                                    ELSE With(levels[side], price, q)]
  BY DEF SetQueue
<1>2. DOMAIN levels = Side /\ levels[side] \in [DOMAIN levels[side] -> Seq(Nat)]
  BY DEF LevelsOK
<1>3. /\ DOMAIN lv = Side
      /\ \A s \in Side : s # side => lv[s] = levels[s]
      /\ lv[side] = IF q = <<>> THEN Without(levels[side], price) ELSE With(levels[side], price, q)
  BY <1>1, <1>2
<1>4. CASE q = <<>>
  <2>1. lv[side] = [p \in DOMAIN levels[side] \ {price} |-> levels[side][p]]
    BY <1>3, <1>4 DEF Without
  <2> QED BY <1>2, <1>3, <1>4, <2>1
<1>5. CASE q # <<>>
  <2>1. lv[side] = [p \in DOMAIN levels[side] \cup {price} |->
                      IF p = price THEN q ELSE levels[side][p]]
    BY <1>3, <1>5 DEF With
  <2> QED BY <1>2, <1>3, <1>5, <2>1
<1> QED BY <1>4, <1>5

\* An order taken out of its queue is gone from the book.
LEMMA TakenOut ==
  ASSUME BookOK, NEW side \in Side, NEW price \in DOMAIN levels[side],
         NEW o \in ToSet(levels[side][price]), NEW q \in Seq(Nat),
         ToSet(q) = ToSet(levels[side][price]) \ {o},
         \A i, j \in DOMAIN q : q[i] = q[j] => i = j,
         levels' = SetQueue(levels, side, price, q)
  PROVE  OrderGone(o)
<1>0. LevelsOK /\ QueuesSound
  BY DEF BookOK
<1>1. price \in Int
  BY <1>0 DEF LevelsOK
<1>2. /\ DOMAIN levels' = Side
      /\ \A s \in Side : s # side => levels'[s] = levels[s]
      /\ q = <<>> => /\ DOMAIN levels'[side] = DOMAIN levels[side] \ {price}
                     /\ \A p \in DOMAIN levels'[side] : levels'[side][p] = levels[side][p]
      /\ q # <<>> => /\ DOMAIN levels'[side] = DOMAIN levels[side] \cup {price}
                     /\ levels'[side][price] = q
                     /\ \A p \in DOMAIN levels[side] :
                          p # price => levels'[side][p] = levels[side][p]
      /\ levels'[side] \in [DOMAIN levels'[side] -> Seq(Nat)]
  BY <1>0, <1>1, SetQueueIs
<1>3. q = <<>> => ToSet(q) = {}
  BY DEF ToSet
<1>4. \A s \in Side : \A p \in DOMAIN levels[s] :
        s # side \/ p # price => o \notin ToSet(levels[s][p])
  <2>1. mem[o].side = side /\ mem[o].price = price
    BY <1>0, Queued
  <2>2. \A s \in Side : \A p \in DOMAIN levels[s] :
          o \in ToSet(levels[s][p]) => mem[o].side = s /\ mem[o].price = p
    BY <1>0, Queued
  <2> QED BY <2>1, <2>2
<1>5. ASSUME NEW s \in Side
      PROVE  /\ levels'[s] \in [DOMAIN levels'[s] -> Seq(Nat)]
             /\ DOMAIN levels'[s] \subseteq DOMAIN levels[s]
  BY <1>0, <1>2 DEF LevelsOK
<1>6. ASSUME NEW s \in Side, NEW p \in DOMAIN levels[s], s # side \/ p # price
      PROVE  /\ p \in DOMAIN levels'[s] /\ levels'[s][p] = levels[s][p] /\ levels'[s][p] # <<>>
             /\ ToSet(levels'[s][p]) = ToSet(levels[s][p]) \ {o}
             /\ \A i, j \in DOMAIN levels'[s][p] : levels'[s][p][i] = levels'[s][p][j] => i = j
  <2>1. p \in DOMAIN levels'[s] /\ levels'[s][p] = levels[s][p]
    BY <1>2, <1>6
  <2> QED BY <1>0, <1>4, <1>6, <2>1, Queued
<1>7. IF price \in DOMAIN levels'[side]
        THEN /\ levels'[side][price] # <<>>
             /\ ToSet(levels'[side][price]) = ToSet(levels[side][price]) \ {o}
             /\ \A i, j \in DOMAIN levels'[side][price] :
                  levels'[side][price][i] = levels'[side][price][j] => i = j
        ELSE ToSet(levels[side][price]) \subseteq {o}
  <2>1. CASE q = <<>>
    BY <1>2, <1>3, <2>1
  <2>2. CASE q # <<>>
    <3>1. price \in DOMAIN levels'[side] /\ levels'[side][price] = q
      BY <1>2, <2>2
    <3> QED BY <2>2, <3>1
  <2> QED BY <2>1, <2>2
<1>8. \A s \in Side : \A p \in DOMAIN levels[s] :
        IF p \in DOMAIN levels'[s]
          THEN /\ levels'[s][p] # <<>>
               /\ ToSet(levels'[s][p]) = ToSet(levels[s][p]) \ {o}
               /\ \A i, j \in DOMAIN levels'[s][p] : levels'[s][p][i] = levels'[s][p][j] => i = j
          ELSE ToSet(levels[s][p]) \subseteq {o}
  <2> SUFFICES ASSUME NEW s \in Side, NEW p \in DOMAIN levels[s]
               PROVE  IF p \in DOMAIN levels'[s]
                        THEN /\ levels'[s][p] # <<>>
                             /\ ToSet(levels'[s][p]) = ToSet(levels[s][p]) \ {o}
                             /\ \A i, j \in DOMAIN levels'[s][p] :
                                  levels'[s][p][i] = levels'[s][p][j] => i = j
                        ELSE ToSet(levels[s][p]) \subseteq {o}
    OBVIOUS
  <2>1. CASE s = side /\ p = price
    BY <1>7, <2>1
  <2>2. CASE s # side \/ p # price
    <3>1. /\ p \in DOMAIN levels'[s] /\ levels'[s][p] # <<>>
          /\ ToSet(levels'[s][p]) = ToSet(levels[s][p]) \ {o}
          /\ \A i, j \in DOMAIN levels'[s][p] : levels'[s][p][i] = levels'[s][p][j] => i = j
      BY <1>6, <2>2
    <3> QED BY <3>1
  <2> QED BY <2>1, <2>2
<1> QED BY <1>2, <1>5, <1>8 DEF OrderGone
-----------------------------------------------------------------------------
\* In every queue, each order is related to those behind it.
Arranged(R) ==
  \A side \in Side : \A price \in DOMAIN levels[side] :
    \A i, j \in DOMAIN levels[side][price] :
      i < j => <<levels[side][price][i], levels[side][price][j]>> \in R

LEMMA ArrangedBySetQueue ==
  ASSUME LevelsOK, NEW side \in Side, NEW price \in Int, NEW q \in Seq(Nat),
         levels' = SetQueue(levels, side, price, q), NEW R, Arranged(R),
         \A i, j \in DOMAIN q : i < j => <<q[i], q[j]>> \in R
  PROVE  Arranged(R)'
<1>1. /\ DOMAIN levels' = Side
      /\ \A s \in Side : s # side => levels'[s] = levels[s]
      /\ q = <<>> => /\ DOMAIN levels'[side] = DOMAIN levels[side] \ {price}
                     /\ \A p \in DOMAIN levels'[side] : levels'[side][p] = levels[side][p]
      /\ q # <<>> => /\ DOMAIN levels'[side] = DOMAIN levels[side] \cup {price}
                     /\ levels'[side][price] = q
                     /\ \A p \in DOMAIN levels[side] :
                          p # price => levels'[side][p] = levels[side][p]
  BY SetQueueIs
<1>2. ASSUME NEW s \in Side, NEW p \in DOMAIN levels'[s]
      PROVE  \/ p \in DOMAIN levels[s] /\ levels'[s][p] = levels[s][p]
             \/ levels'[s][p] = q
  <2>1. CASE s # side
    BY <1>1, <2>1
  <2>2. CASE s = side /\ q = <<>>
    BY <1>1, <2>2
  <2>3. CASE s = side /\ q # <<>>
    BY <1>1, <2>3
  <2> QED BY <2>1, <2>2, <2>3
<1>3. ASSUME NEW s \in Side, NEW p \in DOMAIN levels'[s],
             NEW i \in DOMAIN levels'[s][p], NEW j \in DOMAIN levels'[s][p], i < j
      PROVE  <<levels'[s][p][i], levels'[s][p][j]>> \in R
  <2>1. CASE p \in DOMAIN levels[s] /\ levels'[s][p] = levels[s][p]
    BY <1>3, <2>1 DEF Arranged
  <2>2. CASE levels'[s][p] = q
    BY <1>3, <2>2
  <2> QED BY <1>2, <2>1, <2>2
<1> QED BY <1>3 DEF Arranged

\* Taking an order out of its queue leaves the queues as they were arranged.
LEMMA RemovedFrom ==
  ASSUME NEW q \in Seq(Nat), NEW o, \A i, j \in DOMAIN q : q[i] = q[j] => i = j
  PROVE  /\ Removed(q, o) \in Seq(Nat)
         /\ ToSet(Removed(q, o)) = ToSet(q) \ {o}
         /\ \A i, j \in DOMAIN Removed(q, o) : Removed(q, o)[i] = Removed(q, o)[j] => i = j
<1> DEFINE r == Removed(q, o)
           D == {p \in Nat \X Nat : p[1] # p[2]}
<1>1. DOMAIN q = 1..Len(q) /\ Len(q) \in Nat /\ \A i \in 1..Len(q) : q[i] \in Nat
  BY LenProperties, ElementOfSeq
<1>2. \A i, j \in 1..Len(q) : i < j => <<q[i], q[j]>> \in D
  <2> SUFFICES ASSUME NEW i \in 1..Len(q), NEW j \in 1..Len(q), i < j
               PROVE  <<q[i], q[j]>> \in D
    OBVIOUS
  <2>1. q[i] # q[j] /\ q[i] \in Nat /\ q[j] \in Nat
    BY <1>1
  <2> QED BY <2>1
<1> HIDE DEF D
<1>3. /\ r \in Seq(Nat) /\ ToSet(r) = ToSet(q) \ {o}
      /\ \A i, j \in 1..Len(r) : i < j => <<r[i], r[j]>> \in D
  BY <1>2, RemovedKeeps
<1> HIDE DEF r
<1>4. DOMAIN r = 1..Len(r) /\ Len(r) \in Nat
  BY <1>3, LenProperties
<1>5. ASSUME NEW i \in DOMAIN r, NEW j \in DOMAIN r, r[i] = r[j] PROVE i = j
  <2>1. ~(i < j)
    <3> SUFFICES ASSUME i < j PROVE FALSE
      OBVIOUS
    <3>1. <<r[i], r[j]>> \in D
      BY <1>3, <1>4
    <3> QED BY <1>5, <3>1 DEF D
  <2>2. ~(j < i)
    <3> SUFFICES ASSUME j < i PROVE FALSE
      OBVIOUS
    <3>1. <<r[j], r[i]>> \in D
      BY <1>3, <1>4
    <3> QED BY <1>5, <3>1 DEF D
  <2> QED BY <1>4, <2>1, <2>2
<1> QED BY <1>3, <1>5 DEF r

\* cancel_order() takes the order out of the book.
LEMMA CancelGone ==
  ASSUME BookOK, NEW id \in DOMAIN order_map, levels' = Cancelled(id)
  PROVE  OrderGone(order_map[id])
<1> DEFINE o == order_map[id]
           side == mem[o].side
           price == mem[o].price
           q == levels[side][price]
<1>0. LevelsOK /\ IndexLive /\ QueuesSound
  BY DEF BookOK
<1>1. price \in DOMAIN levels[side] /\ o \in ToSet(q)
  BY <1>0, Indexed
<1>2. side \in Side /\ price \in Int
  BY IndexedOn
<1>3. levels' = SetQueue(levels, side, price, Removed(q, o))
  BY <1>1 DEF Cancelled
<1>4. q \in Seq(Nat) /\ \A i, j \in DOMAIN q : q[i] = q[j] => i = j
  <2>1. q \in Seq(Nat)
    BY <1>0, <1>1, <1>2 DEF LevelsOK
  <2>2. \A i, j \in DOMAIN q : q[i] = q[j] => i = j
    BY <1>0, <1>1, <1>2, Queued
  <2> QED BY <2>1, <2>2
<1>5. /\ Removed(q, o) \in Seq(Nat)
      /\ ToSet(Removed(q, o)) = ToSet(q) \ {o}
      /\ \A i, j \in DOMAIN Removed(q, o) : Removed(q, o)[i] = Removed(q, o)[j] => i = j
  BY <1>4, RemovedFrom
<1> HIDE DEF o
<1>6. OrderGone(o)
  BY <1>1, <1>2, <1>3, <1>5, TakenOut
<1> QED BY <1>6 DEF o

\* cancel_order(): the order is gone, and the book as sound as it was.
LEMMA CancelSound ==
  ASSUME BookOK, MemOK', NEW id,
         \A p \in DOMAIN mem : p \in DOMAIN mem' /\ mem'[p] = mem[p],
         levels' = Cancelled(id), order_map' = Without(order_map, id)
  PROVE  /\ BookOK' /\ (Apart => Apart') /\ (AllIndexed => AllIndexed')
         /\ DOMAIN order_map' = DOMAIN order_map \ {id}
         /\ \A side \in Side : DOMAIN levels'[side] \subseteq DOMAIN levels[side]
         /\ \A side \in Side : \A price \in DOMAIN levels'[side] :
              ToSet(levels'[side][price]) \subseteq ToSet(levels[side][price])
<1>0. LevelsOK /\ IndexOK /\ IndexLive /\ QueuesSound
  BY DEF BookOK
<1>1. /\ DOMAIN order_map' = DOMAIN order_map \ {id}
      /\ \A i \in DOMAIN order_map' : order_map'[i] = order_map[i]
  BY DEF Without
<1>2. CASE id \notin DOMAIN order_map
  <2>1. levels' = levels
    BY <1>2 DEF Cancelled
  <2>2. PICK o : o \notin DOMAIN mem
    <3> DEFINE russell == {x \in DOMAIN mem : x \notin x}
    <3>1. russell \notin DOMAIN mem
      <4> SUFFICES ASSUME russell \in DOMAIN mem PROVE FALSE
        OBVIOUS
      <4>1. russell \in russell <=> russell \notin russell
        BY Zenon
      <4> QED BY <4>1
    <3> QED BY <3>1
  <2>3. Outside(o)
    BY <1>0, <2>2 DEF Outside, LevelsOK
  <2>4. OthersAlike(o)
    <3> SUFFICES ASSUME NEW side \in Side, NEW price \in DOMAIN levels[side],
                        NEW x \in ToSet(levels[side][price])
                 PROVE  /\ x \in DOMAIN mem'
                        /\ mem'[x].id = mem[x].id /\ mem'[x].side = mem[x].side
                        /\ mem'[x].price = mem[x].price /\ mem'[x].amount > 0
      BY DEF OthersAlike
    <3>1. x \in DOMAIN mem
      BY <1>0 DEF LevelsOK
    <3>2. mem[x].amount > 0
      BY <1>0, Queued
    <3> QED BY <3>1, <3>2
  <2>5. BookOK' /\ (AllIndexed => AllIndexed') /\ (Apart => Apart')
    BY <1>1, <1>2, <2>1, <2>3, <2>4, StillSound
  <2> QED BY <1>1, <2>1, <2>5
<1>3. CASE id \in DOMAIN order_map
  <2> DEFINE o == order_map[id]
             side == mem[o].side
             price == mem[o].price
             q == levels[side][price]
  <2>1. /\ mem[o].id = id /\ mem[o].amount > 0 /\ price \in DOMAIN levels[side]
        /\ o \in ToSet(q)
    BY <1>0, <1>3, Indexed
  <2>2. side \in Side /\ price \in Int /\ o \in DOMAIN mem
    BY <1>3, IndexedOn
  <2>6. OrderGone(o)
    BY <1>3, CancelGone
  <2> HIDE DEF o
  <2>7. OthersAlike(o)
    <3> SUFFICES ASSUME NEW s \in Side, NEW p \in DOMAIN levels[s],
                        NEW x \in ToSet(levels[s][p])
                 PROVE  /\ x \in DOMAIN mem'
                        /\ mem'[x].id = mem[x].id /\ mem'[x].side = mem[x].side
                        /\ mem'[x].price = mem[x].price /\ mem'[x].amount > 0
      BY DEF OthersAlike
    <3>1. x \in DOMAIN mem
      BY <1>0 DEF LevelsOK
    <3>2. mem[x].amount > 0
      BY <1>0, Queued
    <3> QED BY <3>1, <3>2
  <2>8. Forgotten(mem[o].id)
    BY <1>1, <2>1 DEF Forgotten
  <2>9. mem[o].id \in DOMAIN order_map => order_map[mem[o].id] = o
    BY <2>1 DEF o
  <2>10. /\ BookOK' /\ (Apart => Apart')
         /\ AllIndexed /\ (mem[o].id \in DOMAIN order_map => order_map[mem[o].id] = o)
              => AllIndexed'
    BY <2>6, <2>7, <2>8, GoneSound
  <2>11. ASSUME NEW s \in Side
         PROVE  /\ DOMAIN levels'[s] \subseteq DOMAIN levels[s]
                /\ \A p \in DOMAIN levels'[s] : ToSet(levels'[s][p]) \subseteq ToSet(levels[s][p])
    BY <2>6 DEF OrderGone
  <2> QED BY <1>1, <2>9, <2>10, <2>11
<1> QED BY <1>2, <1>3
-----------------------------------------------------------------------------
LEMMA BestIs ==
  ASSUME LevelsOK, NEW side \in Side, levels[side] # <<>>
  PROVE  /\ Best(levels, side) \in DOMAIN levels[side]
         /\ \A q \in DOMAIN levels[side] :
              q = Best(levels, side) \/ Better(side, Best(levels, side), q)
<1> DEFINE S == DOMAIN levels[side]
<1>1. S \in SUBSET Int /\ IsFiniteSet(S) /\ levels[side] \in [S -> Seq(Nat)]
  BY DEF LevelsOK
<1>2. S # {}
  <2> SUFFICES ASSUME S = {} PROVE levels[side] = <<>>
    OBVIOUS
  <2>1. <<>> \in [{} -> Seq(Nat)]
    OBVIOUS
  <2>2. levels[side] \in [{} -> Seq(Nat)]
    BY <1>1
  <2> HIDE DEF S
  <2> QED BY <2>1, <2>2
<1>3. \E p \in S : \A q \in S : q = p \/ Better(side, p, q)
  BY <1>1, <1>2, HasBest
<1>4. Best(levels, side) = CHOOSE p \in S : \A q \in S : q = p \/ Better(side, p, q)
  BY DEF Best
<1> HIDE DEF S
<1>5. Best(levels, side) \in S /\ \A q \in S : q = Best(levels, side) \/ Better(side, Best(levels, side), q)
  BY <1>3, <1>4
<1> QED BY <1>5 DEF S

\* The first order of a queue, and the queue without it.
LEMMA HeadAndTail ==
  ASSUME NEW q \in Seq(Nat), q # <<>>, \A i, j \in DOMAIN q : q[i] = q[j] => i = j
  PROVE  /\ Head(q) \in ToSet(q) /\ Head(q) = q[1] /\ 1 \in DOMAIN q
         /\ Tail(q) \in Seq(Nat)
         /\ ToSet(Tail(q)) = ToSet(q) \ {Head(q)}
         /\ \A i, j \in DOMAIN Tail(q) : Tail(q)[i] = Tail(q)[j] => i = j
         /\ \A i \in DOMAIN Tail(q) : i \in Nat /\ i + 1 \in DOMAIN q /\ Tail(q)[i] = q[i + 1]
<1> DEFINE t == Tail(q)
<1>1. /\ Len(q) \in Nat /\ Len(q) # 0 /\ DOMAIN q = 1..Len(q)
  BY LenProperties, EmptySeq
<1>2. Head(q) = q[1]
  OBVIOUS
<1>3. /\ t \in Seq(Nat) /\ Len(t) = Len(q) - 1 /\ DOMAIN t = 1..(Len(q) - 1)
      /\ \A i \in 1..(Len(q) - 1) : t[i] = q[i + 1]
  <2>1. t \in Seq(Nat) /\ Len(t) = Len(q) - 1 /\ \A i \in 1..Len(t) : t[i] = q[i + 1]
    BY HeadTailProperties
  <2>2. DOMAIN t = 1..Len(t)
    BY <2>1, LenProperties
  <2> QED BY <2>1, <2>2
<1> HIDE DEF t
<1>4. 1 \in DOMAIN q
  BY <1>1
<1>5. \A i \in DOMAIN t : i \in Nat /\ i + 1 \in DOMAIN q /\ t[i] = q[i + 1]
  BY <1>1, <1>3
<1>6. ToSet(t) = ToSet(q) \ {q[1]}
  <2>1. ASSUME NEW i \in DOMAIN t PROVE t[i] \in ToSet(q) /\ t[i] # q[1]
    <3>1. i + 1 # 1
      BY <1>5
    <3> QED BY <1>4, <1>5, <3>1 DEF ToSet
  <2>2. ASSUME NEW i \in DOMAIN q, q[i] # q[1] PROVE q[i] \in ToSet(t)
    <3>1. i - 1 \in DOMAIN t /\ (i - 1) + 1 = i
      BY <1>1, <1>3, <2>2
    <3>2. t[i - 1] = q[i]
      BY <1>5, <3>1
    <3> QED BY <3>1, <3>2 DEF ToSet
  <2> QED BY <2>1, <2>2 DEF ToSet
<1>7. ASSUME NEW i \in DOMAIN t, NEW j \in DOMAIN t, t[i] = t[j] PROVE i = j
  <2>1. q[i + 1] = q[j + 1] /\ i + 1 \in DOMAIN q /\ j + 1 \in DOMAIN q /\ i \in Nat /\ j \in Nat
    BY <1>5, <1>7
  <2>2. i + 1 = j + 1
    BY <2>1
  <2> QED BY <2>1, <2>2
<1> QED BY <1>2, <1>3, <1>4, <1>5, <1>6, <1>7 DEF t, ToSet

\* One turn of the matching loop: r is first in the queue of the best price of the other side,
\* and only the amounts of r and of the event change.
Matched(price, r) ==
  LET other == Opposite(mem[ev].side)
      queue == levels[other][price] IN
  /\ other \in Side /\ price \in DOMAIN levels[other]
  /\ \A p \in DOMAIN levels[other] : p = price \/ Better(other, price, p)
  /\ queue \in Seq(Nat) /\ queue # <<>> /\ r = Head(queue) /\ r \in ToSet(queue)
  /\ r \in DOMAIN mem /\ r # ev
  /\ mem[r].side = other /\ mem[r].price = price
  /\ DOMAIN mem' = DOMAIN mem
  /\ \A p \in DOMAIN mem : p # ev /\ p # r => mem'[p] = mem[p]
  /\ \A p \in DOMAIN mem :
       /\ mem'[p].id = mem[p].id /\ mem'[p].side = mem[p].side
       /\ mem'[p].price = mem[p].price /\ mem'[p].type = mem[p].type
  /\ mem'[r].amount \in 0..(AmountMod - 1)
  /\ mem'[r].amount = 0 => /\ levels' = SetQueue(levels, other, price, Tail(queue))
                           /\ order_map' = Without(order_map, mem[r].id)
  /\ mem'[r].amount # 0 => levels' = levels /\ order_map' = order_map

\* The same amount is taken off both orders and added to the volume.
Exchanged(r, traded) ==
  /\ traded \in 0..mem[ev].amount /\ traded \in 0..mem[r].amount
  /\ traded = mem[ev].amount \/ traded = mem[r].amount
  /\ mem'[ev].amount = mem[ev].amount - traded
  /\ mem'[r].amount = mem[r].amount - traded
  /\ volume' = (volume + traded) % VolumeMod

LEMMA LessTaken ==
  ASSUME NEW a \in 0..(AmountMod - 1), NEW b \in 0..a
  PROVE  Take(a, b) = a - b /\ Take(a, b) \in 0..(AmountMod - 1)
<1>1. AmountMod \in Nat \ {0} /\ a - b \in 0..(AmountMod - 1)
  BY BookAssumption
<1>2. (a - b) % AmountMod = a - b
  BY <1>1
<1> QED BY <1>1, <1>2 DEF Take

LEMMA MatchIs ==
  ASSUME BookOK, Match, ev \in DOMAIN mem, Outside(ev)
  PROVE  /\ MemOK' /\ (volume \in Nat => volume' \in Nat)
         /\ \E price, r : Matched(price, r)
         /\ \E price, r, traded : Matched(price, r) /\ Exchanged(r, traded)
<1> DEFINE e == mem[ev]
           other == Opposite(e.side)
           price == Best(levels, other)
           queue == levels[other][price]
           r == Head(queue)
           traded == IF e.amount < mem[r].amount THEN e.amount ELSE mem[r].amount
<1>0. MemOK /\ LevelsOK /\ QueuesSound
  BY DEF BookOK
<1>1. /\ Crosses(e)
      /\ mem' = [[mem EXCEPT ![ev].amount = Take(@, traded)]
                    EXCEPT ![r].amount = Take(@, traded)]
      /\ mem'[r].amount = 0 => /\ levels' = SetQueue(levels, other, price, Tail(queue))
                               /\ order_map' = Without(order_map, mem[r].id)
      /\ mem'[r].amount # 0 => levels' = levels /\ order_map' = order_map
  BY DEF Match, NextInQueue
<1>2. e \in EventType
  BY <1>0 DEF MemOK
<1>3. other \in Side /\ levels[other] # <<>>
  <2>1. other \in Side
    BY <1>2 DEF EventType, Side, Bid, Ask, Opposite
  <2> QED BY <1>1, <2>1 DEF Crosses
<1>4. price \in DOMAIN levels[other] /\ \A p \in DOMAIN levels[other] : p = price \/ Better(other, price, p)
  BY <1>0, <1>3, BestIs
<1> HIDE DEF other, price
<1>5. queue \in Seq(Nat) /\ queue # <<>> /\ \A i, j \in DOMAIN queue : queue[i] = queue[j] => i = j
  <2>1. queue \in Seq(Nat)
    BY <1>0, <1>3, <1>4 DEF LevelsOK
  <2>2. queue # <<>> /\ \A i, j \in DOMAIN queue : queue[i] = queue[j] => i = j
    BY <1>0, <1>3, <1>4, Queued
  <2> QED BY <2>1, <2>2
<1>6. r \in ToSet(queue)
  BY <1>5, HeadAndTail
<1>7. r \in DOMAIN mem /\ r # ev /\ mem[r].side = other /\ mem[r].price = price /\ mem[r].amount > 0
  <2>1. r \in DOMAIN mem
    BY <1>0, <1>3, <1>4, <1>6 DEF LevelsOK
  <2>2. r # ev
    BY <1>3, <1>4, <1>6 DEF Outside
  <2>3. mem[r].side = other /\ mem[r].price = price /\ mem[r].amount > 0
    BY <1>0, <1>3, <1>4, <1>6, Queued
  <2> QED BY <2>1, <2>2, <2>3
<1> HIDE DEF queue
<1>8. mem[r] \in EventType
  BY <1>0, <1>7 DEF MemOK
<1>9. traded \in 0..e.amount /\ traded \in 0..mem[r].amount
  BY <1>2, <1>8 DEF EventType
<1> HIDE DEF r
<1>10. e.amount \in 0..(AmountMod - 1) /\ mem[r].amount \in 0..(AmountMod - 1)
  BY <1>2, <1>8 DEF EventType
<1> HIDE DEF traded
<1>11. /\ Take(e.amount, traded) \in 0..(AmountMod - 1)
       /\ Take(mem[r].amount, traded) \in 0..(AmountMod - 1)
  <2>1. Take(e.amount, traded) \in 0..(AmountMod - 1)
    BY <1>9, <1>10, LessTaken
  <2>2. Take(mem[r].amount, traded) \in 0..(AmountMod - 1)
    BY <1>9, <1>10, LessTaken
  <2> QED BY <2>1, <2>2
<1>12. mem \in [DOMAIN mem -> EventType]
  BY <1>0 DEF MemOK
<1>13. /\ DOMAIN mem' = DOMAIN mem
       /\ mem'[ev] = [e EXCEPT !.amount = Take(e.amount, traded)]
       /\ mem'[r] = [mem[r] EXCEPT !.amount = Take(mem[r].amount, traded)]
       /\ \A p \in DOMAIN mem : p # ev /\ p # r => mem'[p] = mem[p]
       /\ mem' \in [DOMAIN mem -> {mem'[p] : p \in DOMAIN mem}]
  <2> DEFINE ea == [e EXCEPT !.amount = Take(e.amount, traded)]
             ra == [mem[r] EXCEPT !.amount = Take(mem[r].amount, traded)]
  <2>1. [mem EXCEPT ![ev].amount = Take(@, traded)] = [mem EXCEPT ![ev] = ea]
    OBVIOUS
  <2>2. mem' = [[mem EXCEPT ![ev] = ea] EXCEPT ![r] = ra]
    <3> DEFINE m == [mem EXCEPT ![ev] = ea]
    <3>1. m[r] = mem[r]
      BY <1>7
    <3>2. mem' = [m EXCEPT ![r].amount = Take(@, traded)]
      BY <1>1, <2>1
    <3> HIDE DEF m
    <3>3. mem' = [m EXCEPT ![r] = ra]
      BY <3>1, <3>2
    <3> QED BY <3>3 DEF m
  <2> HIDE DEF ea, ra
  <2>3. /\ DOMAIN mem' = DOMAIN mem /\ mem'[ev] = ea /\ mem'[r] = ra
        /\ \A p \in DOMAIN mem : p # ev /\ p # r => mem'[p] = mem[p]
        /\ mem' \in [DOMAIN mem -> {mem'[p] : p \in DOMAIN mem}]
    BY <1>7, <2>2
  <2> QED BY <2>3 DEF ea, ra
<1>14. mem'[ev] \in EventType /\ mem'[r] \in EventType
  BY <1>2, <1>8, <1>11, <1>13 DEF EventType
<1>15. MemOK'
  <2>1. \A p \in DOMAIN mem : mem'[p] \in EventType
    BY <1>12, <1>13, <1>14
  <2> QED BY <1>13, <2>1 DEF MemOK
<1>16. \A p \in DOMAIN mem :
         /\ mem'[p].id = mem[p].id /\ mem'[p].side = mem[p].side
         /\ mem'[p].price = mem[p].price /\ mem'[p].type = mem[p].type
  <2>1. /\ mem'[ev].id = mem[ev].id /\ mem'[ev].side = mem[ev].side
        /\ mem'[ev].price = mem[ev].price /\ mem'[ev].type = mem[ev].type
    BY <1>2, <1>13 DEF EventType
  <2>2. /\ mem'[r].id = mem[r].id /\ mem'[r].side = mem[r].side
        /\ mem'[r].price = mem[r].price /\ mem'[r].type = mem[r].type
    BY <1>8, <1>13 DEF EventType
  <2> QED BY <1>13, <2>1, <2>2
<1>17. mem'[r].amount \in 0..(AmountMod - 1)
  BY <1>14 DEF EventType
<1>18. Matched(price, r)
  BY <1>1, <1>3, <1>4, <1>5, <1>6, <1>7, <1>13, <1>16, <1>17 DEF Matched, r, queue, other
<1>19. volume' = (volume + traded) % VolumeMod
  BY DEF Match, NextInQueue, traded, r, queue, price, other
<1>20. ASSUME volume \in Nat PROVE volume' \in Nat
  <2>1. VolumeMod \in Nat \ {0} /\ volume + traded \in Int
    BY <1>9, <1>10, <1>20, BookAssumption
  <2> QED BY <1>19, <2>1
<1>21. Exchanged(r, traded)
  <2>1. mem'[ev].amount = Take(e.amount, traded)
    BY <1>2, <1>13 DEF EventType
  <2>2. mem'[r].amount = Take(mem[r].amount, traded)
    BY <1>8, <1>13 DEF EventType
  <2>3. Take(e.amount, traded) = e.amount - traded
    BY <1>9, <1>10, LessTaken
  <2>4. Take(mem[r].amount, traded) = mem[r].amount - traded
    BY <1>9, <1>10, LessTaken
  <2>5. traded = e.amount \/ traded = mem[r].amount
    BY DEF traded
  <2> QED BY <1>9, <1>19, <2>1, <2>2, <2>3, <2>4, <2>5 DEF Exchanged
<1> HIDE DEF e
<1> QED BY <1>15, <1>18, <1>20, <1>21

\* An order that is used up in a turn of the matching loop is gone.
LEMMA MatchGone ==
  ASSUME BookOK, NEW price, NEW r, Matched(price, r), mem'[r].amount = 0
  PROVE  OrderGone(r)
<1> DEFINE other == Opposite(mem[ev].side)
           queue == levels[other][price]
           t == Tail(queue)
<1>1. /\ other \in Side /\ price \in DOMAIN levels[other]
      /\ queue \in Seq(Nat) /\ queue # <<>> /\ r = Head(queue) /\ r \in ToSet(queue)
      /\ levels' = SetQueue(levels, other, price, t)
  BY DEF Matched
<1> HIDE DEF other
<1>2. QueuesSound
  BY DEF BookOK
<1>3. \A i, j \in DOMAIN queue : queue[i] = queue[j] => i = j
  BY <1>1, <1>2, Queued
<1>4. /\ t \in Seq(Nat) /\ ToSet(t) = ToSet(queue) \ {r}
      /\ \A i, j \in DOMAIN t : t[i] = t[j] => i = j
  <2> HIDE DEF queue
  <2> QED BY <1>1, <1>3, HeadAndTail
<1>5. ToSet(t) = ToSet(levels[other][price]) \ {r} /\ r \in ToSet(levels[other][price])
  BY <1>1, <1>4
<1> HIDE DEF t, queue
<1> QED BY <1>1, <1>4, <1>5, TakenOut

\* Match: the order that is traded stays with what is left of it, or is gone.
LEMMA MatchSound ==
  ASSUME BookOK, MemOK', Outside(ev), NEW price, NEW r, Matched(price, r)
  PROVE  /\ BookOK' /\ (Apart => Apart')
         /\ (AllIndexed => AllIndexed') /\ DOMAIN order_map' \subseteq DOMAIN order_map
         /\ \A side \in Side : DOMAIN levels'[side] \subseteq DOMAIN levels[side]
         /\ \A side \in Side : \A p \in DOMAIN levels'[side] :
              ToSet(levels'[side][p]) \subseteq ToSet(levels[side][p])
<1> DEFINE other == Opposite(mem[ev].side)
           queue == levels[other][price]
<1>0. MemOK /\ LevelsOK /\ IndexOK /\ IndexLive /\ QueuesSound
  BY DEF BookOK
<1>1. /\ other \in Side /\ price \in DOMAIN levels[other]
      /\ queue \in Seq(Nat) /\ queue # <<>> /\ r = Head(queue) /\ r \in ToSet(queue)
      /\ r \in DOMAIN mem /\ r # ev
      /\ DOMAIN mem' = DOMAIN mem
      /\ mem'[r].amount \in 0..(AmountMod - 1)
      /\ mem'[r].amount = 0 => /\ levels' = SetQueue(levels, other, price, Tail(queue))
                               /\ order_map' = Without(order_map, mem[r].id)
      /\ mem'[r].amount # 0 => levels' = levels /\ order_map' = order_map
  BY DEF Matched
<1>2. \A p \in DOMAIN mem :
        /\ p # ev /\ p # r => mem'[p] = mem[p]
        /\ mem'[p].id = mem[p].id /\ mem'[p].side = mem[p].side
        /\ mem'[p].price = mem[p].price
  BY DEF Matched
<1> HIDE DEF other
<1>3. ASSUME NEW side \in Side, NEW p \in DOMAIN levels[side], NEW x \in ToSet(levels[side][p])
      PROVE  /\ x \in DOMAIN mem' /\ x # ev
             /\ mem'[x].id = mem[x].id /\ mem'[x].side = mem[x].side
             /\ mem'[x].price = mem[x].price
             /\ x # r => mem'[x].amount > 0
  <2>1. x \in DOMAIN mem
    BY <1>0 DEF LevelsOK
  <2>2. x # ev
    BY DEF Outside
  <2>3. mem[x].amount > 0
    BY <1>0, Queued
  <2> QED BY <1>1, <1>2, <2>1, <2>2, <2>3
<1>4. CASE mem'[r].amount # 0
  <2>1. mem'[r].amount > 0
    BY <1>1, <1>4
  <2>2. OthersAlike(ev)
    <3>1. ASSUME NEW side \in Side, NEW p \in DOMAIN levels[side], NEW x \in ToSet(levels[side][p])
          PROVE  /\ x \in DOMAIN mem'
                 /\ mem'[x].id = mem[x].id /\ mem'[x].side = mem[x].side
                 /\ mem'[x].price = mem[x].price /\ mem'[x].amount > 0
      BY <1>3, <2>1
    <3> QED BY <3>1 DEF OthersAlike
  <2>3. levels' = levels /\ order_map' = order_map
    BY <1>1, <1>4
  <2>4. BookOK' /\ (AllIndexed => AllIndexed') /\ (Apart => Apart')
    BY <2>2, <2>3, StillSound
  <2> QED BY <2>3, <2>4
<1>5. CASE mem'[r].amount = 0
  <2>1. levels' = SetQueue(levels, other, price, Tail(queue)) /\ order_map' = Without(order_map, mem[r].id)
    BY <1>1, <1>5
  <2>4. OrderGone(r)
    BY <1>5, MatchGone
  <2>5. OthersAlike(r)
    <3>1. ASSUME NEW side \in Side, NEW p \in DOMAIN levels[side], NEW x \in ToSet(levels[side][p]),
                 x # r
          PROVE  /\ x \in DOMAIN mem'
                 /\ mem'[x].id = mem[x].id /\ mem'[x].side = mem[x].side
                 /\ mem'[x].price = mem[x].price /\ mem'[x].amount > 0
      BY <1>3, <3>1
    <3> QED BY <3>1 DEF OthersAlike
  <2>6. Forgotten(mem[r].id)
    BY <2>1 DEF Forgotten, Without
  <2>7. AllIndexed => order_map[mem[r].id] = r
    BY <1>1, FoundById
  <2>8. /\ BookOK' /\ (Apart => Apart')
        /\ AllIndexed /\ (mem[r].id \in DOMAIN order_map => order_map[mem[r].id] = r)
             => AllIndexed'
    BY <2>4, <2>5, <2>6, GoneSound
  <2>9. ASSUME NEW s \in Side
        PROVE  /\ DOMAIN levels'[s] \subseteq DOMAIN levels[s]
               /\ \A p \in DOMAIN levels'[s] : ToSet(levels'[s][p]) \subseteq ToSet(levels[s][p])
    BY <2>4 DEF OrderGone
  <2> QED BY <2>6, <2>7, <2>8, <2>9 DEF Forgotten
<1> QED BY <1>4, <1>5

LEMMA ArrangedByMatch ==
  ASSUME BookOK, NEW price, NEW r, Matched(price, r), NEW R, Arranged(R)
  PROVE  Arranged(R)'
<1> DEFINE other == Opposite(mem[ev].side)
           queue == levels[other][price]
           t == Tail(queue)
<1>0. LevelsOK /\ QueuesSound
  BY DEF BookOK
<1>1. /\ other \in Side /\ price \in DOMAIN levels[other]
      /\ queue \in Seq(Nat) /\ queue # <<>>
      /\ mem'[r].amount = 0 => levels' = SetQueue(levels, other, price, t)
      /\ mem'[r].amount # 0 => levels' = levels
  BY DEF Matched
<1> HIDE DEF other
<1>2. CASE levels' = levels
  BY <1>2 DEF Arranged
<1>3. CASE levels' = SetQueue(levels, other, price, t)
  <2>1. \A i, j \in DOMAIN queue : queue[i] = queue[j] => i = j
    BY <1>0, <1>1, Queued
  <2>2. t \in Seq(Nat) /\ \A i \in DOMAIN t : i \in Nat /\ i + 1 \in DOMAIN queue /\ t[i] = queue[i + 1]
    <3> HIDE DEF queue
    <3> QED BY <1>1, <2>1, HeadAndTail
  <2>3. \A i, j \in DOMAIN queue : i < j => <<queue[i], queue[j]>> \in R
    BY <1>1 DEF Arranged
  <2> HIDE DEF t, queue
  <2>4. \A i, j \in DOMAIN t : i < j => <<t[i], t[j]>> \in R
    <3> SUFFICES ASSUME NEW i \in DOMAIN t, NEW j \in DOMAIN t, i < j PROVE <<t[i], t[j]>> \in R
      OBVIOUS
    <3>1. i + 1 < j + 1 /\ i + 1 \in DOMAIN queue /\ j + 1 \in DOMAIN queue
      BY <2>2
    <3>2. <<queue[i + 1], queue[j + 1]>> \in R
      BY <2>3, <3>1
    <3> QED BY <2>2, <3>2
  <2>5. price \in Int
    BY <1>0, <1>1 DEF LevelsOK
  <2> QED BY <1>0, <1>1, <1>3, <2>2, <2>4, <2>5, ArrangedBySetQueue
<1> QED BY <1>1, <1>2, <1>3

LEMMA ArrangedByCancel ==
  ASSUME BookOK, NEW id, levels' = Cancelled(id), NEW R, Arranged(R)
  PROVE  Arranged(R)'
<1>0. LevelsOK /\ IndexOK /\ IndexLive /\ QueuesSound
  BY DEF BookOK
<1>1. CASE id \notin DOMAIN order_map
  <2>1. levels' = levels
    BY <1>1 DEF Cancelled
  <2> QED BY <2>1 DEF Arranged
<1>2. CASE id \in DOMAIN order_map
  <2> DEFINE o == order_map[id]
             side == mem[o].side
             price == mem[o].price
             q == levels[side][price]
  <2>1. price \in DOMAIN levels[side]
    BY <1>0, <1>2, Indexed
  <2>2. side \in Side /\ price \in Int
    BY <1>2, IndexedOn
  <2>3. levels' = SetQueue(levels, side, price, Removed(q, o))
    BY <1>2, <2>1 DEF Cancelled
  <2>4. q \in Seq(Nat) /\ \A i, j \in DOMAIN q : i < j => <<q[i], q[j]>> \in R
    <3>1. q \in Seq(Nat)
      BY <1>0, <2>1, <2>2 DEF LevelsOK
    <3>2. \A i, j \in DOMAIN q : i < j => <<q[i], q[j]>> \in R
      BY <2>1, <2>2 DEF Arranged
    <3> QED BY <3>1, <3>2
  <2> HIDE DEF o, q
  <2>5. /\ Removed(q, o) \in Seq(Nat)
        /\ \A i, j \in DOMAIN Removed(q, o) : i < j => <<Removed(q, o)[i], Removed(q, o)[j]>> \in R
    <3>1. DOMAIN q = 1..Len(q)
      BY <2>4, LenProperties
    <3>2. /\ Removed(q, o) \in Seq(Nat)
          /\ \A i, j \in 1..Len(Removed(q, o)) :
               i < j => <<Removed(q, o)[i], Removed(q, o)[j]>> \in R
      BY <2>4, <3>1, RemovedKeeps
    <3>3. DOMAIN Removed(q, o) = 1..Len(Removed(q, o))
      BY <3>2, LenProperties
    <3> QED BY <3>2, <3>3
  <2> QED BY <1>0, <2>2, <2>3, <2>5, ArrangedBySetQueue
<1> QED BY <1>1, <1>2
-----------------------------------------------------------------------------
\* An order put at the end of a queue.
LEMMA QueuedBehind ==
  ASSUME NEW q \in Seq(Nat), NEW p \in Nat, p \notin ToSet(q),
         \A i, j \in DOMAIN q : q[i] = q[j] => i = j
  PROVE  /\ Append(q, p) \in Seq(Nat) /\ Append(q, p) # <<>>
         /\ ToSet(Append(q, p)) = ToSet(q) \cup {p}
         /\ \A i, j \in DOMAIN Append(q, p) : Append(q, p)[i] = Append(q, p)[j] => i = j
         /\ \A i, j \in DOMAIN Append(q, p) :
              i < j => /\ i \in DOMAIN q /\ Append(q, p)[i] = q[i]
                       /\ \/ j \in DOMAIN q /\ Append(q, p)[j] = q[j]
                          \/ Append(q, p)[j] = p
<1> DEFINE t == Append(q, p)
<1>1. Len(q) \in Nat /\ DOMAIN q = 1..Len(q)
  BY LenProperties
<1>2. /\ t \in Seq(Nat) /\ Len(t) = Len(q) + 1 /\ t[Len(q) + 1] = p
      /\ \A i \in 1..Len(q) : t[i] = q[i]
  BY AppendProperties
<1>3. DOMAIN t = 1..Len(q) + 1
  BY <1>2, LenProperties
<1> HIDE DEF t
<1>4. t # <<>>
  BY <1>1, <1>2, EmptySeq
<1>5. ASSUME NEW i \in DOMAIN t
      PROVE  \/ i \in DOMAIN q /\ t[i] = q[i]
             \/ i = Len(q) + 1 /\ t[i] = p
  BY <1>1, <1>2, <1>3
<1>6. ToSet(t) = ToSet(q) \cup {p}
  <2>1. \A i \in DOMAIN t : t[i] \in ToSet(q) \cup {p}
    BY <1>5 DEF ToSet
  <2>2. \A i \in DOMAIN q : i \in DOMAIN t /\ t[i] = q[i]
    BY <1>1, <1>2, <1>3
  <2>3. Len(q) + 1 \in DOMAIN t
    BY <1>1, <1>3
  <2>4. p \in ToSet(t)
    BY <1>2, <2>3 DEF ToSet
  <2> QED BY <2>1, <2>2, <2>4 DEF ToSet
<1>7. ASSUME NEW i \in DOMAIN t, NEW j \in DOMAIN t, t[i] = t[j] PROVE i = j
  <2>1. \A k \in DOMAIN q : q[k] # p
    BY DEF ToSet
  <2> QED BY <1>5, <1>7, <2>1
<1>8. ASSUME NEW i \in DOMAIN t, NEW j \in DOMAIN t, i < j
      PROVE  /\ i \in DOMAIN q /\ t[i] = q[i]
             /\ \/ j \in DOMAIN q /\ t[j] = q[j]
                \/ t[j] = p
  <2>1. i \in DOMAIN q /\ t[i] = q[i]
    BY <1>1, <1>2, <1>3, <1>8
  <2> QED BY <1>5, <2>1
<1> QED BY <1>2, <1>4, <1>6, <1>7, <1>8 DEF t

\* The event rests at the end of the queue of its price, which may be a new one.
Rested(q) ==
  LET side == mem[ev].side
      price == mem[ev].price IN
  /\ side \in Side /\ price \in Int /\ mem[ev].amount > 0
  /\ q \in Seq(Nat)
  /\ \/ price \in DOMAIN levels[side] /\ q = levels[side][price]
     \/ price \notin DOMAIN levels[side] /\ q = <<>>
  /\ ToSet(q) \subseteq DOMAIN mem /\ ev \notin ToSet(q)
  /\ \A i, j \in DOMAIN q : q[i] = q[j] => i = j
  /\ \A x \in ToSet(q) : mem[x].side = side /\ mem[x].price = price /\ mem[x].amount > 0
  /\ levels' = SetQueue(levels, side, price, Append(q, ev))
  /\ order_map' = With(order_map, mem[ev].id, ev)
  /\ \A p \in DOMAIN levels[Opposite(side)] : Better(Opposite(side), price, p)

LEMMA RestIs ==
  ASSUME BookOK, Rest, ev \in DOMAIN mem, Outside(ev), mem[ev].amount > 0
  PROVE  \E q : Rested(q)
<1> DEFINE e == mem[ev]
           side == e.side
           price == e.price
           other == Opposite(side)
           q == IF price \in DOMAIN levels[side] THEN levels[side][price] ELSE <<>>
<1>0. MemOK /\ LevelsOK /\ QueuesSound
  BY DEF BookOK
<1>1. /\ ~Crosses(e)
      /\ levels' = SetQueue(levels, side, price, Append(q, ev))
      /\ order_map' = With(order_map, e.id, ev)
  BY DEF Rest
<1>2. e \in EventType
  BY <1>0 DEF MemOK
<1>3. side \in Side /\ price \in Int /\ other \in Side
  BY <1>2 DEF EventType, Side, Bid, Ask, Opposite
<1>4. \A p \in DOMAIN levels[other] : Better(other, price, p)
  <2>1. CASE levels[other] = <<>>
    BY <2>1
  <2>2. CASE levels[other] # <<>>
    <3>1. /\ Best(levels, other) \in DOMAIN levels[other]
          /\ \A p \in DOMAIN levels[other] :
               p = Best(levels, other) \/ Better(other, Best(levels, other), p)
      BY <1>0, <1>3, <2>2, BestIs
    <3>2. Better(other, price, Best(levels, other))
      BY <1>1, <2>2 DEF Crosses
    <3>3. DOMAIN levels[other] \subseteq Int
      BY <1>0, <1>3 DEF LevelsOK
    <3>4. ASSUME NEW p \in DOMAIN levels[other] PROVE Better(other, price, p)
      BY <1>3, <3>1, <3>2, <3>3 DEF Better, Side, Bid, Ask
    <3> QED BY <3>4
  <2> QED BY <2>1, <2>2
<1>5. \/ price \in DOMAIN levels[side] /\ q = levels[side][price]
      \/ price \notin DOMAIN levels[side] /\ q = <<>>
  OBVIOUS
<1> HIDE DEF q
<1>6. /\ q \in Seq(Nat) /\ ToSet(q) \subseteq DOMAIN mem /\ ev \notin ToSet(q)
      /\ \A i, j \in DOMAIN q : q[i] = q[j] => i = j
      /\ \A x \in ToSet(q) : mem[x].side = side /\ mem[x].price = price /\ mem[x].amount > 0
  <2>1. CASE price \in DOMAIN levels[side] /\ q = levels[side][price]
    <3>1. q \in Seq(Nat) /\ ToSet(q) \subseteq DOMAIN mem
      BY <1>0, <1>3, <2>1 DEF LevelsOK
    <3>2. ev \notin ToSet(q)
      BY <1>3, <2>1 DEF Outside
    <3>3. /\ \A i, j \in DOMAIN q : q[i] = q[j] => i = j
          /\ \A x \in ToSet(q) : mem[x].side = side /\ mem[x].price = price /\ mem[x].amount > 0
      BY <1>0, <1>3, <2>1, Queued
    <3> QED BY <3>1, <3>2, <3>3
  <2>2. CASE q = <<>>
    BY <2>2 DEF ToSet
  <2> QED BY <1>5, <2>1, <2>2
<1>7. Rested(q)
  BY <1>1, <1>3, <1>4, <1>5, <1>6 DEF Rested
<1> QED BY <1>7

\* Rest: the book takes the event in.
LEMMA RestSound ==
  ASSUME BookOK, mem' = mem, ev \in DOMAIN mem, ev \in Nat, Outside(ev), NEW q, Rested(q)
  PROVE  /\ BookOK' /\ (Apart => Apart')
         /\ (AllIndexed /\ mem[ev].id \notin DOMAIN order_map => AllIndexed')
<1> DEFINE e == mem[ev]
           side == e.side
           price == e.price
           other == Opposite(side)
           t == Append(q, ev)
<1>0. MemOK /\ LevelsOK /\ IndexOK /\ IndexLive /\ QueuesSound
  BY DEF BookOK
<1>1. /\ side \in Side /\ price \in Int /\ e.amount > 0
      /\ q \in Seq(Nat)
      /\ \/ price \in DOMAIN levels[side] /\ q = levels[side][price]
         \/ price \notin DOMAIN levels[side] /\ q = <<>>
      /\ ToSet(q) \subseteq DOMAIN mem /\ ev \notin ToSet(q)
      /\ \A i, j \in DOMAIN q : q[i] = q[j] => i = j
      /\ \A x \in ToSet(q) : mem[x].side = side /\ mem[x].price = price /\ mem[x].amount > 0
      /\ levels' = SetQueue(levels, side, price, t)
      /\ order_map' = With(order_map, e.id, ev)
      /\ \A p \in DOMAIN levels[other] : Better(other, price, p)
  BY DEF Rested
<1>2. /\ t \in Seq(Nat) /\ t # <<>> /\ ToSet(t) = ToSet(q) \cup {ev}
      /\ \A i, j \in DOMAIN t : t[i] = t[j] => i = j
  BY <1>1, QueuedBehind
<1> HIDE DEF t
<1>3. /\ DOMAIN levels' = Side
      /\ \A s \in Side : s # side => levels'[s] = levels[s]
      /\ DOMAIN levels'[side] = DOMAIN levels[side] \cup {price}
      /\ levels'[side][price] = t
      /\ \A p \in DOMAIN levels[side] : p # price => levels'[side][p] = levels[side][p]
      /\ levels'[side] \in [DOMAIN levels'[side] -> Seq(Nat)]
  BY <1>0, <1>1, <1>2, SetQueueIs
<1>4. /\ DOMAIN order_map' = DOMAIN order_map \cup {e.id}
      /\ order_map'[e.id] = ev
      /\ \A id \in DOMAIN order_map : id # e.id => order_map'[id] = order_map[id]
  BY <1>1 DEF With
<1> HIDE DEF side, price
<1>5. ASSUME NEW s \in Side, NEW p \in DOMAIN levels'[s], s # side \/ p # price
      PROVE  p \in DOMAIN levels[s] /\ levels'[s][p] = levels[s][p]
  <2>1. CASE s # side
    BY <1>3, <2>1
  <2>2. CASE s = side /\ p # price
    BY <1>3, <2>2
  <2> QED BY <1>5, <2>1, <2>2
<1>6. \A s \in Side : \A p \in DOMAIN levels[s] :
        p \in DOMAIN levels'[s] /\ ToSet(levels[s][p]) \subseteq ToSet(levels'[s][p])
  <2> SUFFICES ASSUME NEW s \in Side, NEW p \in DOMAIN levels[s]
               PROVE  p \in DOMAIN levels'[s] /\ ToSet(levels[s][p]) \subseteq ToSet(levels'[s][p])
    OBVIOUS
  <2>1. CASE s # side
    BY <1>3, <2>1
  <2>2. CASE s = side /\ p # price
    BY <1>3, <2>2
  <2>3. CASE s = side /\ p = price
    BY <1>1, <1>2, <1>3, <2>3
  <2> QED BY <2>1, <2>2, <2>3
<1>7. LevelsOK'
  <2>1. ASSUME NEW s \in Side
        PROVE  /\ levels'[s] \in [DOMAIN levels'[s] -> Seq(Nat)]
               /\ DOMAIN levels'[s] \subseteq Int /\ IsFiniteSet(DOMAIN levels'[s])
    <3>1. CASE s # side
      BY <1>0, <1>3, <3>1 DEF LevelsOK
    <3>2. CASE s = side
      <4>1. DOMAIN levels[side] \subseteq Int /\ IsFiniteSet(DOMAIN levels[side])
        BY <1>0, <1>1 DEF LevelsOK
      <4>2. IsFiniteSet(DOMAIN levels[side] \cup {price})
        BY <4>1, FS_AddElement
      <4> QED BY <1>1, <1>3, <3>2, <4>1, <4>2
    <3> QED BY <3>1, <3>2
  <2>2. ASSUME NEW s \in Side, NEW p \in DOMAIN levels'[s]
        PROVE  ToSet(levels'[s][p]) \subseteq DOMAIN mem
    <3>1. CASE s = side /\ p = price
      BY <1>1, <1>2, <1>3, <3>1
    <3>2. CASE s # side \/ p # price
      BY <1>0, <1>5, <3>2 DEF LevelsOK
    <3> QED BY <3>1, <3>2
  <2> QED BY <1>3, <2>1, <2>2 DEF LevelsOK
<1>8. QueuesSound'
  <2>1. ASSUME NEW s \in Side, NEW p \in DOMAIN levels'[s]
        PROVE  /\ levels'[s][p] # <<>>
               /\ \A x \in ToSet(levels'[s][p]) :
                    mem[x].side = s /\ mem[x].price = p /\ mem[x].amount > 0
               /\ \A i, j \in DOMAIN levels'[s][p] :
                    levels'[s][p][i] = levels'[s][p][j] => i = j
    <3>1. CASE s = side /\ p = price
      BY <1>1, <1>2, <1>3, <3>1 DEF side, price
    <3>2. CASE s # side \/ p # price
      <4>1. p \in DOMAIN levels[s] /\ levels'[s][p] = levels[s][p]
        BY <1>5, <3>2
      <4> QED BY <1>0, <4>1, Queued
    <3> QED BY <3>1, <3>2
  <2> QED BY <2>1 DEF QueuesSound, ToSet
<1>9. ASSUME NEW id \in DOMAIN order_map'
      PROVE  LET x == order_map'[id] IN
             /\ x \in DOMAIN mem
             /\ mem[x].id = id /\ mem[x].amount > 0
             /\ mem[x].price \in DOMAIN levels'[mem[x].side]
             /\ x \in ToSet(levels'[mem[x].side][mem[x].price])
  <2>1. CASE id = e.id
    <3>1. ev \in ToSet(levels'[side][price]) /\ price \in DOMAIN levels'[side]
      BY <1>2, <1>3
    <3> QED BY <1>1, <1>4, <2>1, <3>1 DEF side, price
  <2>2. CASE id # e.id
    <3> DEFINE x == order_map[id]
    <3>1. id \in DOMAIN order_map /\ order_map'[id] = x
      BY <1>4, <2>2
    <3>2. /\ mem[x].id = id /\ mem[x].amount > 0 /\ mem[x].price \in DOMAIN levels[mem[x].side]
          /\ x \in ToSet(levels[mem[x].side][mem[x].price])
      BY <1>0, <3>1, Indexed
    <3>3. x \in DOMAIN mem /\ mem[x].side \in Side
      BY <3>1, IndexedOn
    <3> QED BY <1>6, <3>1, <3>2, <3>3
  <2> QED BY <2>1, <2>2
<1>10. IndexOK' /\ IndexLive'
  BY <1>9 DEF IndexOK, IndexLive
<1>11. MemOK'
  BY <1>0 DEF MemOK
<1>12. ASSUME Apart PROVE Apart'
  <2>1. DOMAIN levels[Bid] \subseteq Int /\ DOMAIN levels[Ask] \subseteq Int
    BY <1>0 DEF LevelsOK, Side
  <2>2. CASE side = Bid
    BY <1>1, <1>3, <1>12, <2>1, <2>2 DEF Apart, Better, Opposite, Side, Bid, Ask
  <2>3. CASE side = Ask
    BY <1>1, <1>3, <1>12, <2>1, <2>3 DEF Apart, Better, Opposite, Side, Bid, Ask
  <2> QED BY <1>1, <2>2, <2>3 DEF Side
<1>13. ASSUME AllIndexed, e.id \notin DOMAIN order_map PROVE AllIndexed'
  <2>1. ASSUME NEW s \in Side, NEW p \in DOMAIN levels'[s], NEW x \in ToSet(levels'[s][p])
        PROVE  mem[x].id \in DOMAIN order_map' /\ order_map'[mem[x].id] = x
    <3>1. CASE x = ev
      BY <1>4, <3>1
    <3>2. CASE x # ev
      <4>1. p \in DOMAIN levels[s] /\ x \in ToSet(levels[s][p])
        <5>1. CASE s = side /\ p = price
          <6>1. x \in ToSet(q)
            BY <1>2, <1>3, <3>2, <5>1
          <6>2. q # <<>>
            BY <6>1 DEF ToSet
          <6> QED BY <1>1, <5>1, <6>1, <6>2
        <5>2. CASE s # side \/ p # price
          BY <1>5, <5>2
        <5> QED BY <5>1, <5>2
      <4>2. mem[x].id \in DOMAIN order_map /\ order_map[mem[x].id] = x
        BY <1>13, <4>1, FoundById
      <4> QED BY <1>4, <1>13, <4>2
    <3> QED BY <3>1, <3>2
  <2> QED BY <2>1 DEF AllIndexed, Resting
<1> QED BY <1>7, <1>8, <1>10, <1>11, <1>12, <1>13 DEF BookOK

LEMMA ArrangedByRest ==
  ASSUME BookOK, ev \in Nat, NEW q, Rested(q), NEW R, Arranged(R),
         \A x \in ToSet(q) : <<x, ev>> \in R
  PROVE  Arranged(R)'
<1> DEFINE side == mem[ev].side
           price == mem[ev].price
           t == Append(q, ev)
<1>0. LevelsOK
  BY DEF BookOK
<1>1. /\ side \in Side /\ price \in Int /\ q \in Seq(Nat) /\ ev \notin ToSet(q)
      /\ \/ price \in DOMAIN levels[side] /\ q = levels[side][price]
         \/ price \notin DOMAIN levels[side] /\ q = <<>>
      /\ \A i, j \in DOMAIN q : q[i] = q[j] => i = j
      /\ levels' = SetQueue(levels, side, price, t)
  BY DEF Rested
<1>2. /\ t \in Seq(Nat)
      /\ \A i, j \in DOMAIN t :
           i < j => /\ i \in DOMAIN q /\ t[i] = q[i]
                    /\ \/ j \in DOMAIN q /\ t[j] = q[j]
                       \/ t[j] = ev
  BY <1>1, QueuedBehind
<1>3. \A i, j \in DOMAIN q : i < j => <<q[i], q[j]>> \in R
  BY <1>1 DEF Arranged
<1> HIDE DEF t, side, price
<1>4. \A i, j \in DOMAIN t : i < j => <<t[i], t[j]>> \in R
  BY <1>2, <1>3 DEF ToSet
<1> QED BY <1>0, <1>1, <1>2, <1>4, ArrangedBySetQueue
-----------------------------------------------------------------------------
\* The levels and the index, whatever becomes of the records they point to.
ShapeOK ==
  /\ LevelsOK /\ IndexOK
  /\ \A side \in Side : \A price \in DOMAIN levels[side] : levels[side][price] # <<>>

LEMMA SoundShape ==
  ASSUME BookOK PROVE ShapeOK
BY DEF BookOK, ShapeOK, QueuesSound

LEMMA ShapeBySetQueue ==
  ASSUME ShapeOK, DOMAIN mem' = DOMAIN mem, IndexOK',
         NEW side \in Side, NEW price \in Int, NEW q \in Seq(Nat), ToSet(q) \subseteq DOMAIN mem,
         levels' = SetQueue(levels, side, price, q)
  PROVE  ShapeOK'
<1>0. LevelsOK
  BY DEF ShapeOK
<1>1. /\ DOMAIN levels' = Side
      /\ \A s \in Side : s # side => levels'[s] = levels[s]
      /\ q = <<>> => /\ DOMAIN levels'[side] = DOMAIN levels[side] \ {price}
                     /\ \A p \in DOMAIN levels'[side] : levels'[side][p] = levels[side][p]
      /\ q # <<>> => /\ DOMAIN levels'[side] = DOMAIN levels[side] \cup {price}
                     /\ levels'[side][price] = q
                     /\ \A p \in DOMAIN levels[side] :
                          p # price => levels'[side][p] = levels[side][p]
      /\ levels'[side] \in [DOMAIN levels'[side] -> Seq(Nat)]
  BY <1>0, SetQueueIs
<1>2. ASSUME NEW s \in Side
      PROVE  /\ levels'[s] \in [DOMAIN levels'[s] -> Seq(Nat)]
             /\ DOMAIN levels'[s] \subseteq Int /\ IsFiniteSet(DOMAIN levels'[s])
  <2>1. DOMAIN levels[s] \subseteq Int /\ IsFiniteSet(DOMAIN levels[s])
    BY <1>0 DEF LevelsOK
  <2>2. CASE s # side
    BY <1>0, <1>1, <2>2 DEF LevelsOK
  <2>3. CASE s = side /\ q = <<>>
    <3>1. IsFiniteSet(DOMAIN levels[side] \ {price})
      BY <2>1, <2>3, FS_Subset
    <3> QED BY <1>1, <2>1, <2>3, <3>1
  <2>4. CASE s = side /\ q # <<>>
    <3>1. IsFiniteSet(DOMAIN levels[side] \cup {price})
      BY <2>1, <2>4, FS_AddElement
    <3> QED BY <1>1, <2>1, <2>4, <3>1
  <2> QED BY <2>2, <2>3, <2>4
<1>3. ASSUME NEW s \in Side, NEW p \in DOMAIN levels'[s]
      PROVE  ToSet(levels'[s][p]) \subseteq DOMAIN mem' /\ levels'[s][p] # <<>>
  <2>1. CASE p \in DOMAIN levels[s] /\ levels'[s][p] = levels[s][p]
    BY <2>1 DEF ShapeOK, LevelsOK
  <2>2. CASE levels'[s][p] = q /\ q # <<>>
    BY <2>2
  <2>3. \/ p \in DOMAIN levels[s] /\ levels'[s][p] = levels[s][p]
        \/ levels'[s][p] = q /\ q # <<>>
    <3>1. CASE s # side
      BY <1>1, <3>1
    <3>2. CASE s = side /\ q = <<>>
      BY <1>1, <3>2
    <3>3. CASE s = side /\ q # <<>>
      BY <1>1, <3>3
    <3> QED BY <3>1, <3>2, <3>3
  <2> QED BY <2>1, <2>2, <2>3
<1> QED BY <1>1, <1>2, <1>3 DEF ShapeOK, LevelsOK

LEMMA IndexShape ==
  ASSUME IndexOK, DOMAIN mem' = DOMAIN mem
  PROVE  /\ order_map' = order_map => IndexOK'
         /\ \A id : order_map' = Without(order_map, id) => IndexOK'
         /\ \A id : \A p \in DOMAIN mem : order_map' = With(order_map, id, p) => IndexOK'
<1>1. ASSUME order_map' = order_map PROVE IndexOK'
  BY <1>1 DEF IndexOK
<1>2. ASSUME NEW id, order_map' = Without(order_map, id) PROVE IndexOK'
  BY <1>2 DEF IndexOK, Without
<1>3. ASSUME NEW id, NEW p \in DOMAIN mem, order_map' = With(order_map, id, p) PROVE IndexOK'
  BY <1>3 DEF IndexOK, With
<1> QED BY <1>1, <1>2, <1>3

\* An order is taken out of a queue whether it is there or not.
LEMMA CancelShape ==
  ASSUME MemOK, ShapeOK, DOMAIN mem' = DOMAIN mem, NEW id,
         levels' = Cancelled(id), order_map' = Without(order_map, id)
  PROVE  ShapeOK'
<1>0. LevelsOK /\ IndexOK
  BY DEF ShapeOK
<1>1. IndexOK'
  BY <1>0, IndexShape
<1>2. CASE levels' = levels
  BY <1>0, <1>1, <1>2 DEF ShapeOK, LevelsOK
<1>3. CASE id \in DOMAIN order_map /\ levels' # levels
  <2> DEFINE o == order_map[id]
             side == mem[o].side
             price == mem[o].price
             q == levels[side][price]
  <2>1. side \in Side /\ price \in Int
    BY <1>0, <1>3 DEF IndexOK, MemOK, EventType
  <2>2. price \in DOMAIN levels[side] /\ levels' = SetQueue(levels, side, price, Removed(q, o))
    BY <1>3 DEF Cancelled
  <2>3. q \in Seq(Nat) /\ ToSet(q) \subseteq DOMAIN mem
    BY <1>0, <2>1, <2>2 DEF LevelsOK
  <2> HIDE DEF o, q
  <2>4. Removed(q, o) \in Seq(Nat) /\ ToSet(Removed(q, o)) = ToSet(q) \ {o}
    <3> DEFINE R == Nat \X Nat
    <3>1. \A i, j \in 1..Len(q) : i < j => <<q[i], q[j]>> \in R
      BY <2>3, ElementOfSeq, LenProperties
    <3> HIDE DEF R
    <3> QED BY <2>3, <3>1, RemovedKeeps
  <2>5. ToSet(Removed(q, o)) \subseteq DOMAIN mem
    BY <2>3, <2>4
  <2> QED BY <1>1, <2>1, <2>2, <2>4, <2>5, ShapeBySetQueue
<1>4. id \notin DOMAIN order_map => levels' = levels
  BY DEF Cancelled
<1> QED BY <1>2, <1>3, <1>4

\* A turn of the matching loop changes amounts only, also of an order that meets itself.
LEMMA MatchShape ==
  ASSUME MemOK, ShapeOK, Match, ev \in DOMAIN mem
  PROVE  /\ MemOK' /\ ShapeOK' /\ DOMAIN mem' = DOMAIN mem
         /\ \A p \in DOMAIN mem :
              mem'[p].id = mem[p].id /\ mem'[p].side = mem[p].side /\ mem'[p].price = mem[p].price
<1> DEFINE e == mem[ev]
           other == Opposite(e.side)
           price == Best(levels, other)
           queue == levels[other][price]
           r == Head(queue)
           traded == IF e.amount < mem[r].amount THEN e.amount ELSE mem[r].amount
<1>0. LevelsOK /\ IndexOK
  BY DEF ShapeOK
<1>1. /\ Crosses(e)
      /\ mem' = [[mem EXCEPT ![ev].amount = Take(@, traded)]
                    EXCEPT ![r].amount = Take(@, traded)]
      /\ mem'[r].amount = 0 => /\ levels' = SetQueue(levels, other, price, Tail(queue))
                               /\ order_map' = Without(order_map, mem[r].id)
      /\ mem'[r].amount # 0 => levels' = levels /\ order_map' = order_map
  BY DEF Match, NextInQueue
<1>2. e \in EventType
  BY DEF MemOK
<1>3. other \in Side /\ levels[other] # <<>>
  <2>1. other \in Side
    BY <1>2 DEF EventType, Side, Bid, Ask, Opposite
  <2> QED BY <1>1, <2>1 DEF Crosses
<1>4. price \in DOMAIN levels[other] /\ price \in Int
  BY <1>0, <1>3, BestIs DEF LevelsOK
<1> HIDE DEF other, price
<1>5. queue \in Seq(Nat) /\ queue # <<>> /\ ToSet(queue) \subseteq DOMAIN mem
  BY <1>0, <1>3, <1>4 DEF LevelsOK, ShapeOK
<1> HIDE DEF queue
<1>6. /\ r \in ToSet(queue) /\ Tail(queue) \in Seq(Nat)
      /\ ToSet(Tail(queue)) \subseteq ToSet(queue)
  <2>1. Len(queue) \in Nat \ {0} /\ DOMAIN queue = 1..Len(queue)
    BY <1>5, LenProperties, EmptySeq
  <2>2. r = queue[1] /\ 1 \in DOMAIN queue
    BY <2>1
  <2>3. /\ Tail(queue) \in Seq(Nat) /\ Len(Tail(queue)) = Len(queue) - 1
        /\ \A i \in 1..Len(Tail(queue)) : Tail(queue)[i] = queue[i + 1]
    BY <1>5, HeadTailProperties
  <2>4. DOMAIN Tail(queue) = 1..Len(Tail(queue))
    BY <2>3, LenProperties
  <2>5. \A i \in DOMAIN Tail(queue) : i + 1 \in DOMAIN queue /\ Tail(queue)[i] = queue[i + 1]
    BY <2>1, <2>3, <2>4
  <2> QED BY <2>2, <2>3, <2>5 DEF ToSet
<1>7. r \in DOMAIN mem /\ mem[r] \in EventType
  BY <1>5, <1>6 DEF MemOK
<1> HIDE DEF r
<1>8. e.amount \in Int /\ mem[r].amount \in Int
  BY <1>2, <1>7 DEF EventType
<1>9. traded \in Int
  BY <1>8
<1> HIDE DEF traded
<1>10. \A a \in Int : Take(a, traded) \in 0..(AmountMod - 1)
  <2> SUFFICES ASSUME NEW a \in Int PROVE (a - traded) % AmountMod \in 0..(AmountMod - 1)
    BY DEF Take
  <2>1. AmountMod \in Nat \ {0} /\ a - traded \in Int
    BY <1>9, BookAssumption
  <2> QED BY <2>1
<1> DEFINE ea == [e EXCEPT !.amount = Take(e.amount, traded)]
           m == [mem EXCEPT ![ev] = ea]
           ra == [m[r] EXCEPT !.amount = Take(m[r].amount, traded)]
<1>11. /\ ea \in EventType
       /\ ea.id = e.id /\ ea.side = e.side /\ ea.price = e.price
  BY <1>2, <1>8, <1>10 DEF EventType
<1>12. m \in [DOMAIN mem -> EventType] /\ \A p \in DOMAIN mem :
         m[p].id = mem[p].id /\ m[p].side = mem[p].side /\ m[p].price = mem[p].price
  <2> HIDE DEF ea
  <2> QED BY <1>11 DEF MemOK
<1>13. mem' = [m EXCEPT ![r] = ra]
  <2>1. [mem EXCEPT ![ev].amount = Take(@, traded)] = m
    OBVIOUS
  <2> HIDE DEF m
  <2> QED BY <1>1, <2>1
<1> HIDE DEF m
<1>14. m[r] \in EventType /\ m[r].amount \in Int
  BY <1>7, <1>12 DEF EventType
<1>15. /\ ra \in EventType
       /\ ra.id = m[r].id /\ ra.side = m[r].side /\ ra.price = m[r].price
  BY <1>10, <1>14 DEF EventType
<1> HIDE DEF ra
<1>16. /\ mem' \in [DOMAIN mem -> EventType]
       /\ \A p \in DOMAIN mem :
            mem'[p].id = mem[p].id /\ mem'[p].side = mem[p].side /\ mem'[p].price = mem[p].price
  BY <1>7, <1>12, <1>13, <1>15
<1>17. DOMAIN mem' = DOMAIN mem
  BY <1>16
<1>18. MemOK'
  BY <1>16, <1>17 DEF MemOK
<1>19. ShapeOK'
  <2>1. CASE mem'[r].amount # 0
    <3>1. IndexOK' /\ levels' = levels
      BY <1>0, <1>1, <1>17, <2>1, IndexShape
    <3> QED BY <1>0, <1>17, <3>1 DEF ShapeOK, LevelsOK
  <2>2. CASE mem'[r].amount = 0
    <3> DEFINE t == Tail(queue)
    <3>1. IndexOK' /\ levels' = SetQueue(levels, other, price, t)
      BY <1>0, <1>1, <1>17, <2>2, IndexShape
    <3>2. t \in Seq(Nat) /\ ToSet(t) \subseteq DOMAIN mem
      BY <1>5, <1>6
    <3> HIDE DEF t
    <3> QED BY <1>3, <1>4, <1>17, <3>1, <3>2, ShapeBySetQueue
  <2> QED BY <2>1, <2>2
<1> QED BY <1>16, <1>17, <1>18, <1>19

LEMMA RestShape ==
  ASSUME MemOK, ShapeOK, Rest, ev \in DOMAIN mem, ev \in Nat
  PROVE  ShapeOK'
<1> DEFINE e == mem[ev]
           q == IF e.price \in DOMAIN levels[e.side] THEN levels[e.side][e.price] ELSE <<>>
           t == Append(q, ev)
<1>0. LevelsOK /\ IndexOK /\ mem' = mem
  BY DEF ShapeOK, Rest
<1>1. e.side \in Side /\ e.price \in Int
  BY DEF MemOK, EventType
<1>2. q \in Seq(Nat) /\ ToSet(q) \subseteq DOMAIN mem
  <2>1. CASE e.price \in DOMAIN levels[e.side]
    BY <1>0, <1>1, <2>1 DEF LevelsOK
  <2>2. CASE e.price \notin DOMAIN levels[e.side]
    BY <2>2, EmptySeq DEF ToSet
  <2> QED BY <2>1, <2>2
<1>3. CASE e.amount > 0
  <2>1. levels' = SetQueue(levels, e.side, e.price, t) /\ order_map' = With(order_map, e.id, ev)
    BY <1>3 DEF Rest
  <2>2. IndexOK'
    BY <1>0, <2>1, IndexShape
  <2> HIDE DEF q
  <2>3. t \in Seq(Nat) /\ ToSet(t) \subseteq DOMAIN mem
    <3>1. /\ t \in Seq(Nat) /\ Len(t) = Len(q) + 1 /\ t[Len(q) + 1] = ev
          /\ \A i \in 1..Len(q) : t[i] = q[i]
      BY <1>2, AppendProperties
    <3>2. DOMAIN t = 1..Len(q) + 1 /\ DOMAIN q = 1..Len(q) /\ Len(q) \in Nat
      BY <1>2, <3>1, LenProperties
    <3> HIDE DEF t
    <3>3. ASSUME NEW i \in DOMAIN t PROVE t[i] \in DOMAIN mem
      <4>1. CASE i \in 1..Len(q)
        BY <1>2, <3>1, <3>2, <4>1 DEF ToSet
      <4>2. CASE i = Len(q) + 1
        BY <3>1, <4>2
      <4> QED BY <3>2, <4>1, <4>2
    <3> QED BY <3>1, <3>3 DEF ToSet
  <2> HIDE DEF t
  <2> QED BY <1>0, <1>1, <2>1, <2>2, <2>3, ShapeBySetQueue
<1>4. CASE ~(e.amount > 0)
  <2>1. levels' = levels /\ order_map' = order_map
    BY <1>4 DEF Rest
  <2> QED BY <1>0, <2>1 DEF ShapeOK, LevelsOK, IndexOK
<1> QED BY <1>3, <1>4
-----------------------------------------------------------------------------
LEMMA BookSame ==
  ASSUME mem' = mem, levels' = levels, order_map' = order_map
  PROVE  /\ ShapeOK => ShapeOK'
         /\ BookOK => BookOK'
         /\ AllIndexed => AllIndexed'
         /\ Apart => Apart'
<1>1. (LevelsOK => LevelsOK') /\ (IndexOK => IndexOK') /\ (MemOK => MemOK')
  BY DEF LevelsOK, IndexOK, MemOK
<1>2. (IndexLive => IndexLive') /\ (QueuesSound => QueuesSound')
  BY DEF IndexLive, QueuesSound
<1>3. (AllIndexed => AllIndexed') /\ (Apart => Apart')
  BY DEF AllIndexed, Resting, Apart
<1> QED BY <1>1, <1>2, <1>3 DEF ShapeOK, BookOK

\* process_event() of a record in the memory, up to the matching loop.
LEMMA ProcessShape ==
  ASSUME MemOK, ShapeOK, mem' = mem, NEW p, ProcessEvent(p, mem[p])
  PROVE  ShapeOK'
<1> DEFINE e == mem[p]
<1>1. CASE ProcessAdd(p, e) \/ ProcessTrade(p, e)
  <2>1. levels' = levels /\ order_map' = order_map
    BY <1>1 DEF ProcessAdd, ProcessTrade
  <2> QED BY <2>1, BookSame
<1>2. CASE ProcessCancel(p, e) \/ ProcessModify(p, e)
  <2>1. levels' = Cancelled(e.id) /\ order_map' = Without(order_map, e.id)
    BY <1>2 DEF ProcessCancel, ProcessModify
  <2> QED BY <2>1, CancelShape
<1> QED BY <1>1, <1>2 DEF ProcessEvent

LEMMA ProcessSound ==
  ASSUME BookOK, mem' = mem, NEW p, ProcessEvent(p, mem[p])
  PROVE  /\ BookOK' /\ (Apart => Apart') /\ (AllIndexed => AllIndexed')
         /\ \A side \in Side : DOMAIN levels'[side] \subseteq DOMAIN levels[side]
         /\ \A side \in Side : \A price \in DOMAIN levels'[side] :
              ToSet(levels'[side][price]) \subseteq ToSet(levels[side][price])
<1> DEFINE e == mem[p]
<1>1. CASE ProcessAdd(p, e) \/ ProcessTrade(p, e)
  <2>1. levels' = levels /\ order_map' = order_map
    BY <1>1 DEF ProcessAdd, ProcessTrade
  <2> QED BY <2>1, BookSame
<1>2. CASE ProcessCancel(p, e) \/ ProcessModify(p, e)
  <2>1. levels' = Cancelled(e.id) /\ order_map' = Without(order_map, e.id)
    BY <1>2 DEF ProcessCancel, ProcessModify
  <2>2. MemOK'
    BY DEF BookOK, MemOK
  <2> HIDE DEF e
  <2> QED BY <2>1, <2>2, CancelSound
<1> QED BY <1>1, <1>2 DEF ProcessEvent
-----------------------------------------------------------------------------
\* Sums over sets: SumFunctionOnSet adds the elements in the order in which they are chosen, and
\* any other order gives the same.
Chosen(s) == CHOOSE x \in s : TRUE

NextSum(g, f, s) == IF s = {} THEN 0 ELSE f[Chosen(s)] + g[s \ {Chosen(s)}]

Sums(g, f, D) == g = [s \in D |-> NextSum(g, f, s)]

LEMMA SumIs ==
  ASSUME NEW f, NEW S
  PROVE  SumFunctionOnSet(f, S) = (CHOOSE g : Sums(g, f, SUBSET S))[S]
BY Zenon DEF SumFunctionOnSet, FoldFunctionOnSet, MapThenFoldSet, Sums, NextSum, Chosen

LEMMA SumsAt ==
  ASSUME NEW f, NEW D, NEW g, Sums(g, f, D)
  PROVE  DOMAIN g = D /\ \A s \in D : g[s] = NextSum(g, f, s)
<1> DEFINE h == [s \in D |-> NextSum(g, f, s)]
<1>1. g = h
  BY Zenon DEF Sums
<1>2. DOMAIN h = D /\ \A s \in D : h[s] = NextSum(g, f, s)
  OBVIOUS
<1> HIDE DEF h
<1> QED BY <1>1, <1>2

LEMMA ChosenIn ==
  ASSUME NEW s, s # {}
  PROVE  Chosen(s) \in s
BY DEF Chosen

\* Induction over the subsets of a finite set, for a set of them.
LEMMA SubsetInduction ==
  ASSUME NEW S, IsFiniteSet(S), NEW T,
         \A s \in SUBSET S : (\A t \in SUBSET s : t # s => t \in T) => s \in T
  PROVE  SUBSET S \subseteq T
<1> DEFINE Bad == (SUBSET S) \ T
<1> SUFFICES ASSUME Bad # {} PROVE FALSE
  OBVIOUS
<1>1. IsWellFoundedOn(StrictSubsetOrdering(S), FiniteSubsetsOf(S)) /\ FiniteSubsetsOf(S) = SUBSET S
  BY FS_StrictSubsetOrderingWellFounded, FS_FiniteSubsetsOfFinite
<1>2. Bad \subseteq FiniteSubsetsOf(S)
  BY <1>1
<1> HIDE DEF Bad
<1>3. PICK s \in Bad : \A t \in Bad : <<t, s>> \notin StrictSubsetOrdering(S)
  BY <1>1, <1>2, WFMin
<1>4. s \in SUBSET S /\ s \notin T
  BY <1>3 DEF Bad
<1>5. ASSUME NEW t \in SUBSET s, t # s PROVE t \in T
  <2>1. t \in SUBSET S
    BY <1>4
  <2>2. <<t, s>> \in StrictSubsetOrdering(S)
    BY <1>4, <1>5, <2>1 DEF StrictSubsetOrdering
  <2> QED BY <1>3, <2>1, <2>2 DEF Bad
<1> QED BY <1>4, <1>5

LEMMA SumsExist ==
  ASSUME NEW f, NEW S, IsFiniteSet(S)
  PROVE  \E g : Sums(g, f, SUBSET S)
<1> DEFINE UpTo(n) == {s \in SUBSET S : Cardinality(s) <= n}
           T == {n \in Nat : \E g : Sums(g, f, UpTo(n))}
<1>0. \A s \in SUBSET S : IsFiniteSet(s) /\ Cardinality(s) \in Nat /\ Cardinality(s) <= Cardinality(S)
  BY FS_Subset, FS_CardinalityType
<1>1. 0 \in T
  <2> DEFINE g == [s \in UpTo(0) |-> 0]
  <2>1. \A s \in UpTo(0) : s = {}
    BY <1>0, FS_EmptySet
  <2>2. g = [s \in UpTo(0) |-> NextSum(g, f, s)]
    BY <2>1 DEF NextSum
  <2> HIDE DEF g, UpTo
  <2>3. Sums(g, f, UpTo(0))
    BY <2>2 DEF Sums
  <2> QED BY <2>3
<1>2. ASSUME NEW n \in Nat, n \in T PROVE n + 1 \in T
  <2>1. PICK g : Sums(g, f, UpTo(n))
    BY <1>2
  <2> DEFINE h == [s \in UpTo(n + 1) |-> NextSum(g, f, s)]
  <2>2. ASSUME NEW s \in UpTo(n + 1) PROVE NextSum(g, f, s) = NextSum(h, f, s)
    <3>1. CASE s = {}
      BY <3>1 DEF NextSum
    <3>2. CASE s # {}
      <4> DEFINE t == s \ {Chosen(s)}
      <4>1. Chosen(s) \in s /\ Cardinality(s) <= n + 1 /\ s \in SUBSET S
        BY <3>2, ChosenIn
      <4>2. t \in UpTo(n)
        <5>1. Cardinality(t) = Cardinality(s) - 1
          BY <1>0, <4>1, FS_RemoveElement
        <5> QED BY <1>0, <4>1, <5>1
      <4>3. t \in UpTo(n + 1)
        BY <1>0, <4>2
      <4>4. g[t] = NextSum(g, f, t)
        BY <2>1, <4>2, SumsAt
      <4>5. h[t] = g[t]
        BY <4>3, <4>4
      <4> HIDE DEF h, UpTo
      <4> QED BY <3>2, <4>5 DEF NextSum
    <3> QED BY <3>1, <3>2
  <2>3. h = [s \in UpTo(n + 1) |-> NextSum(h, f, s)]
    BY <2>2
  <2> HIDE DEF h, UpTo
  <2>4. Sums(h, f, UpTo(n + 1))
    BY <2>3 DEF Sums
  <2> QED BY <2>4
<1>3. Cardinality(S) \in T
  <2> HIDE DEF T
  <2>1. Nat \subseteq T
    BY <1>1, <1>2, SetInduction
  <2> QED BY <1>0, <2>1
<1>4. UpTo(Cardinality(S)) = SUBSET S
  BY <1>0
<1> HIDE DEF UpTo
<1> QED BY <1>3, <1>4

\* The sum over a finite set by any function that solves the equation.
LEMMA SumBy ==
  ASSUME NEW f, NEW S, IsFiniteSet(S)
  PROVE  \E g : Sums(g, f, SUBSET S) /\ SumFunctionOnSet(f, S) = g[S]
<1> DEFINE g == CHOOSE g : Sums(g, f, SUBSET S)
<1>1. Sums(g, f, SUBSET S)
  BY SumsExist
<1>2. SumFunctionOnSet(f, S) = g[S]
  BY SumIs
<1> QED BY <1>1, <1>2

\* Any element may be the last to be added.
LEMMA SumsWithout ==
  ASSUME NEW f, NEW S, IsFiniteSet(S), \A x \in S : f[x] \in Int, NEW g, Sums(g, f, SUBSET S)
  PROVE  \A s \in SUBSET S : g[s] \in Int /\ \A y \in s : g[s] = f[y] + g[s \ {y}]
<1> DEFINE Good == {s \in SUBSET S : g[s] \in Int /\ \A y \in s : g[s] = f[y] + g[s \ {y}]}
<1>1. ASSUME NEW s \in SUBSET S, \A t \in SUBSET s : t # s => t \in Good
      PROVE  g[s] \in Int /\ \A y \in s : g[s] = f[y] + g[s \ {y}]
  <2>1. CASE s = {}
    <3>1. g[s] = 0
      BY <2>1, SumsAt DEF NextSum
    <3> QED BY <2>1, <3>1
  <2>2. CASE s # {}
    <3> DEFINE c == Chosen(s)
               t == s \ {c}
    <3>1. c \in s /\ g[s] = f[c] + g[t] /\ f[c] \in Int
      BY <2>2, SumsAt, ChosenIn DEF NextSum
    <3> HIDE DEF c
    <3>2. t \in SUBSET s /\ t # s
      BY <3>1
    <3>3. g[t] \in Int /\ \A y \in t : g[t] = f[y] + g[t \ {y}]
      BY <1>1, <3>2
    <3>4. ASSUME NEW y \in s, y # c PROVE g[s] = f[y] + g[s \ {y}]
      <4> DEFINE u == s \ {y}
                 v == t \ {y}
      <4>1. u \in SUBSET s /\ u # s /\ c \in u /\ u \ {c} = v
        BY <3>1, <3>4
      <4>2. g[u] = f[c] + g[v]
        <5>1. \A z \in u : g[u] = f[z] + g[u \ {z}]
          BY <1>1, <4>1
        <5> HIDE DEF u, v
        <5>2. g[u] = f[c] + g[u \ {c}]
          BY <4>1, <5>1
        <5> QED BY <4>1, <5>2
      <4>3. g[t] = f[y] + g[v] /\ f[y] \in Int
        BY <3>3, <3>4
      <4>4. v \in SUBSET s /\ v # s
        BY <3>1
      <4>5. g[v] \in Int
        BY <1>1, <4>4
      <4> HIDE DEF u, v
      <4>6. g[s] = f[c] + (f[y] + g[v])
        BY <3>1, <4>3
      <4>7. f[y] + g[u] = f[y] + (f[c] + g[v])
        BY <4>2
      <4>8. f[c] + (f[y] + g[v]) = f[y] + (f[c] + g[v])
        BY <3>1, <4>3, <4>5
      <4> QED BY <4>6, <4>7, <4>8 DEF u
    <3>5. g[s] \in Int
      BY <3>1, <3>3
    <3>6. \A y \in s : g[s] = f[y] + g[s \ {y}]
      BY <3>1, <3>4
    <3> QED BY <3>5, <3>6
  <2> QED BY <2>1, <2>2
<1>2. SUBSET S \subseteq Good
  <2>1. \A s \in SUBSET S : (\A t \in SUBSET s : t # s => t \in Good) => s \in Good
    BY <1>1
  <2> HIDE DEF Good
  <2> QED BY <2>1, SubsetInduction
<1> QED BY <1>2

\* It does not matter what the functions are outside the set.
Agree(f, e, T) == \A x \in T : f[x] = e[x]

LEMMA SumsSame ==
  ASSUME NEW f, NEW e, NEW S, NEW T \in SUBSET S, NEW g, NEW h, IsFiniteSet(T),
         Agree(f, e, T), Sums(g, f, SUBSET S), Sums(h, e, SUBSET T)
  PROVE  \A s \in SUBSET T : g[s] = h[s]
<1> DEFINE Good == {s \in SUBSET T : g[s] = h[s]}
<1>1. ASSUME NEW s \in SUBSET T, \A t \in SUBSET s : t # s => t \in Good
      PROVE  g[s] = h[s]
  <2>1. g[s] = NextSum(g, f, s) /\ h[s] = NextSum(h, e, s)
    <3>1. s \in SUBSET S
      OBVIOUS
    <3> QED BY <3>1, SumsAt
  <2>2. CASE s = {}
    BY <2>1, <2>2 DEF NextSum
  <2>3. CASE s # {}
    <3> DEFINE c == Chosen(s)
               t == s \ {c}
    <3>1. c \in s
      BY <2>3, ChosenIn
    <3> HIDE DEF c
    <3>2. t \in SUBSET s /\ t # s
      BY <3>1
    <3>3. g[t] = h[t]
      BY <1>1, <3>2
    <3>4. f[c] = e[c]
      BY <3>1 DEF Agree
    <3> QED BY <2>1, <2>3, <3>3, <3>4 DEF NextSum, c
  <2> QED BY <2>2, <2>3
<1>2. SUBSET T \subseteq Good
  <2>1. \A s \in SUBSET T : (\A t \in SUBSET s : t # s => t \in Good) => s \in Good
    BY <1>1
  <2> HIDE DEF Good
  <2> QED BY <2>1, SubsetInduction
<1> QED BY <1>2

LEMMA SumPart ==
  ASSUME NEW f, NEW S, NEW T \in SUBSET S, IsFiniteSet(T), NEW g, Sums(g, f, SUBSET S)
  PROVE  SumFunctionOnSet(f, T) = g[T]
<1>1. PICK h : Sums(h, f, SUBSET T) /\ SumFunctionOnSet(f, T) = h[T]
  BY SumBy
<1>2. \A s \in SUBSET T : g[s] = h[s]
  <2>1. Sums(h, f, SUBSET T) /\ Agree(f, f, T)
    BY <1>1 DEF Agree
  <2> QED BY <2>1, SumsSame
<1> QED BY <1>1, <1>2

LEMMA SumEqual ==
  ASSUME NEW f, NEW e, NEW S, IsFiniteSet(S), \A x \in S : f[x] = e[x]
  PROVE  SumFunctionOnSet(f, S) = SumFunctionOnSet(e, S)
<1>1. PICK g : Sums(g, f, SUBSET S) /\ SumFunctionOnSet(f, S) = g[S]
  BY SumBy
<1>2. PICK h : Sums(h, e, SUBSET S) /\ SumFunctionOnSet(e, S) = h[S]
  BY SumBy
<1>3. g[S] = h[S]
  <2>1. S \in SUBSET S
    OBVIOUS
  <2>2. \A s \in SUBSET S : g[s] = h[s]
    BY <1>1, <1>2, <2>1, SumsSame DEF Agree
  <2> QED BY <2>1, <2>2
<1> QED BY <1>1, <1>2, <1>3

LEMMA SumEmpty ==
  ASSUME NEW f
  PROVE  SumFunctionOnSet(f, {}) = 0
<1>1. IsFiniteSet({})
  BY FS_EmptySet
<1>2. PICK g : Sums(g, f, SUBSET {}) /\ SumFunctionOnSet(f, {}) = g[{}]
  BY <1>1, SumBy
<1>3. {} \in SUBSET {}
  OBVIOUS
<1> QED BY <1>2, <1>3, SumsAt DEF NextSum

LEMMA SumWithout ==
  ASSUME NEW f, NEW S, IsFiniteSet(S), \A x \in S : f[x] \in Int
  PROVE  /\ SumFunctionOnSet(f, S) \in Int
         /\ \A y \in S : SumFunctionOnSet(f, S) = f[y] + SumFunctionOnSet(f, S \ {y})
<1>1. PICK g : Sums(g, f, SUBSET S) /\ SumFunctionOnSet(f, S) = g[S]
  BY SumBy
<1>2. g[S] \in Int /\ \A y \in S : g[S] = f[y] + g[S \ {y}]
  <2>1. \A s \in SUBSET S : g[s] \in Int /\ \A y \in s : g[s] = f[y] + g[s \ {y}]
    BY <1>1, SumsWithout
  <2>2. S \in SUBSET S
    OBVIOUS
  <2> QED BY <2>1, <2>2
<1>3. ASSUME NEW T \in SUBSET S PROVE SumFunctionOnSet(f, T) = g[T]
  <2>1. IsFiniteSet(T)
    BY FS_Subset
  <2> QED BY <1>1, <2>1, SumPart
<1> QED BY <1>1, <1>2, <1>3

LEMMA SumAdded ==
  ASSUME NEW f, NEW S, IsFiniteSet(S), \A x \in S : f[x] \in Int, NEW y, y \notin S, f[y] \in Int
  PROVE  SumFunctionOnSet(f, S \cup {y}) = SumFunctionOnSet(f, S) + f[y]
<1> DEFINE T == S \cup {y}
<1>1. IsFiniteSet(T) /\ y \in T /\ T \ {y} = S /\ \A x \in T : f[x] \in Int
  BY FS_AddElement
<1> HIDE DEF T
<1>2. SumFunctionOnSet(f, T) = f[y] + SumFunctionOnSet(f, T \ {y})
  BY <1>1, SumWithout
<1>3. SumFunctionOnSet(f, S) \in Int
  BY SumWithout
<1>4. SumFunctionOnSet(f, T \ {y}) = SumFunctionOnSet(f, S)
  BY <1>1, Zenon
<1>5. SumFunctionOnSet(f, T) = SumFunctionOnSet(f, S) + f[y]
  BY <1>2, <1>3, <1>4
<1> QED BY <1>5, Zenon DEF T

\* A list of n elements of a set, each once.
Lists(q, n, S) == q \in [1..n -> S] /\ \A i, j \in 1..n : q[i] = q[j] => i = j
Listed(q, n) == {q[i] : i \in 1..n}

\* Adding up along a list comes to the same as adding up what it lists.
LEMMA SumCounted ==
  ASSUME NEW S, NEW n \in Nat, NEW q, Lists(q, n, S),
         NEW a, \A x \in S : a[x] \in Int, NEW h, \A i \in 1..n : h[i] = a[q[i]]
  PROVE  SumFunctionOnSet(h, 1..n) = SumFunctionOnSet(a, Listed(q, n))
<1>0. q \in [1..n -> S] /\ \A i, j \in 1..n : q[i] = q[j] => i = j
  BY DEF Lists
<1> DEFINE Counted(m) == {q[i] : i \in 1..m}
           T == {m \in Nat : m <= n =>
                   /\ IsFiniteSet(Counted(m))
                   /\ SumFunctionOnSet(h, 1..m) = SumFunctionOnSet(a, Counted(m))}
<1>1. 0 \in T
  <2>1. 1..0 = {} /\ Counted(0) = {}
    OBVIOUS
  <2>2. SumFunctionOnSet(h, {}) = 0 /\ SumFunctionOnSet(a, {}) = 0
    BY SumEmpty
  <2>3. SumFunctionOnSet(h, 1..0) = SumFunctionOnSet(a, Counted(0))
    BY <2>1, <2>2
  <2>4. IsFiniteSet(Counted(0))
    BY <2>1, FS_EmptySet
  <2> HIDE DEF Counted
  <2> QED BY <2>3, <2>4
<1>2. ASSUME NEW m \in Nat, m \in T PROVE m + 1 \in T
  <2> SUFFICES ASSUME m + 1 <= n
               PROVE  /\ IsFiniteSet(Counted(m + 1))
                      /\ SumFunctionOnSet(h, 1..(m + 1)) = SumFunctionOnSet(a, Counted(m + 1))
    OBVIOUS
  <2> DEFINE x == q[m + 1]
  <2>1. m \in 1..n \/ m = 0
    OBVIOUS
  <2>2. IsFiniteSet(Counted(m)) /\ SumFunctionOnSet(h, 1..m) = SumFunctionOnSet(a, Counted(m))
    BY <1>2
  <2>3. /\ m + 1 \in 1..n /\ \A i \in 1..m : i \in 1..n /\ i # m + 1
        /\ 1..(m + 1) = (1..m) \cup {m + 1} /\ m + 1 \notin 1..m
    OBVIOUS
  <2>4. h[m + 1] = a[x] /\ a[x] \in Int /\ \A i \in 1..m : h[i] \in Int
    BY <1>0, <2>3
  <2>5. Counted(m + 1) = Counted(m) \cup {x}
    BY <2>3
  <2>6. x \notin Counted(m) /\ \A y \in Counted(m) : a[y] \in Int
    BY <1>0, <2>3
  <2>7. SumFunctionOnSet(h, (1..m) \cup {m + 1}) = SumFunctionOnSet(h, 1..m) + h[m + 1]
    <3>1. PICK D : D = 1..m
      OBVIOUS
    <3>2. PICK k : k = m + 1
      OBVIOUS
    <3>3. IsFiniteSet(D)
      BY <3>1, FS_Interval
    <3>4. k \notin D /\ h[k] \in Int /\ \A i \in D : h[i] \in Int
      BY <2>3, <2>4, <3>1, <3>2
    <3>5. SumFunctionOnSet(h, D \cup {k}) = SumFunctionOnSet(h, D) + h[k]
      BY <3>3, <3>4, SumAdded
    <3> QED BY <3>1, <3>2, <3>5
  <2> HIDE DEF Counted, x
  <2>8. SumFunctionOnSet(a, Counted(m) \cup {x}) = SumFunctionOnSet(a, Counted(m)) + a[x]
    BY <2>2, <2>4, <2>6, SumAdded
  <2>9. IsFiniteSet(Counted(m) \cup {x})
    BY <2>2, FS_AddElement
  <2> QED BY <2>2, <2>3, <2>4, <2>5, <2>7, <2>8, <2>9
<1>3. n \in T
  <2> HIDE DEF T
  <2> QED BY <1>1, <1>2, SetInduction
<1>4. SumFunctionOnSet(h, 1..n) = SumFunctionOnSet(a, Counted(n))
  <2> HIDE DEF Counted
  <2>1. n <= n
    OBVIOUS
  <2> QED BY <1>3, <2>1
<1> QED BY <1>4 DEF Listed

LEMMA SetToSeqIs ==
  ASSUME NEW S, IsFiniteSet(S)
  PROVE  /\ SetToSeq(S) \in [1..Cardinality(S) -> S] /\ Cardinality(S) \in Nat
         /\ \A i, j \in 1..Cardinality(S) : SetToSeq(S)[i] = SetToSeq(S)[j] => i = j
         /\ \A x \in S : \E i \in 1..Cardinality(S) : SetToSeq(S)[i] = x
<1> DEFINE n == Cardinality(S)
           q == SetToSeq(S)
<1>1. n \in Nat /\ ExistsBijection(1..n, S)
  BY FS_CardinalityType
<1>2. \E f \in [1..n -> S] : IsInjective(f)
  BY <1>1 DEF ExistsBijection, Bijection, Injection
<1>3. q \in [1..n -> S] /\ IsInjective(q)
  BY <1>2 DEF SetToSeq
<1> HIDE DEF q
<1>4. \A i, j \in 1..n : q[i] = q[j] => i = j
  BY <1>3 DEF IsInjective
<1>5. q \in Surjection(1..n, S)
  <2>1. q \in Injection(1..n, S)
    BY <1>3 DEF Injection
  <2>2. IsFiniteSet(1..n) /\ Cardinality(1..n) = n
    BY <1>1, FS_Interval
  <2> QED BY <2>1, <2>2, FS_Injection
<1>6. \A x \in S : \E i \in 1..n : q[i] = x
  BY <1>3, <1>5 DEF Surjection
<1> QED BY <1>1, <1>3, <1>4, <1>6 DEF q

\* The amounts of a set of orders, whatever sequence they are listed in.
AmountIn == [o \in DOMAIN mem |-> mem[o].amount]

LEMMA SumListed ==
  ASSUME NEW S, IsFiniteSet(S), NEW a, \A x \in S : a[x] \in Int,
         NEW h, \A i \in 1..Cardinality(S) : h[i] = a[SetToSeq(S)[i]]
  PROVE  SumFunctionOnSet(h, 1..Cardinality(S)) = SumFunctionOnSet(a, S)
<1>1. PICK n \in Nat : n = Cardinality(S)
  BY FS_CardinalityType
<1>2. PICK q : q = SetToSeq(S)
  OBVIOUS
<1>3. Lists(q, n, S)
  BY <1>1, <1>2, SetToSeqIs DEF Lists
<1>4. \A i \in 1..n : h[i] = a[q[i]]
  BY <1>1, <1>2
<1>5. SumFunctionOnSet(h, 1..n) = SumFunctionOnSet(a, Listed(q, n))
  BY <1>3, <1>4, SumCounted
<1>6. Listed(q, n) = S
  <2>1. \A x \in S : \E i \in 1..n : q[i] = x
    BY <1>1, <1>2, SetToSeqIs
  <2> QED BY <1>3, <2>1 DEF Lists, Listed
<1> QED BY <1>1, <1>5, <1>6, Zenon

LEMMA TotalOfSet ==
  ASSUME NEW S \in SUBSET DOMAIN mem, IsFiniteSet(S), \A o \in DOMAIN mem : mem[o].amount \in Nat
  PROVE  Total(SetToSeq(S)) = SumFunctionOnSet(AmountIn, S)
<1> DEFINE n == Cardinality(S)
           q == SetToSeq(S)
           h == [i \in DOMAIN q |-> mem[q[i]].amount]
<1>1. q \in [1..n -> S] /\ n \in Nat
  BY SetToSeqIs
<1>2. DOMAIN q = 1..n /\ \A i \in 1..n : q[i] \in S
  BY <1>1
<1>3. DOMAIN h = 1..n /\ \A i \in 1..n : h[i] = AmountIn[q[i]]
  BY <1>2 DEF AmountIn
<1>4. \A x \in S : AmountIn[x] \in Int
  BY DEF AmountIn
<1>5. Total(q) = SumFunctionOnSet(h, DOMAIN h)
  BY Zenon DEF Total, SumFunction
<1> HIDE DEF h
<1>6. SumFunctionOnSet(h, 1..n) = SumFunctionOnSet(AmountIn, S)
  BY <1>3, <1>4, SumListed
<1> QED BY <1>3, <1>5, <1>6, Zenon

LEMMA SumNat ==
  ASSUME NEW f, NEW S, IsFiniteSet(S), \A x \in S : f[x] \in Nat
  PROVE  SumFunctionOnSet(f, S) \in Nat
<1> DEFINE Good == {s \in SUBSET S : SumFunctionOnSet(f, s) \in Nat}
<1>1. ASSUME NEW s \in SUBSET S, \A t \in SUBSET s : t # s => t \in Good
      PROVE  SumFunctionOnSet(f, s) \in Nat
  <2>1. CASE s = {}
    <3>1. SumFunctionOnSet(f, {}) = 0
      BY SumEmpty
    <3> QED BY <2>1, <3>1
  <2>2. CASE s # {}
    <3>1. PICK y \in s : TRUE
      BY <2>2
    <3> DEFINE t == s \ {y}
    <3>2. t \in SUBSET s /\ t # s
      BY <3>1
    <3>3. SumFunctionOnSet(f, t) \in Nat
      BY <1>1, <3>2
    <3>4. IsFiniteSet(s)
      BY FS_Subset
    <3>5. \A x \in s : f[x] \in Int
      OBVIOUS
    <3>6. SumFunctionOnSet(f, s) = f[y] + SumFunctionOnSet(f, t)
      BY <3>4, <3>5, SumWithout
    <3>7. f[y] \in Nat
      OBVIOUS
    <3> HIDE DEF t
    <3> QED BY <3>3, <3>6, <3>7
  <2> QED BY <2>1, <2>2
<1>2. \A s \in SUBSET S : (\A t \in SUBSET s : t # s => t \in Good) => s \in Good
  BY <1>1
<1> HIDE DEF Good
<1>3. SUBSET S \subseteq Good
  BY <1>2, SubsetInduction
<1> QED BY <1>3 DEF Good
=============================================================================
