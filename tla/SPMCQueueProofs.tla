--------------------------- MODULE SPMCQueueProofs ---------------------------
(***************************************************************************)
(* Proofs about SPMCQueue for any number of readers, blocks, indices and   *)
(* calls of write(), and then about the threads of Benchmark that use it.  *)
(***************************************************************************)
EXTENDS Benchmark, FiniteSetTheorems, TLAPS

-----------------------------------------------------------------------------
\* Numbers, blocks and wrapped indices.

\* The constants as the proofs use them: a power-of-two ring divides the index
\* range, and the ring with its dead writers fits into half of it.
LEMMA Constants ==
  /\ CNT \in Nat /\ CNT > 0
  /\ Half \in Nat /\ Half > 0
  /\ IdxMod \in Nat /\ IdxMod = 2 * Half /\ IdxMod > 0
  /\ MaxCrashes \in Nat
  /\ (MaxCrashes + 2) * CNT <= Half
<1>1. CNT \in Nat /\ CNT > 0 /\ IdxMod \in Nat /\ MaxCrashes \in Nat
  BY QueueAssumption
<1>2. IdxMod = 2 * Half /\ Half \in Nat
  BY QueueAssumption DEF Half
<1>3. (MaxCrashes + 2) * CNT <= Half
  BY QueueAssumption
<1>4. (MaxCrashes + 2) * CNT > 0
  BY <1>1
<1>5. Half > 0
  <2> DEFINE ring == (MaxCrashes + 2) * CNT
  <2>1. ring \in Int /\ ring > 0 /\ ring <= Half
    BY <1>1, <1>3, <1>4
  <2> HIDE DEF ring
  <2> QED BY <2>1, <1>2
<1> QED BY <1>1, <1>2, <1>3, <1>5

\* Every message number has a block.
LEMMA BlockInRange == \A n \in Nat : BlockOf(n) \in Block
BY QueueAssumption DEF BlockOf, Block

\* Two messages of the same block are at least one whole ring apart.
LEMMA SameBlockApart ==
  ASSUME NEW m \in Nat, NEW n \in Nat, BlockOf(m) = BlockOf(n), m > n
  PROVE  m >= n + CNT
<1> DEFINE p == m \div CNT
           q == n \div CNT
<1>1. m = CNT * p + BlockOf(m) /\ n = CNT * q + BlockOf(n) /\ p \in Int /\ q \in Int
  BY QueueAssumption DEF BlockOf
<1>2. BlockOf(n) \in Int
  BY QueueAssumption DEF BlockOf
<1>3. CNT \in Nat /\ CNT > 0
  BY Constants
<1> HIDE DEF p, q
<1>4. CNT * p > CNT * q
  BY <1>1, <1>2, <1>3
<1>5. p >= q + 1
  <2>1. CASE p <= q
    <3>1. CNT * p <= CNT * q
      BY <2>1, <1>1, <1>3
    <3> QED BY <3>1, <1>4, <1>1, <1>3
  <2> QED BY <2>1, <1>1
<1>6. CNT * p >= CNT * (q + 1)
  BY <1>5, <1>1, <1>3
<1>7. CNT * (q + 1) = CNT * q + CNT
  BY <1>1, <1>3
<1> QED BY <1>1, <1>2, <1>3, <1>6, <1>7

\* A message and the one a ring further back share their block.
LEMMA OneRoundBack ==
  ASSUME NEW n \in Nat, n >= CNT
  PROVE  BlockOf(n - CNT) = BlockOf(n)
<1> DEFINE q == n \div CNT
           b == n % CNT
<1>1. n = CNT * q + b /\ q \in Int /\ b \in 0..(CNT - 1)
  BY QueueAssumption
<1>2. CNT \in Nat /\ CNT > 0
  BY Constants
<1> HIDE DEF q, b
<1>3. n - CNT = CNT * (q - 1) + b
  BY <1>1, <1>2
<1>4. (CNT * (q - 1) + b) % CNT = b
  <2> DEFINE k == q - 1
  <2>1. k \in Int
    BY <1>1
  <2> HIDE DEF k
  <2>2. (CNT * k + b) % CNT = b
    BY <2>1, <1>1, QueueAssumption
  <2> QED BY <2>2 DEF k
<1> QED BY <1>3, <1>4 DEF BlockOf, b

\* Taking an index modulo the ring forgives its wrapping.
LEMMA BlockOfWrap == \A n \in Nat : BlockOf(Wrap(n)) = BlockOf(n)
<1> SUFFICES ASSUME NEW n \in Nat PROVE BlockOf(Wrap(n)) = BlockOf(n)
  OBVIOUS
<1> DEFINE k == IdxMod \div CNT
           q == n \div IdxMod
           i == n % IdxMod
           b == i % CNT
           p == i \div CNT
<1>1. IdxMod = CNT * k /\ k \in Int
  BY QueueAssumption
<1>2. n = IdxMod * q + i /\ q \in Int /\ i \in 0..(IdxMod - 1)
  BY Constants
<1>3. i = CNT * p + b /\ p \in Int /\ b \in 0..(CNT - 1)
  BY <1>2, QueueAssumption
<1>4. CNT \in Nat /\ IdxMod \in Nat
  BY Constants
<1> HIDE DEF k, q, i, b, p
<1>5. (CNT * k) * q = CNT * (k * q)
  BY <1>1, <1>2, <1>4
<1>6. n = CNT * (k * q) + (CNT * p + b)
  BY <1>1, <1>2, <1>3, <1>5
<1>7. CNT * (k * q) + (CNT * p + b) = CNT * (k * q + p) + b
  <2> DEFINE a == k * q
  <2>1. a \in Int
    BY <1>1, <1>2
  <2> HIDE DEF a
  <2>2. CNT * a + (CNT * p + b) = CNT * (a + p) + b
    BY <2>1, <1>3, <1>4
  <2> QED BY <2>2 DEF a
<1>8. (CNT * (k * q + p) + b) % CNT = b
  <2> DEFINE c == k * q + p
  <2>1. c \in Int
    BY <1>1, <1>2, <1>3
  <2> HIDE DEF c
  <2>2. (CNT * c + b) % CNT = b
    BY <2>1, <1>3, QueueAssumption
  <2> QED BY <2>2 DEF c
<1> QED BY <1>6, <1>7, <1>8 DEF BlockOf, Wrap, i, b

\* Wrapped indices are indices, and incrementing one names the next number.
LEMMA WrapInRange == \A n \in Int : Wrap(n) \in Index
BY Constants DEF Wrap, Index

LEMMA WrapShift ==
  ASSUME NEW n \in Nat, NEW d \in Int
  PROVE  Wrap(Wrap(n) + d) = Wrap(n + d)
<1> DEFINE q == n \div IdxMod
           i == n % IdxMod
           p == (i + d) \div IdxMod
           j == (i + d) % IdxMod
<1>1. n = IdxMod * q + i /\ q \in Int /\ i \in 0..(IdxMod - 1)
  BY Constants
<1>2. i + d = IdxMod * p + j /\ p \in Int /\ j \in 0..(IdxMod - 1)
  BY <1>1, Constants
<1>3. IdxMod \in Nat /\ IdxMod > 0
  BY Constants
<1> HIDE DEF q, i, p, j
<1>4. n + d = IdxMod * (q + p) + j
  BY <1>1, <1>2, <1>3
<1>5. (IdxMod * (q + p) + j) % IdxMod = j
  <2> DEFINE c == q + p
  <2>1. c \in Int
    BY <1>1, <1>2
  <2> HIDE DEF c
  <2>2. (IdxMod * c + j) % IdxMod = j
    BY <2>1, <1>2, <1>3
  <2> QED BY <2>2 DEF c
<1> QED BY <1>4, <1>5 DEF Wrap, i, j

\* The signed difference of two wrapped indices orders the numbers behind them
\* while these are less than half the index range apart.
LEMMA SignedDifference ==
  ASSUME NEW m \in Nat, NEW p \in Nat, p - m <= Half, m < p + Half
  PROVE  NotBefore(Wrap(m), Wrap(p)) <=> m >= p
<1> DEFINE q == p \div IdxMod
           i == p % IdxMod
<1>1. p = IdxMod * q + i /\ q \in Int /\ i \in 0..(IdxMod - 1)
  BY Constants
<1>2. Half \in Nat /\ IdxMod = 2 * Half /\ IdxMod > 0 /\ IdxMod \in Nat
  BY Constants
<1>3. Wrap(p) = i
  BY DEF Wrap
<1> HIDE DEF q, i
<1>4. Wrap(Wrap(m) - i) = Wrap(m - i)
  <2>1. Wrap(Wrap(m) + (-i)) = Wrap(m + (-i))
    BY <1>1, WrapShift
  <2>2. Wrap(m) + (-i) = Wrap(m) - i /\ m + (-i) = m - i
    BY <1>1, WrapInRange DEF Index
  <2> QED BY <2>1, <2>2
<1>5. CASE m >= p
  <2> DEFINE r == m - p
  <2>1. r \in 0..(IdxMod - 1) /\ r < Half
    BY <1>5, <1>2
  <2>2. m - i = IdxMod * q + r
    BY <1>1, <1>2
  <2> HIDE DEF r
  <2>3. (IdxMod * q + r) % IdxMod = r
    BY <2>1, <1>1, <1>2
  <2> QED BY <1>3, <1>4, <1>5, <2>1, <2>2, <2>3 DEF NotBefore, Wrap
<1>6. CASE m < p
  <2> DEFINE r == (m - p) + IdxMod
             k == q - 1
  <2>1. r \in 0..(IdxMod - 1) /\ r >= Half
    BY <1>6, <1>2
  <2>2. m - i = IdxMod * k + r /\ k \in Int
    BY <1>1, <1>2
  <2> HIDE DEF r, k
  <2>3. (IdxMod * k + r) % IdxMod = r
    BY <2>1, <2>2, <1>2
  <2>4. Wrap(m - i) = r
    BY <2>2, <2>3 DEF Wrap
  <2>5. ~(r < Half) /\ ~(m >= p)
    BY <2>1, <1>2, <1>6
  <2> QED BY <1>3, <1>4, <2>4, <2>5 DEF NotBefore
<1> QED BY <1>5, <1>6
-----------------------------------------------------------------------------
\* The inductive invariant: it holds at first ...
LEMMA InitIInv == Init => IInv
<1> SUFFICES ASSUME Init PROVE IInv
  OBVIOUS
<1> USE DEF Init
<1>1. 0 \in Index /\ Wrap(0) = 0
  BY Constants DEF Index, Wrap
<1>2. TypeOK
  <2>1. crashes \in 0..MaxCrashes /\ published \in SUBSET Nat
    BY Constants
  <2>2. copy \in [Reader -> [Word -> Nat \cup {Unread}]]
    OBVIOUS
  <2>3. data \in [Block -> [Word -> Nat]] /\ idx \in [Block -> Index]
    BY <1>1
  <2>4. /\ unfilled \in SUBSET Word /\ filling \in BOOLEAN
        /\ mode \in [Reader -> {"detached", "read", "last"}]
        /\ next_idx \in [Reader -> Index]
    BY <1>1
  <2>5. /\ written \in Nat /\ stamp \in [Block -> Nat]
        /\ pos \in [Reader -> Nat] /\ held \in [Reader -> Nat]
    OBVIOUS
  <2> QED BY <1>1, <2>1, <2>2, <2>3, <2>4, <2>5 DEF TypeOK
<1>3. Links
  BY <1>1 DEF Links
<1>4. Blocks
  BY DEF Blocks
<1>5. InProgress /\ Lag
  BY DEF InProgress, Lag
<1>6. Cursors
  BY DEF Cursors
<1> QED BY <1>2, <1>3, <1>4, <1>5, <1>6 DEF IInv

\* ... and every action of the writer keeps it: claiming a message, ...
LEMMA BeginWriteStep == IInv /\ BeginWrite => IInv'
<1> SUFFICES ASSUME IInv, BeginWrite PROVE IInv'
  OBVIOUS
<1> USE DEF BeginWrite, queueVars, readerVars, history
<1>1. TypeOK
  BY DEF IInv
<1>2. written \in Nat /\ write_idx \in Index /\ crashes \in Nat
  BY <1>1, Constants DEF TypeOK
<1>3. write_idx' \in Index
  BY <1>2, WrapInRange DEF Index
<1>4. TypeOK'
  BY <1>1, <1>3 DEF TypeOK
<1>5. Links'
  <2>1. Wrap(Wrap(written) + 1) = Wrap(written + 1)
    BY <1>2, WrapShift
  <2> QED BY <2>1 DEF IInv, Links
<1>6. published \subseteq 1..written
  BY DEF IInv, Blocks
<1>7. Blocks'
  BY <1>1, <1>2, <1>6 DEF IInv, TypeOK, Blocks
<1>8. InProgress'
  BY <1>2, <1>6 DEF InProgress
<1>9. Cursors'
  BY <1>1, <1>2 DEF IInv, TypeOK, Cursors
<1>10. Lag'
  <2> SUFFICES ASSUME NEW n \in 1..(written + 1)
               PROVE  n <= stamp[BlockOf(n)] + crashes * CNT + (IF n = written + 1 THEN CNT ELSE 0)
    BY <1>2 DEF Lag, Slack
  <2> DEFINE c == crashes * CNT
  <2>1. c \in Nat /\ CNT \in Nat /\ CNT > 0
    BY <1>2, Constants
  <2>2. stamp[BlockOf(n)] \in Nat
    BY <1>1, <1>2, BlockInRange DEF TypeOK
  <2> HIDE DEF c
  <2>3. CASE n # written + 1
    <3>1. n \in 1..written /\ Slack(n) = 0
      BY <2>3, <1>2 DEF Slack
    <3>2. n <= stamp[BlockOf(n)] + c + 0
      BY <3>1 DEF IInv, Lag, c
    <3> QED BY <3>2, <2>3 DEF c
  <2>4. CASE n = written + 1 /\ n <= CNT
    BY <2>1, <2>2, <2>4 DEF c
  <2>5. CASE n = written + 1 /\ n > CNT
    <3>1. (n - CNT) \in 1..written
      BY <2>1, <2>5, <1>2
    <3>2. BlockOf(n - CNT) = BlockOf(n)
      BY <2>5, <2>1, OneRoundBack
    <3>3. Slack(n - CNT) = 0
      BY DEF Slack
    <3>4. n - CNT <= stamp[BlockOf(n)] + c + 0
      BY <3>1, <3>2, <3>3 DEF IInv, Lag, c
    <3> QED BY <3>4, <2>1, <2>2, <2>5 DEF c
  <2> QED BY <2>3, <2>4, <2>5, <2>1
<1> QED BY <1>4, <1>5, <1>7, <1>8, <1>9, <1>10 DEF IInv

\* ... storing a word of its payload, ...
LEMMA FillWordStep == ASSUME IInv, NEW w \in Word, FillWord(w) PROVE IInv'
<1> USE DEF FillWord, queueVars, readerVars, history
<1>1. TypeOK
  BY DEF IInv
<1>2. written \in Nat /\ write_idx = Wrap(written) /\ written # 0
  BY <1>1 DEF TypeOK, IInv, Links, InProgress
<1>3. BlockOf(write_idx) = BlockOf(written) /\ BlockOf(written) \in Block
  BY <1>2, BlockOfWrap, BlockInRange
<1>4. data' = [data EXCEPT ![BlockOf(written)][w] = written]
  BY <1>3
<1>5. \A s \in Block, v \in Word :
        data'[s][v] = IF s = BlockOf(written) /\ v = w THEN written ELSE data[s][v]
  BY <1>4, <1>1, <1>3 DEF TypeOK
<1>6. TypeOK'
  BY <1>1, <1>2, <1>3, <1>4 DEF TypeOK
<1>7. Links'
  BY DEF IInv, Links
<1>8. Blocks'
  <2>1. \A s \in Block : stamp[s] \in Nat /\ stamp[s] <= written
    BY <1>1, <1>2 DEF TypeOK, IInv, Blocks
  <2>2. published' \subseteq 1..written'
    BY DEF IInv, Blocks
  <2>3. \A s \in Block : stamp'[s] # 0 => stamp'[s] \in published' /\ BlockOf(stamp'[s]) = s
    BY DEF IInv, Blocks
  <2>4. \A s \in Block, v \in Word : data'[s][v] \in stamp[s]..written
    BY <2>1, <1>5, <1>2 DEF IInv, Blocks
  <2>5. \A s \in Block, v \in Word : data'[s][v] # 0 => BlockOf(data'[s][v]) = s
    BY <1>5 DEF IInv, Blocks
  <2> QED BY <2>2, <2>3, <2>4, <2>5 DEF Blocks
<1>9. InProgress'
  BY <1>3, <1>5 DEF IInv, InProgress
<1>10. Cursors'
  BY DEF IInv, Cursors
<1>11. Lag'
  BY DEF IInv, Lag, Slack
<1> QED BY <1>6, <1>7, <1>8, <1>9, <1>10, <1>11 DEF IInv

\* ... publishing it, ...
LEMMA EndWriteStep == IInv /\ EndWrite => IInv'
<1> SUFFICES ASSUME IInv, EndWrite PROVE IInv'
  OBVIOUS
<1> USE DEF EndWrite, queueVars, readerVars, history
<1> DEFINE b == BlockOf(written)
<1>1. TypeOK
  BY DEF IInv
<1>2. written \in Nat /\ write_idx = Wrap(written) /\ written # 0 /\ write_idx \in Index
  BY <1>1 DEF TypeOK, IInv, Links, InProgress
<1>3. BlockOf(write_idx) = b /\ b \in Block
  BY <1>2, BlockOfWrap, BlockInRange
<1>4. /\ idx' = [idx EXCEPT ![b] = write_idx]
      /\ stamp' = [stamp EXCEPT ![b] = written]
  BY <1>3
<1>5. \A s \in Block : stamp[s] \in Nat /\ stamp[s] <= written
  BY <1>1, <1>2 DEF TypeOK, IInv, Blocks
<1>6. \A s \in Block : stamp'[s] = (IF s = b THEN written ELSE stamp[s])
  BY <1>4, <1>1, <1>3 DEF TypeOK
<1>7. TypeOK'
  <2>1. idx' \in [Block -> Index] /\ stamp' \in [Block -> Nat]
    <3>1. idx \in [Block -> Index] /\ stamp \in [Block -> Nat]
      BY <1>1 DEF TypeOK
    <3> HIDE DEF EndWrite
    <3>2. idx' \in [Block -> Index]
      BY <1>2, <1>4, <3>1
    <3>3. stamp' \in [Block -> Nat]
      BY <1>2, <1>4, <3>1
    <3> QED BY <3>2, <3>3
  <2>2. published' \in SUBSET Nat
    BY <1>1, <1>2 DEF TypeOK
  <2>3. /\ write_idx' \in Index /\ data' \in [Block -> [Word -> Nat]]
        /\ unfilled' \in SUBSET Word /\ filling' \in BOOLEAN
    BY <1>1 DEF TypeOK
  <2>4. /\ mode' \in [Reader -> {"detached", "read", "last"}]
        /\ next_idx' \in [Reader -> Index]
        /\ copy' \in [Reader -> [Word -> Nat \cup {Unread}]]
    BY <1>1 DEF TypeOK
  <2>5. /\ written' \in Nat /\ crashes' \in 0..MaxCrashes
        /\ pos' \in [Reader -> Nat] /\ held' \in [Reader -> Nat]
    BY <1>1 DEF TypeOK
  <2> QED BY <2>1, <2>2, <2>3, <2>4, <2>5 DEF TypeOK
<1>8. Links'
  BY <1>1, <1>2, <1>3, <1>4 DEF TypeOK, IInv, Links
<1>9. Blocks'
  <2>1. published' \subseteq 1..written'
    BY <1>2 DEF IInv, Blocks
  <2>2. \A s \in Block : stamp'[s] # 0 => stamp'[s] \in published' /\ BlockOf(stamp'[s]) = s
    BY <1>6 DEF IInv, Blocks
  <2>3. \A v \in Word : data[b][v] = written
    BY DEF IInv, InProgress
  <2>4. \A s \in Block, v \in Word : data'[s][v] \in stamp'[s]..written'
    BY <1>2, <1>5, <1>6, <2>3 DEF IInv, Blocks
  <2>5. \A s \in Block, v \in Word : data'[s][v] # 0 => BlockOf(data'[s][v]) = s
    BY DEF IInv, Blocks
  <2> QED BY <2>1, <2>2, <2>4, <2>5 DEF Blocks
<1>10. InProgress'
  BY DEF InProgress
<1>11. Cursors'
  <2> SUFFICES ASSUME NEW r \in Reader, held[r] # 0
               PROVE  held[r] \in published' /\ held[r] <= stamp'[BlockOf(held[r])]
    BY DEF IInv, Cursors
  <2>1. held[r] \in published /\ held[r] <= stamp[BlockOf(held[r])]
    BY DEF IInv, Cursors
  <2>2. held[r] \in Nat /\ held[r] <= written /\ BlockOf(held[r]) \in Block
    BY <1>1, <1>2, <2>1, BlockInRange DEF TypeOK, IInv, Blocks
  <2> QED BY <2>1, <2>2, <1>6
<1>12. Lag'
  <2> SUFFICES ASSUME NEW n \in 1..written
               PROVE  n <= stamp'[BlockOf(n)] + crashes * CNT + 0
    BY DEF Lag, Slack
  <2> DEFINE c == crashes * CNT
  <2>1. c \in Nat
    BY <1>1, Constants DEF TypeOK
  <2>2. BlockOf(n) \in Block
    BY <1>2, BlockInRange
  <2>3. n <= stamp[BlockOf(n)] + c + Slack(n)
    BY DEF IInv, Lag
  <2>4. CASE BlockOf(n) = b
    <3>1. stamp'[BlockOf(n)] = written
      BY <2>4, <1>6, <1>3
    <3> HIDE DEF c
    <3> QED BY <3>1, <2>1, <1>2 DEF c
  <2>5. CASE BlockOf(n) # b
    <3>1. n # written /\ stamp'[BlockOf(n)] = stamp[BlockOf(n)]
      BY <2>5, <2>2, <1>6
    <3> QED BY <3>1, <2>3 DEF Slack
  <2> QED BY <2>4, <2>5
<1> QED BY <1>7, <1>8, <1>9, <1>10, <1>11, <1>12 DEF IInv

\* ... or dying before that.
LEMMA CrashWriterStep == IInv /\ CrashWriter => IInv'
<1> SUFFICES ASSUME IInv, CrashWriter PROVE IInv'
  OBVIOUS
<1> USE DEF CrashWriter, queueVars, readerVars, history
<1>1. TypeOK
  BY DEF IInv
<1>2. crashes \in Nat /\ crashes + 1 \in 0..MaxCrashes
  BY <1>1, Constants DEF TypeOK
<1>3. TypeOK'
  BY <1>1, <1>2 DEF TypeOK
<1>4. Links'
  BY DEF IInv, Links
<1>5. Blocks'
  BY DEF IInv, Blocks
<1>6. InProgress'
  BY DEF InProgress
<1>7. Cursors'
  BY DEF IInv, Cursors
<1>8. Lag'
  <2> SUFFICES ASSUME NEW n \in 1..written
               PROVE  n <= stamp[BlockOf(n)] + (crashes + 1) * CNT + 0
    BY DEF Lag, Slack
  <2> DEFINE c == crashes * CNT
  <2>1. c \in Nat /\ CNT \in Nat /\ CNT > 0 /\ (crashes + 1) * CNT = c + CNT
    BY <1>2, Constants
  <2>2. stamp[BlockOf(n)] \in Nat
    BY <1>1, BlockInRange DEF TypeOK
  <2>3. n <= stamp[BlockOf(n)] + c + Slack(n)
    BY DEF IInv, Lag
  <2>4. Slack(n) \in Nat /\ Slack(n) <= CNT
    BY <2>1 DEF Slack
  <2> HIDE DEF c
  <2> QED BY <2>1, <2>2, <2>3, <2>4
<1> QED BY <1>3, <1>4, <1>5, <1>6, <1>7, <1>8 DEF IInv
-----------------------------------------------------------------------------
\* What a reader sees: the block it looks at is the block of the message it
\* expects, and the stamp found there is at most half the index range behind.
LEMMA Looking ==
  ASSUME IInv, NEW r \in Reader, mode[r] # "detached"
  PROVE  /\ pos[r] \in Nat /\ pos[r] # 0
         /\ next_idx[r] = Wrap(pos[r])
         /\ BlockAt(r) = BlockOf(pos[r]) /\ BlockAt(r) \in Block
         /\ stamp[BlockAt(r)] \in Nat
         /\ idx[BlockAt(r)] = Wrap(stamp[BlockAt(r)])
         /\ pos[r] - stamp[BlockAt(r)] <= Half
<1>1. TypeOK
  BY DEF IInv
<1>2. pos[r] \in Nat /\ pos[r] # 0 /\ next_idx[r] = Wrap(pos[r])
  BY <1>1 DEF TypeOK, IInv, Links, Cursors
<1>3. BlockAt(r) = BlockOf(pos[r]) /\ BlockAt(r) \in Block
  BY <1>2, BlockOfWrap, BlockInRange DEF BlockAt
<1> DEFINE m == stamp[BlockAt(r)]
           p == pos[r]
           c == crashes * CNT
<1>4. m \in Nat /\ idx[BlockAt(r)] = Wrap(m)
  BY <1>1, <1>3 DEF TypeOK, IInv, Links
<1>5. written \in Nat /\ p <= written + 1
  BY <1>1 DEF TypeOK, IInv, Cursors
<1>6. c \in Nat /\ c + 2 * CNT <= Half
  <2>1. crashes \in Nat /\ crashes <= MaxCrashes
    BY <1>1, Constants DEF TypeOK
  <2>2. crashes * CNT <= MaxCrashes * CNT /\ crashes * CNT \in Nat
    BY <2>1, Constants
  <2>3. (MaxCrashes + 2) * CNT = MaxCrashes * CNT + 2 * CNT
    BY Constants
  <2> DEFINE k == MaxCrashes * CNT
             t == (MaxCrashes + 2) * CNT
  <2>4. k \in Nat /\ c \in Nat /\ c <= k /\ t = k + 2 * CNT /\ t <= Half
    BY <2>2, <2>3, Constants
  <2> HIDE DEF c, k, t
  <2> QED BY <2>4, Constants
<1>7. CNT \in Nat /\ CNT > 0 /\ Half \in Nat
  BY Constants
<1> HIDE DEF c, m, p
<1>8. \A n \in 1..written : BlockOf(n) = BlockAt(r) => n <= m + c + CNT
  <2> SUFFICES ASSUME NEW n \in 1..written, BlockOf(n) = BlockAt(r) PROVE n <= m + c + CNT
    OBVIOUS
  <2>1. n <= m + c + Slack(n)
    BY DEF IInv, Lag, m, c
  <2>2. Slack(n) \in Nat /\ Slack(n) <= CNT
    BY <1>7 DEF Slack
  <2> QED BY <2>1, <2>2, <1>4, <1>6, <1>7
<1>9. p - m <= Half
  <2>1. p \in Nat /\ p # 0 /\ BlockOf(p) = BlockAt(r)
    BY <1>2, <1>3 DEF p
  <2>2. CASE p <= written
    <3>1. p <= m + c + CNT
      BY <2>1, <2>2, <1>5, <1>8
    <3> QED BY <3>1, <2>1, <1>4, <1>6, <1>7
  <2>3. CASE p = written + 1 /\ p > CNT
    <3>1. (p - CNT) \in 1..written /\ BlockOf(p - CNT) = BlockAt(r)
      BY <2>1, <2>3, <1>5, <1>7, OneRoundBack
    <3>2. p - CNT <= m + c + CNT
      BY <3>1, <1>8
    <3> QED BY <3>2, <2>1, <1>4, <1>6, <1>7
  <2>4. CASE p <= CNT
    BY <2>1, <2>4, <1>4, <1>6, <1>7
  <2> QED BY <2>1, <2>2, <2>3, <2>4, <1>5, <1>7
<1> QED BY <1>2, <1>3, <1>4, <1>9 DEF m, p

\* Hence the signed comparison of read() decides as the numbers do.
LEMMA IInvWrapSafe == IInv => WrapSafe
<1> SUFFICES ASSUME IInv, NEW r \in Reader, mode[r] # "detached",
                    stamp[BlockAt(r)] < pos[r] + Half
             PROVE  Readable(r) <=> stamp[BlockAt(r)] >= pos[r]
  BY DEF WrapSafe
<1> QED BY Looking, SignedDifference DEF Readable

\* A read() that succeeds moves the reader to a published message of the block
\* it looked at, and further than the next one only when it was lapped.
LEMMA Taken ==
  ASSUME IInv, NEW r \in Reader, mode[r] # "detached", TakeBlock(r), NEW m, m = stamp[BlockAt(r)]
  PROVE  /\ m \in published /\ m \in Nat
         /\ pos[r] \in Nat /\ pos[r] # 0
         /\ m >= pos[r]
         /\ m <= written
         /\ BlockOf(m) = BlockAt(r)
         /\ m > pos[r] => written >= pos[r] + CNT
         /\ next_idx' = [next_idx EXCEPT ![r] = Wrap(m + 1)]
<1>1. /\ pos[r] \in Nat /\ pos[r] # 0 /\ m \in Nat
      /\ BlockAt(r) \in Block /\ BlockAt(r) = BlockOf(pos[r]) /\ idx[BlockAt(r)] = Wrap(m)
  BY Looking
<1>2. Half \in Nat /\ CNT \in Nat
  BY Constants
<1>3. m >= pos[r]
  <2>1. CASE m < pos[r] + Half
    BY <2>1, IInvWrapSafe DEF WrapSafe, TakeBlock
  <2> QED BY <2>1, <1>1, <1>2
<1>4. m # 0
  BY <1>1, <1>3
<1>5. m \in published /\ BlockOf(m) = BlockAt(r)
  BY <1>1, <1>4 DEF IInv, Blocks
<1>6. written \in Nat /\ m <= written
  BY <1>5 DEF IInv, Blocks, TypeOK
<1>7. m > pos[r] => written >= pos[r] + CNT
  <2> SUFFICES ASSUME m > pos[r] PROVE written >= pos[r] + CNT
    OBVIOUS
  <2>1. m >= pos[r] + CNT
    BY <1>1, <1>5, SameBlockApart
  <2> QED BY <2>1, <1>1, <1>2, <1>6
<1>8. Wrap(idx[BlockAt(r)] + 1) = Wrap(m + 1)
  BY <1>1, WrapShift
<1> QED BY <1>1, <1>3, <1>5, <1>6, <1>7, <1>8 DEF TakeBlock

\* The invariant survives a read() that succeeds, ...
LEMMA TakeBlockStep ==
  ASSUME IInv, NEW r \in Reader, mode[r] # "detached", TakeBlock(r), UNCHANGED mode
  PROVE  IInv'
<1> DEFINE m == stamp[BlockAt(r)]
<1>1. TypeOK
  BY DEF IInv
<1>2. /\ m \in published /\ m \in Nat /\ m <= written /\ BlockOf(m) = BlockAt(r)
      /\ next_idx' = [next_idx EXCEPT ![r] = Wrap(m + 1)]
      /\ pos[r] # 0 /\ m >= pos[r] /\ pos[r] \in Nat
  BY Taken
<1>3. /\ UNCHANGED <<queueVars, written, stamp, published, crashes, mode>>
      /\ copy' = [copy EXCEPT ![r] = [w \in Word |-> Unread]]
      /\ pos' = [pos EXCEPT ![r] = m + 1]
      /\ held' = [held EXCEPT ![r] = m]
  BY DEF TakeBlock
<1>4. stamp[BlockOf(m)] = m /\ m # 0 /\ written \in Nat
  BY <1>1, <1>2 DEF TypeOK
<1> HIDE DEF m
<1> USE DEF queueVars
<1>5. TypeOK'
  <2>1. next_idx' \in [Reader -> Index]
    BY <1>1, <1>2, WrapInRange DEF TypeOK
  <2>2. pos' \in [Reader -> Nat] /\ held' \in [Reader -> Nat]
    BY <1>1, <1>2, <1>3 DEF TypeOK
  <2>3. copy' \in [Reader -> [Word -> Nat \cup {Unread}]]
    BY <1>1, <1>3 DEF TypeOK
  <2>4. /\ write_idx' \in Index /\ idx' \in [Block -> Index]
        /\ data' \in [Block -> [Word -> Nat]] /\ unfilled' \in SUBSET Word
        /\ filling' \in BOOLEAN /\ mode' \in [Reader -> {"detached", "read", "last"}]
        /\ written' \in Nat /\ stamp' \in [Block -> Nat]
        /\ published' \in SUBSET Nat /\ crashes' \in 0..MaxCrashes
    BY <1>1, <1>3 DEF TypeOK
  <2> QED BY <2>1, <2>2, <2>3, <2>4 DEF TypeOK
<1>6. Links'
  BY <1>1, <1>2, <1>3 DEF IInv, TypeOK, Links
<1>7. Blocks'
  BY <1>3 DEF IInv, Blocks
<1>8. InProgress'
  BY <1>3 DEF IInv, InProgress
<1>9. Cursors'
  <2> SUFFICES ASSUME NEW q \in Reader
               PROVE  /\ mode[q] = "detached" <=> pos'[q] = 0
                      /\ pos'[q] <= written + 1
                      /\ held'[q] # 0 =>
                            /\ held'[q] \in published
                            /\ held'[q] < pos'[q]
                            /\ held'[q] <= stamp[BlockOf(held'[q])]
                            /\ \A w \in Word : copy'[q][w] # Unread =>
                                  /\ copy'[q][w] \in held'[q]..written
                                  /\ BlockOf(copy'[q][w]) = BlockOf(held'[q])
    BY <1>3 DEF Cursors
  <2>1. CASE q = r
    <3>1. pos'[q] = m + 1 /\ held'[q] = m /\ \A w \in Word : copy'[q][w] = Unread
      BY <2>1, <1>1, <1>3 DEF TypeOK
    <3>2. mode[q] # "detached"
      BY <2>1
    <3> QED BY <3>1, <3>2, <1>2, <1>4
  <2>2. CASE q # r
    <3>1. pos'[q] = pos[q] /\ held'[q] = held[q] /\ copy'[q] = copy[q]
      BY <2>2, <1>1, <1>3 DEF TypeOK
    <3> QED BY <3>1 DEF IInv, Cursors
  <2> QED BY <2>1, <2>2
<1>10. Lag'
  BY <1>3 DEF IInv, Lag, Slack
<1> QED BY <1>5, <1>6, <1>7, <1>8, <1>9, <1>10 DEF IInv

\* ... attaching, ...
LEMMA GetReaderStep == ASSUME IInv, NEW r \in Reader, GetReader(r) PROVE IInv'
<1> USE DEF GetReader, queueVars
<1>1. TypeOK
  BY DEF IInv
<1>2. written \in Nat /\ write_idx = Wrap(written) /\ write_idx \in Index
  BY <1>1 DEF TypeOK, IInv, Links
<1>3. PICK back \in {0, 1} :
        /\ back = 1 => filling
        /\ next_idx' = [next_idx EXCEPT ![r] = Wrap(write_idx - back + 1)]
        /\ pos' = [pos EXCEPT ![r] = written - back + 1]
  <2>1. PICK back \in IF filling THEN {0, 1} ELSE {0} :
          /\ next_idx' = [next_idx EXCEPT ![r] = Wrap(write_idx - back + 1)]
          /\ pos' = [pos EXCEPT ![r] = written - back + 1]
    OBVIOUS
  <2>2. back \in {0, 1} /\ (back = 1 => filling)
    BY <2>1
  <2> QED BY <2>1, <2>2
<1> DEFINE p == written - back + 1
<1>4. p \in Nat /\ p # 0 /\ p <= written + 1
  BY <1>2, <1>3 DEF IInv, InProgress
<1>5. Wrap(write_idx - back + 1) = Wrap(p)
  <2>1. Wrap(Wrap(written) + (1 - back)) = Wrap(written + (1 - back))
    BY <1>2, WrapShift
  <2>2. write_idx - back + 1 = Wrap(written) + (1 - back) /\ p = written + (1 - back)
    BY <1>2 DEF Index
  <2> QED BY <2>1, <2>2
<1> HIDE DEF p
<1>6. next_idx' = [next_idx EXCEPT ![r] = Wrap(p)] /\ pos' = [pos EXCEPT ![r] = p]
  BY <1>3, <1>5 DEF p
<1>7. TypeOK'
  <2>1. next_idx' \in [Reader -> Index]
    BY <1>1, <1>4, <1>6, WrapInRange DEF TypeOK
  <2>2. pos' \in [Reader -> Nat]
    BY <1>1, <1>4, <1>6 DEF TypeOK
  <2>3. mode' \in [Reader -> {"detached", "read", "last"}]
    BY <1>1 DEF TypeOK
  <2>4. /\ write_idx' \in Index /\ idx' \in [Block -> Index]
        /\ data' \in [Block -> [Word -> Nat]] /\ unfilled' \in SUBSET Word
        /\ filling' \in BOOLEAN /\ copy' \in [Reader -> [Word -> Nat \cup {Unread}]]
        /\ written' \in Nat /\ stamp' \in [Block -> Nat] /\ held' \in [Reader -> Nat]
        /\ published' \in SUBSET Nat /\ crashes' \in 0..MaxCrashes
    BY <1>1 DEF TypeOK
  <2> QED BY <2>1, <2>2, <2>3, <2>4 DEF TypeOK
<1>8. Links'
  <2>1. \A q \in Reader : mode'[q] # "detached" => next_idx'[q] = Wrap(pos'[q])
    BY <1>1, <1>6 DEF IInv, TypeOK, Links
  <2> QED BY <2>1 DEF IInv, Links
<1>9. Blocks'
  BY DEF IInv, Blocks
<1>10. InProgress'
  BY DEF IInv, InProgress
<1>11. Cursors'
  <2> SUFFICES ASSUME NEW q \in Reader
               PROVE  /\ mode'[q] = "detached" <=> pos'[q] = 0
                      /\ pos'[q] <= written + 1
                      /\ held[q] # 0 => held[q] < pos'[q]
    BY DEF IInv, Cursors
  <2>1. CASE q = r
    <3>1. pos'[q] = p /\ mode'[q] = "read"
      BY <2>1, <1>1, <1>6 DEF TypeOK
    <3>2. held[q] = 0
      <4>1. pos[q] = 0 /\ held[q] \in Nat
        BY <2>1, <1>1 DEF IInv, Cursors, TypeOK
      <4> QED BY <4>1 DEF IInv, Cursors
    <3> QED BY <3>1, <3>2, <1>4
  <2>2. CASE q # r
    <3>1. pos'[q] = pos[q] /\ mode'[q] = mode[q]
      BY <2>2, <1>1, <1>6 DEF TypeOK
    <3> QED BY <3>1 DEF IInv, Cursors
  <2> QED BY <2>1, <2>2
<1>12. Lag'
  BY DEF IInv, Lag, Slack
<1> QED BY <1>7, <1>8, <1>9, <1>10, <1>11, <1>12 DEF IInv

\* ... entering and leaving readLast(), ...
LEMMA ReadLastBounds ==
  ASSUME IInv, NEW r \in Reader, BeginReadLast(r) \/ EndReadLast(r)
  PROVE  IInv'
<1> USE DEF BeginReadLast, EndReadLast, queueVars, history
<1>1. TypeOK
  BY DEF IInv
<1>2. TypeOK'
  <2>1. mode' \in [Reader -> {"detached", "read", "last"}]
    BY <1>1 DEF TypeOK
  <2>2. copy' \in [Reader -> [Word -> Nat \cup {Unread}]] /\ held' \in [Reader -> Nat]
    <3>1. CASE BeginReadLast(r)
      BY <1>1, <3>1 DEF TypeOK
    <3>2. CASE EndReadLast(r)
      BY <1>1, <3>2 DEF TypeOK
    <3> QED BY <3>1, <3>2
  <2>3. UNCHANGED <<queueVars, next_idx, written, stamp, pos, published, crashes>>
    OBVIOUS
  <2>4. /\ write_idx' \in Index /\ idx' \in [Block -> Index]
        /\ data' \in [Block -> [Word -> Nat]] /\ unfilled' \in SUBSET Word
        /\ filling' \in BOOLEAN /\ next_idx' \in [Reader -> Index]
        /\ written' \in Nat /\ stamp' \in [Block -> Nat] /\ pos' \in [Reader -> Nat]
        /\ published' \in SUBSET Nat /\ crashes' \in 0..MaxCrashes
    BY <1>1, <2>3 DEF TypeOK
  <2> QED BY <2>1, <2>2, <2>4 DEF TypeOK
<1>3. Links'
  BY <1>1 DEF IInv, TypeOK, Links
<1>4. Blocks' /\ InProgress'
  BY DEF IInv, Blocks, InProgress
<1>5. Cursors'
  <2> SUFFICES ASSUME NEW q \in Reader
               PROVE  /\ mode'[q] = "detached" <=> mode[q] = "detached"
                      /\ held'[q] # 0 => held'[q] = held[q] /\ copy'[q] = copy[q]
    BY DEF IInv, Cursors
  <2> QED BY <1>1 DEF TypeOK
<1>6. Lag'
  BY DEF IInv, Lag, Slack
<1> QED BY <1>2, <1>3, <1>4, <1>5, <1>6 DEF IInv

\* ... and reading through the pointer, which finds the message handed out or
\* one that is a whole number of rounds later.
LEMMA WordFound ==
  ASSUME IInv, NEW r \in Reader, NEW w \in Word, ReadWord(r, w),
         NEW v, v = data[BlockOf(held[r])][w]
  PROVE  /\ v \in held[r]..written /\ v \in Nat /\ v # 0
         /\ BlockOf(v) = BlockOf(held[r])
         /\ v = held[r] \/ held[r] + CNT <= v
<1>1. TypeOK /\ written \in Nat /\ held[r] \in Nat /\ held[r] # 0
  BY DEF IInv, TypeOK, ReadWord
<1>2. BlockOf(held[r]) \in Block
  BY <1>1, BlockInRange
<1>3. stamp[BlockOf(held[r])] \in Nat /\ held[r] <= stamp[BlockOf(held[r])]
  BY <1>1, <1>2 DEF IInv, TypeOK, Cursors
<1>4. v \in stamp[BlockOf(held[r])]..written
  BY <1>2 DEF IInv, Blocks
<1>5. v \in held[r]..written /\ v \in Nat /\ v # 0
  BY <1>1, <1>3, <1>4
<1>6. BlockOf(v) = BlockOf(held[r])
  BY <1>2, <1>5 DEF IInv, Blocks
<1>7. v = held[r] \/ held[r] + CNT <= v
  BY <1>1, <1>5, <1>6, SameBlockApart, Constants
<1> QED BY <1>5, <1>6, <1>7

LEMMA ReadWordStep ==
  ASSUME IInv, NEW r \in Reader, NEW w \in Word, ReadWord(r, w)
  PROVE  IInv'
<1> USE DEF queueVars, history
<1> DEFINE v == data[BlockOf(held[r])][w]
<1>1. TypeOK
  BY DEF IInv
<1>2. v \in held[r]..written /\ v \in Nat /\ BlockOf(v) = BlockOf(held[r])
  BY WordFound
<1>3. /\ copy' = [copy EXCEPT ![r][w] = v]
      /\ UNCHANGED <<queueVars, mode, next_idx, history>>
  BY DEF ReadWord
<1> HIDE DEF v
<1>4. TypeOK'
  <2>1. copy' \in [Reader -> [Word -> Nat \cup {Unread}]]
    BY <1>1, <1>2, <1>3 DEF TypeOK
  <2> QED BY <1>1, <1>3, <2>1 DEF TypeOK
<1>5. Links' /\ Blocks' /\ InProgress' /\ Lag'
  BY <1>3 DEF IInv, Links, Blocks, InProgress, Lag, Slack
<1>6. Cursors'
  <2> SUFFICES ASSUME NEW q \in Reader, held[q] # 0, NEW u \in Word, copy'[q][u] # Unread
               PROVE  copy'[q][u] \in held[q]..written /\ BlockOf(copy'[q][u]) = BlockOf(held[q])
    BY <1>3 DEF IInv, Cursors
  <2>1. copy'[q][u] = IF q = r /\ u = w THEN v ELSE copy[q][u]
    BY <1>1, <1>3 DEF TypeOK
  <2>2. CASE q = r /\ u = w
    BY <2>1, <2>2, <1>2
  <2>3. CASE ~(q = r /\ u = w)
    BY <2>1, <2>3 DEF IInv, Cursors
  <2> QED BY <2>2, <2>3
<1> QED BY <1>4, <1>5, <1>6 DEF IInv

\* All steps together.
LEMMA NextIInv == IInv /\ [Next]_vars => IInv'
<1> SUFFICES ASSUME IInv, [Next]_vars PROVE IInv'
  OBVIOUS
<1>1. CASE BeginWrite
  BY <1>1, BeginWriteStep
<1>2. ASSUME NEW w \in Word, FillWord(w) PROVE IInv'
  BY <1>2, FillWordStep
<1>3. CASE EndWrite
  BY <1>3, EndWriteStep
<1>4. CASE CrashWriter
  BY <1>4, CrashWriterStep
<1>5. ASSUME NEW r \in Reader, GetReader(r) PROVE IInv'
  BY <1>5, GetReaderStep
<1>6. ASSUME NEW r \in Reader, Read(r) \/ ReadLastStep(r) PROVE IInv'
  <2>1. mode[r] # "detached" /\ TakeBlock(r) /\ UNCHANGED mode
    BY <1>6 DEF Read, ReadLastStep
  <2> QED BY <2>1, TakeBlockStep
<1>7. ASSUME NEW r \in Reader, BeginReadLast(r) \/ EndReadLast(r) PROVE IInv'
  BY <1>7, ReadLastBounds
<1>8. ASSUME NEW r \in Reader, NEW w \in Word, ReadWord(r, w) PROVE IInv'
  BY <1>8, ReadWordStep
<1>9. CASE UNCHANGED vars
  BY <1>9 DEF vars, queueVars, readerVars, history, IInv, TypeOK, Links, Blocks,
              InProgress, Cursors, Lag, Slack, BlockAt
<1> QED BY <1>1, <1>2, <1>3, <1>4, <1>5, <1>6, <1>7, <1>8, <1>9 DEF Next

\* The inductive invariant, and with it the types, of every reachable state.
THEOREM Invariance == Spec => []IInv
BY InitIInv, NextIInv, PTL DEF Spec

THEOREM TypeCorrect == Spec => []TypeOK
<1>1. IInv => TypeOK
  BY DEF IInv
<1> QED BY <1>1, Invariance, PTL
-----------------------------------------------------------------------------
\* The comparison of 32-bit indices in read() is that of the message numbers,
\* for any ring and any number of dead writers that fit into half the indices.
THEOREM WrapSafety == Spec => []WrapSafe
BY Invariance, IInvWrapSafe, PTL

\* What a reader reads through its pointer is one message, unless it was lapped.
THEOREM Intactness == Spec => []IntactUnlessLapped
<1>1. IInv => IntactUnlessLapped
  <2> SUFFICES ASSUME IInv, NEW r \in Reader, held[r] # 0, written < held[r] + CNT,
                      NEW w \in Word, copy[r][w] # Unread
               PROVE  copy[r][w] = held[r]
    BY DEF IntactUnlessLapped
  <2> DEFINE v == copy[r][w]
  <2>1. v \in held[r]..written /\ BlockOf(v) = BlockOf(held[r])
    BY DEF IInv, Cursors
  <2>2. held[r] \in Nat /\ written \in Nat /\ CNT \in Nat
    BY Constants DEF IInv, TypeOK
  <2> HIDE DEF v
  <2>3. ~(v > held[r])
    BY <2>1, <2>2, SameBlockApart
  <2> QED BY <2>1, <2>2, <2>3 DEF v
<1> QED BY <1>1, Invariance, PTL

\* Even a lapped reader never sees anything older than its message, and every
\* message handed out was published.
THEOREM Freshness == Spec => []NeverStale
<1>1. IInv => NeverStale
  BY DEF IInv, TypeOK, Cursors, NeverStale
<1> QED BY <1>1, Invariance, PTL

\* Messages are handed out in order and without repetition, and none is skipped
\* before the writer is a whole ring ahead.
THEOREM NoLoss == Spec => NoLossUnlessLapped
<1> DEFINE Kept(r) == pos'[r] # pos[r] /\ pos[r] # 0 =>
                        /\ held'[r] + 1 = pos'[r]
                        /\ held'[r] >= pos[r]
                        /\ held'[r] > pos[r] => written >= pos[r] + CNT
<1>1. ASSUME IInv, Next, NEW q \in Reader PROVE Kept(q)
  <2>1. TypeOK
    BY <1>1 DEF IInv
  <2>2. ASSUME NEW r \in Reader, Read(r) \/ ReadLastStep(r) PROVE Kept(q)
    <3> DEFINE m == stamp[BlockAt(r)]
    <3>1. mode[r] # "detached" /\ TakeBlock(r)
      BY <2>2 DEF Read, ReadLastStep
    <3>2. m \in Nat /\ m >= pos[r] /\ (m > pos[r] => written >= pos[r] + CNT)
      BY <1>1, <3>1, Taken
    <3>3. pos' = [pos EXCEPT ![r] = m + 1] /\ held' = [held EXCEPT ![r] = m]
      BY <3>1 DEF TakeBlock
    <3> HIDE DEF m
    <3>4. CASE q = r
      BY <3>2, <3>3, <3>4, <2>1 DEF TypeOK
    <3>5. CASE q # r
      BY <3>3, <3>5, <2>1 DEF TypeOK
    <3> QED BY <3>4, <3>5
  <2>3. ASSUME NEW r \in Reader, GetReader(r) PROVE Kept(q)
    <3>1. CASE q = r
      BY <1>1, <2>3, <3>1 DEF GetReader, IInv, Cursors
    <3>2. CASE q # r
      BY <2>3, <3>2, <2>1 DEF GetReader, TypeOK
    <3> QED BY <3>1, <3>2
  <2>4. CASE BeginWrite \/ (\E w \in Word : FillWord(w)) \/ EndWrite \/ CrashWriter
    BY <2>4 DEF BeginWrite, FillWord, EndWrite, CrashWriter, history
  <2>5. ASSUME NEW r \in Reader, BeginReadLast(r) \/ EndReadLast(r) PROVE Kept(q)
    BY <2>5 DEF BeginReadLast, EndReadLast, history
  <2>6. ASSUME NEW r \in Reader, NEW w \in Word, ReadWord(r, w) PROVE Kept(q)
    BY <2>6 DEF ReadWord, history
  <2> QED BY <1>1, <2>2, <2>3, <2>4, <2>5, <2>6 DEF Next
<1>2. IInv /\ [Next]_vars => [\A r \in Reader : Kept(r)]_vars
  BY <1>1
<1> QED BY <1>2, Invariance, PTL DEF Spec, NoLossUnlessLapped
-----------------------------------------------------------------------------
\* A block is never stamped back: what was published is in its block, or was overwritten
\* by a later message of the block.
StampsStay == \A n \in published : n <= stamp[BlockOf(n)]

LEMMA StampsStayStep == IInv /\ StampsStay /\ [Next]_vars => StampsStay'
<1> SUFFICES ASSUME IInv, StampsStay, [Next]_vars PROVE StampsStay'
  OBVIOUS
<1>1. CASE EndWrite
  <2>1. /\ written \in Nat /\ write_idx = Wrap(written)
        /\ stamp \in [Block -> Nat] /\ published \subseteq 1..written
    BY DEF IInv, TypeOK, Links, Blocks
  <2>2. BlockOf(write_idx) = BlockOf(written) /\ BlockOf(written) \in Block
    BY <2>1, BlockOfWrap, BlockInRange
  <2>3. /\ stamp' = [stamp EXCEPT ![BlockOf(written)] = written]
        /\ published' = published \cup {written}
    BY <1>1, <2>2 DEF EndWrite
  <2>4. ASSUME NEW n \in published' PROVE n <= stamp'[BlockOf(n)]
    <3>1. n \in Nat /\ n <= written /\ BlockOf(n) \in Block
      BY <2>1, <2>3, BlockInRange
    <3>2. CASE BlockOf(n) = BlockOf(written)
      BY <2>1, <2>3, <3>1, <3>2
    <3>3. CASE BlockOf(n) # BlockOf(written)
      <4>1. n \in published
        BY <2>3, <3>3
      <4> QED BY <2>1, <2>3, <3>1, <3>3, <4>1 DEF StampsStay
    <3> QED BY <3>2, <3>3
  <2> QED BY <2>4 DEF StampsStay
<1>2. CASE ~EndWrite
  <2>1. UNCHANGED <<stamp, published>>
    BY <1>2 DEF Next, vars, history, BeginWrite, FillWord, CrashWriter, GetReader, Read, TakeBlock,
                BeginReadLast, ReadLastStep, EndReadLast, ReadWord
  <2> QED BY <2>1 DEF StampsStay
<1> QED BY <1>1, <1>2

LEMMA NotStuck ==
  ASSUME IInv, StampsStay, NEW r \in Reader, NEW n \in published, pos[r] \in 1..n
  PROVE  \/ Readable(r)
         \/ Abandoned(pos[r]) /\ (pos[r] + CNT) \notin published
         \/ written >= pos[r] + Half
<1> SUFFICES ASSUME ~Readable(r), ~(written >= pos[r] + Half)
             PROVE  Abandoned(pos[r]) /\ (pos[r] + CNT) \notin published
  OBVIOUS
<1> DEFINE p == pos[r]
           m == stamp[BlockAt(r)]
<1>1. written \in Nat /\ p \in Nat /\ p # 0 /\ published \subseteq 1..written
  BY DEF IInv, TypeOK, Blocks
<1>2. mode[r] # "detached"
  BY <1>1 DEF IInv, Cursors
<1>3. BlockAt(r) = BlockOf(p) /\ BlockAt(r) \in Block /\ m \in Nat
  BY <1>2, Looking
<1>4. Half \in Nat /\ CNT \in Nat /\ CNT > 0
  BY Constants
<1>5. m <= written
  <2>1. m # 0 => m \in published
    BY <1>3 DEF IInv, Blocks
  <2> HIDE DEF m
  <2>2. CASE m = 0
    BY <1>1, <2>2
  <2>3. CASE m # 0
    <3>1. m \in 1..written
      BY <1>1, <2>1, <2>3
    <3> QED BY <3>1
  <2> QED BY <2>2, <2>3
<1>6. m < p
  <2>1. m < p + Half
    BY <1>1, <1>3, <1>4, <1>5
  <2> QED BY <1>1, <1>2, <1>3, <2>1, IInvWrapSafe DEF WrapSafe
<1>7. p \notin published
  BY <1>1, <1>3, <1>6 DEF StampsStay
<1>8. (p + CNT) \notin published
  <2>1. BlockOf(p + CNT) = BlockOf(p)
    <3>1. p + CNT \in Nat /\ p + CNT >= CNT /\ (p + CNT) - CNT = p
      BY <1>1, <1>4
    <3> QED BY <3>1, OneRoundBack
  <2>2. ~(p + CNT <= m)
    BY <1>1, <1>3, <1>4, <1>6
  <2> QED BY <1>3, <2>1, <2>2 DEF StampsStay
<1>9. p <= n /\ n \in 1..written /\ p # n
  BY <1>1, <1>7
<1>10. p \in 1..written /\ p # written
  BY <1>1, <1>9
<1> HIDE DEF p, m
<1> QED BY <1>7, <1>8, <1>10 DEF Abandoned, p

\* A reader that polls is never stuck before a published message (SPMCQueue.h:35-41), for
\* any ring and any number of dead writers: there is a block for it to read, unless the
\* message it expects was abandoned and its block has not come round, or it is half the
\* index range behind.  With NoLoss, by which every read() moves it on, this is what
\* EveryMessagePassed rests on.
THEOREM NeverStuck ==
  Spec => [](\A r \in Reader : \A n \in published :
               pos[r] \in 1..n =>
                 \/ Readable(r)
                 \/ Abandoned(pos[r]) /\ (pos[r] + CNT) \notin published
                 \/ written >= pos[r] + Half)
<1>1. Init => StampsStay
  BY DEF Init, StampsStay
<1>2. IInv /\ StampsStay =>
        \A r \in Reader : \A n \in published :
          pos[r] \in 1..n =>
            \/ Readable(r)
            \/ Abandoned(pos[r]) /\ (pos[r] + CNT) \notin published
            \/ written >= pos[r] + Half
  BY NotStuck
<1> QED BY <1>1, <1>2, StampsStayStep, Invariance, PTL DEF Spec
-----------------------------------------------------------------------------
\* The ring implements the abstract feed: it starts as the feed does ...
LEMMA FeedInit == Init => Feed!Init
BY DEF Init, Feed!Init, Feed!Nothing

\* ... a new reader of the ring is a new reader of the feed ...
LEMMA FeedAttach == ASSUME IInv, NEW r \in Reader, GetReader(r) PROVE Feed!Attach(r)
<1>1. TypeOK /\ written \in Nat /\ published \subseteq 1..written
  BY DEF IInv, TypeOK, Blocks
<1>2. PICK back \in IF filling THEN {0, 1} ELSE {0} :
        pos' = [pos EXCEPT ![r] = written - back + 1]
  BY DEF GetReader
<1> DEFINE n == written - back + 1
<1>3. n \in {written, written + 1} \ ({0} \cup published)
  <2>1. CASE back = 0
    BY <2>1, <1>1
  <2>2. CASE back = 1
    BY <2>2, <1>1, <1>2 DEF IInv, InProgress
  <2> QED BY <2>1, <2>2, <1>2
<1>4. pos[r] = 0
  BY DEF GetReader, IInv, Cursors
<1>5. UNCHANGED <<written, published, held, copy>>
  BY DEF GetReader
<1> HIDE DEF n
<1>6. pos' = [pos EXCEPT ![r] = n]
  BY <1>2 DEF n
<1> QED BY <1>3, <1>4, <1>5, <1>6 DEF Feed!Attach

\* ... a read() that succeeds delivers a message the feed may deliver ...
LEMMA FeedDeliver ==
  ASSUME IInv, NEW r \in Reader, mode[r] # "detached", TakeBlock(r)
  PROVE  \E m \in published : Feed!Deliver(r, m)
<1> DEFINE m == stamp[BlockAt(r)]
<1>1. /\ m \in published /\ m >= pos[r] /\ pos[r] # 0 /\ pos[r] \in Nat /\ m \in Nat
      /\ m > pos[r] => written >= pos[r] + CNT
  BY Taken
<1>2. /\ pos' = [pos EXCEPT ![r] = m + 1] /\ held' = [held EXCEPT ![r] = m]
      /\ copy' = [copy EXCEPT ![r] = [w \in Word |-> Unread]]
      /\ UNCHANGED <<written, published>>
  BY DEF TakeBlock
<1> HIDE DEF m
<1>3. m = pos[r] \/ written >= pos[r] + CNT
  BY <1>1
<1>4. Feed!Deliver(r, m)
  BY <1>1, <1>2, <1>3 DEF Feed!Deliver, Feed!Nothing
<1> QED BY <1>1, <1>4

\* ... and so for every step; the steps on indices and blocks stutter.
LEMMA FeedNext == IInv /\ [Next]_vars => [Feed!Next]_(Feed!vars)
<1> SUFFICES ASSUME IInv, [Next]_vars PROVE [Feed!Next]_(Feed!vars)
  OBVIOUS
<1> USE DEF Feed!vars, Feed!Next
<1>1. CASE BeginWrite
  BY <1>1 DEF BeginWrite, readerVars, Feed!Claim
<1>2. CASE EndWrite
  BY <1>2 DEF EndWrite, readerVars, Feed!Publish, IInv, InProgress, TypeOK
<1>3. ASSUME NEW r \in Reader, GetReader(r) PROVE Feed!Next
  BY <1>3, FeedAttach
<1>4. ASSUME NEW r \in Reader, Read(r) \/ ReadLastStep(r) PROVE Feed!Next
  <2>1. mode[r] # "detached" /\ TakeBlock(r)
    BY <1>4 DEF Read, ReadLastStep
  <2> QED BY <2>1, FeedDeliver
<1>5. ASSUME NEW r \in Reader, BeginReadLast(r) PROVE Feed!Next
  BY <1>5 DEF BeginReadLast, Feed!Forget, Feed!Nothing
<1>6. ASSUME NEW r \in Reader, NEW w \in Word, ReadWord(r, w) PROVE Feed!Next
  <2> DEFINE v == data[BlockOf(held[r])][w]
  <2>1. /\ v \in held[r]..written /\ v \in Nat /\ v # 0
        /\ v = held[r] \/ held[r] + CNT <= v
    BY <1>6, WordFound
  <2>2. /\ copy' = [copy EXCEPT ![r][w] = v] /\ held[r] # 0
        /\ UNCHANGED <<written, published, pos, held>>
    BY <1>6 DEF ReadWord, history
  <2>3. written \in Nat
    BY DEF IInv, TypeOK
  <2> HIDE DEF v
  <2>4. v \in 1..written /\ Feed!ReadPart(r, w, v)
    BY <2>1, <2>2, <2>3 DEF Feed!ReadPart
  <2> QED BY <2>4
<1>7. CASE (\E w \in Word : FillWord(w)) \/ CrashWriter \/ (\E r \in Reader : EndReadLast(r))
  BY <1>7 DEF FillWord, CrashWriter, EndReadLast, readerVars, history
<1>8. CASE UNCHANGED vars
  BY <1>8 DEF vars, readerVars, history
<1> QED BY <1>1, <1>2, <1>3, <1>4, <1>5, <1>6, <1>7, <1>8 DEF Next

\* Every behaviour of the ring, seen through its message numbers, is one of
\* MessageFeed, for all readers, words, ring sizes and index widths.
THEOREM RingImplementsFeed == Spec => FeedSpec
BY FeedInit, FeedNext, Invariance, PTL DEF Spec, FeedSpec, Feed!Spec

-----------------------------------------------------------------------------
\* The assertion and the drop count of multhread.cc.  Both rest on the invariant of the ring: a
\* thread that is handed a message is handed a later one every time, so it cannot have counted
\* further than the number it holds.

Threads ==
  /\ pc \in [Reader -> {"poll", "assert", "test", "left"}]
  /\ cnt \in [Reader -> Nat]
  /\ handed \in [Reader -> SUBSET Nat]

\* A thread has counted the messages it was handed, and none beyond the one it holds.
Counts ==
  \A r \in Reader :
    /\ handed[r] \subseteq 1..held[r]
    /\ Cardinality(handed[r]) = cnt[r]

BenchInv == IInv /\ written <= MaxWrites /\ Threads /\ Counts

LEMMA BenchInitInv == BenchInit => BenchInv
<1> SUFFICES ASSUME BenchInit PROVE BenchInv
  OBVIOUS
<1>1. IInv
  BY InitIInv DEF BenchInit
<1>2. written <= MaxWrites
  BY QueueAssumption DEF BenchInit, Init
<1>3. Threads
  BY DEF BenchInit, Threads
<1>4. Counts
  BY FS_EmptySet DEF BenchInit, Counts
<1> QED BY <1>1, <1>2, <1>3, <1>4 DEF BenchInv

\* The writer and a new reader change nothing a thread holds or has counted.
LEMMA OthersInv ==
  ASSUME BenchInv, IInv', written' <= MaxWrites, UNCHANGED <<held, cnt, handed>>, Threads'
  PROVE  BenchInv'
BY DEF BenchInv, Counts

LEMMA WriteInv == BenchInv /\ Write => BenchInv'
<1> SUFFICES ASSUME BenchInv, Write PROVE BenchInv'
  OBVIOUS
<1>1. IInv /\ Threads /\ written \in Nat /\ MaxWrites \in Nat /\ written <= MaxWrites
  BY QueueAssumption DEF BenchInv, IInv, TypeOK
<1>2. Threads' /\ UNCHANGED <<cnt, handed>>
  BY <1>1 DEF Write, threadVars, Threads
<1>3. CASE BeginWrite
  BY <1>1, <1>2, <1>3, BeginWriteStep, OthersInv DEF BeginWrite
<1>4. CASE EndWrite
  BY <1>1, <1>2, <1>4, EndWriteStep, OthersInv DEF EndWrite
<1>5. ASSUME NEW w \in Word, FillWord(w) PROVE BenchInv'
  BY <1>1, <1>2, <1>5, FillWordStep, OthersInv DEF FillWord, history
<1> QED BY <1>3, <1>4, <1>5 DEF Write

LEMMA AttachInv == ASSUME BenchInv, NEW r \in Reader, Attach(r) PROVE BenchInv'
<1>1. GetReader(r) /\ IInv'
  BY GetReaderStep DEF Attach, BenchInv
<1>2. Threads' /\ UNCHANGED <<held, cnt, handed, written>>
  BY <1>1 DEF Attach, threadVars, BenchInv, Threads, GetReader
<1> QED BY <1>1, <1>2, OthersInv DEF BenchInv

\* The message handed out is later than the one held before.
LEMMA TakeInv == ASSUME BenchInv, NEW r \in Reader, Take(r) PROVE BenchInv'
<1> DEFINE m == stamp[BlockAt(r)]
<1>1. IInv /\ TypeOK /\ Threads /\ Counts
  BY DEF BenchInv, IInv
<1>2. mode[r] # "detached" /\ TakeBlock(r) /\ UNCHANGED mode
  BY DEF Take, Read
<1>3. m \in Nat /\ m >= pos[r] /\ pos[r] \in Nat /\ pos[r] # 0
  BY <1>1, <1>2, Taken
<1>4. held' = [held EXCEPT ![r] = m] /\ written' = written
  BY <1>2 DEF TakeBlock
<1>5. IInv'
  BY <1>1, <1>2, TakeBlockStep
<1>6. held[r] \in Nat /\ held[r] < m
  <2>1. held[r] \in Nat /\ (held[r] # 0 => held[r] < pos[r])
    BY <1>1 DEF TypeOK, IInv, Cursors
  <2> QED BY <2>1, <1>3
<1>7. held'[r] = m
  BY <1>4, <1>1 DEF TypeOK
<1>8. /\ cnt' = [cnt EXCEPT ![r] = @ + 1]
      /\ handed' = [handed EXCEPT ![r] = @ \cup {m}]
      /\ pc' = [pc EXCEPT ![r] = "assert"]
  BY <1>7 DEF Take
<1> HIDE DEF m
<1>9. Threads'
  BY <1>1, <1>3, <1>8 DEF Threads
<1>10. Counts'
  <2> SUFFICES ASSUME NEW q \in Reader
               PROVE  /\ handed'[q] \subseteq 1..held'[q]
                      /\ Cardinality(handed'[q]) = cnt'[q]
    BY DEF Counts
  <2>1. handed[q] \subseteq 1..held[q] /\ Cardinality(handed[q]) = cnt[q]
    BY <1>1 DEF Counts
  <2>2. CASE q # r
    BY <2>1, <2>2, <1>4, <1>8, <1>1 DEF TypeOK, Threads
  <2>3. CASE q = r
    <3>1. handed'[r] = handed[r] \cup {m} /\ cnt'[r] = cnt[r] + 1
      BY <1>1, <1>8 DEF Threads
    <3>2. m \notin handed[r]
      BY <2>1, <2>3, <1>3, <1>6
    <3>3. IsFiniteSet(handed[r])
      <4>1. IsFiniteSet(1..held[r])
        BY <1>6, FS_Interval
      <4> QED BY <4>1, <2>1, <2>3, FS_Subset
    <3>4. Cardinality(handed[r] \cup {m}) = Cardinality(handed[r]) + 1
      BY <3>2, <3>3, FS_AddElement
    <3>5. handed'[r] \subseteq 1..m
      BY <3>1, <2>1, <2>3, <1>3, <1>6
    <3> QED BY <3>1, <3>4, <3>5, <1>7, <2>1, <2>3
  <2> QED BY <2>2, <2>3
<1> QED BY <1>1, <1>4, <1>5, <1>9, <1>10 DEF BenchInv

LEMMA ThreadInv == ASSUME BenchInv, NEW r \in Reader, ReaderThread(r) PROVE BenchInv'
<1>1. CASE Take(r)
  BY <1>1, TakeInv
<1>2. CASE ReadMsg(r)
  <2>1. PICK w \in Word : ReadWord(r, w)
    BY <1>2 DEF ReadMsg
  <2>2. IInv'
    BY <2>1, ReadWordStep DEF BenchInv
  <2>3. UNCHANGED <<held, written, pc, cnt, handed>>
    BY <1>2, <2>1 DEF ReadMsg, threadVars, ReadWord, history
  <2> QED BY <2>2, <2>3, OthersInv DEF BenchInv, Threads
<1>3. CASE Assert(r) \/ TestEnd(r)
  <2>1. UNCHANGED <<vars, cnt, handed>>
    BY <1>3 DEF Assert, TestEnd
  <2>2. IInv'
    BY <2>1, NextIInv DEF BenchInv
  <2>3. pc' \in [Reader -> {"poll", "assert", "test", "left"}]
    BY <1>3 DEF Assert, TestEnd, BenchInv, Threads
  <2> QED BY <2>1, <2>2, <2>3, OthersInv DEF BenchInv, Threads, vars, history
<1> QED BY <1>1, <1>2, <1>3 DEF ReaderThread

LEMMA BenchNextInv == BenchInv /\ [BenchNext]_benchVars => BenchInv'
<1> SUFFICES ASSUME BenchInv, [BenchNext]_benchVars PROVE BenchInv'
  OBVIOUS
<1>1. CASE UNCHANGED benchVars
  <2>1. UNCHANGED vars /\ UNCHANGED <<pc, cnt, handed>>
    BY <1>1 DEF benchVars, threadVars
  <2>2. IInv' /\ UNCHANGED <<held, written>>
    BY <2>1, NextIInv DEF BenchInv, vars, history
  <2> QED BY <2>1, <2>2, OthersInv DEF BenchInv, Threads
<1> QED BY <1>1, WriteInv, AttachInv, ThreadInv DEF BenchNext

LEMMA BenchInvariance == BenchSpec => []BenchInv
BY BenchInitInv, BenchNextInv, PTL DEF BenchSpec

\* A thread has counted at most as many messages as the number it holds says.
LEMMA HandedBound == ASSUME BenchInv, NEW r \in Reader PROVE cnt[r] <= held[r]
<1>1. held[r] \in Nat /\ handed[r] \subseteq 1..held[r] /\ Cardinality(handed[r]) = cnt[r]
  BY DEF BenchInv, IInv, TypeOK, Counts
<1>2. IsFiniteSet(1..held[r]) /\ Cardinality(1..held[r]) = held[r]
  <2>1. 1 \in Int /\ held[r] \in Int
    BY <1>1
  <2>2. /\ IsFiniteSet(1..held[r])
        /\ Cardinality(1..held[r]) = IF 1 > held[r] THEN 0 ELSE held[r] - 1 + 1
    BY <2>1, FS_Interval
  <2> QED BY <1>1, <2>2
<1> QED BY <1>1, <1>2, FS_Subset
-----------------------------------------------------------------------------
\* Below a lap a block holds the message it was handed out for.
LEMMA FoundBelowLap ==
  ASSUME NEW h \in Nat, NEW n \in Nat, NEW v \in h..n, BlockOf(v) = BlockOf(h), n < h + CNT
  PROVE  v = h
<1>1. v \in Nat /\ (v > h => v >= h + CNT)
  BY SameBlockApart
<1> QED BY <1>1, Constants

\* multhread.cc:48 and 49: what a thread reads through its pointer is never smaller than
\* its count, however far the writer is ahead, and below a lap it stays what it was.
THEOREM AssertionHolds == BenchSpec => []AssertHolds
<1>1. BenchInv => AssertHolds
  <2> SUFFICES ASSUME BenchInv, NEW r \in Reader, copy[r][Number] # Unread, pc[r] = "assert"
               PROVE  /\ copy[r][Number] >= cnt[r]
                      /\ held[r] # 0 /\ written < held[r] + CNT =>
                           data[BlockOf(held[r])][Number] = copy[r][Number]
    BY DEF AssertHolds
  <2>1. /\ held[r] \in Nat /\ cnt[r] \in Nat /\ written \in Nat
        /\ copy \in [Reader -> [Word -> Nat \cup {Unread}]]
    BY DEF BenchInv, IInv, TypeOK, Threads
  <2>2. Number \in Word
    BY BenchmarkAssumption
  <2>3. CASE held[r] # 0
    <3> DEFINE b == BlockOf(held[r])
               v == data[b][Number]
    <3>1. copy[r][Number] \in held[r]..written /\ BlockOf(copy[r][Number]) = b
      BY <2>2, <2>3 DEF BenchInv, IInv, Cursors
    <3>2. cnt[r] <= held[r]
      BY <2>1, HandedBound DEF BenchInv
    <3>3. b \in Block /\ stamp[b] \in Nat /\ held[r] <= stamp[b]
      BY <2>1, <2>3, BlockInRange DEF BenchInv, IInv, TypeOK, Cursors
    <3>4. v \in stamp[b]..written /\ (v # 0 => BlockOf(v) = b)
      BY <2>2, <3>3 DEF BenchInv, IInv, Blocks
    <3> HIDE DEF v
    <3>5. v \in held[r]..written /\ BlockOf(v) = b
      BY <2>1, <2>3, <3>3, <3>4
    <3>6. written < held[r] + CNT => v = held[r] /\ copy[r][Number] = held[r]
      BY <2>1, <3>1, <3>5, FoundBelowLap
    <3> QED BY <2>1, <3>1, <3>2, <3>6 DEF v
  <2>4. CASE held[r] = 0
    <3>1. cnt[r] <= 0
      BY <2>4, HandedBound DEF BenchInv
    <3>2. copy[r][Number] \in Nat
      BY <2>1, <2>2
    <3> QED BY <2>1, <2>4, <3>1, <3>2
  <2> QED BY <2>3, <2>4
<1> QED BY <1>1, BenchInvariance, PTL

\* multhread.cc:53: the number printed is that of the messages never handed out.
THEOREM DropCount == BenchSpec => []DropCountExact
<1>1. BenchInv => DropCountExact
  <2> SUFFICES ASSUME BenchInv, NEW r \in Reader
               PROVE  MaxWrites - cnt[r] = Cardinality(1..MaxWrites \ handed[r])
    BY DEF DropCountExact
  <2> DEFINE all == 1..MaxWrites
  <2>1. MaxWrites \in Nat /\ written \in Nat /\ written <= MaxWrites /\ held[r] \in Nat
    BY QueueAssumption DEF BenchInv, IInv, TypeOK
  <2>2. held[r] <= MaxWrites
    <3>1. held[r] # 0 => held[r] \in 1..written
      BY DEF BenchInv, IInv, Cursors, Blocks
    <3> QED BY <2>1, <3>1
  <2>3. handed[r] \subseteq all /\ Cardinality(handed[r]) = cnt[r]
    BY <2>1, <2>2 DEF BenchInv, Counts
  <2>4. IsFiniteSet(all) /\ Cardinality(all) = MaxWrites
    BY <2>1, FS_Interval
  <2>5. Cardinality(all \ handed[r]) = Cardinality(all) - Cardinality(all \cap handed[r])
    BY <2>3, <2>4, FS_Subset, FS_Difference
  <2>6. all \cap handed[r] = handed[r]
    BY <2>3
  <2> QED BY <2>3, <2>4, <2>5, <2>6
<1> QED BY <1>1, BenchInvariance, PTL
-----------------------------------------------------------------------------
\* No thread of the benchmark is left behind.  Without dead writers every message is
\* published, and a thread that was handed the last one does not poll again.
Lossless == published = IF filling THEN 1..(written - 1) ELSE 1..written

Leaving ==
  \A r \in Reader :
    /\ held[r] # 0 => pos[r] = held[r] + 1
    /\ held[r] # 0 /\ pc[r] = "poll" => held[r] < MaxWrites

BehindInv == StampsStay /\ Lossless /\ Leaving

LEMMA LosslessStep == BenchInv /\ Lossless /\ [BenchNext]_benchVars => Lossless'
<1> SUFFICES ASSUME BenchInv, Lossless, [BenchNext]_benchVars PROVE Lossless'
  OBVIOUS
<1>1. written \in Nat
  BY DEF BenchInv, IInv, TypeOK
<1>2. CASE BeginWrite
  BY <1>1, <1>2 DEF BeginWrite, Lossless
<1>3. CASE EndWrite
  <2>1. written # 0
    BY <1>3 DEF EndWrite, BenchInv, IInv, InProgress
  <2> QED BY <1>1, <1>3, <2>1 DEF EndWrite, Lossless
<1>4. CASE ~BeginWrite /\ ~EndWrite
  <2>1. UNCHANGED <<published, filling, written>>
    BY <1>4 DEF BenchNext, benchVars, vars, history, queueVars, Write, FillWord, Attach, GetReader,
                ReaderThread, Take, Read, TakeBlock, ReadMsg, ReadWord, Assert, TestEnd
  <2> QED BY <2>1 DEF Lossless
<1> QED BY <1>2, <1>3, <1>4

\* What a thread finds in the block of the last message is that message.
LEMMA LastIsSeen ==
  ASSUME BenchInv, NEW r \in Reader, held[r] # 0, held[r] >= MaxWrites
  PROVE  data[BlockOf(held[r])][Number] = MaxWrites
<1>1. /\ held[r] \in Nat /\ written \in Nat /\ written <= MaxWrites /\ MaxWrites \in Nat
      /\ stamp \in [Block -> Nat] /\ Number \in Word
  BY QueueAssumption, BenchmarkAssumption DEF BenchInv, IInv, TypeOK
<1>2. BlockOf(held[r]) \in Block
  BY <1>1, BlockInRange
<1>3. held[r] <= stamp[BlockOf(held[r])]
  BY DEF BenchInv, IInv, Cursors
<1>4. data[BlockOf(held[r])][Number] \in stamp[BlockOf(held[r])]..written
  BY <1>1, <1>2 DEF BenchInv, IInv, Blocks
<1> QED BY <1>1, <1>2, <1>3, <1>4

LEMMA LeavingStep == BenchInv /\ Leaving /\ [BenchNext]_benchVars => Leaving'
<1> SUFFICES ASSUME BenchInv, Leaving, [BenchNext]_benchVars PROVE Leaving'
  OBVIOUS
<1>1. /\ pos \in [Reader -> Nat] /\ held \in [Reader -> Nat]
      /\ pc \in [Reader -> {"poll", "assert", "test", "left"}]
  BY DEF BenchInv, IInv, TypeOK, Threads
<1>2. CASE Write \/ UNCHANGED benchVars
  <2>1. UNCHANGED <<pos, held, pc>>
    BY <1>2 DEF Write, BeginWrite, EndWrite, FillWord, history, benchVars, vars, threadVars
  <2> QED BY <2>1 DEF Leaving
<1>3. ASSUME NEW r \in Reader, Attach(r) PROVE Leaving'
  <2>1. held' = held /\ pc' = pc /\ \A q \in Reader : q # r => pos'[q] = pos[q]
    BY <1>1, <1>3 DEF Attach, GetReader, threadVars
  <2>2. held[r] = 0
    <3>1. pos[r] = 0
      BY <1>3 DEF Attach, GetReader, BenchInv, IInv, Cursors
    <3>2. held[r] # 0 => held[r] < pos[r]
      BY DEF BenchInv, IInv, Cursors
    <3> QED BY <1>1, <3>1, <3>2
  <2> QED BY <2>1, <2>2 DEF Leaving
<1>4. ASSUME NEW r \in Reader, Take(r) PROVE Leaving'
  <2> DEFINE m == stamp[BlockAt(r)]
  <2>1. /\ pos' = [pos EXCEPT ![r] = m + 1]
        /\ held' = [held EXCEPT ![r] = m]
        /\ pc' = [pc EXCEPT ![r] = "assert"]
    BY <1>4 DEF Take, Read, TakeBlock
  <2> HIDE DEF m
  <2> QED BY <1>1, <2>1 DEF Leaving
<1>5. ASSUME NEW r \in Reader, ReadMsg(r) \/ Assert(r) PROVE Leaving'
  <2>1. UNCHANGED <<pos, held>> /\ \A q \in Reader : pc'[q] = "poll" => pc[q] = "poll"
    BY <1>1, <1>5 DEF ReadMsg, ReadWord, Assert, vars, history, threadVars
  <2> QED BY <2>1 DEF Leaving
<1>6. ASSUME NEW r \in Reader, TestEnd(r) PROVE Leaving'
  <2>1. UNCHANGED <<pos, held>>
    BY <1>6 DEF TestEnd, vars, history
  <2>2. \A q \in Reader : q # r => pc'[q] = pc[q]
    BY <1>1, <1>6 DEF TestEnd
  <2>3. pc'[r] = "poll" => data[BlockOf(held[r])][Number] # MaxWrites
    BY <1>1, <1>6 DEF TestEnd
  <2>4. held[r] # 0 /\ pc'[r] = "poll" => held[r] < MaxWrites
    <3>1. MaxWrites \in Nat
      BY QueueAssumption
    <3> QED BY <1>1, <2>3, <3>1, LastIsSeen
  <2> QED BY <2>1, <2>2, <2>4 DEF Leaving
<1> QED BY <1>2, <1>3, <1>4, <1>5, <1>6 DEF BenchNext, ReaderThread

LEMMA BehindInvariance == BenchSpec => [](BenchInv /\ BehindInv)
<1>1. BenchInit => BenchInv /\ BehindInv
  <2> SUFFICES ASSUME BenchInit PROVE BehindInv
    BY BenchInitInv
  <2>1. \A r \in Reader : held[r] = 0
    BY DEF BenchInit, Init
  <2>2. StampsStay /\ Lossless
    BY DEF BenchInit, Init, StampsStay, Lossless
  <2> QED BY <2>1, <2>2 DEF BehindInv, Leaving
<1>2. BenchInv /\ StampsStay /\ [BenchNext]_benchVars => StampsStay'
  <2> SUFFICES ASSUME BenchInv, StampsStay, [BenchNext]_benchVars PROVE StampsStay'
    OBVIOUS
  <2>1. [Next]_vars
    BY DEF BenchNext, benchVars, Write, Attach, ReaderThread, Take, ReadMsg, Assert, TestEnd, Next
  <2> QED BY <2>1, StampsStayStep DEF BenchInv
<1>3. (BenchInv /\ BehindInv) /\ [BenchNext]_benchVars => (BenchInv /\ BehindInv)'
  BY <1>2, BenchNextInv, LosslessStep, LeavingStep DEF BehindInv
<1> QED BY <1>1, <1>3, PTL DEF BenchSpec

\* Once the writer of multhread.cc is done, a thread that polls has a message to read, until
\* it has been handed the last one and leaves, so that main() can join it: only a thread whose
\* reader was made after the last write began polls in vain, or one half the index range behind.
THEOREM NobodyLeftBehind ==
  BenchSpec => [](\A r \in Reader :
                    written = MaxWrites /\ ~filling /\ mode[r] = "read" /\ pc[r] = "poll" =>
                         \/ Readable(r)
                         \/ held[r] = 0 /\ pos[r] = MaxWrites + 1
                         \/ written >= pos[r] + Half)
<1>1. BenchInv /\ BehindInv =>
        \A r \in Reader :
          written = MaxWrites /\ ~filling /\ mode[r] = "read" /\ pc[r] = "poll" =>
               \/ Readable(r)
               \/ held[r] = 0 /\ pos[r] = MaxWrites + 1
               \/ written >= pos[r] + Half
  <2> SUFFICES ASSUME BenchInv, BehindInv, NEW r \in Reader, written = MaxWrites, ~filling,
                      mode[r] = "read", pc[r] = "poll", ~(written >= pos[r] + Half)
               PROVE  Readable(r) \/ (held[r] = 0 /\ pos[r] = MaxWrites + 1)
    OBVIOUS
  <2>1. /\ written \in Nat /\ pos[r] \in Nat /\ held[r] \in Nat /\ pos[r] # 0
        /\ pos[r] <= written + 1
    BY DEF BenchInv, IInv, TypeOK, Cursors
  <2>2. published = 1..MaxWrites
    BY DEF BehindInv, Lossless
  <2>3. CASE pos[r] <= MaxWrites
    <3>1. MaxWrites \in published /\ pos[r] \in 1..MaxWrites
      BY <2>1, <2>2, <2>3
    <3>2. ~Abandoned(pos[r])
      BY <2>2, <3>1 DEF Abandoned
    <3> QED BY <3>1, <3>2, NotStuck DEF BenchInv, BehindInv
  <2>4. CASE pos[r] = MaxWrites + 1
    BY <2>1, <2>4 DEF BehindInv, Leaving
  <2> QED BY <2>1, <2>3, <2>4
<1> QED BY <1>1, BehindInvariance, PTL
=============================================================================
