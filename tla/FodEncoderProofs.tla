--------------------------- MODULE FodEncoderProofs ---------------------------
(***************************************************************************)
(* The encoder of parquet_encoder.cc for any size of a batch, any number   *)
(* of snapshots and an exception out of any call of Arrow: no row is lost  *)
(* between the columns and the files.                                      *)
(***************************************************************************)
EXTENDS FodEncoder, SequenceTheorems, FiniteSetTheorems, TLAPS

TypeOK ==
  /\ columns \in Seq(Nat) /\ total \in Nat
  /\ files \in [0..MaxTime -> Seq(Nat)]
  /\ pc \in {"ready", "batch", "open", "write", "clear", "gone", "aborted"}
  /\ ending \in BOOLEAN /\ replaced \in BOOLEAN
  /\ name \in 0..MaxTime /\ clock \in 0..MaxTime
  /\ written \in Seq(0..MaxTime) /\ failures \in Nat

\* What flush_batch() is about to write is there, and the file it writes to is empty
\* before and holds the batch after.
BatchAtHand ==
  /\ pc \in {"batch", "open", "write", "clear"} => columns # <<>>
  /\ pc = "write" => files[name] = <<>>
  /\ pc = "clear" => files[name] = columns
  /\ pc = "gone" => columns = <<>>

\* What a reader of the files finds, one batch after the other.
Batches == [i \in DOMAIN written |-> files[written[i]]]

\* RowsOnce at every step of a flush: the batch is counted once, in the columns until it
\* has been written and in its file from then on.
WrittenInOrder ==
  failures = 0 /\ ~replaced =>
    /\ \A i \in DOMAIN written : files[written[i]] # <<>>
    /\ FlattenSeq(Batches) \o (IF pc = "clear" THEN <<>> ELSE columns)
         = [n \in 1..total |-> n]

IInv == TypeOK /\ BatchAtHand /\ NothingLost /\ WrittenInOrder

USE EncoderAssumption

-----------------------------------------------------------------------------
\* The rows in files, one file at a time.
LEMMA RowInFile ==
  ASSUME NEW r
  PROVE  r \in InFiles <=> \E t \in 0..MaxTime : r \in ToSet(files[t])
BY DEF InFiles

LEMMA RowsOfAppend ==
  ASSUME NEW s \in Seq(Nat), NEW x \in Nat
  PROVE  ToSet(Append(s, x)) = ToSet(s) \cup {x} /\ Append(s, x) # <<>>
<1>1. /\ DOMAIN Append(s, x) = 1..(Len(s) + 1) /\ DOMAIN s = 1..Len(s) /\ Len(s) \in Nat
      /\ \A i \in 1..Len(s) : Append(s, x)[i] = s[i]
      /\ Append(s, x)[Len(s) + 1] = x
  BY AppendProperties, LenProperties
<1>2. ToSet(Append(s, x)) = {Append(s, x)[i] : i \in 1..(Len(s) + 1)}
  BY <1>1 DEF ToSet
<1>3. ToSet(s) = {s[i] : i \in 1..Len(s)}
  BY <1>1 DEF ToSet
<1>4. 1..(Len(s) + 1) = 1..Len(s) \cup {Len(s) + 1}
  BY <1>1
<1>5. Append(s, x) # <<>>
  BY AppendProperties
<1> QED BY <1>1, <1>2, <1>3, <1>4, <1>5

\* No row disappears from the files when none is opened over a batch.
LEMMA RowsStay ==
  ASSUME TypeOK, NEW n \in 0..MaxTime, NEW rows \in Seq(Nat),
         files[n] = <<>> \/ files[n] = rows, files' = [files EXCEPT ![n] = rows]
  PROVE  InFiles' = InFiles \cup ToSet(rows)
<1>1. \A t \in 0..MaxTime : files'[t] = IF t = n THEN rows ELSE files[t]
  BY DEF TypeOK
<1>2. ToSet(<<>>) = {}
  BY EmptySeq DEF ToSet
<1>3. InFiles' = UNION {ToSet(files'[t]) : t \in 0..MaxTime}
  BY DEF InFiles, ToSet
<1>4. InFiles = UNION {ToSet(files[t]) : t \in 0..MaxTime}
  BY DEF InFiles
<1> HIDE DEF ToSet
<1>5. ASSUME NEW r \in InFiles' PROVE r \in InFiles \cup ToSet(rows)
  BY <1>1, <1>3, <1>4, <1>5
<1>6. ASSUME NEW r \in InFiles \cup ToSet(rows) PROVE r \in InFiles'
  <2>1. CASE r \in ToSet(rows)
    BY <1>1, <1>3, <2>1
  <2>2. CASE r \notin ToSet(rows)
    <3>1. PICK t \in 0..MaxTime : r \in ToSet(files[t])
      BY <1>4, <1>6, <2>2
    <3>2. t # n
      BY <1>2, <2>2, <3>1
    <3> QED BY <1>1, <1>3, <3>1, <3>2
  <2> QED BY <2>1, <2>2
<1> QED BY <1>5, <1>6
-----------------------------------------------------------------------------
\* Induction over the numbers, for a set of them.
LEMMA SetInduction ==
  ASSUME NEW T, 0 \in T, \A n \in Nat : n \in T => n + 1 \in T
  PROVE  Nat \subseteq T
<1> DEFINE Bad == Nat \ T
           Below == {0..n : n \in Bad}
<1>1. SUFFICES ASSUME Bad # {} PROVE FALSE
  OBVIOUS
<1>2. Below \subseteq FiniteSubsetsOf(Nat)
  <2> SUFFICES ASSUME NEW n \in Nat PROVE 0..n \in FiniteSubsetsOf(Nat)
    OBVIOUS
  <2>1. IsFiniteSet(0..n)
    BY FS_Interval
  <2> QED BY <2>1 DEF FiniteSubsetsOf
<1>3. Below # {}
  BY <1>1
<1>4. IsWellFoundedOn(StrictSubsetOrdering(Nat), FiniteSubsetsOf(Nat))
  BY FS_StrictSubsetOrderingWellFounded
<1> HIDE DEF Below
<1>5. PICK B \in Below : \A C \in Below : <<C, B>> \notin StrictSubsetOrdering(Nat)
  BY <1>2, <1>3, <1>4, WFMin
<1>6. PICK n \in Bad : B = 0..n
  BY DEF Below
<1>7. n # 0 /\ n - 1 \in Nat /\ n - 1 \in Bad
  OBVIOUS
<1>8. 0..(n - 1) \in Below
  BY <1>7 DEF Below
<1>9. /\ 0..(n - 1) \in SUBSET Nat /\ 0..n \in SUBSET Nat
      /\ 0..(n - 1) \subseteq 0..n /\ 0..(n - 1) # 0..n
  BY <1>7
<1>10. <<0..(n - 1), 0..n>> \in StrictSubsetOrdering(Nat)
  BY <1>9 DEF StrictSubsetOrdering
<1> QED BY <1>5, <1>6, <1>8, <1>10

\* The equation that the flattening of the first n of some sequences solves.
Flattens(f, s, n) == f = [i \in 1..n |-> IF i = 1 THEN s[i] ELSE f[i - 1] \o s[i]]

LEMMA FlattensAt ==
  ASSUME NEW s, NEW n \in Nat, NEW f, Flattens(f, s, n)
  PROVE  \A i \in 1..n : f[i] = IF i = 1 THEN s[i] ELSE f[i - 1] \o s[i]
<1> DEFINE g == [j \in 1..n |-> IF j = 1 THEN s[j] ELSE f[j - 1] \o s[j]]
<1>1. f = g
  BY Zenon DEF Flattens
<1>2. \A i \in 1..n : g[i] = IF i = 1 THEN s[i] ELSE f[i - 1] \o s[i]
  OBVIOUS
<1> HIDE DEF g
<1> QED BY <1>1, <1>2

\* It has a solution,
LEMMA FlattensExists ==
  ASSUME NEW s \in Seq(Seq(Nat))
  PROVE  \A n \in Nat : \E f : Flattens(f, s, n)
<1> DEFINE T == {n \in Nat : \E f : Flattens(f, s, n)}
<1>1. 0 \in T
  <2> DEFINE f == [i \in 1..0 |-> <<>>]
  <2>1. Flattens(f, s, 0)
    BY DEF Flattens
  <2> QED BY <2>1
<1>2. ASSUME NEW n \in Nat, n \in T PROVE n + 1 \in T
  <2>1. PICK f : Flattens(f, s, n)
    BY <1>2
  <2> DEFINE g == [i \in 1..(n + 1) |->
                     IF i = n + 1 THEN IF i = 1 THEN s[i] ELSE f[n] \o s[i] ELSE f[i]]
  <2>2. \A i \in 1..(n + 1) : g[i] = IF i = 1 THEN s[i] ELSE g[i - 1] \o s[i]
    <3> SUFFICES ASSUME NEW i \in 1..(n + 1)
                 PROVE  g[i] = IF i = 1 THEN s[i] ELSE g[i - 1] \o s[i]
      OBVIOUS
    <3>1. CASE i = n + 1
      BY <3>1
    <3>2. CASE i \in 1..n
      <4>1. f[i] = IF i = 1 THEN s[i] ELSE f[i - 1] \o s[i]
        BY <2>1, <3>2, FlattensAt
      <4>2. g[i] = f[i] /\ (i # 1 => g[i - 1] = f[i - 1])
        BY <3>2
      <4> HIDE DEF g
      <4> QED BY <4>1, <4>2
    <3> QED BY <3>1, <3>2
  <2>3. Flattens(g, s, n + 1)
    <3>1. g = [i \in 1..(n + 1) |-> g[i]]
      OBVIOUS
    <3> HIDE DEF g
    <3> QED BY <2>2, <3>1 DEF Flattens
  <2> QED BY <2>3
<1> HIDE DEF T
<1>3. Nat \subseteq T
  BY <1>1, <1>2, SetInduction
<1> QED BY <1>3 DEF T

\* whose first values do not depend on what comes later, and are sequences.
LEMMA FlattensUnique ==
  ASSUME NEW s \in Seq(Seq(Nat)), NEW t \in Seq(Seq(Nat)), NEW n \in Nat, NEW m \in Nat,
         n <= m, n <= Len(s), \A i \in 1..n : s[i] = t[i],
         NEW f, NEW g, Flattens(f, s, n), Flattens(g, t, m)
  PROVE  \A i \in 1..n : f[i] = g[i] /\ f[i] \in Seq(Nat)
<1>f. \A i \in 1..n : f[i] = IF i = 1 THEN s[i] ELSE f[i - 1] \o s[i]
  BY FlattensAt
<1>g. \A i \in 1..m : g[i] = IF i = 1 THEN t[i] ELSE g[i - 1] \o t[i]
  BY FlattensAt
<1> DEFINE T == {i \in Nat : i \in 1..n => f[i] = g[i] /\ f[i] \in Seq(Nat)}
<1>1. 0 \in T
  OBVIOUS
<1>2. ASSUME NEW i \in Nat, i \in T PROVE i + 1 \in T
  <2> SUFFICES ASSUME i + 1 \in 1..n
               PROVE  f[i + 1] = g[i + 1] /\ f[i + 1] \in Seq(Nat)
    OBVIOUS
  <2>1. f[i + 1] = IF i + 1 = 1 THEN s[i + 1] ELSE f[(i + 1) - 1] \o s[i + 1]
    BY <1>f
  <2>2. g[i + 1] = IF i + 1 = 1 THEN t[i + 1] ELSE g[(i + 1) - 1] \o t[i + 1]
    BY <1>g
  <2>3. s[i + 1] = t[i + 1] /\ s[i + 1] \in Seq(Nat)
    BY ElementOfSeq
  <2>4. (i + 1) - 1 = i
    OBVIOUS
  <2>5. CASE i = 0
    BY <2>1, <2>2, <2>3, <2>5
  <2>6. CASE i # 0
    <3>1. f[i] = g[i] /\ f[i] \in Seq(Nat)
      BY <1>2, <2>6
    <3>2. f[i] \o s[i + 1] \in Seq(Nat)
      BY <2>3, <3>1, ConcatProperties
    <3> QED BY <2>1, <2>2, <2>3, <2>4, <2>6, <3>1, <3>2
  <2> QED BY <2>5, <2>6
<1> HIDE DEF T
<1>3. Nat \subseteq T
  BY <1>1, <1>2, SetInduction
<1> QED BY <1>3 DEF T

LEMMA FlattenSeqIs ==
  ASSUME NEW s \in Seq(Seq(Nat)), Len(s) # 0
  PROVE  \E f : Flattens(f, s, Len(s)) /\ FlattenSeq(s) = f[Len(s)]
<1>1. Len(s) \in Nat
  BY LenProperties
<1>2. PICK g : Flattens(g, s, Len(s))
  BY <1>1, FlattensExists
<1> DEFINE flatten[i \in 1..Len(s)] == IF i = 1 THEN s[i] ELSE flatten[i - 1] \o s[i]
<1>3. flatten = [i \in 1..Len(s) |-> IF i = 1 THEN s[i] ELSE flatten[i - 1] \o s[i]]
  BY <1>2, Zenon DEF Flattens
<1>4. FlattenSeq(s) = flatten[Len(s)]
  BY Zenon DEF FlattenSeq
<1> QED BY <1>3, <1>4, Zenon DEF Flattens

\* What the files hold, read in the order they were written, grows by one file.
LEMMA FlattenAppend ==
  ASSUME NEW s \in Seq(Seq(Nat)), NEW x \in Seq(Nat)
  PROVE  /\ FlattenSeq(s) \in Seq(Nat)
         /\ FlattenSeq(Append(s, x)) = FlattenSeq(s) \o x
<1> DEFINE t == Append(s, x)
           n == Len(s)
<1>1. /\ t \in Seq(Seq(Nat)) /\ Len(t) = n + 1 /\ n \in Nat
      /\ \A i \in 1..n : s[i] = t[i]
      /\ t[n + 1] = x
  BY AppendProperties, LenProperties
<1> HIDE DEF t, n
<1>2. PICK g : Flattens(g, t, n + 1) /\ FlattenSeq(t) = g[n + 1]
  BY <1>1, FlattenSeqIs
<1>3. g[n + 1] = IF n + 1 = 1 THEN t[n + 1] ELSE g[(n + 1) - 1] \o t[n + 1]
  BY <1>1, <1>2, FlattensAt
<1>4. CASE n = 0
  <2>1. s = <<>> /\ FlattenSeq(s) = s
    BY <1>4, EmptySeq DEF FlattenSeq, n
  <2>2. <<>> \o x = x
    BY ConcatEmptySeq
  <2>3. FlattenSeq(t) = x
    BY <1>1, <1>2, <1>3, <1>4
  <2> QED BY <2>1, <2>2, <2>3, EmptySeq DEF t
<1>5. CASE n # 0
  <2>1. PICK f : Flattens(f, s, n) /\ FlattenSeq(s) = f[n]
    BY <1>5, FlattenSeqIs DEF n
  <2>2. \A i \in 1..n : f[i] = g[i] /\ f[i] \in Seq(Nat)
    <3>1. n <= n + 1 /\ n <= Len(s) /\ n + 1 \in Nat
      BY <1>1 DEF n
    <3> QED BY <1>1, <1>2, <2>1, <3>1, FlattensUnique
  <2>3. f[n] = g[n] /\ f[n] \in Seq(Nat)
    BY <1>1, <1>5, <2>2
  <2>4. (n + 1) - 1 = n /\ n + 1 # 1
    <3>1. n \in Nat
      BY <1>1
    <3> QED BY <1>5, <3>1
  <2> QED BY <1>1, <1>2, <1>3, <2>1, <2>3, <2>4 DEF t
<1> QED BY <1>4, <1>5
-----------------------------------------------------------------------------
LEMMA TypeInit == Init => TypeOK
BY EmptySeq DEF Init, TypeOK

LEMMA TypeStep == TypeOK /\ [Next]_vars => TypeOK'
<1> SUFFICES ASSUME TypeOK, [Next]_vars PROVE TypeOK'
  OBVIOUS
<1> USE DEF TypeOK
<1>1. CASE Tick
  BY <1>1 DEF Tick
<1>2. CASE AddSnapshot
  BY <1>2, AppendProperties DEF AddSnapshot
<1>3. CASE Flush
  BY <1>3 DEF Flush
<1>4. CASE Destroy
  BY <1>4 DEF Destroy
<1>5. CASE GenerateFilename
  BY <1>5 DEF GenerateFilename
<1>6. CASE OpenFile
  BY <1>6, EmptySeq DEF OpenFile
<1>7. CASE WriteFile
  BY <1>7, AppendProperties DEF WriteFile
<1>8. CASE Fail
  <2>1. PICK rows \in {<<>>, columns} :
           files' = IF pc = "write" THEN [files EXCEPT ![name] = rows] ELSE files
    BY <1>8 DEF Fail
  <2>2. rows \in Seq(Nat)
    BY EmptySeq
  <2>3. files' \in [0..MaxTime -> Seq(Nat)]
    BY <2>1, <2>2
  <2> QED BY <1>8, <2>3 DEF Fail
<1>9. CASE ClearBatchData
  BY <1>9, EmptySeq DEF ClearBatchData
<1>10. CASE UNCHANGED vars
  BY <1>10 DEF vars
<1> QED
  BY <1>1, <1>2, <1>3, <1>4, <1>5, <1>6, <1>7, <1>8, <1>9, <1>10 DEF Next

LEMMA BatchStep == TypeOK /\ BatchAtHand /\ [Next]_vars => BatchAtHand'
<1> SUFFICES ASSUME TypeOK, BatchAtHand, [Next]_vars PROVE BatchAtHand'
  OBVIOUS
<1> USE DEF TypeOK, BatchAtHand
<1>1. CASE Tick
  BY <1>1 DEF Tick
<1>2. CASE AddSnapshot
  <2>1. columns' # <<>>
    <3>1. columns \in Seq(Nat) /\ total + 1 \in Nat /\ columns' = Append(columns, total + 1)
      BY <1>2 DEF AddSnapshot
    <3> QED BY <3>1, RowsOfAppend
  <2> QED BY <1>2, <2>1 DEF AddSnapshot
<1>3. CASE Flush
  BY <1>3 DEF Flush, Flushed
<1>4. CASE Destroy
  BY <1>4 DEF Destroy, Flushed
<1>5. CASE GenerateFilename
  BY <1>5 DEF GenerateFilename
<1>6. CASE OpenFile
  BY <1>6 DEF OpenFile
<1>7. CASE WriteFile
  BY <1>7 DEF WriteFile
<1>8. CASE Fail
  BY <1>8 DEF Fail
<1>9. CASE ClearBatchData
  BY <1>9 DEF ClearBatchData
<1>10. CASE UNCHANGED vars
  BY <1>10 DEF vars
<1> QED
  BY <1>1, <1>2, <1>3, <1>4, <1>5, <1>6, <1>7, <1>8, <1>9, <1>10 DEF Next

\* Rows move from the columns into an empty file and are forgotten only then.
LEMMA NothingLostStep ==
  TypeOK /\ BatchAtHand /\ NothingLost /\ [Next]_vars => NothingLost'
<1> SUFFICES ASSUME TypeOK, BatchAtHand, NothingLost, [Next]_vars, ~replaced'
             PROVE  1..total' \subseteq ToSet(columns') \cup InFiles'
  BY DEF NothingLost
<1>0. ~replaced
  BY DEF Next, Tick, AddSnapshot, Flush, Destroy, GenerateFilename, OpenFile, WriteFile,
         Fail, ClearBatchData, vars
<1>1. 1..total \subseteq ToSet(columns) \cup InFiles
  BY <1>0 DEF NothingLost
<1>2. files' = files => InFiles' = InFiles
  BY DEF InFiles, ToSet
<1>3. columns' = columns => ToSet(columns') = ToSet(columns)
  OBVIOUS
<1>4. ToSet(<<>>) = {}
  BY EmptySeq DEF ToSet
<1> HIDE DEF ToSet
<1>5. CASE AddSnapshot
  <2>1. /\ total' = total + 1 /\ total \in Nat /\ columns \in Seq(Nat)
        /\ columns' = Append(columns, total + 1) /\ files' = files
    BY <1>5 DEF AddSnapshot, TypeOK
  <2>2. ToSet(columns') = ToSet(columns) \cup {total + 1}
    BY <2>1, RowsOfAppend
  <2>3. 1..total' = 1..total \cup {total + 1}
    BY <2>1
  <2> QED BY <1>1, <1>2, <2>1, <2>2, <2>3
<1>6. CASE OpenFile
  <2>1. files[name] = <<>> /\ files' = [files EXCEPT ![name] = <<>>]
    BY <1>6, <1>0 DEF OpenFile
  <2>2. name \in 0..MaxTime /\ <<>> \in Seq(Nat)
    BY EmptySeq DEF TypeOK
  <2>3. InFiles' = InFiles \cup ToSet(<<>>)
    BY <2>1, <2>2, RowsStay
  <2> QED BY <1>1, <1>4, <1>6, <2>3 DEF OpenFile
<1>7. CASE WriteFile
  <2>1. files[name] = <<>> /\ files' = [files EXCEPT ![name] = columns]
    BY <1>7 DEF WriteFile, BatchAtHand
  <2>2. name \in 0..MaxTime /\ columns \in Seq(Nat)
    BY DEF TypeOK
  <2>3. InFiles' = InFiles \cup ToSet(columns)
    BY <2>1, <2>2, RowsStay
  <2> QED BY <1>1, <1>7, <2>3 DEF WriteFile
<1>8. CASE Fail
  <2>1. PICK rows \in {<<>>, columns} :
           files' = IF pc = "write" THEN [files EXCEPT ![name] = rows] ELSE files
    BY <1>8 DEF Fail
  <2>2. name \in 0..MaxTime /\ rows \in Seq(Nat)
    BY EmptySeq DEF TypeOK
  <2>3. CASE pc = "write"
    <3>1. InFiles' = InFiles \cup ToSet(rows)
      BY <2>1, <2>2, <2>3, RowsStay DEF BatchAtHand
    <3> QED BY <1>1, <1>8, <3>1 DEF Fail
  <2>4. CASE pc # "write"
    BY <1>1, <1>2, <1>8, <2>1, <2>4 DEF Fail
  <2> QED BY <2>3, <2>4
<1>9. CASE ClearBatchData
  <2>1. files[name] = columns /\ name \in 0..MaxTime
    BY <1>9 DEF ClearBatchData, BatchAtHand, TypeOK
  <2>2. ToSet(columns) \subseteq InFiles
    BY <2>1 DEF InFiles
  <2> QED BY <1>1, <1>2, <1>9, <2>2 DEF ClearBatchData
<1>10. CASE UNCHANGED <<columns, total, files>>
  BY <1>1, <1>2, <1>10
<1>11. CASE Tick \/ Flush \/ Destroy \/ GenerateFilename \/ UNCHANGED vars
  BY <1>10, <1>11 DEF Tick, Flush, Destroy, GenerateFilename, vars
<1> QED
  BY <1>5, <1>6, <1>7, <1>8, <1>9, <1>11 DEF Next

-----------------------------------------------------------------------------
LEMMA NextRow ==
  ASSUME NEW n \in Nat
  PROVE  [i \in 1..(n + 1) |-> i] = Append([i \in 1..n |-> i], n + 1)
<1> DEFINE s == [i \in 1..n |-> i]
           a == Append(s, n + 1)
           b == [i \in 1..(n + 1) |-> i]
<1>1. s \in Seq(Nat) /\ Len(s) = n /\ \A i \in 1..n : s[i] = i
  OBVIOUS
<1>2. b \in Seq(Nat) /\ Len(b) = n + 1 /\ \A i \in 1..(n + 1) : b[i] = i
  OBVIOUS
<1> HIDE DEF s, b
<1>3. a \in Seq(Nat) /\ Len(a) = n + 1 /\ \A i \in 1..(n + 1) : a[i] = i
  BY <1>1, AppendProperties
<1> HIDE DEF a
<1>4. a = b
  BY <1>2, <1>3, SeqEqual
<1> QED BY <1>4 DEF a, b, s

LEMMA BatchesType ==
  ASSUME NEW w \in Seq(0..MaxTime), NEW f \in [0..MaxTime -> Seq(Nat)]
  PROVE  LET b == [i \in DOMAIN w |-> f[w[i]]]
         IN  b \in Seq(Seq(Nat)) /\ Len(b) = Len(w) /\ FlattenSeq(b) \in Seq(Nat)
<1> DEFINE b == [i \in DOMAIN w |-> f[w[i]]]
<1>1. Len(w) \in Nat /\ DOMAIN w = 1..Len(w)
  BY LenProperties
<1>2. \A i \in 1..Len(w) : f[w[i]] \in Seq(Nat)
  BY ElementOfSeq
<1>3. b = [i \in 1..Len(w) |-> f[w[i]]]
  BY <1>1
<1>4. b \in Seq(Seq(Nat)) /\ Len(b) = Len(w)
  BY <1>1, <1>2, <1>3
<1> HIDE DEF b
<1>5. FlattenSeq(b) \in Seq(Nat)
  BY <1>4, EmptySeq, FlattenAppend
<1> QED BY <1>4, <1>5 DEF b

\* The rows reach the files in the order they were added.
LEMMA WrittenStep ==
  TypeOK /\ TypeOK' /\ BatchAtHand /\ WrittenInOrder /\ [Next]_vars => WrittenInOrder'
<1> SUFFICES ASSUME TypeOK, TypeOK', BatchAtHand, WrittenInOrder, [Next]_vars,
                    failures' = 0, ~replaced'
             PROVE  /\ \A i \in DOMAIN written' : files'[written'[i]] # <<>>
                    /\ FlattenSeq(Batches') \o (IF pc' = "clear" THEN <<>> ELSE columns')
                         = [n \in 1..total' |-> n]
  BY DEF WrittenInOrder
<1>a. ~Fail
  BY DEF TypeOK, Fail
<1>c. failures = 0
  BY <1>a DEF Next, Tick, AddSnapshot, Flush, Destroy, GenerateFilename, OpenFile, WriteFile,
              ClearBatchData, vars
<1>d. ~replaced
  BY <1>a DEF Next, Tick, AddSnapshot, Flush, Destroy, GenerateFilename, OpenFile, WriteFile,
              ClearBatchData, vars
<1>0. ~replaced /\ failures = 0
  BY <1>c, <1>d
<1> DEFINE F == FlattenSeq(Batches)
<1>b. /\ Batches \in Seq(Seq(Nat)) /\ Len(Batches) = Len(written) /\ F \in Seq(Nat)
      /\ Batches' \in Seq(Seq(Nat)) /\ Len(Batches') = Len(written')
  BY BatchesType DEF TypeOK, Batches
<1>1. /\ \A i \in DOMAIN written : files[written[i]] # <<>>
      /\ F \o (IF pc = "clear" THEN <<>> ELSE columns) = [n \in 1..total |-> n]
  BY <1>0 DEF WrittenInOrder
<1>2. F \in Seq(Nat) /\ columns \in Seq(Nat) /\ total \in Nat
  BY <1>b DEF TypeOK
<1>3. files' = files /\ written' = written => Batches' = Batches
  BY DEF Batches
<1> HIDE DEF F
<1>4. CASE AddSnapshot
  <2>1. /\ columns' = Append(columns, total + 1) /\ total' = total + 1
        /\ pc' # "clear" /\ pc # "clear" /\ Batches' = Batches
        /\ files' = files /\ written' = written
    BY <1>3, <1>4 DEF AddSnapshot
  <2>2. F \o Append(columns, total + 1) = Append(F \o columns, total + 1)
    <3>1. Append(columns, total + 1) = columns \o <<total + 1>>
      BY <1>2, AppendIsConcat
    <3>2. F \o columns \in Seq(Nat)
      BY <1>2, ConcatProperties
    <3>3. Append(F \o columns, total + 1) = (F \o columns) \o <<total + 1>>
      BY <1>2, <3>2, AppendIsConcat
    <3>4. <<total + 1>> \in Seq(Nat)
      BY <1>2
    <3>5. (F \o columns) \o <<total + 1>> = F \o (columns \o <<total + 1>>)
      BY <1>2, <3>4, ConcatAssociative
    <3> QED BY <3>1, <3>3, <3>5
  <2>3. F \o columns' = [n \in 1..total' |-> n]
    BY <1>1, <1>2, <2>1, <2>2, NextRow
  <2> QED BY <1>1, <2>1, <2>3 DEF F
<1>5. CASE OpenFile
  <2>1. files' = files
    BY <1>0, <1>5 DEF OpenFile, TypeOK
  <2> QED BY <1>1, <1>3, <1>5, <2>1 DEF OpenFile, F
<1>6. CASE WriteFile
  <2>1. /\ files' = [files EXCEPT ![name] = columns] /\ files[name] = <<>> /\ columns # <<>>
        /\ written' = Append(written, name) /\ pc = "write" /\ pc' = "clear" /\ total' = total
    BY <1>6 DEF WriteFile, BatchAtHand
  <2> DEFINE n == Len(written)
  <2>2. /\ n \in Nat /\ DOMAIN written = 1..n /\ DOMAIN written' = 1..(n + 1)
        /\ \A i \in 1..n : written'[i] = written[i] /\ written[i] \in 0..MaxTime
        /\ written'[n + 1] = name /\ name \in 0..MaxTime
    <3>1. written \in Seq(0..MaxTime) /\ name \in 0..MaxTime
      BY DEF TypeOK
    <3> QED BY <2>1, <3>1, AppendProperties, LenProperties, ElementOfSeq
  <2> HIDE DEF n
  <2>3. \A i \in 1..n : files'[written'[i]] = files[written[i]]
    <3>1. \A t \in 0..MaxTime : t # name => files'[t] = files[t]
      BY <2>1 DEF TypeOK
    <3>2. \A i \in 1..n : written[i] # name
      BY <1>1, <2>1, <2>2
    <3> QED BY <2>2, <3>1, <3>2
  <2>4. files'[written'[n + 1]] = columns
    BY <2>1, <2>2 DEF TypeOK
  <2>5. \A i \in DOMAIN written' : files'[written'[i]] # <<>>
    BY <1>1, <2>1, <2>2, <2>3, <2>4
  <2>6. Batches' = Append(Batches, columns)
    <3>1. /\ Batches \in Seq(Seq(Nat)) /\ Len(Batches) = n
          /\ Batches' \in Seq(Seq(Nat)) /\ Len(Batches') = n + 1
      <4>1. Len(written') = n + 1
        BY <2>1, AppendProperties DEF n, TypeOK
      <4> QED BY <1>b, <4>1 DEF n
    <3>2. /\ Append(Batches, columns) \in Seq(Seq(Nat)) /\ Len(Append(Batches, columns)) = n + 1
          /\ \A i \in 1..n : Append(Batches, columns)[i] = Batches[i]
          /\ Append(Batches, columns)[n + 1] = columns
      BY <1>2, <3>1, AppendProperties
    <3>3. \A i \in 1..n : Batches[i] = files[written[i]]
      BY <2>2 DEF Batches
    <3>4. \A i \in 1..(n + 1) : Batches'[i] = files'[written'[i]]
      BY <2>2 DEF Batches
    <3>5. \A i \in 1..n : Batches'[i] = Append(Batches, columns)[i]
      <4> SUFFICES ASSUME NEW i \in 1..n
                   PROVE  Batches'[i] = Append(Batches, columns)[i]
        OBVIOUS
      <4>1. Append(Batches, columns)[i] = files[written[i]]
        BY <3>2, <3>3
      <4>2. i \in 1..(n + 1)
        <5>1. n \in Nat
          BY <2>2
        <5> QED BY <5>1
      <4>3. Batches'[i] = files[written[i]]
        BY <2>3, <3>4, <4>2
      <4> QED BY <4>1, <4>3
    <3>6. Batches'[n + 1] = Append(Batches, columns)[n + 1]
      BY <2>2, <2>4, <3>2, <3>4
    <3>7. \A i \in 1..(n + 1) : i \in 1..n \/ i = n + 1
      <4>1. n \in Nat
        BY <2>2
      <4> QED BY <4>1
    <3>8. \A i \in 1..(n + 1) : Batches'[i] = Append(Batches, columns)[i]
      BY <3>5, <3>6, <3>7
    <3> QED BY <3>1, <3>2, <3>8, SeqEqual
  <2>7. FlattenSeq(Batches') = F \o columns
    BY <1>b, <1>2, <2>6, FlattenAppend DEF F
  <2>8. (F \o columns) \o <<>> = F \o columns
    BY <1>2, ConcatProperties, ConcatEmptySeq
  <2> QED BY <1>1, <2>1, <2>5, <2>7, <2>8
<1>7. CASE ClearBatchData
  <2>1. /\ columns' = <<>> /\ pc = "clear" /\ pc' # "clear" /\ total' = total
        /\ Batches' = Batches /\ files' = files /\ written' = written
    BY <1>3, <1>7 DEF ClearBatchData
  <2> QED BY <1>1, <2>1 DEF F
<1>8. CASE Tick \/ Flush \/ Destroy \/ GenerateFilename \/ UNCHANGED vars
  <2>1. /\ columns' = columns /\ total' = total /\ files' = files /\ written' = written
        /\ (pc' = "clear" <=> pc = "clear")
    BY <1>8 DEF Tick, Flush, Destroy, GenerateFilename, vars
  <2> QED BY <1>1, <1>3, <2>1 DEF F
<1> QED
  BY <1>a, <1>4, <1>5, <1>6, <1>7, <1>8 DEF Next
-----------------------------------------------------------------------------
LEMMA InitOK == Init => BatchAtHand /\ NothingLost /\ WrittenInOrder
<1> SUFFICES ASSUME Init PROVE BatchAtHand /\ NothingLost /\ WrittenInOrder
  OBVIOUS
<1>1. BatchAtHand
  BY DEF Init, BatchAtHand
<1>2. NothingLost
  BY DEF Init, NothingLost
<1>3. WrittenInOrder
  <2>1. TypeOK /\ written = <<>> /\ columns = <<>> /\ total = 0 /\ pc = "ready"
    BY TypeInit DEF Init
  <2>2. Batches = <<>>
    BY <2>1, BatchesType, EmptySeq DEF TypeOK, Batches
  <2>3. FlattenSeq(Batches) = <<>>
    BY <2>2, EmptySeq DEF FlattenSeq
  <2>4. <<>> \o <<>> = <<>> /\ [n \in 1..0 |-> n] = <<>>
    BY ConcatEmptySeq, EmptySeq
  <2> QED BY <2>1, <2>3, <2>4, EmptySeq DEF WrittenInOrder
<1> QED BY <1>1, <1>2, <1>3

\* The inductive invariant: what a flush has in hand, and where every row is.
THEOREM Invariance == Spec => []IInv
<1>1. Init => IInv
  BY TypeInit, InitOK DEF IInv
<1>2. IInv /\ [Next]_vars => IInv'
  BY TypeStep, BatchStep, NothingLostStep, WrittenStep DEF IInv
<1> QED BY <1>1, <1>2, PTL DEF Spec

\* Whatever call of Arrow throws, and however often, a row added is in the columns or in a
\* file, until a file of the same millisecond is replaced.
THEOREM NoRowLost == Spec => []NothingLost
<1>1. IInv => NothingLost
  BY DEF IInv
<1> QED BY <1>1, Invariance, PTL

\* Without exceptions, the files in the order they were written, then the columns, are the
\* rows in the order they were added, each once.
THEOREM EachRowOnce == Spec => []RowsOnce
<1>1. IInv => RowsOnce
  BY DEF IInv, WrittenInOrder, RowsOnce, Batches
<1> QED BY <1>1, Invariance, PTL

\* A destructor that returns has put all rows into files.
THEOREM DestructorLeavesNothing == Spec => []ClosedComplete
<1>1. IInv => ClosedComplete
  <2>1. ToSet(<<>>) = {}
    BY EmptySeq DEF ToSet
  <2> QED BY <2>1 DEF IInv, BatchAtHand, NothingLost, ClosedComplete
<1> QED BY <1>1, Invariance, PTL
=============================================================================
