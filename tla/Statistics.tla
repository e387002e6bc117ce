------------------------------ MODULE Statistics ------------------------------
(***************************************************************************)
(* The two collectors of measured latencies.  LatencyStats (shm_reader)    *)
(* prints figures of a window of PrintEvery samples and begins the next;   *)
(* one of its three series is modelled, the others are alike.  Statistic   *)
(* (multhread) keeps every sample and prints once, at the end.             *)
(***************************************************************************)
EXTENDS Integers, Sequences, FiniteSets, SequencesExt

CONSTANTS
  Sample,      \* latencies
  PrintEvery,  \* samples in a window (10 in shm_reader)
  IntMod,      \* int is a signed number modulo IntMod (2^32)
  WordMod,     \* uint64_t is unsigned modulo WordMod (2^64)
  MaxSamples   \* bound: samples given to each collector

ASSUME StatisticsAssumption ==
  /\ PrintEvery \in Nat \ {0}
  /\ IntMod \in Nat \ {0} /\ IntMod % 2 = 0
  /\ WordMod \in Nat \ {0} /\ WordMod % IntMod = 0
  /\ Sample \subseteq 0..(WordMod - 1)
  /\ MaxSamples \in Nat

VARIABLES
  latencies,  \* the window
  count,
  figures,    \* what print_one() printed last, <<>> before
  vec,        \* of Statistic
  summary     \* what Statistic::print() printed, <<>> before

\* History.
VARIABLE given  \* samples LatencyStats was given

vars == <<latencies, count, figures, vec, summary, given>>

\* std::sort()
Ascending(s) ==
  LET order == CHOOSE p \in Bijection(DOMAIN s, DOMAIN s) :
                 \A i, j \in DOMAIN s : i < j => s[p[i]] <= s[p[j]]
  IN [i \in DOMAIN s |-> s[order[i]]]

Nth(s, i) == s[i + 1]

Init == latencies = <<>> /\ count = 0 /\ figures = <<>> /\ vec = <<>> /\ summary = <<>> /\ given = <<>>

\* The percentile is taken of the samples as they came.
PrintOne_Faulty(s) ==
  LET n == Len(s) IN
  [min |-> Ascending(s)[1], max |-> Last(Ascending(s)),
   rank |-> [p \in {50, 90, 99} |-> Nth(s, (n * p) \div 100)]]

\* print_one(): v[n / 2], v[n * 9 / 10] and v[n * 99 / 100] of the sorted window.
PrintOne(s) ==
  LET n == Len(s) v == Ascending(s) IN
  [min |-> v[1], max |-> Last(v), rank |-> [p \in {50, 90, 99} |-> Nth(v, (n * p) \div 100)]]

\* The window goes on after it was printed.
Add_Faulty(x) ==
  LET window == Append(latencies, x) IN
  /\ count < MaxSamples
  /\ count' = count + 1
  /\ figures' = IF count' % PrintEvery = 0 THEN PrintOne(window) ELSE figures
  /\ latencies' = window
  /\ given' = Append(given, x)
  /\ UNCHANGED <<vec, summary>>

\* LatencyStats::add() with print_stats()
Add(x) ==
  LET window == Append(latencies, x) IN
  /\ count < MaxSamples
  /\ count' = count + 1
  /\ IF count' % PrintEvery = 0
       THEN figures' = PrintOne(window) /\ latencies' = <<>>
       ELSE latencies' = window /\ UNCHANGED figures
  /\ given' = Append(given, x)
  /\ UNCHANGED <<vec, summary>>

\* Statistic::add(); nothing is added once print() has sorted the samples.
Record(x) ==
  /\ summary = <<>> /\ Len(vec) < MaxSamples
  /\ vec' = Append(vec, x)
  /\ UNCHANGED <<latencies, count, figures, summary, given>>

\* Conversion to int.
ToInt(x) == ((x + IntMod \div 2) % IntMod) - IntMod \div 2

\* std::accumulate(..., 0): the sum is an int, converted back at the end.
Accumulate(s) ==
  LET sum[i \in 0..Len(s)] == IF i = 0 THEN 0 ELSE ToInt((sum[i - 1] + s[i]) % WordMod)
  IN sum[Len(s)] % WordMod

\* The sum of the squares, of unsigned differences.
Squares(s, mean) ==
  LET diff(x) == (x - mean) % WordMod
      var[i \in 0..Len(s)] == IF i = 0 THEN 0 ELSE (var[i - 1] + diff(s[i]) * diff(s[i])) % WordMod
  IN var[Len(s)]

\* What Statistic::print() prints of the samples v, in the order they are in.
SummaryOf(v) ==
  LET n == Len(v) mean == Accumulate(v) \div n IN
  [mean |-> mean, var |-> Squares(v, mean) \div n,
   rank |-> [p \in {1, 10, 50, 90, 99} |-> Nth(v, (n * p) \div 100)]]

\* The samples are not sorted.
Summarise_Faulty ==
  /\ summary = <<>> /\ vec # <<>>
  /\ summary' = SummaryOf(vec)
  /\ UNCHANGED <<vec, latencies, count, figures, given>>

\* Statistic::print() sorts the samples first.
Summarise ==
  /\ summary = <<>> /\ vec # <<>>
  /\ vec' = Ascending(vec)
  /\ summary' = SummaryOf(vec')
  /\ UNCHANGED <<latencies, count, figures, given>>

Next == (\E x \in Sample : Add(x) \/ Record(x)) \/ Summarise

Spec == Init /\ [][Next]_vars
-----------------------------------------------------------------------------
\* At most i samples of s are smaller than v, and more than i are not greater.
HasRank(v, i, s) ==
  /\ Cardinality({k \in DOMAIN s : s[k] < v}) <= i
  /\ i < Cardinality({k \in DOMAIN s : s[k] <= v})

\* Each window is printed once, of the last PrintEvery samples and no others: at most
\* p percent of them are below the p-th percentile, and more are not above it.
WindowExact ==
  figures # <<>> =>
    LET upto == count - Len(latencies)
        window == SubSeq(given, upto - PrintEvery + 1, upto)
    IN /\ Len(latencies) < PrintEvery
       /\ HasRank(figures.min, 0, window) /\ HasRank(figures.max, PrintEvery - 1, window)
       /\ \A p \in DOMAIN figures.rank :
             HasRank(figures.rank[p], (PrintEvery * p) \div 100, window)

SumOf(s) == LET sum[i \in 0..Len(s)] == IF i = 0 THEN 0 ELSE sum[i - 1] + s[i] IN sum[Len(s)]

\* The percentiles of the summary are those of the samples; mean and variance are exact
\* while the sum of the samples is an int and that of the squares a word: subtracting
\* unsigned numbers does no harm.
SummaryExact ==
  summary # <<>> =>
    LET mean == SumOf(vec) \div Len(vec)
        squares == SumOf([i \in DOMAIN vec |-> (vec[i] - mean) * (vec[i] - mean)])
    IN /\ SumOf(vec) < IntMod \div 2 =>
            /\ summary.mean = mean
            /\ squares < WordMod => summary.var = squares \div Len(vec)
       /\ \A p \in DOMAIN summary.rank :
             HasRank(summary.rank[p], (Len(vec) * p) \div 100, vec)
=============================================================================
