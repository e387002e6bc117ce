------------------------------ MODULE Benchmark ------------------------------
(***************************************************************************)
(* multhread.cc: a thread writes the numbers 1 to MaxI through the ring,   *)
(* and each reader thread counts what it is handed, asserts about it, and  *)
(* leaves when it reads MaxI.  The threads start in any order; the pause   *)
(* of a millisecond before the first write orders nothing.                 *)
(*                                                                         *)
(* The ring is that of SPMCQueue with MaxI = MaxWrites and no writer that  *)
(* dies.  A thread reads i[0] through its pointer in the assertions and    *)
(* once more in the test for the end: the writer may come between, or the  *)
(* compiler load it once, which is one of these behaviours.  A build that  *)
(* loads it again for each assertion may also abort in the second one when *)
(* the thread is lapped between two loads; build.sh compiles with -O3, and *)
(* that abort is not modelled.                                             *)
(***************************************************************************)
EXTENDS SPMCQueue

CONSTANT Number  \* the word of the payload that is i[0]

ASSUME BenchmarkAssumption == Number \in Word

VARIABLES
  pc,    \* pc[r]: "poll", "assert", "test" or "left"
  cnt,   \* cnt[r]: messages it was handed
  handed \* history: handed[r]: their numbers

threadVars == <<pc, cnt, handed>>
benchVars == <<vars, threadVars>>

BenchInit ==
  /\ Init
  /\ pc = [r \in Reader |-> "poll"]
  /\ cnt = [r \in Reader |-> 0]
  /\ handed = [r \in Reader |-> {}]

Attach(r) == GetReader(r) /\ UNCHANGED threadVars

\* The count follows the number of the message.
Take_Faulty(r) ==
  /\ pc[r] = "poll"
  /\ Read(r)
  /\ cnt' = [cnt EXCEPT ![r] = held'[r]]
  /\ pc' = [pc EXCEPT ![r] = "assert"]
  /\ handed' = [handed EXCEPT ![r] = @ \cup {held'[r]}]

\* read() returns a message.
Take(r) ==
  /\ pc[r] = "poll"
  /\ Read(r)
  /\ cnt' = [cnt EXCEPT ![r] = @ + 1]
  /\ pc' = [pc EXCEPT ![r] = "assert"]
  /\ handed' = [handed EXCEPT ![r] = @ \cup {held'[r]}]

\* The latency, and the operand of the assertions.
ReadMsg(r) ==
  /\ pc[r] = "assert"
  /\ \E w \in Word : ReadWord(r, w)
  /\ UNCHANGED threadVars

\* Both assertions, passed: AssertHolds says that they do.
Assert(r) ==
  /\ pc[r] = "assert"
  /\ Unread \notin {copy[r][w] : w \in Word}
  /\ pc' = [pc EXCEPT ![r] = "test"]
  /\ UNCHANGED <<vars, cnt, handed>>

\* if (msg->i[0] == MaxI) break;
TestEnd(r) ==
  /\ pc[r] = "test"
  /\ pc' = [pc EXCEPT ![r] = IF data[BlockOf(held[r])][Number] = MaxWrites THEN "left" ELSE "poll"]
  /\ UNCHANGED <<vars, cnt, handed>>

Write == (BeginWrite \/ EndWrite \/ \E w \in Word : FillWord(w)) /\ UNCHANGED threadVars

ReaderThread(r) == Take(r) \/ ReadMsg(r) \/ Assert(r) \/ TestEnd(r)

BenchNext == Write \/ \E r \in Reader : Attach(r) \/ ReaderThread(r)

BenchSpec == BenchInit /\ [][BenchNext]_benchVars

\* Every thread runs; the main thread writes until it is done.
FairBench ==
  /\ BenchSpec
  /\ WF_benchVars(Write)
  /\ \A r \in Reader : WF_benchVars(Attach(r)) /\ WF_benchVars(ReaderThread(r))
-----------------------------------------------------------------------------
\* multhread.cc:48, assert(msg->i[0] >= cnt), also for a reader that is lapped while
\* it holds the message; and multhread.cc:49, where i[0] is compared with itself: if it
\* is loaded again, what is there is what was read, below a lap.
AssertHolds ==
  \A r \in Reader :
    pc[r] = "assert" /\ copy[r][Number] # Unread =>
      /\ copy[r][Number] >= cnt[r]
      /\ held[r] # 0 /\ written < held[r] + CNT => data[BlockOf(held[r])][Number] = copy[r][Number]

\* "drop cnt" is the number of messages a thread was not handed, those from before it
\* attached included.
DropCountExact ==
  \A r \in Reader : MaxWrites - cnt[r] = Cardinality(1..MaxWrites \ handed[r])

\* A thread whose reader was made before the last write began sees MaxI and leaves,
\* however often it is lapped; main() joins all of them.  One that comes later waits
\* for a message that is never written.
ReadersLeave ==
  \A r \in Reader : pos[r] \in 1..MaxWrites ~> pc[r] = "left"
=============================================================================
