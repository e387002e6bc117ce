----------------------------- MODULE LoggerProofs -----------------------------
(***************************************************************************)
(* The logger of logger.cc in snapshot_consumer.cc, for any number of      *)
(* messages, any sinks and a signal at any point: what is logged comes out *)
(* once and in order, the log file has every printed line, and the process *)
(* never exits under its worker.                                           *)
(***************************************************************************)
EXTENDS Logger, SequenceTheorems, TLAPS

MainAt ==
  {"start", "loop", "log_start", "log_loop", "log_end", "push_start", "push_loop", "push_end",
   "notify_start", "notify_loop", "notify_end", "stop", "wake", "test", "join", "wait", "close",
   "exited", "aborted"}

TypeOK ==
  /\ running \in BOOLEAN /\ consuming \in BOOLEAN /\ joinable \in BOOLEAN
  /\ message_queue \in Seq(Nat) /\ hand \in Seq(Nat) /\ printed \in Seq(Nat)
  /\ queue_mutex \in {"free", "main", "worker"}
  /\ worker \in {"top", "lock", "check", "block", "asleep", "pop", "print", "gone"}
  /\ main \in MainAt
  /\ handler \in {"none", "stop", "wake", "test", "join", "wait", "close", "done"}
  /\ log_file \in {"none", "open", "closed"}
  /\ logged \in Nat

\* The worker has a message in its hand only while it prints.
HandEmpty == worker # "print" => hand = <<>>

\* A worker that is not joinable has been joined; who is past a join, or past the test that
\* spares one, finds it so, and closes the file.
Joined ==
  /\ ~joinable => worker = "gone"
  /\ handler \in {"join", "wait"} => joinable
  /\ main = "aborted" => MainRuns
  /\ handler \in {"close", "done"} /\ main # "aborted" => ~joinable
  /\ main \in {"close", "exited"} => ~joinable
  /\ log_file = "closed" => ~joinable
  /\ log_file = "none" <=> ~ToFile

IInv == TypeOK /\ HandEmpty /\ Joined /\ InOrder /\ FileComplete /\ JoinedAtExit

USE LoggerAssumption

-----------------------------------------------------------------------------
\* The messages 1 to n in order, with the next one behind them.
LEMMA NextNumber ==
  ASSUME NEW n \in Nat
  PROVE  /\ [i \in 1..n |-> i] \in Seq(Nat)
         /\ [i \in 1..(n + 1) |-> i] = Append([i \in 1..n |-> i], n + 1)
<1>1. [i \in 1..n |-> i] \in Seq(Nat)
  OBVIOUS
<1>2. [i \in 1..(n + 1) |-> i] \in Seq(Nat)
  OBVIOUS
<1> DEFINE a == Append([i \in 1..n |-> i], n + 1)
<1>3. a \in Seq(Nat) /\ Len(a) = n + 1 /\ \A i \in 1..(n + 1) : a[i] = i
  BY <1>1, AppendProperties
<1>4. Len([i \in 1..(n + 1) |-> i]) = n + 1
  OBVIOUS
<1> HIDE DEF a
<1>5. [i \in 1..(n + 1) |-> i] = a
  BY <1>2, <1>3, <1>4, SeqEqual
<1> QED BY <1>1, <1>5 DEF a

\* Appending to the last of three sequences appends to their concatenation.
LEMMA AppendToLast ==
  ASSUME NEW s \in Seq(Nat), NEW t \in Seq(Nat), NEW u \in Seq(Nat), NEW x \in Nat
  PROVE  s \o t \o Append(u, x) = Append(s \o t \o u, x)
<1>1. s \o t \in Seq(Nat) /\ s \o t \o u \in Seq(Nat) /\ <<x>> \in Seq(Nat)
  BY ConcatProperties
<1>2. Append(u, x) = u \o <<x>> /\ Append(s \o t \o u, x) = (s \o t \o u) \o <<x>>
  BY <1>1, AppendIsConcat
<1> QED BY <1>1, <1>2, ConcatAssociative

\* Handing the head of the last sequence over to an empty one in front of it.
LEMMA HandOver ==
  ASSUME NEW s \in Seq(Nat), NEW u \in Seq(Nat), u # <<>>
  PROVE  s \o <<>> \o u = s \o <<Head(u)>> \o Tail(u)
<1>1. Head(u) \in Nat /\ Tail(u) \in Seq(Nat) /\ <<Head(u)>> \in Seq(Nat)
  BY HeadTailProperties
<1>2. u = <<Head(u)>> \o Tail(u)
  <2>1. Len(u) \in Nat \ {0}
    BY EmptySeq
  <2>2. SubSeq(u, 1, Len(u)) = <<u[1]>> \o SubSeq(u, 2, Len(u))
    BY <2>1, SubSeqRecursiveFirst
  <2> QED BY <2>2, SubSeqFull, TailIsSubSeq
<1>3. s \o <<>> = s
  BY ConcatEmptySeq
<1>4. (s \o <<Head(u)>>) \o Tail(u) = s \o (<<Head(u)>> \o Tail(u))
  <2> DEFINE h == <<Head(u)>>
             t == Tail(u)
  <2>1. h \in Seq(Nat) /\ t \in Seq(Nat)
    BY <1>1
  <2> HIDE DEF h, t
  <2>2. (s \o h) \o t = s \o (h \o t)
    BY <2>1, ConcatAssociative, SMTT(30)
  <2> QED BY <2>2 DEF h, t
<1> QED BY <1>2, <1>3, <1>4

\* Nothing comes between two sequences of which one gets the other's messages.
LEMMA PutDown ==
  ASSUME NEW s \in Seq(Nat), NEW t \in Seq(Nat), NEW u \in Seq(Nat)
  PROVE  (s \o t) \o <<>> \o u = s \o t \o u
  BY ConcatProperties, ConcatEmptySeq
-----------------------------------------------------------------------------
LEMMA InitIInv == Init => IInv
<1> SUFFICES ASSUME Init PROVE IInv
  OBVIOUS
<1>1. TypeOK
  BY EmptySeq DEF Init, TypeOK, MainAt
<1>2. HandEmpty /\ Joined /\ FileComplete /\ JoinedAtExit
  BY DEF Init, HandEmpty, Joined, MainRuns, FileComplete, JoinedAtExit
<1>3. InOrder
  <2>1. [n \in 1..0 |-> n] = <<>>
    OBVIOUS
  <2> QED BY <2>1, ConcatEmptySeq, EmptySeq DEF Init, InOrder
<1> QED BY <1>1, <1>2, <1>3 DEF IInv

LEMMA PushInv == IInv /\ Push => IInv'
<1> SUFFICES ASSUME IInv, Push PROVE IInv'
  OBVIOUS
<1> USE DEF IInv, Push, restVars, sinkVars, workerVars
<1>1. main' \in {"notify_start", "notify_loop", "notify_end"}
  BY DEF Notifying
<1>2. TypeOK'
  BY <1>1, AppendProperties DEF TypeOK, MainAt
<1>3. (HandEmpty /\ Joined /\ FileComplete /\ JoinedAtExit)'
  BY <1>1 DEF HandEmpty, Joined, FileComplete, JoinedAtExit, Notifying
<1>4. InOrder'
  <2>1. [n \in 1..(logged + 1) |-> n] = Append([n \in 1..logged |-> n], logged + 1)
    BY NextNumber DEF TypeOK
  <2>2. printed \o hand \o Append(message_queue, logged + 1)
          = Append(printed \o hand \o message_queue, logged + 1)
    BY AppendToLast DEF TypeOK
  <2> QED BY <2>1, <2>2 DEF TypeOK, InOrder
<1> QED BY <1>2, <1>3, <1>4

LEMMA WorkerPopInv == IInv /\ WorkerPop => IInv'
<1> SUFFICES ASSUME IInv, WorkerPop PROVE IInv'
  OBVIOUS
<1> USE DEF IInv, WorkerPop, WorkerAt, others, mainVars, sinkVars
<1>1. TypeOK'
  <2>1. CASE message_queue = <<>>
    BY <2>1 DEF TypeOK, MainAt
  <2>2. CASE message_queue # <<>>
    <3>1. Tail(message_queue) \in Seq(Nat) /\ <<Head(message_queue)>> \in Seq(Nat)
      BY <2>2, HeadTailProperties DEF TypeOK
    <3>2. message_queue' \in Seq(Nat) /\ hand' \in Seq(Nat)
      BY <2>2, <3>1
    <3> HIDE <3>1
    <3> QED BY <3>2 DEF TypeOK, MainAt
  <2> QED BY <2>1, <2>2
<1>2. (HandEmpty /\ Joined /\ FileComplete /\ JoinedAtExit)'
  BY DEF TypeOK, HandEmpty, Joined, FileComplete, JoinedAtExit
<1>3. InOrder'
  <2>1. printed \in Seq(Nat) /\ message_queue \in Seq(Nat) /\ hand = <<>>
    BY DEF TypeOK, HandEmpty
  <2>2. CASE message_queue = <<>>
    BY <2>2 DEF InOrder
  <2>3. CASE message_queue # <<>>
    <3>1. printed \o <<>> \o message_queue
            = printed \o <<Head(message_queue)>> \o Tail(message_queue)
      BY <2>1, <2>3, HandOver
    <3> QED BY <2>1, <2>3, <3>1 DEF InOrder
  <2> QED BY <2>2, <2>3
<1> QED BY <1>1, <1>2, <1>3

LEMMA WorkerPrintInv == IInv /\ WorkerPrint => IInv'
<1> SUFFICES ASSUME IInv, WorkerPrint PROVE IInv'
  OBVIOUS
<1> USE DEF IInv, WorkerPrint, WorkerAt, mainVars
<1>1. TypeOK'
  BY ConcatProperties DEF TypeOK, MainAt
<1>2. (HandEmpty /\ Joined /\ FileComplete /\ JoinedAtExit)'
  BY DEF TypeOK, HandEmpty, Joined, FileComplete, JoinedAtExit
<1>3. InOrder'
  BY PutDown DEF TypeOK, InOrder
<1> QED BY <1>1, <1>2, <1>3

\* The join of shutdown() in the handler or in the destructor, and what follows it.
LEMMA JoinInv ==
  IInv /\ (TestJoinable \/ CallJoin \/ JoinFails \/ JoinReturns \/ CloseFile) => IInv'
<1> SUFFICES ASSUME IInv, TestJoinable \/ CallJoin \/ JoinFails \/ JoinReturns \/ CloseFile
             PROVE  IInv'
  OBVIOUS
<1> USE DEF keptByJoin, workerVars, restVars, sinkVars
<1>1. /\ UNCHANGED <<message_queue, hand, printed, filed, logged, worker>>
      /\ UNCHANGED <<running, consuming, queue_mutex>>
  BY DEF TestJoinable, CallJoin, JoinFails, JoinReturns, CloseFile
<1>2. (HandEmpty /\ FileComplete /\ InOrder)'
  BY <1>1 DEF IInv, HandEmpty, FileComplete, InOrder
<1>3. (TypeOK /\ Joined)'
  <2> USE DEF IInv, TypeOK, MainAt, Joined, MainRuns
  <2>1. CASE TestJoinable
    BY <1>1, <2>1 DEF TestJoinable, Shutdown
  <2>2. CASE CallJoin
    BY <1>1, <2>2 DEF CallJoin, Shutdown
  <2>3. CASE JoinFails
    BY <1>1, <2>3 DEF JoinFails
  <2>4. CASE JoinReturns
    <3>1. \/ handler = "wait" /\ handler' = "close" /\ main' = main
          \/ MainRuns /\ main = "wait" /\ main' = "close" /\ handler' = handler
      BY <2>4 DEF JoinReturns, Shutdown
    <3>2. worker = "gone" /\ joinable' = FALSE /\ UNCHANGED <<log_file, console_output>>
      BY <2>4 DEF JoinReturns
    <3>3. TypeOK'
      BY <1>1, <3>1, <3>2
    <3> QED BY <1>1, <3>1, <3>2, <3>3
  <2>5. CASE CloseFile
    BY <1>1, <2>5 DEF CloseFile
  <2> QED BY <2>1, <2>2, <2>3, <2>4, <2>5
<1>4. JoinedAtExit'
  BY <1>3 DEF Joined, JoinedAtExit
<1> QED BY <1>2, <1>3, <1>4 DEF IInv

\* No other step touches the messages.
LEMMA OtherStepsInv ==
  IInv /\ (CallLog \/ LockQueue \/ NotifyOne \/ Connect \/ LeaveLoop \/ Signal \/ Stop \/ NotifyAll
           \/ WorkerTop \/ WorkerLock \/ WorkerCheck \/ WorkerBlock
           \/ WorkerWakesSpuriously \/ UNCHANGED vars) => IInv'
<1> SUFFICES ASSUME IInv,
                    CallLog \/ LockQueue \/ NotifyOne \/ Connect \/ LeaveLoop \/ Signal \/ Stop
                      \/ NotifyAll \/ WorkerTop \/ WorkerLock \/ WorkerCheck
                      \/ WorkerBlock \/ WorkerWakesSpuriously \/ UNCHANGED vars
             PROVE  IInv'
  OBVIOUS
<1> DEFINE Kept ==
  /\ UNCHANGED <<message_queue, hand, printed, filed, log_file, logged>>
  /\ worker = "print" <=> worker' = "print"
  /\ worker = "gone" => worker' = "gone"
  /\ joinable' = joinable
  /\ handler' \in {"join", "wait"} => handler \in {"join", "wait"}
  /\ main' = "aborted" => MainRuns'
  /\ handler' \in {"close", "done"} /\ main' # "aborted" =>
       handler \in {"close", "done"} /\ main # "aborted"
  /\ main' \in {"close", "exited"} => main \in {"close", "exited"}
  /\ TypeOK'
<1> USE DEF IInv, TypeOK, MainAt, Joined, MainRuns, restVars, sinkVars,
           workerVars
<1>1. Kept
  <2>1. CASE CallLog
    BY <2>1 DEF CallLog
  <2>6. CASE Connect \/ LeaveLoop
    BY <2>6 DEF Connect, LeaveLoop
  <2>7. CASE Signal
    BY <2>7, ZenonT(40) DEF Signal
  <2>8. CASE UNCHANGED vars
    BY <2>8 DEF vars
  <2>2. CASE LockQueue
    <3>1. main' \in {"push_start", "push_loop", "push_end"} /\ main # "aborted"
      BY <2>2 DEF LockQueue, Calling, Pushing
    <3> QED BY <2>2, <3>1 DEF LockQueue
  <2>3. CASE NotifyOne
    <3>1. main' \in {"start", "loop", "stop"} /\ main # "aborted"
      BY <2>3 DEF NotifyOne, Returning
    <3> QED BY <2>3, <3>1 DEF NotifyOne, Notified
  <2>4. CASE Stop
    <3>1. \/ handler = "stop" /\ handler' = "wake" /\ main' = main
          \/ main = "stop" /\ main' = "wake" /\ handler' = handler
      BY <2>4 DEF Stop, Shutdown
    <3>2. running' \in BOOLEAN
      BY <2>4 DEF Stop
    <3> QED BY <2>4, <3>1, <3>2 DEF Stop
  <2>9. CASE NotifyAll
    BY <2>9 DEF NotifyAll, Notified, Shutdown, MainRuns
  <2>5. CASE WorkerTop \/ WorkerLock \/ WorkerCheck \/ WorkerBlock \/ WorkerWakesSpuriously
    BY <2>5 DEF WorkerTop, WorkerLock, WorkerCheck, WorkerBlock, WorkerWakesSpuriously, WorkerAt,
                others, mainVars
  <2> QED BY <2>1, <2>2, <2>3, <2>4, <2>5, <2>6, <2>7, <2>8, <2>9
<1> USE DEF Kept
<1>2. (HandEmpty /\ Joined /\ FileComplete /\ JoinedAtExit)'
  BY <1>1 DEF IInv, HandEmpty, Joined, FileComplete, JoinedAtExit
<1>3. InOrder'
  BY <1>1 DEF IInv, InOrder
<1> QED BY <1>1, <1>2, <1>3 DEF IInv
-----------------------------------------------------------------------------
\* The invariant of the logger holds in every reachable state.
THEOREM Invariance == Spec => []IInv
<1>1. IInv /\ [Next]_vars => IInv'
  BY PushInv, WorkerPopInv, WorkerPrintInv, JoinInv, OtherStepsInv
     DEF Next, MainStep, ShutdownStep, WorkerStep
<1> QED BY InitIInv, <1>1, PTL DEF Spec

\* What main() has logged is printed, in the worker's hand or queued, once and in the
\* order of logging, however many messages there are and wherever a signal comes.
THEOREM Ordered == Spec => []InOrder
  BY Invariance, PTL DEF IInv

\* The log file holds what was printed, also when the handler and the destructor shut
\* the logger down one on top of the other.
THEOREM FileHolds == Spec => []FileComplete
  BY Invariance, PTL DEF IInv

\* The process exits after its worker.
THEOREM ExitsJoined == Spec => []JoinedAtExit
  BY Invariance, PTL DEF IInv
-----------------------------------------------------------------------------
\* queue_mutex is held by exactly the thread that is about to use the queue.
Guarded ==
  /\ queue_mutex = "main" <=> main \in {"push_start", "push_loop", "push_end"}
  /\ queue_mutex = "worker" <=> worker \in {"check", "block", "pop"}

LEMMA GuardedStep == TypeOK /\ Joined /\ Guarded /\ [Next]_vars => Guarded'
<1> SUFFICES ASSUME TypeOK, Joined, Guarded, [Next]_vars PROVE Guarded'
  OBVIOUS
<1> USE DEF TypeOK, MainAt, Guarded, restVars, sinkVars, workerVars
<1>1. CASE CallLog \/ Connect \/ LeaveLoop \/ Signal \/ UNCHANGED vars
  BY <1>1 DEF CallLog, Connect, LeaveLoop, Signal, vars
<1>2. CASE LockQueue
  <2>1. main' \in {"push_start", "push_loop", "push_end"}
    BY <1>2 DEF LockQueue, Calling, Pushing
  <2> QED BY <1>2, <2>1 DEF LockQueue
<1>3. CASE Push
  <2>1. /\ main \in {"push_start", "push_loop", "push_end"}
        /\ main' \in {"notify_start", "notify_loop", "notify_end"}
    BY <1>3 DEF Push, Notifying
  <2> QED BY <1>3, <2>1 DEF Push
<1>4. CASE NotifyOne
  <2>1. /\ main \in {"notify_start", "notify_loop", "notify_end"}
        /\ main' \in {"start", "loop", "stop"}
    BY <1>4 DEF NotifyOne, Returning
  <2> QED BY <1>4, <2>1 DEF NotifyOne, Notified
<1>5. CASE ShutdownStep
  <2>1. CASE Stop \/ NotifyAll
    BY <2>1 DEF Stop, NotifyAll, Notified, Shutdown, MainRuns
  <2>2. CASE TestJoinable \/ CallJoin
    BY <2>2 DEF TestJoinable, CallJoin, keptByJoin, Shutdown, MainRuns
  <2>4. CASE JoinFails
    <3>1. main \in {"join", "wait"}
      BY <2>4 DEF JoinFails, MayJoin, Joined
    <3> QED BY <2>4, <3>1 DEF JoinFails, keptByJoin
  <2>3. CASE JoinReturns \/ CloseFile
    BY <2>3 DEF JoinReturns, CloseFile, keptByJoin, Shutdown, MainRuns
  <2> QED BY <1>5, <2>1, <2>2, <2>3, <2>4 DEF ShutdownStep
<1>6. CASE WorkerStep \/ WorkerWakesSpuriously
  BY <1>6 DEF WorkerStep, WorkerTop, WorkerLock, WorkerCheck, WorkerBlock, WorkerPop, WorkerPrint,
              WorkerWakesSpuriously, WorkerAt, others, mainVars
<1> QED BY <1>1, <1>2, <1>3, <1>4, <1>5, <1>6 DEF Next, MainStep

\* The main thread and the worker never use the queue at the same time, the signal
\* handler and the destructor included: push, test of the predicate and pop are each
\* done with the mutex held.
THEOREM MutualExclusion ==
  Spec => [](main \in {"push_start", "push_loop", "push_end"} => worker \notin {"check", "block", "pop"})
<1>1. Init => Guarded
  BY DEF Init, Guarded
<1>2. TypeOK /\ Joined /\ Guarded /\ [Next]_vars => Guarded'
  BY GuardedStep
<1>3. Guarded =>
        (main \in {"push_start", "push_loop", "push_end"} => worker \notin {"check", "block", "pop"})
  BY DEF Guarded
<1>4. IInv => TypeOK /\ Joined
  BY DEF IInv
<1> QED BY <1>1, <1>2, <1>3, <1>4, Invariance, PTL DEF Spec
-----------------------------------------------------------------------------
\* A worker that goes to sleep has seen an empty queue, and only the message whose
\* notification is still to come has been pushed since.
WakeupDue ==
  /\ worker = "block" => message_queue = <<>>
  /\ worker = "asleep" /\ message_queue # <<>> =>
       main \in {"notify_start", "notify_loop", "notify_end"}

LEMMA WakeupStep == TypeOK /\ Joined /\ Guarded /\ WakeupDue /\ [Next]_vars => WakeupDue'
<1> SUFFICES ASSUME TypeOK, Joined, Guarded, WakeupDue, [Next]_vars PROVE WakeupDue'
  OBVIOUS
<1> USE DEF WakeupDue, restVars, sinkVars, workerVars
<1>1. CASE CallLog \/ Connect \/ LeaveLoop \/ Signal \/ UNCHANGED vars
  BY <1>1 DEF CallLog, Connect, LeaveLoop, Signal, vars
<1>2. CASE LockQueue
  BY <1>2 DEF LockQueue, Calling
<1>3. CASE Push
  <2>1. /\ main' \in {"notify_start", "notify_loop", "notify_end"}
        /\ main \in {"push_start", "push_loop", "push_end"} /\ worker' = worker
    BY <1>3 DEF Push, Notifying
  <2>2. worker # "block"
    BY <2>1 DEF Guarded
  <2> QED BY <2>1, <2>2
<1>4. CASE NotifyOne \/ NotifyAll
  <2>1. /\ worker' = (IF worker = "asleep" THEN "lock" ELSE worker)
        /\ message_queue' = message_queue
    BY <1>4 DEF NotifyOne, NotifyAll, Notified
  <2> QED BY <2>1
<1>5. CASE Stop \/ TestJoinable \/ CallJoin \/ JoinFails \/ JoinReturns \/ CloseFile
  <2>1. CASE Stop
    BY <2>1 DEF Stop, Shutdown
  <2>2. CASE TestJoinable \/ CallJoin \/ JoinReturns
    BY <2>2 DEF TestJoinable, CallJoin, JoinReturns, keptByJoin, Shutdown
  <2>3. CASE JoinFails
    <3>1. main \in {"join", "wait"}
      BY <2>3 DEF JoinFails, MayJoin, Joined
    <3> QED BY <2>3, <3>1 DEF JoinFails, keptByJoin
  <2>4. CASE CloseFile
    BY <2>4 DEF CloseFile, keptByJoin
  <2> QED BY <1>5, <2>1, <2>2, <2>3, <2>4
<1>6. CASE WorkerCheck
  BY <1>6 DEF WorkerCheck, WorkerAt, others, mainVars
<1>7. CASE WorkerBlock
  BY <1>7 DEF WorkerBlock, WorkerAt, others, mainVars
<1>8. CASE WorkerTop \/ WorkerLock \/ WorkerPop \/ WorkerPrint \/ WorkerWakesSpuriously
  <2>1. worker' \notin {"block", "asleep"}
    BY <1>8 DEF WorkerTop, WorkerLock, WorkerPop, WorkerPrint, WorkerWakesSpuriously, WorkerAt
  <2> QED BY <2>1
<1> QED BY <1>1, <1>2, <1>3, <1>4, <1>5, <1>6, <1>7, <1>8
        DEF Next, MainStep, ShutdownStep, WorkerStep

\* No wakeup is lost (logger.cc:50-54, 75-77): a worker that sleeps while messages
\* are queued has a notify_one() ahead of it, whatever a signal interrupts.  This is why
\* Printed needs no more than that both threads go on; the stop flag, stored without the
\* mutex, has no such guarantee.
THEOREM NoLostWakeup ==
  Spec => [](worker = "asleep" /\ message_queue # <<>> => main \in DOMAIN Returning)
<1>1. Init => Guarded /\ WakeupDue
  BY DEF Init, Guarded, WakeupDue
<1>2. TypeOK /\ Joined /\ Guarded /\ WakeupDue /\ [Next]_vars => Guarded' /\ WakeupDue'
  BY GuardedStep, WakeupStep
<1>3. WakeupDue => (worker = "asleep" /\ message_queue # <<>> => main \in DOMAIN Returning)
  BY DEF WakeupDue, Returning
<1>4. IInv => TypeOK /\ Joined
  BY DEF IInv
<1> QED BY <1>1, <1>2, <1>3, <1>4, Invariance, PTL DEF Spec
=============================================================================
