------------------------------- MODULE Logger -------------------------------
(***************************************************************************)
(* The asynchronous logger of src/example/logger.cc inside the process of  *)
(* snapshot_consumer.cc, from init() to the end of main().                 *)
(*                                                                         *)
(* The main thread pushes messages under queue_mutex and notifies; a       *)
(* worker thread waits on the condition variable, pops and prints.         *)
(* shutdown() stores running = false without the mutex, notifies and joins *)
(* the worker.  It is called by the signal handler, on top of whatever the *)
(* main thread was doing, and by the destructor of the static logger when  *)
(* main() returns.                                                         *)
(*                                                                         *)
(* Signals are delivered to the main thread, as Linux does while the main  *)
(* thread has them unblocked.  One is delivered: a second one, which would *)
(* interrupt the handler or come after it, is not modelled.                *)
(* The synchronous mode, which nothing selects, messages below the level,  *)
(* which are never queued, and the text of messages are left out.          *)
(***************************************************************************)
EXTENDS Integers, Sequences

CONSTANTS
  ToFile,       \* init() is given the name of a file that can be opened
  ToConsole,    \* init()'s console_output argument
  MaxMessages   \* bound: messages logged before the closing one

ASSUME LoggerAssumption == ToFile \in BOOLEAN /\ ToConsole \in BOOLEAN /\ MaxMessages \in Nat

VARIABLES
  running,        \* Logger::running
  message_queue,
  queue_mutex,    \* "free", "main" or "worker"
  worker,         \* program counter of workerThread()
  hand,           \* the message popped and not yet printed
  main,           \* program counter of main()
  handler,        \* program counter of signal_handler()
  consuming,      \* the program's own running flag
  joinable,       \* worker_thread.joinable()
  console_output, \* the member of that name
  log_file,       \* "none", "open" or "closed"
  console, filed  \* the messages on the console and in the file

\* History.
VARIABLES
  logged,   \* number of messages pushed; they are numbered 1, 2, ...
  printed   \* the messages the worker is done with, in order

sinkVars == <<console_output, log_file, console, filed>>
restVars == <<joinable, sinkVars>>
workerVars == <<worker, hand, printed>>
vars == <<running, message_queue, queue_mutex, workerVars, joinable, main, handler, consuming,
          sinkVars, logged>>

\* init() assigns its argument to itself, and the member of that name stays TRUE.
ConsoleOutput(argument) == TRUE

\* After init(): the worker runs, handlers are installed, nothing is logged.
Init ==
  /\ running = TRUE
  /\ message_queue = <<>>
  /\ queue_mutex = "free"
  /\ worker = "top"
  /\ hand = <<>>
  /\ main = "start"
  /\ handler = "none"
  /\ consuming = TRUE
  /\ joinable = TRUE
  /\ console_output = ConsoleOutput(ToConsole)
  /\ log_file = IF ToFile THEN "open" ELSE "none"
  /\ console = <<>> /\ filed = <<>>
  /\ logged = 0
  /\ printed = <<>>

\* The main thread is not inside the signal handler.
MainRuns == handler \in {"none", "done"}

\* The worker after notify_one() or notify_all(): awake if it was waiting.
Notified == IF worker = "asleep" THEN "lock" ELSE worker
-----------------------------------------------------------------------------
\* main() logs while it starts and in its loop, and once more after the loop.
CallLog ==
  /\ MainRuns
  /\ main \in {"start", "loop"}
  /\ main = "loop" => consuming
  /\ logged < MaxMessages
  /\ main' = IF main = "start" THEN "log_start" ELSE "log_loop"
  /\ UNCHANGED <<running, message_queue, queue_mutex, workerVars, handler, consuming>>
  /\ UNCHANGED <<logged, restVars>>

Calling == {"log_start", "log_loop", "log_end"}
Pushing == [log_start |-> "push_start", log_loop |-> "push_loop", log_end |-> "push_end"]
Notifying == [push_start |-> "notify_start", push_loop |-> "notify_loop", push_end |-> "notify_end"]
Returning == [notify_start |-> "start", notify_loop |-> "loop", notify_end |-> "stop"]

\* log(): lock_guard on queue_mutex ...
LockQueue ==
  /\ MainRuns
  /\ main \in Calling
  /\ queue_mutex = "free"
  /\ queue_mutex' = "main"
  /\ main' = Pushing[main]
  /\ UNCHANGED <<running, message_queue, workerVars, handler, consuming, logged, restVars>>

\* ... push, and the end of the guard's scope ...
Push ==
  /\ MainRuns
  /\ main \in DOMAIN Notifying
  /\ logged' = logged + 1
  /\ message_queue' = Append(message_queue, logged')
  /\ queue_mutex' = "free"
  /\ main' = Notifying[main]
  /\ UNCHANGED <<running, workerVars, handler, consuming, restVars>>

\* The notification is forgotten.
NotifyOne_Faulty ==
  /\ MainRuns
  /\ main \in DOMAIN Returning
  /\ main' = Returning[main]
  /\ UNCHANGED <<running, message_queue, queue_mutex, workerVars, handler, consuming>>
  /\ UNCHANGED <<logged, restVars>>

\* ... notify_one().
NotifyOne ==
  /\ MainRuns
  /\ main \in DOMAIN Returning
  /\ worker' = Notified
  /\ main' = Returning[main]
  /\ UNCHANGED <<running, message_queue, queue_mutex, hand, printed, handler, consuming>>
  /\ UNCHANGED <<logged, restVars>>

\* The shared memory could not be opened, main() returns 1; or it could.
Connect ==
  /\ MainRuns
  /\ main = "start"
  /\ main' \in {"stop", "loop"}
  /\ UNCHANGED <<running, message_queue, queue_mutex, workerVars, handler, consuming>>
  /\ UNCHANGED <<logged, restVars>>

\* while (running) of main() ends; one more message, and main() returns.
LeaveLoop ==
  /\ MainRuns
  /\ main = "loop"
  /\ ~consuming
  /\ main' = "log_end"
  /\ UNCHANGED <<running, message_queue, queue_mutex, workerVars, handler, consuming>>
  /\ UNCHANGED <<logged, restVars>>
-----------------------------------------------------------------------------
\* signal_handler(): the flag of the program, then shutdown().
Signal ==
  /\ handler = "none"
  /\ main \notin {"exited", "aborted"}
  /\ consuming' = FALSE
  /\ handler' = "stop"
  /\ UNCHANGED <<running, message_queue, queue_mutex, workerVars, main, logged, restVars>>

\* shutdown() in the handler or, at the end of main(), in the destructor:
\* at pc with the next pc.
Shutdown(pc, next) ==
  IF handler = pc THEN handler' = next /\ UNCHANGED main
  ELSE MainRuns /\ main = pc /\ main' = next /\ UNCHANGED handler

\* running = false, without the mutex
Stop ==
  /\ Shutdown("stop", "wake")
  /\ running' = FALSE
  /\ UNCHANGED <<message_queue, queue_mutex, workerVars, consuming, logged, restVars>>

\* The file is closed before the worker is joined.
NotifyAll_Faulty ==
  /\ Shutdown("wake", "test")
  /\ worker' = Notified
  /\ log_file' = IF log_file = "open" THEN "closed" ELSE log_file
  /\ UNCHANGED <<running, message_queue, queue_mutex, hand, printed, joinable, consuming, logged,
                 console_output, console, filed>>

\* notify_all()
NotifyAll ==
  /\ Shutdown("wake", "test")
  /\ worker' = Notified
  /\ UNCHANGED <<running, message_queue, queue_mutex, hand, printed, consuming, logged, restVars>>

keptByJoin == <<running, message_queue, queue_mutex, workerVars, consuming, logged>>

\* The worker is left to itself.
TestJoinable_Faulty == Shutdown("test", "close") /\ UNCHANGED <<keptByJoin, restVars>>

\* if (joinable()), which it is until a join() has returned
TestJoinable ==
  /\ Shutdown("test", IF joinable THEN "join" ELSE "close")
  /\ UNCHANGED <<keptByJoin, restVars>>

\* A thread is joined once: the handler may have come between joinable() and join() and
\* joined it, or have interrupted the main thread inside its join().
MayJoin == joinable /\ ~(handler = "join" /\ main = "wait")

CallJoin ==
  /\ MayJoin
  /\ Shutdown("join", "wait")
  /\ UNCHANGED <<keptByJoin, restVars>>

\* join() throws, out of the handler or of the destructor: the process is aborted.
JoinFails ==
  /\ ~MayJoin
  /\ handler = "join" \/ (MainRuns /\ main = "join")
  /\ handler' = (IF handler = "join" THEN "done" ELSE handler) /\ main' = "aborted"
  /\ UNCHANGED <<keptByJoin, restVars>>

JoinReturns ==
  /\ worker = "gone"
  /\ Shutdown("wait", "close")
  /\ joinable' = FALSE
  /\ UNCHANGED <<keptByJoin, sinkVars>>

\* close(), and the end of shutdown()
CloseFile ==
  /\ IF handler = "close" THEN handler' = "done" /\ UNCHANGED main
     ELSE MainRuns /\ main = "close" /\ main' = "exited" /\ UNCHANGED handler
  /\ log_file' = IF log_file = "open" THEN "closed" ELSE log_file
  /\ UNCHANGED <<keptByJoin, joinable, console_output, console, filed>>
-----------------------------------------------------------------------------
WorkerAt(pc, next) == main # "aborted" /\ worker = pc /\ worker' = next
mainVars == <<main, handler, joinable, consuming, logged>>
others == <<mainVars, sinkVars>>

\* while (running)
WorkerTop ==
  /\ WorkerAt("top", IF running THEN "lock" ELSE "gone")
  /\ UNCHANGED <<running, message_queue, queue_mutex, hand, printed, others>>

\* unique_lock, or the end of a wait
WorkerLock ==
  /\ WorkerAt("lock", "check")
  /\ queue_mutex = "free"
  /\ queue_mutex' = "worker"
  /\ UNCHANGED <<running, message_queue, hand, printed, others>>

\* the predicate of wait(), evaluated with the mutex held ...
WorkerCheck ==
  /\ WorkerAt("check", IF message_queue # <<>> \/ ~running THEN "pop" ELSE "block")
  /\ UNCHANGED <<running, message_queue, queue_mutex, hand, printed, others>>

\* ... and the atomic release of the mutex and start of waiting.
WorkerBlock ==
  /\ WorkerAt("block", "asleep")
  /\ queue_mutex' = "free"
  /\ UNCHANGED <<running, message_queue, hand, printed, others>>

WorkerWakesSpuriously ==
  /\ WorkerAt("asleep", "lock")
  /\ UNCHANGED <<running, message_queue, queue_mutex, hand, printed, others>>

\* The message is copied, but not popped.
WorkerPop_Faulty ==
  /\ WorkerAt("pop", IF message_queue = <<>> THEN "gone" ELSE "print")
  /\ hand' = IF message_queue = <<>> THEN <<>> ELSE <<Head(message_queue)>>
  /\ queue_mutex' = "free"
  /\ UNCHANGED <<running, message_queue, printed, others>>

\* break when stopped with nothing left, else front() and pop(); unlock
WorkerPop ==
  /\ WorkerAt("pop", IF message_queue = <<>> THEN "gone" ELSE "print")
  /\ IF message_queue = <<>> THEN UNCHANGED <<message_queue, hand>>
     ELSE /\ hand' = <<Head(message_queue)>>
          /\ message_queue' = Tail(message_queue)
  /\ queue_mutex' = "free"
  /\ UNCHANGED <<running, printed, others>>

\* formatMessage(), then the console and the file, each when it is there
WorkerPrint ==
  /\ WorkerAt("print", "top")
  /\ printed' = printed \o hand
  /\ console' = IF console_output THEN console \o hand ELSE console
  /\ filed' = IF log_file = "open" THEN filed \o hand ELSE filed
  /\ hand' = <<>>
  /\ UNCHANGED <<running, message_queue, queue_mutex, mainVars, console_output, log_file>>
-----------------------------------------------------------------------------
MainStep == LockQueue \/ Push \/ NotifyOne \/ Connect \/ LeaveLoop
ShutdownStep ==
  Stop \/ NotifyAll \/ TestJoinable \/ CallJoin \/ JoinFails \/ JoinReturns \/ CloseFile
WorkerStep == WorkerTop \/ WorkerLock \/ WorkerCheck \/ WorkerBlock \/ WorkerPop \/ WorkerPrint

Next == CallLog \/ MainStep \/ Signal \/ ShutdownStep \/ WorkerStep \/ WorkerWakesSpuriously

Spec == Init /\ [][Next]_vars

\* Both threads are scheduled, and a free mutex goes to each that asks for it
\* again and again.  Signals, messages and spurious wakeups need not come.
Fairness ==
  /\ WF_vars(Push \/ NotifyOne \/ Connect \/ LeaveLoop) /\ SF_vars(LockQueue)
  /\ WF_vars(ShutdownStep)
  /\ WF_vars(WorkerTop \/ WorkerCheck \/ WorkerBlock \/ WorkerPop \/ WorkerPrint)
  /\ SF_vars(WorkerLock)

FairSpec == Spec /\ Fairness
-----------------------------------------------------------------------------
\* Every message logged is printed, in the worker's hand or queued, once and in
\* the order of logging, at all times and through a shutdown.
InOrder == printed \o hand \o message_queue = [n \in 1..logged |-> n]

\* A log file holds what was printed, line for line: it is open from before the
\* first message until after the worker's last.
FileComplete == filed = IF ToFile THEN printed ELSE <<>>

\* The process does not exit under a worker that still uses the logger.
JoinedAtExit == main = "exited" => worker = "gone"

\* Until the logger is stopped no message gets stuck in the queue: a push is
\* noticed whether the worker is printing, about to wait, or waiting.
Printed ==
  \A n \in 1..(MaxMessages + 1) : logged >= n ~> (Len(printed) >= n \/ ~running)

\* README_MULTI_CONSUMER.md:97: "Signal handlers for clean termination": after a
\* signal the process ends, at the least, if only by the abort of a failing join.
CleanTermination == handler # "none" ~> main \in {"exited", "aborted"}
=============================================================================
