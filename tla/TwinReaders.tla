----------------------------- MODULE TwinReaders -----------------------------
(***************************************************************************)
(* Two shm_reader processes on one queue.  Each keeps a book of its own,   *)
(* but both books point to the same Event records in the ring, and a trade *)
(* in one of them takes its amount off the records the other one is going  *)
(* to read (const_cast in shm_reader.cc:240).                              *)
(*                                                                         *)
(* The variables of OrderBook are those of the process that runs; parked   *)
(* holds the other one's, and Switch exchanges the two between any two     *)
(* steps.  No message is overwritten here: the ring is larger than the     *)
(* bound, and the readers start before the writer.                         *)
(***************************************************************************)
EXTENDS OrderBook

CONSTANTS
  Price, Amount,  \* prices, in ticks, and amounts of orders
  MaxEvents       \* bound: messages

VARIABLES
  at,      \* messages the running reader has taken
  parked   \* the other reader: its book, its event and its place in the queue

running ==
  [levels |-> levels, order_map |-> order_map, last_price |-> last_price,
   last_amount |-> last_amount, volume |-> volume, last_aggression |-> last_aggression,
   last_order_level |-> last_order_level, last_order_side |-> last_order_side,
   ev |-> ev, stage |-> stage, at |-> at]

vars == <<mem, bookVars, ev, stage, at, parked>>

TwinInit ==
  /\ BookInit
  /\ mem = <<>>
  /\ at = 0
  /\ parked = running

\* shm_writer: adds, and cancels of what was added.
Write ==
  LET n == Len(mem) + 1 IN
  /\ Len(mem) < MaxEvents
  /\ \E e \in [type : {"add"}, id : {n}, side : Side, price : Price, amount : Amount]
             \cup [type : {"cancel"}, id : 1..(n - 1), side : Side, price : Price, amount : Amount] :
        mem' = Append(mem, e)
  /\ UNCHANGED <<bookVars, ev, stage, at, parked>>

\* read() and process_event() up to the matching loop.
TakeEvent ==
  /\ at < Len(mem)
  /\ ProcessEvent(at + 1, mem[at + 1])
  /\ at' = at + 1
  /\ UNCHANGED <<mem, parked>>

MatchOne == Match /\ UNCHANGED <<at, parked>>
RestRemainder == Rest /\ UNCHANGED <<at, parked>>

\* The event is done; what is published is the subject of OrderFlow.
Done ==
  /\ stage = "publish"
  /\ stage' = "idle" /\ ev' = NoEvent
  /\ UNCHANGED <<mem, bookVars, at, parked>>

\* The other process runs.
Switch ==
  /\ parked' = running
  /\ levels' = parked.levels /\ order_map' = parked.order_map
  /\ last_price' = parked.last_price /\ last_amount' = parked.last_amount
  /\ volume' = parked.volume /\ last_aggression' = parked.last_aggression
  /\ last_order_level' = parked.last_order_level
  /\ last_order_side' = parked.last_order_side
  /\ ev' = parked.ev /\ stage' = parked.stage /\ at' = parked.at
  /\ UNCHANGED mem

Next == Write \/ TakeEvent \/ MatchOne \/ RestRemainder \/ Done \/ Switch

Spec == TwinInit /\ [][Next]_vars
-----------------------------------------------------------------------------
\* Both readers have processed the same messages and are between two events.
Level == at = parked.at /\ stage = "idle" /\ parked.stage = "idle"

\* README.md:3: a "Single Producer Multiple Consumer (SPMC) queue system designed for
\* order book simulation".  Consumers that have processed the same messages have the
\* same orders in the same queues.
TwinsAgree == Level => levels = parked.levels
=============================================================================
