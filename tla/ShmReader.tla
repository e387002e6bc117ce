------------------------------ MODULE ShmReader ------------------------------
(***************************************************************************)
(* shm_writer and shm_reader: the writer stores orders in the ring in      *)
(* shared memory, the reader feeds its order book from it and publishes    *)
(* snapshots, and with --check-gaps resets the book and replays the ring   *)
(* when sequence numbers do not follow one another.                        *)
(*                                                                         *)
(* The book keeps pointers to the events, and here the events are in the   *)
(* ring: mem[p] is block p, which the writer fills again CNT messages      *)
(* later.  The ring is that of SPMCQueue with indices that do not wrap and *)
(* a payload stored at once; what is kept is that a message is in its      *)
(* block before its index is, and that a reader uses a block through its   *)
(* pointer, long after read() has returned it.                             *)
(***************************************************************************)
EXTENDS OrderBook

CONSTANTS
  CNT,            \* blocks of the ring
  Price, Amount,  \* prices, in ticks, and amounts of orders
  CheckGaps,      \* --check-gaps
  ForceRecovery,  \* --recover
  MaxWrites,      \* bound: messages
  MaxRestarts     \* bound: writer processes that die

ASSUME ReaderAssumption ==
  /\ CNT \in Nat \ {0}
  /\ Price \subseteq Int
  /\ Amount \subseteq 0..(AmountMod - 1)
  /\ CheckGaps \in BOOLEAN /\ ForceRecovery \in BOOLEAN
  /\ MaxWrites \in Nat /\ MaxRestarts \in Nat

VARIABLES
  write_idx,    \* index of the last claimed message
  posted,       \* posted[p]: index stored in block p
  writing,      \* TRUE while the writer is inside write()
  seq,          \* the writer's next sequence number
  pc,           \* where main() is
  next_idx,     \* index the main loop's reader expects
  replay_idx,   \* index the recovery's reader expects
  taken,        \* pointer the main loop got from read()
  expected_seq,
  shown_top,    \* the snapshots in the two regions
  shown_depth

\* History.
VARIABLES
  raced,     \* a block was filled again under the reader's pointers, or read then
  restarts,  \* writers that died
  again,     \* the main loop took a message the recovery had replayed
  missed,    \* messages were lost to the main loop since the last recovery
  replayed,  \* messages the last recovery replayed
  holds,     \* holds[p]: index and writer of the message in block p
  numbered,  \* the message that expected_seq is the successor of
  misled     \* since the last recovery the check was given a wrong expectation

ring == <<write_idx, posted, writing, seq>>
loop == <<next_idx, replay_idx, taken, expected_seq>>
shown == <<shown_top, shown_depth>>
history == <<raced, restarts, again, missed, replayed, holds, numbered, misled>>
vars == <<mem, bookVars, ev, stage, ring, pc, loop, shown, history>>

Block == 1..CNT
BlockOf(i) == 1 + (i % CNT)
\* A message, as the history names it.
Nothing == [index |-> 0, writer |-> 0]
Blank == [type |-> "none", id |-> 0, side |-> Bid, price |-> 0, amount |-> 0]

\* What the writer puts into a message: adds and cancels; the order id is the
\* sequence number, so that one field stands for both.
Message == [type : {"add", "cancel"}, id : {seq}, side : Side, price : Price, amount : Amount]

Init ==
  /\ BookInit
  /\ mem = [p \in Block |-> Blank]
  /\ write_idx = 0 /\ posted = [p \in Block |-> 0] /\ writing = FALSE /\ seq = 1
  /\ pc = "start"
  /\ next_idx = 0 /\ replay_idx = 0 /\ taken = NoEvent /\ expected_seq = 1
  /\ shown_top = Top /\ shown_depth = Depth
  /\ raced = FALSE /\ restarts = 0 /\ again = FALSE /\ missed = FALSE /\ replayed = {}
  /\ holds = [p \in Block |-> Nothing] /\ numbered = Nothing /\ misled = FALSE
-----------------------------------------------------------------------------
\* The writer.

\* Blocks the reader has pointers to.
Pointed ==
  Resting(Bid) \cup Resting(Ask) \cup {order_map[id] : id \in DOMAIN order_map} \cup {taken, ev}

BeingFilled(p) == writing /\ p = BlockOf(write_idx)

\* write() claims the next block and the caller fills it.
BeginWrite ==
  /\ ~writing
  /\ write_idx < MaxWrites
  /\ write_idx' = write_idx + 1
  /\ \E m \in Message : mem' = [mem EXCEPT ![BlockOf(write_idx')] = m]
  /\ holds' = [holds EXCEPT ![BlockOf(write_idx')] = [index |-> write_idx', writer |-> restarts]]
  /\ raced' = (raced \/ BlockOf(write_idx') \in Pointed)
  /\ writing' = TRUE
  /\ UNCHANGED <<posted, seq, bookVars, ev, stage, pc, loop, shown>>
  /\ UNCHANGED <<restarts, again, missed, replayed, numbered, misled>>

EndWrite ==
  /\ writing
  /\ posted' = [posted EXCEPT ![BlockOf(write_idx)] = write_idx]
  /\ writing' = FALSE
  /\ seq' = seq + 1
  /\ UNCHANGED <<write_idx, mem, bookVars, ev, stage, pc, loop, shown, history>>

\* A new writer finds the queue as it is, and numbers its messages from 1.
Restart ==
  /\ restarts < MaxRestarts
  /\ restarts' = restarts + 1
  /\ writing' = FALSE
  /\ seq' = 1
  /\ UNCHANGED <<write_idx, posted, mem, bookVars, ev, stage, pc, loop, shown>>
  /\ UNCHANGED <<raced, again, missed, replayed, holds, numbered, misled>>
-----------------------------------------------------------------------------
\* The index outlives the recovery.
StartReplay_Faulty ==
  /\ levels' = [side \in Side |-> <<>>]
  /\ order_map' = order_map
  /\ last_price' = 0 /\ last_amount' = 0 /\ volume' = 0 /\ last_aggression' = -1
  /\ last_order_level' = 0 /\ last_order_side' = -1
  /\ replay_idx' = write_idx + 1
  /\ pc' = "replay"
  /\ again' = FALSE /\ missed' = FALSE /\ replayed' = {} /\ misled' = FALSE

\* recover_from_beginning(): the book is new, and so is the reader of the queue.
StartReplay ==
  /\ levels' = [side \in Side |-> <<>>]
  /\ order_map' = <<>>
  /\ last_price' = 0 /\ last_amount' = 0 /\ volume' = 0 /\ last_aggression' = -1
  /\ last_order_level' = 0 /\ last_order_side' = -1
  /\ replay_idx' = write_idx + 1
  /\ pc' = "replay"
  /\ again' = FALSE /\ missed' = FALSE /\ replayed' = {} /\ misled' = FALSE

\* main()'s getReader().
Start ==
  /\ pc = "start"
  /\ next_idx' = write_idx + 1
  /\ missed' = (write_idx > 0)
  /\ pc' = IF ForceRecovery THEN "recover" ELSE "poll"
  /\ UNCHANGED <<mem, bookVars, ev, stage, ring, replay_idx, taken, expected_seq, shown>>
  /\ UNCHANGED <<raced, restarts, again, replayed, holds, numbered, misled>>

\* --recover: the recovery gets a reader of its own, after main() has made the regions.
Recover ==
  /\ pc = "recover"
  /\ StartReplay
  /\ UNCHANGED <<mem, ev, stage, ring, next_idx, taken, expected_seq, shown>>
  /\ UNCHANGED <<raced, restarts, holds, numbered>>

\* read() returns the block it expects, or a later message in its place.
Poll ==
  LET p == BlockOf(next_idx) IN
  /\ pc = "poll"
  /\ posted[p] >= next_idx
  /\ taken' = p
  /\ next_idx' = posted[p] + 1
  /\ raced' = (raced \/ BeingFilled(p))
  /\ missed' = (missed \/ posted[p] > next_idx)
  /\ again' = (again \/ posted[p] \in replayed)
  /\ pc' = "check"
  /\ UNCHANGED <<mem, bookVars, ev, stage, ring, replay_idx, expected_seq, shown>>
  /\ UNCHANGED <<restarts, replayed, holds, numbered, misled>>

\* Only a number that goes back counts as a gap.
Gap_Faulty == CheckGaps /\ mem[taken].id < expected_seq

Gap == CheckGaps /\ mem[taken].id # expected_seq

\* A gap: the book is rebuilt, and the message that showed the gap is dropped.
CheckRecover ==
  /\ pc = "check"
  /\ Gap
  /\ StartReplay
  /\ UNCHANGED <<mem, ev, stage, ring, next_idx, taken, expected_seq, shown>>
  /\ UNCHANGED <<raced, restarts, holds, numbered>>

\* The block has been filled again since read() returned it.
Refilled == holds[taken].index # next_idx - 1

\* The number follows that of the message before.  Where messages were lost, the
\* check is misled when the two were given by different writers.
CheckPass ==
  /\ pc = "check"
  /\ ~Gap
  /\ misled' = (misled \/ (missed /\ holds[taken].writer # numbered.writer))
  /\ pc' = "numbered"
  /\ UNCHANGED <<mem, bookVars, ev, stage, ring, loop, shown>>
  /\ UNCHANGED <<raced, restarts, again, missed, replayed, holds, numbered>>

\* The number is read from the block a second time.  A build that reads it once
\* shows the behaviours in which this step follows CheckPass at once.
Number ==
  /\ pc = "numbered"
  /\ expected_seq' = mem[taken].id + 1
  /\ numbered' = holds[taken]
  /\ misled' = (misled \/ Refilled)
  /\ pc' = "process"
  /\ UNCHANGED <<mem, bookVars, ev, stage, ring, next_idx, replay_idx, taken, shown>>
  /\ UNCHANGED <<raced, restarts, again, missed, replayed, holds>>

Process ==
  /\ pc = "process"
  /\ ProcessEvent(taken, mem[taken])
  /\ UNCHANGED <<mem, ring, pc, loop, shown, history>>

MatchOne == Match /\ UNCHANGED <<ring, pc, loop, shown, history>>
RestRemainder == Rest /\ UNCHANGED <<ring, pc, loop, shown, history>>

\* write_snapshots_to_shm()
Publish ==
  /\ pc = "process" /\ stage = "publish"
  /\ IF DidModifyVisibleBook
       THEN /\ shown_depth' = Depth
            /\ shown_top' = IF last_order_level <= 0 THEN Top ELSE shown_top
       ELSE UNCHANGED shown
  /\ stage' = "idle" /\ ev' = NoEvent
  /\ pc' = "poll" /\ taken' = NoEvent
  /\ UNCHANGED <<mem, bookVars, ring, next_idx, replay_idx, expected_seq, history>>
-----------------------------------------------------------------------------
\* The recovery's loop.
Replay ==
  LET p == BlockOf(replay_idx) IN
  /\ pc = "replay" /\ stage = "idle"
  /\ posted[p] >= replay_idx
  /\ replay_idx' = posted[p] + 1
  /\ replayed' = replayed \cup {posted[p]}
  /\ ProcessEvent(p, mem[p])
  /\ raced' = (raced \/ BeingFilled(p))
  /\ UNCHANGED <<mem, ring, pc, next_idx, taken, expected_seq, shown>>
  /\ UNCHANGED <<restarts, again, missed, holds, numbered, misled>>

Replayed ==
  /\ pc = "replay" /\ stage = "publish"
  /\ stage' = "idle" /\ ev' = NoEvent
  /\ UNCHANGED <<mem, bookVars, ring, pc, loop, shown, history>>

ReplayEnd ==
  /\ pc = "replay" /\ stage = "idle"
  /\ posted[BlockOf(replay_idx)] < replay_idx
  /\ pc' = "sync"
  /\ UNCHANGED <<mem, bookVars, ev, stage, ring, loop, shown, history>>

\* The book is shown whatever its last level is; the main loop expects the
\* successor of the message it dropped.
Sync ==
  /\ pc = "sync"
  /\ shown_top' = Top /\ shown_depth' = Depth
  /\ IF taken = NoEvent
       THEN UNCHANGED <<expected_seq, numbered, misled>>
       ELSE /\ expected_seq' = mem[taken].id + 1
            /\ numbered' = holds[taken]
            /\ misled' = (misled \/ Refilled)
  /\ pc' = "poll" /\ taken' = NoEvent
  /\ UNCHANGED <<mem, bookVars, ev, stage, ring, next_idx, replay_idx>>
  /\ UNCHANGED <<raced, restarts, again, missed, replayed, holds>>
-----------------------------------------------------------------------------
WriterNext == BeginWrite \/ EndWrite \/ Restart
ReaderNext ==
  \/ Start \/ Recover \/ Poll \/ CheckRecover \/ CheckPass \/ Number
  \/ Process \/ MatchOne \/ RestRemainder \/ Publish
  \/ Replay \/ Replayed \/ ReplayEnd \/ Sync

Next == WriterNext \/ ReaderNext

Spec == Init /\ [][Next]_vars

\* The reader's loops never block; the writer may stop for good.
FairSpec == Spec /\ WF_vars(ReaderNext)
-----------------------------------------------------------------------------
\* As long as no block is filled again under the reader's pointers, no writer
\* has numbered its messages again and no message was both replayed and read,
\* the book the reader builds over the ring is sound: index and queues agree and
\* the sides do not cross.
BookSound == raced \/ restarts > 0 \/ again \/ (IndexLive /\ QueuesSound /\ AllIndexed /\ Uncrossed)

\* With --check-gaps no event is applied to a book that missed one before it since
\* the reader started or last recovered, however often the ring is lapped under it
\* and writers start again.  The check is misled in two cases only: the expected
\* number was read from a block filled again since read() returned it
\* (shm_reader.cc:223 and 227), and after a loss the number of another writer's
\* message is the one that is expected.
GapNoticed == CheckGaps /\ pc = "process" => ~missed \/ misled

\* The reader gets through every message and every recovery back to its polling,
\* unless a block was filled again under its pointers: then an order may be
\* matched against itself, and its amount goes round below zero for ever.
BackToPolling == pc # "poll" ~> (pc = "poll" \/ raced)

\* shm_reader.cc:104: "replay all messages from the beginning to sync with flow".
\* The messages still in the ring, no others, are asked for.
ReplaysFromBeginning ==
  [][pc = "replay" /\ pc' = "sync" => {posted[p] : p \in Block} \ {0} \subseteq replayed]_vars
=============================================================================
