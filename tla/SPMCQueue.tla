------------------------------ MODULE SPMCQueue ------------------------------
(***************************************************************************)
(* The lock-free ring of src/SPMCQueue.h: one writer, any number of        *)
(* readers, CNT blocks, indices that wrap at 2^32.                         *)
(*                                                                         *)
(* write() claims the next index, lets the caller fill the block in place  *)
(* and then stores the index into the block (release).  read() loads that  *)
(* index (acquire), compares it with the index the reader expects by the   *)
(* sign of a 32-bit difference and hands out a pointer into the block.     *)
(* The caller reads the payload through the pointer afterwards, while the  *)
(* writer may already be filling the block again: nothing is locked and    *)
(* nothing is checked a second time.                                       *)
(*                                                                         *)
(* A payload is named by the number of the write() that stored it, and it  *)
(* is stored and read Word by Word, so a read that races the writer sees   *)
(* words of different messages.  The queue may live in shared memory: a    *)
(* writer process that dies inside write() leaves the block half filled    *)
(* and the claimed index behind, and its successor goes on from there.     *)
(***************************************************************************)
EXTENDS Integers, FiniteSets

CONSTANTS
  Reader,      \* the Reader objects
  Word,        \* the words of a payload T
  CNT,         \* number of blocks
  IdxMod,      \* indices are unsigned modulo IdxMod (2^32 in the code)
  MaxWrites,   \* bound: calls of write()
  MaxCrashes   \* bound: writer processes that die inside write()

Half == IdxMod \div 2

\* CNT divides IdxMod because it is a power of two (the static_assert).  The
\* last conjunct keeps the ring far smaller than the index range: 1024 blocks
\* against 2^32 indices in this repository.
ASSUME QueueAssumption ==
  /\ CNT \in Nat \ {0}
  /\ MaxWrites \in Nat
  /\ MaxCrashes \in Nat
  /\ IdxMod \in Nat
  /\ IdxMod % CNT = 0
  /\ IdxMod % 2 = 0
  /\ (MaxCrashes + 2) * CNT <= Half

VARIABLES
  write_idx,  \* index of the last claimed message, modulo IdxMod
  idx,        \* idx[s]: blks[s].idx
  data,       \* data[s][w]: number of the message whose word w is in block s
  unfilled,   \* words the write() in progress has still to store
  filling,    \* TRUE while a write() is between its claim and its release
  mode,       \* mode[r]: "detached", "read", or "last" while inside readLast()
  next_idx,   \* next_idx[r]: index r expects next, modulo IdxMod
  copy        \* copy[r][w]: what r read in word w through its pointer

\* History: the numbers behind the wrapped indices, and the messages published.
VARIABLES
  written,    \* how many write() calls have started
  stamp,      \* stamp[s]: number of the message whose index is in block s
  pos,        \* pos[r]: number of the message r expects, 0 while detached
  held,       \* held[r]: number of the message r's pointer was handed out for
  published,  \* numbers of the messages whose index was stored
  crashes     \* writers that died inside write()

queueVars == <<write_idx, idx, data, unfilled, filling>>
readerVars == <<mode, next_idx, copy>>
history == <<written, stamp, pos, held, published, crashes>>
vars == <<queueVars, readerVars, history>>

Block == 0..(CNT - 1)
Index == 0..(IdxMod - 1)
Unread == -1

\* Names ending in _Faulty are deliberate mistakes: nothing refers to them, they
\* stand in for the definition that follows to see a property fail.
BlockOf_Faulty(i) == i % (CNT - 1)  \* a mask that is one bit too short

\* The block an index or a number belongs to.
BlockOf(i) == i % CNT
Wrap(n) == n % IdxMod

\* Comparing the indices themselves forgets that they wrap.
NotBefore_Faulty(new, next) == new >= next
NotBefore_Strict_Faulty(new, next) == new # next /\ Wrap(new - next) < Half

\* !(int(new_idx - next_idx) < 0)
NotBefore(new, next) == Wrap(new - next) < Half
-----------------------------------------------------------------------------
\* Shared memory comes zero filled, as the member initialisers leave the queue.
Init ==
  /\ write_idx = 0
  /\ idx = [s \in Block |-> 0]
  /\ data = [s \in Block |-> [w \in Word |-> 0]]
  /\ unfilled = {}
  /\ filling = FALSE
  /\ mode = [r \in Reader |-> "detached"]
  /\ next_idx = [r \in Reader |-> 0]
  /\ copy = [r \in Reader |-> [w \in Word |-> Unread]]
  /\ written = 0
  /\ stamp = [s \in Block |-> 0]
  /\ pos = [r \in Reader |-> 0]
  /\ held = [r \in Reader |-> 0]
  /\ published = {}
  /\ crashes = 0

\* The index is incremented in a wider type.
BeginWrite_Faulty ==
  /\ ~filling
  /\ written < MaxWrites
  /\ write_idx' = write_idx + 1
  /\ filling' = TRUE
  /\ unfilled' = Word
  /\ written' = written + 1
  /\ UNCHANGED <<idx, data, readerVars, stamp, pos, held, published, crashes>>

\* auto& blk = blks[++write_idx % CNT]
BeginWrite ==
  /\ ~filling
  /\ written < MaxWrites
  /\ write_idx' = Wrap(write_idx + 1)
  /\ filling' = TRUE
  /\ unfilled' = Word
  /\ written' = written + 1
  /\ UNCHANGED <<idx, data, readerVars, stamp, pos, held, published, crashes>>

\* writer(blk.data): plain stores, in whatever order the compiler leaves them
FillWord(w) ==
  /\ filling
  /\ w \in unfilled
  /\ data' = [data EXCEPT ![BlockOf(write_idx)][w] = written]
  /\ unfilled' = unfilled \ {w}
  /\ UNCHANGED <<write_idx, idx, filling, readerVars, history>>

\* The release store is moved before the stores of the payload.
EndWrite_Faulty ==
  /\ filling
  /\ idx' = [idx EXCEPT ![BlockOf(write_idx)] = write_idx]
  /\ filling' = FALSE
  /\ stamp' = [stamp EXCEPT ![BlockOf(write_idx)] = written]
  /\ published' = published \cup {written}
  /\ UNCHANGED <<write_idx, data, unfilled, readerVars, written, pos, held, crashes>>

\* blk.idx.store(write_idx, release): every word is stored before
EndWrite ==
  /\ filling
  /\ unfilled = {}
  /\ idx' = [idx EXCEPT ![BlockOf(write_idx)] = write_idx]
  /\ filling' = FALSE
  /\ stamp' = [stamp EXCEPT ![BlockOf(write_idx)] = written]
  /\ published' = published \cup {written}
  /\ UNCHANGED <<write_idx, data, unfilled, readerVars, written, pos, held, crashes>>

\* The writer process dies inside write(); another one maps the same memory.
CrashWriter ==
  /\ filling
  /\ crashes < MaxCrashes
  /\ filling' = FALSE
  /\ unfilled' = {}
  /\ crashes' = crashes + 1
  /\ UNCHANGED <<write_idx, idx, data, readerVars, written, stamp, pos, held, published>>
-----------------------------------------------------------------------------
\* The reader starts at the last message instead of behind it.
GetReader_Faulty(r) ==
  /\ mode[r] = "detached"
  /\ written > 0
  /\ next_idx' = [next_idx EXCEPT ![r] = write_idx]
  /\ pos' = [pos EXCEPT ![r] = written]
  /\ mode' = [mode EXCEPT ![r] = "read"]
  /\ UNCHANGED <<queueVars, copy, written, stamp, held, published, crashes>>

\* getReader() reads write_idx without synchronisation: while a write() is in
\* progress it may find the value from before or from after the increment.
GetReader(r) ==
  /\ mode[r] = "detached"
  /\ \E back \in IF filling THEN {0, 1} ELSE {0} :
        /\ next_idx' = [next_idx EXCEPT ![r] = Wrap(write_idx - back + 1)]
        /\ pos' = [pos EXCEPT ![r] = written - back + 1]
  /\ mode' = [mode EXCEPT ![r] = "read"]
  /\ UNCHANGED <<queueVars, copy, written, stamp, held, published, crashes>>

BlockAt(r) == BlockOf(next_idx[r])

\* read() would not return nullptr
Readable(r) == NotBefore(idx[BlockAt(r)], next_idx[r])

\* next_idx is advanced by one, whatever index the block held.
TakeBlock_Faulty(r) ==
  /\ Readable(r)
  /\ next_idx' = [next_idx EXCEPT ![r] = Wrap(next_idx[r] + 1)]
  /\ copy' = [copy EXCEPT ![r] = [w \in Word |-> Unread]]
  /\ pos' = [pos EXCEPT ![r] = pos[r] + 1]
  /\ held' = [held EXCEPT ![r] = stamp[BlockAt(r)]]
  /\ UNCHANGED <<queueVars, written, stamp, published, crashes>>

\* The successful path of read(): a new pointer, nothing read through it yet.
TakeBlock(r) ==
  /\ Readable(r)
  /\ next_idx' = [next_idx EXCEPT ![r] = Wrap(idx[BlockAt(r)] + 1)]
  /\ copy' = [copy EXCEPT ![r] = [w \in Word |-> Unread]]
  /\ pos' = [pos EXCEPT ![r] = stamp[BlockAt(r)] + 1]
  /\ held' = [held EXCEPT ![r] = stamp[BlockAt(r)]]
  /\ UNCHANGED <<queueVars, written, stamp, published, crashes>>

\* T* read().  A call that returns nullptr changes nothing.
Read(r) ==
  /\ mode[r] = "read"
  /\ TakeBlock(r)
  /\ UNCHANGED mode

\* readLast() enters its loop with ret = nullptr ...
BeginReadLast(r) ==
  /\ mode[r] = "read"
  /\ mode' = [mode EXCEPT ![r] = "last"]
  /\ copy' = [copy EXCEPT ![r] = [w \in Word |-> Unread]]
  /\ held' = [held EXCEPT ![r] = 0]
  /\ UNCHANGED <<queueVars, next_idx, written, stamp, pos, published, crashes>>

\* ... keeps the pointer of every read() that succeeds ...
ReadLastStep(r) ==
  /\ mode[r] = "last"
  /\ TakeBlock(r)
  /\ UNCHANGED mode

\* ... and returns the last one when read() returns nullptr.
EndReadLast(r) ==
  /\ mode[r] = "last"
  /\ ~Readable(r)
  /\ mode' = [mode EXCEPT ![r] = "read"]
  /\ UNCHANGED <<queueVars, next_idx, copy, history>>

\* The caller reads a word of the payload through the pointer it was given.
ReadWord(r, w) ==
  /\ mode[r] = "read"
  /\ held[r] # 0
  /\ copy[r][w] = Unread
  /\ copy' = [copy EXCEPT ![r][w] = data[BlockOf(held[r])][w]]
  /\ UNCHANGED <<queueVars, mode, next_idx, history>>
-----------------------------------------------------------------------------
Next ==
  \/ BeginWrite
  \/ \E w \in Word : FillWord(w)
  \/ EndWrite
  \/ CrashWriter
  \/ \E r \in Reader :
        \/ GetReader(r)
        \/ Read(r)
        \/ BeginReadLast(r)
        \/ ReadLastStep(r)
        \/ EndReadLast(r)
        \/ \E w \in Word : ReadWord(r, w)

Spec == Init /\ [][Next]_vars

\* A writer that has entered write() comes out of it, and readers poll in a
\* loop (multhread.cc, shm_reader.cc).  Nobody has to call write() again, to
\* attach, or to call readLast().
Fairness ==
  /\ WF_vars(EndWrite)
  /\ \A w \in Word : WF_vars(FillWord(w))
  /\ \A r \in Reader : WF_vars(Read(r)) /\ WF_vars(ReadLastStep(r)) /\ WF_vars(EndReadLast(r))

FairSpec == Spec /\ Fairness
-----------------------------------------------------------------------------
\* Indices stay within their width, and every block, reader and payload word has
\* a value of its kind: a step that forgets to wrap shows here.
TypeOK ==
  /\ write_idx \in Index
  /\ idx \in [Block -> Index]
  /\ data \in [Block -> [Word -> Nat]]
  /\ unfilled \in SUBSET Word
  /\ filling \in BOOLEAN
  /\ mode \in [Reader -> {"detached", "read", "last"}]
  /\ next_idx \in [Reader -> Index]
  /\ copy \in [Reader -> [Word -> Nat \cup {Unread}]]
  /\ written \in Nat
  /\ stamp \in [Block -> Nat]
  /\ pos \in [Reader -> Nat]
  /\ held \in [Reader -> Nat]
  /\ published \in SUBSET Nat
  /\ crashes \in 0..MaxCrashes

\* The inductive invariant.  Wrapped indices name the numbers behind them ...
Links ==
  /\ write_idx = Wrap(written)
  /\ \A s \in Block : idx[s] = Wrap(stamp[s])
  /\ \A r \in Reader : mode[r] # "detached" => next_idx[r] = Wrap(pos[r])

\* ... a block is stamped with a published message of its own, and holds words
\* of that message or of later ones of the same block ...
Blocks ==
  /\ published \subseteq 1..written
  /\ \A s \in Block :
        /\ stamp[s] # 0 => stamp[s] \in published /\ BlockOf(stamp[s]) = s
        /\ \A w \in Word :
              /\ data[s][w] \in stamp[s]..written
              /\ data[s][w] # 0 => BlockOf(data[s][w]) = s

\* ... the message being written is not published, its stored words are there ...
InProgress ==
  filling =>
    /\ written # 0
    /\ written \notin published
    /\ \A w \in Word \ unfilled : data[BlockOf(written)][w] = written

\* ... a reader holds a published message whose block was never stamped back ...
Cursors ==
  \A r \in Reader :
    /\ mode[r] = "detached" <=> pos[r] = 0
    /\ pos[r] <= written + 1
    /\ held[r] # 0 =>
          /\ held[r] \in published
          /\ held[r] < pos[r]
          /\ held[r] <= stamp[BlockOf(held[r])]
          /\ \A w \in Word : copy[r][w] # Unread =>
                copy[r][w] \in held[r]..written /\ BlockOf(copy[r][w]) = BlockOf(held[r])

\* ... and a stamp lags behind the claimed messages of its block by one round
\* for each dead writer, and one more for the writer at work.
Slack(n) == IF filling /\ n = written THEN CNT ELSE 0
Lag == \A n \in 1..written : n <= stamp[BlockOf(n)] + crashes * CNT + Slack(n)

\* The type invariant and the five facts above are preserved by every step.
IInv == TypeOK /\ Links /\ Blocks /\ InProgress /\ Cursors /\ Lag

\* A payload read through a pointer is the payload of the one message the
\* pointer was handed out for, as long as the writer has not started the
\* message CNT further on: read() validates nothing afterwards, so this is all
\* that protects a zero-copy reader from a torn message.
IntactUnlessLapped ==
  \A r \in Reader :
    held[r] # 0 /\ written < held[r] + CNT =>
      \A w \in Word : copy[r][w] \in {Unread, held[r]}

\* Even in a lapped block nothing older than the message handed out is ever
\* seen (the release store of idx carries the payload), and whatever is handed
\* out was published.
NeverStale ==
  \A r \in Reader :
    held[r] # 0 =>
      /\ held[r] \in published
      /\ \A w \in Word : copy[r][w] # Unread => copy[r][w] >= held[r]

\* The signed 32-bit comparison of read() decides exactly as the comparison of
\* message numbers would, until a reader is Half messages behind: no message is
\* taken twice or too early when the indices wrap, with dead writers too.
WrapSafe ==
  \A r \in Reader :
    LET m == stamp[BlockAt(r)] IN
    mode[r] # "detached" /\ m < pos[r] + Half => (Readable(r) <=> m >= pos[r])

\* Each message a reader is handed is at or behind its expected one, never
\* repeats, and is ahead of it only when the writer has started a message CNT
\* further on: a reader that keeps up misses nothing.
NoLossUnlessLapped ==
  [][\A r \in Reader :
        pos'[r] # pos[r] /\ pos[r] # 0 =>
          /\ held'[r] + 1 = pos'[r]
          /\ held'[r] >= pos[r]
          /\ held'[r] > pos[r] => written >= pos[r] + CNT]_vars

\* The number of a message whose writer died before the release store.
Abandoned(n) == n \in 1..written /\ n \notin published /\ ~(filling /\ n = written)

\* A polling reader gets past every published message.  It may be stuck for
\* two reasons only: the message it expects was abandoned by a dead writer and
\* its block has not come round again, or it fell half the index range behind.
EveryMessagePassed ==
  \A r \in Reader : \A n \in 1..MaxWrites :
    (pos[r] \in 1..n /\ n \in published) ~>
      \/ pos[r] > n
      \/ Abandoned(pos[r]) /\ (pos[r] + CNT) \notin published
      \/ written >= pos[r] + Half

\* Every behaviour of the ring is one the abstract feed allows.
Feed == INSTANCE MessageFeed WITH
  Window <- CNT, claimed <- written, cursor <- pos, got <- held, seen <- copy

FeedSpec == Feed!Spec
=============================================================================
