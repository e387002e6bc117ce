--------------------------- MODULE ShmReaderProofs ---------------------------
(***************************************************************************)
(* shm_reader over a ring that is written while it reads, for any ring,    *)
(* prices, amounts and number of messages: the book stays sound as long as *)
(* no block is filled again under its pointers, and no gap goes unnoticed. *)
(***************************************************************************)
EXTENDS ShmReader, OrderBookProofs

-----------------------------------------------------------------------------
\* The ring: a block holds the number of a message of its own, or none.
RingOK ==
  /\ write_idx \in Nat /\ writing \in BOOLEAN /\ seq \in Nat /\ restarts \in Nat
  /\ posted \in [Block -> 0..write_idx]
  /\ \A p \in Block : posted[p] # 0 => BlockOf(posted[p]) = p
  /\ writing => write_idx # 0 /\ posted[BlockOf(write_idx)] # write_idx
  /\ DOMAIN mem = Block /\ MemOK

\* Without a restart, what is numbered is what is posted.
NumbersOK ==
  restarts = 0 =>
    /\ seq = IF writing THEN write_idx ELSE write_idx + 1
    /\ \A p \in Block :
         mem[p].id = IF BeingFilled(p) THEN write_idx ELSE posted[p]

\* Where main() is, and the pointers it has.
MainOK ==
  /\ pc \in {"start", "recover", "poll", "check", "numbered", "process", "replay", "sync"}
  /\ stage \in {"idle", "match", "publish"}
  /\ next_idx \in Nat /\ replay_idx \in Nat /\ expected_seq \in Nat
  /\ taken \in Block \cup {NoEvent}
  /\ pc \in {"check", "numbered", "process"} => taken # NoEvent
  /\ pc \in {"start", "recover", "poll"} => taken = NoEvent
  /\ pc # "start" => next_idx # 0
  /\ pc = "replay" => replay_idx # 0
  /\ stage = "idle" => ev = NoEvent
  /\ stage # "idle" => /\ ev \in Block
                       /\ (pc = "process" /\ ev = taken) \/ pc = "replay"
  /\ \A n \in replayed : n \in Nat /\ n < replay_idx

\* Block p holds a message that is not being replaced.
Filled(p) == ~BeingFilled(p) /\ posted[p] # 0

\* As long as no block is filled again under a pointer.
PointersOK ==
  ~raced =>
    /\ taken # NoEvent => Filled(taken) /\ posted[taken] = next_idx - 1
    /\ ev # NoEvent => /\ Filled(ev)
                       /\ pc = "replay" => posted[ev] \in replayed

\* What the reader has been through, so that it comes only once.
BeenThrough(n) == n \in replayed \/ (pc \notin {"replay", "sync"} /\ n < next_idx)

RestingOK ==
  \A side \in Side : \A price \in DOMAIN levels[side] : \A p \in ToSet(levels[side][price]) :
    Filled(p) /\ BeenThrough(posted[p])

Safe == ~raced /\ restarts = 0 /\ ~again

ReaderBookOK ==
  Safe =>
    /\ BookOK /\ AllIndexed /\ Apart /\ RestingOK
    /\ stage = "match" => Outside(ev)
    /\ pc \in {"check", "numbered", "process"} /\ stage = "idle" => Outside(taken)

\* How far the indices of the writer of block p are ahead of its numbers, those of
\* the current writer, and those of the writer whose message was numbered last.
Ahead(p) == holds[p].index - mem[p].id
AheadNow == (IF writing THEN write_idx ELSE write_idx + 1) - seq
AheadNumbered == numbered.index - (expected_seq - 1)

\* The messages of one writer are numbered as they are indexed.
HoldsOK ==
  /\ holds \in [Block -> [index : 0..write_idx, writer : 0..restarts]]
  /\ \A p \in Block : posted[p] <= holds[p].index
  /\ writing => holds[BlockOf(write_idx)].index = write_idx
  /\ \A p \in Block : holds[p].writer = restarts => Ahead(p) = AheadNow
  /\ \A p, q \in Block : holds[p].writer = holds[q].writer => Ahead(p) = Ahead(q)

\* So is the message that is expected, when that writer gives it.
NumberedOK ==
  /\ numbered \in [index : 0..write_idx, writer : 0..restarts]
  /\ numbered.writer = restarts => AheadNumbered = AheadNow
  /\ \A p \in Block : holds[p].writer = numbered.writer => Ahead(p) = AheadNumbered

\* What has been numbered and what is missed, as main() goes round its loop.
GapsOK ==
  /\ NumberedOK
  /\ pc \in {"start", "recover"} => numbered.index = 0
  /\ pc = "check" => holds[taken].index >= next_idx - 1
  /\ pc \in {"replay", "sync"} => ~missed
  /\ CheckGaps /\ ~misled =>
       /\ pc = "poll" => /\ numbered.index < next_idx
                         /\ missed => numbered.index < next_idx - 1
       /\ pc = "check" => /\ numbered.index < next_idx - 1
                          /\ missed => numbered.index < next_idx - 2
       /\ pc \in {"numbered", "process"} => ~missed
       /\ pc = "process" => numbered.index = next_idx - 1
       /\ pc \in {"replay", "sync"} /\ taken = NoEvent => numbered.index < next_idx

Inv ==
  RingOK /\ NumbersOK /\ HoldsOK /\ MainOK /\ ShapeOK /\ PointersOK /\ ReaderBookOK /\ GapsOK
-----------------------------------------------------------------------------
LEMMA BlockIs ==
  /\ \A i \in Nat : BlockOf(i) \in Block
  /\ Block \subseteq Nat /\ NoEvent \notin Block
<1>1. CNT \in Nat \ {0}
  BY ReaderAssumption
<1>2. ASSUME NEW i \in Nat PROVE BlockOf(i) \in Block
  <2>1. i % CNT \in 0..(CNT - 1)
    BY <1>1
  <2> QED BY <1>1, <2>1 DEF BlockOf, Block
<1> QED BY <1>1, <1>2 DEF Block, NoEvent

\* The reader changes amounts only, of the records in the ring.
LEMMA RingKept ==
  ASSUME UNCHANGED <<ring, restarts, holds>>, MemOK', DOMAIN mem' = DOMAIN mem,
         \A p \in DOMAIN mem : mem'[p].id = mem[p].id
  PROVE  /\ RingOK => RingOK'
         /\ RingOK /\ NumbersOK => NumbersOK'
         /\ RingOK /\ HoldsOK => HoldsOK'
<1>1. write_idx' = write_idx /\ posted' = posted /\ writing' = writing /\ seq' = seq
  BY DEF ring
<1>2. RingOK => RingOK'
  BY <1>1 DEF RingOK
<1>3. ASSUME RingOK PROVE \A p \in Block : mem'[p].id = mem[p].id
  BY <1>3 DEF RingOK
<1>4. ASSUME RingOK, NumbersOK PROVE NumbersOK'
  BY <1>1, <1>3, <1>4 DEF NumbersOK, BeingFilled
<1>5. ASSUME RingOK, HoldsOK PROVE HoldsOK'
  BY <1>1, <1>3, <1>5 DEF HoldsOK, Ahead, AheadNow
<1> QED BY <1>2, <1>4, <1>5

\* What is expected stays what it is where main() stays where it is.
LEMMA GapsKept ==
  ASSUME RingOK, GapsOK, UNCHANGED <<ring, restarts, holds>>, DOMAIN mem' = DOMAIN mem,
         \A p \in DOMAIN mem : mem'[p].id = mem[p].id,
         UNCHANGED <<pc, next_idx, taken, expected_seq, numbered, missed, misled>>
  PROVE  GapsOK'
<1>1. write_idx' = write_idx /\ posted' = posted /\ writing' = writing /\ seq' = seq
  BY DEF ring
<1>2. \A p \in Block : mem'[p].id = mem[p].id
  BY DEF RingOK
<1>3. NumberedOK'
  BY <1>1, <1>2 DEF GapsOK, NumberedOK, Ahead, AheadNow, AheadNumbered
<1> QED BY <1>3 DEF GapsOK

\* What is expected stays the same thing while main() goes on to its next step.
LEMMA NumberedKept ==
  ASSUME NumberedOK,
         UNCHANGED <<ring, restarts, holds, mem, expected_seq, numbered>>
  PROVE  NumberedOK'
BY DEF NumberedOK, Ahead, AheadNow, AheadNumbered, ring

\* What is read from a block is the number of the message the history says is there.
LEMMA NumberedNow ==
  ASSUME RingOK, HoldsOK, NEW p \in Block,
         UNCHANGED <<ring, restarts, holds, mem>>,
         expected_seq' = mem[p].id + 1, numbered' = holds[p]
  PROVE  NumberedOK'
<1>1. write_idx' = write_idx /\ posted' = posted /\ writing' = writing /\ seq' = seq
  BY DEF ring
<1>2. mem[p].id \in Nat
  BY DEF RingOK, MemOK, EventType
<1>3. AheadNumbered' = Ahead(p)
  BY <1>2 DEF AheadNumbered, Ahead
<1>4. AheadNow' = AheadNow /\ \A q \in Block : Ahead(q)' = Ahead(q)
  BY <1>1 DEF AheadNow, Ahead
<1> QED BY <1>1, <1>3, <1>4 DEF NumberedOK, HoldsOK

LEMMA ShapeKept ==
  ASSUME ShapeOK, levels' = levels, order_map' = order_map, DOMAIN mem' = DOMAIN mem
  PROVE  ShapeOK'
BY DEF ShapeOK, LevelsOK, IndexOK

\* A book without orders.
LEMMA EmptyBook ==
  ASSUME MemOK, levels = [side \in Side |-> <<>>], order_map = <<>>
  PROVE  ShapeOK /\ BookOK /\ AllIndexed /\ Apart /\ RestingOK
<1>1. DOMAIN levels = Side /\ \A side \in Side : levels[side] = <<>> /\ DOMAIN levels[side] = {}
  OBVIOUS
<1>2. LevelsOK
  <2>1. <<>> \in [{} -> Seq(Nat)] /\ IsFiniteSet({})
    BY FS_EmptySet
  <2>2. \A side \in Side : levels[side] \in [DOMAIN levels[side] -> Seq(Nat)]
    BY <1>1, <2>1
  <2> QED BY <1>1, <2>1, <2>2 DEF LevelsOK
<1>3. DOMAIN order_map = {}
  OBVIOUS
<1>4. IndexOK /\ IndexLive /\ QueuesSound /\ Apart /\ AllIndexed /\ RestingOK
  BY <1>1, <1>3 DEF IndexOK, IndexLive, QueuesSound, Apart, AllIndexed, Resting, RestingOK, Side
<1> QED BY <1>1, <1>2, <1>4 DEF ShapeOK, BookOK

LEMMA EmptiedBook ==
  ASSUME MemOK', levels' = [side \in Side |-> <<>>], order_map' = <<>>
  PROVE  ShapeOK' /\ BookOK' /\ AllIndexed' /\ Apart' /\ RestingOK'
<1>1. DOMAIN levels' = Side /\ \A side \in Side : levels'[side] = <<>> /\ DOMAIN levels'[side] = {}
  OBVIOUS
<1>2. LevelsOK'
  <2>1. <<>> \in [{} -> Seq(Nat)] /\ IsFiniteSet({})
    BY FS_EmptySet
  <2>2. \A side \in Side : levels'[side] \in [DOMAIN levels'[side] -> Seq(Nat)]
    BY <1>1, <2>1
  <2> QED BY <1>1, <2>1, <2>2 DEF LevelsOK
<1>3. DOMAIN order_map' = {}
  OBVIOUS
<1>4. IndexOK' /\ IndexLive' /\ QueuesSound' /\ Apart' /\ AllIndexed' /\ RestingOK'
  BY <1>1, <1>3 DEF IndexOK, IndexLive, QueuesSound, Apart, AllIndexed, Resting, RestingOK, Side
<1> QED BY <1>1, <1>2, <1>4 DEF ShapeOK, BookOK

LEMMA InitInv ==
  ASSUME Init PROVE Inv
<1>1. /\ levels = [side \in Side |-> <<>>] /\ order_map = <<>> /\ ev = 0 /\ stage = "idle"
      /\ mem = [p \in Block |-> Blank] /\ write_idx = 0 /\ posted = [p \in Block |-> 0]
      /\ writing = FALSE /\ seq = 1 /\ pc = "start" /\ next_idx = 0 /\ replay_idx = 0 /\ taken = 0
      /\ expected_seq = 1 /\ raced = FALSE /\ restarts = 0 /\ again = FALSE /\ missed = FALSE
      /\ replayed = {}
      /\ holds = [p \in Block |-> Nothing] /\ numbered = Nothing /\ misled = FALSE
  BY DEF Init, BookInit, NoEvent
<1>2. MemOK /\ DOMAIN mem = Block
  <2>1. Blank \in EventType
    <3>1. 0 \in 0..(AmountMod - 1) /\ Bid \in Side
      BY BookAssumption DEF Side
    <3> QED BY <3>1 DEF Blank, EventType
  <2> QED BY <1>1, <2>1 DEF MemOK
<1>3. RingOK
  <2>1. posted \in [Block -> 0..write_idx] /\ \A p \in Block : posted[p] = 0
    BY <1>1
  <2> QED BY <1>1, <1>2, <2>1 DEF RingOK
<1>4. NumbersOK
  BY <1>1 DEF NumbersOK, BeingFilled, Blank
<1>5. MainOK
  BY <1>1 DEF MainOK, NoEvent
<1>6. ShapeOK /\ BookOK /\ AllIndexed /\ Apart /\ RestingOK
  BY <1>1, <1>2, EmptyBook
<1>7. PointersOK /\ ReaderBookOK
  BY <1>1, <1>6 DEF PointersOK, ReaderBookOK, NoEvent
<1>8. Nothing \in [index : 0..write_idx, writer : 0..restarts]
  BY <1>1 DEF Nothing
<1>9. AheadNow = 0 /\ AheadNumbered = 0 /\ \A p \in Block : Ahead(p) = 0 /\ posted[p] = 0
  BY <1>1 DEF AheadNow, AheadNumbered, Ahead, Nothing, Blank
<1>10. HoldsOK
  BY <1>1, <1>8, <1>9 DEF HoldsOK, Nothing
<1>11. GapsOK
  BY <1>1, <1>8, <1>9 DEF GapsOK, NumberedOK, Nothing
<1> QED BY <1>3, <1>4, <1>5, <1>6, <1>7, <1>10, <1>11 DEF Inv
-----------------------------------------------------------------------------
\* The writer claims a block that the reader has no pointer to, or the reader has lost.
LEMMA BeginWriteInv ==
  ASSUME Inv, BeginWrite
  PROVE  Inv'
<1> DEFINE w == write_idx + 1
           b == BlockOf(w)
<1>0. RingOK /\ NumbersOK /\ HoldsOK /\ MainOK /\ ShapeOK /\ PointersOK /\ ReaderBookOK /\ GapsOK
  BY DEF Inv
<1>1. /\ writing = FALSE /\ writing' = TRUE /\ write_idx' = w /\ posted' = posted /\ seq' = seq
      /\ levels' = levels /\ order_map' = order_map /\ ev' = ev /\ stage' = stage /\ pc' = pc
      /\ next_idx' = next_idx /\ replay_idx' = replay_idx /\ taken' = taken
      /\ expected_seq' = expected_seq
      /\ restarts' = restarts /\ again' = again /\ missed' = missed /\ replayed' = replayed
      /\ numbered' = numbered /\ misled' = misled
      /\ holds' = [holds EXCEPT ![b] = [index |-> w, writer |-> restarts]]
  BY <1>0, Zenon DEF BeginWrite, bookVars, loop, RingOK
<1>2. PICK m \in Message : mem' = [mem EXCEPT ![b] = m]
  BY <1>1 DEF BeginWrite
<1>3. ~raced' => ~raced /\ b \notin Pointed
  <2>1. raced' = (raced \/ b \in Pointed)
    BY <1>1 DEF BeginWrite
  <2> HIDE DEF b
  <2> QED BY <2>1, Zenon
<1>4. write_idx \in Nat /\ w \in Nat /\ w # 0 /\ seq \in Nat
  BY <1>0 DEF RingOK
<1>5. b \in Block /\ DOMAIN mem = Block /\ posted \in [Block -> 0..write_idx]
  BY <1>0, <1>4, BlockIs DEF RingOK
<1>6. m \in EventType /\ m.id = seq
  BY <1>4, ReaderAssumption DEF Message, EventType
<1>7. /\ DOMAIN mem' = Block /\ MemOK' /\ mem'[b].id = seq
      /\ \A p \in Block : p # b => mem'[p] = mem[p]
  <2> HIDE DEF b
  <2> QED BY <1>0, <1>2, <1>5, <1>6 DEF RingOK, MemOK
<1>8. \A p \in Block : (BeingFilled(p)' <=> p = b) /\ ~BeingFilled(p)
  BY <1>1 DEF BeingFilled
<1>9. RingOK'
  <2>1. \A p \in Block : posted[p] \in 0..w /\ posted[p] # w
    BY <1>4, <1>5
  <2>2. posted' \in [Block -> 0..w]
    BY <1>1, <1>5, <2>1
  <2> HIDE DEF w
  <2> QED BY <1>0, <1>1, <1>4, <1>5, <1>7, <2>1, <2>2 DEF RingOK
<1>10. NumbersOK'
  <2> SUFFICES ASSUME restarts = 0
               PROVE  /\ seq = w
                      /\ \A p \in Block : mem'[p].id = IF BeingFilled(p)' THEN w ELSE posted[p]
    BY <1>1 DEF NumbersOK, BeingFilled
  <2>1. seq = w /\ \A p \in Block : mem[p].id = posted[p]
    BY <1>0, <1>1 DEF NumbersOK, BeingFilled
  <2> QED BY <1>7, <1>8, <2>1
<1>11. MainOK'
  BY <1>0, <1>1 DEF MainOK
<1>12. ShapeOK'
  BY <1>0, <1>1, <1>5, <1>7, ShapeKept
<1>13. PointersOK'
  <2> SUFFICES ASSUME ~raced' PROVE PointersOK'
    BY DEF PointersOK
  <2>1. taken # b /\ ev # b
    BY <1>3 DEF Pointed
  <2>2. taken # NoEvent => taken \in Block /\ Filled(taken) /\ posted[taken] = next_idx - 1
    BY <1>0, <1>3 DEF PointersOK, MainOK
  <2>3. ev # NoEvent => ev \in Block /\ Filled(ev) /\ (pc = "replay" => posted[ev] \in replayed)
    BY <1>0, <1>3 DEF PointersOK, MainOK
  <2>4. taken # NoEvent => Filled(taken)'
    BY <1>1, <1>8, <2>1, <2>2 DEF Filled
  <2>5. ev # NoEvent => Filled(ev)'
    BY <1>1, <1>8, <2>1, <2>3 DEF Filled
  <2> QED BY <1>1, <2>2, <2>3, <2>4, <2>5 DEF PointersOK
<1>14. ReaderBookOK'
  <2> SUFFICES ASSUME Safe'
               PROVE  /\ BookOK' /\ AllIndexed' /\ Apart' /\ RestingOK'
                      /\ stage' = "match" => Outside(ev)'
                      /\ pc' \in {"check", "numbered", "process"} /\ stage' = "idle" => Outside(taken)'
    BY DEF ReaderBookOK
  <2>1. Safe /\ b \notin Pointed
    BY <1>1, <1>3 DEF Safe
  <2>2. /\ BookOK /\ AllIndexed /\ Apart /\ RestingOK
        /\ stage = "match" => Outside(ev)
        /\ pc \in {"check", "numbered", "process"} /\ stage = "idle" => Outside(taken)
    BY <1>0, <2>1 DEF ReaderBookOK
  <2>3. Outside(b)
    BY <2>1 DEF Pointed, Resting, Outside, Side
  <2>4. ASSUME NEW s \in Side, NEW price \in DOMAIN levels[s], NEW x \in ToSet(levels[s][price])
        PROVE  x \in Block /\ x # b /\ mem'[x] = mem[x] /\ mem[x].amount > 0
    <3>1. x \in Block /\ x # b
      BY <1>5, <2>2, <2>3 DEF BookOK, LevelsOK, Outside
    <3>2. mem[x].amount > 0
      BY <2>2, Queued DEF BookOK
    <3> QED BY <1>7, <3>1, <3>2
  <2>5. OthersAlike(b)
    BY <1>7, <2>4 DEF OthersAlike
  <2>6. BookOK' /\ AllIndexed' /\ Apart'
    BY <1>1, <1>7, <2>2, <2>3, <2>5, StillSound
  <2>7. RestingOK'
    <3>1. ASSUME NEW s \in Side, NEW price \in DOMAIN levels'[s], NEW x \in ToSet(levels'[s][price])
          PROVE  Filled(x)' /\ BeenThrough(posted[x])'
      <4>1. x \in Block /\ x # b /\ Filled(x) /\ BeenThrough(posted[x])
        BY <1>1, <2>2, <2>4 DEF RestingOK
      <4> QED BY <1>1, <1>8, <4>1 DEF Filled, BeenThrough
    <3> QED BY <3>1 DEF RestingOK
  <2>8. /\ stage' = "match" => Outside(ev)'
        /\ pc' \in {"check", "numbered", "process"} /\ stage' = "idle" => Outside(taken)'
    BY <1>1, <2>2 DEF Outside
  <2> QED BY <2>6, <2>7, <2>8
<1>15. restarts \in Nat /\ holds \in [Block -> [index : 0..write_idx, writer : 0..restarts]]
  BY <1>0 DEF RingOK, HoldsOK
<1>16. /\ holds'[b].index = w /\ holds'[b].writer = restarts
       /\ \A p \in Block : p # b => holds'[p] = holds[p]
       /\ holds' \in [Block -> [index : 0..w, writer : 0..restarts]]
  <2>1. [index |-> w, writer |-> restarts] \in [index : 0..w, writer : 0..restarts]
    BY <1>4, <1>15
  <2>2. holds \in [Block -> [index : 0..w, writer : 0..restarts]]
    BY <1>4, <1>15
  <2> HIDE DEF b, w
  <2> QED BY <1>1, <1>5, <2>1, <2>2
<1>17. /\ AheadNow' = AheadNow
       /\ \A p \in Block : Ahead(p)' = IF p = b THEN AheadNow ELSE Ahead(p)
  <2>1. AheadNow = w - seq /\ AheadNow' = w - seq
    BY <1>1 DEF AheadNow
  <2>2. ASSUME NEW p \in Block PROVE Ahead(p)' = IF p = b THEN AheadNow ELSE Ahead(p)
    <3> HIDE DEF w, b
    <3>1. Ahead(p)' = holds'[p].index - mem'[p].id
      BY DEF Ahead
    <3>2. CASE p = b
      BY <1>7, <1>16, <2>1, <3>1, <3>2
    <3>3. CASE p # b
      BY <1>7, <1>16, <3>1, <3>3 DEF Ahead
    <3> QED BY <3>2, <3>3
  <2> QED BY <2>1, <2>2
<1> HIDE DEF w, b
<1>18. HoldsOK'
  <2>1. \A p \in Block : posted'[p] <= holds'[p].index
    <3> SUFFICES ASSUME NEW p \in Block PROVE posted[p] <= holds'[p].index
      BY <1>1
    <3>1. posted[p] \in 0..write_idx
      BY <1>5
    <3> QED BY <1>0, <1>4, <1>16, <3>1 DEF HoldsOK, w
  <2>2. \A p \in Block : holds'[p].writer = restarts => Ahead(p)' = AheadNow
    BY <1>0, <1>16, <1>17 DEF HoldsOK
  <2>3. \A p, q \in Block : holds'[p].writer = holds'[q].writer => Ahead(p)' = Ahead(q)'
    BY <1>0, <1>16, <1>17, <2>2 DEF HoldsOK
  <2>4. holds'[BlockOf(write_idx')].index = write_idx'
    BY <1>1, <1>16 DEF b, w
  <2> QED BY <1>1, <1>16, <1>17, <2>1, <2>2, <2>3, <2>4 DEF HoldsOK
<1>19. GapsOK'
  <2>1. AheadNumbered' = AheadNumbered
    BY <1>1 DEF AheadNumbered
  <2>2. numbered \in [index : 0..w, writer : 0..restarts]
    BY <1>0, <1>4 DEF GapsOK, NumberedOK, w
  <2>3. NumberedOK'
    BY <1>0, <1>1, <1>16, <1>17, <2>1, <2>2 DEF GapsOK, NumberedOK
  <2>4. pc = "check" => holds'[taken].index >= next_idx - 1
    <3> SUFFICES ASSUME pc = "check" PROVE holds'[taken].index >= next_idx - 1
      OBVIOUS
    <3>1. taken \in Block /\ next_idx \in Nat /\ holds[taken].index >= next_idx - 1
      BY <1>0 DEF MainOK, GapsOK
    <3>2. holds[taken].index \in 0..write_idx
      BY <1>15, <3>1
    <3> QED BY <1>4, <1>16, <3>1, <3>2 DEF w
  <2> QED BY <1>0, <1>1, <2>3, <2>4 DEF GapsOK
<1> QED BY <1>9, <1>10, <1>11, <1>12, <1>13, <1>14, <1>18, <1>19 DEF Inv

\* The message is in its block: the number there is its own.
LEMMA EndWriteInv ==
  ASSUME Inv, EndWrite
  PROVE  Inv'
<1> DEFINE b == BlockOf(write_idx)
<1>0. RingOK /\ NumbersOK /\ HoldsOK /\ MainOK /\ ShapeOK /\ PointersOK /\ ReaderBookOK /\ GapsOK
  BY DEF Inv
<1>1. /\ writing /\ ~writing' /\ writing' = FALSE /\ write_idx' = write_idx /\ seq' = seq + 1
      /\ posted' = [posted EXCEPT ![b] = write_idx]
      /\ mem' = mem /\ levels' = levels /\ order_map' = order_map
      /\ ev' = ev /\ stage' = stage /\ pc' = pc
      /\ next_idx' = next_idx /\ replay_idx' = replay_idx /\ taken' = taken
      /\ expected_seq' = expected_seq
      /\ raced' = raced /\ restarts' = restarts /\ again' = again /\ missed' = missed
      /\ replayed' = replayed /\ holds' = holds /\ numbered' = numbered /\ misled' = misled
  BY DEF EndWrite, bookVars, loop, history
<1>2. /\ write_idx \in Nat /\ write_idx # 0 /\ seq \in Nat /\ DOMAIN mem = Block
      /\ posted \in [Block -> 0..write_idx]
  BY <1>0, <1>1 DEF RingOK
<1>3. b \in Block
  BY <1>2, BlockIs
<1>4. posted'[b] = write_idx /\ \A p \in Block : p # b => posted'[p] = posted[p]
  <2> HIDE DEF b
  <2> QED BY <1>1, <1>2, <1>3
<1>5. \A p \in Block : ~BeingFilled(p)' /\ (BeingFilled(p) <=> p = b)
  BY <1>1 DEF BeingFilled
<1>6. RingOK'
  <2>1. posted' \in [Block -> 0..write_idx]
    <3> HIDE DEF b
    <3> QED BY <1>1, <1>2, <1>3
  <2>2. \A p \in Block : posted'[p] # 0 => BlockOf(posted'[p]) = p
    BY <1>0, <1>4 DEF RingOK
  <2>3. MemOK'
    BY <1>0, <1>1 DEF RingOK, MemOK
  <2>4. /\ write_idx' \in Nat /\ writing' \in BOOLEAN /\ seq' \in Nat /\ restarts' \in Nat
        /\ DOMAIN mem' = Block
    <3>1. writing' \in BOOLEAN
      BY <1>1, Zenon
    <3>2. seq' \in Nat
      BY <1>1, <1>2
    <3>3. restarts' \in Nat
      BY <1>0, <1>1 DEF RingOK
    <3> QED BY <1>1, <1>2, <3>1, <3>2, <3>3
  <2>5. posted' \in [Block -> 0..write_idx']
    BY <1>1, <2>1
  <2> HIDE DEF b
  <2> QED BY <1>1, <2>2, <2>3, <2>4, <2>5 DEF RingOK
<1>7. NumbersOK'
  <2> SUFFICES ASSUME restarts = 0
               PROVE  seq' = write_idx + 1 /\ \A p \in Block : mem[p].id = posted'[p]
    BY <1>1, <1>5 DEF NumbersOK
  <2>1. /\ seq = write_idx
        /\ \A p \in Block : mem[p].id = IF BeingFilled(p) THEN write_idx ELSE posted[p]
    BY <1>0, <1>1 DEF NumbersOK
  <2> QED BY <1>1, <1>4, <1>5, <2>1
<1>8. MainOK'
  BY <1>0, <1>1 DEF MainOK
<1>9. ShapeOK'
  BY <1>0, <1>1, ShapeKept
<1>10. \A p \in Block : Filled(p) => posted'[p] = posted[p] /\ Filled(p)'
  BY <1>4, <1>5 DEF Filled
<1>11. PointersOK'
  <2> SUFFICES ASSUME ~raced PROVE PointersOK'
    BY <1>1 DEF PointersOK
  <2>1. taken # NoEvent => taken \in Block /\ Filled(taken) /\ posted[taken] = next_idx - 1
    BY <1>0 DEF PointersOK, MainOK
  <2>2. ev # NoEvent => ev \in Block /\ Filled(ev) /\ (pc = "replay" => posted[ev] \in replayed)
    BY <1>0 DEF PointersOK, MainOK
  <2>3. taken # NoEvent => Filled(taken)' /\ posted'[taken'] = next_idx - 1
    BY <1>1, <1>10, <2>1 DEF Filled, BeingFilled
  <2>4. ev # NoEvent => Filled(ev)' /\ (pc = "replay" => posted'[ev'] \in replayed)
    BY <1>1, <1>10, <2>2 DEF Filled, BeingFilled
  <2> QED BY <1>1, <2>3, <2>4 DEF PointersOK
<1>12. ReaderBookOK'
  <2> SUFFICES ASSUME Safe PROVE ReaderBookOK'
    BY <1>1 DEF ReaderBookOK, Safe
  <2>1. /\ BookOK /\ AllIndexed /\ Apart /\ RestingOK
        /\ stage = "match" => Outside(ev)
        /\ pc \in {"check", "numbered", "process"} /\ stage = "idle" => Outside(taken)
    BY <1>0 DEF ReaderBookOK
  <2>2. BookOK' /\ AllIndexed' /\ Apart'
    BY <1>1, <2>1, BookSame
  <2>3. ASSUME NEW s \in Side, NEW price \in DOMAIN levels'[s], NEW x \in ToSet(levels'[s][price])
        PROVE  Filled(x)' /\ BeenThrough(posted[x])'
    <3>1. x \in Block
      BY <1>1, <1>2, <2>1 DEF BookOK, LevelsOK
    <3>2. Filled(x) /\ BeenThrough(posted[x])
      BY <1>1, <2>1 DEF RestingOK
    <3> QED BY <1>1, <1>10, <3>1, <3>2 DEF BeenThrough
  <2>4. RestingOK'
    BY <2>3 DEF RestingOK
  <2>5. /\ stage' = "match" => Outside(ev)'
        /\ pc' \in {"check", "numbered", "process"} /\ stage' = "idle" => Outside(taken)'
    BY <1>1, <2>1 DEF Outside
  <2> QED BY <2>2, <2>4, <2>5 DEF ReaderBookOK
<1>13. /\ AheadNow' = AheadNow /\ AheadNumbered' = AheadNumbered
       /\ \A p \in Block : Ahead(p)' = Ahead(p)
  BY <1>1, <1>2 DEF AheadNow, AheadNumbered, Ahead
<1>14. HoldsOK' /\ GapsOK'
  <2>1. \A p \in Block : posted'[p] <= holds[p].index
    <3>1. holds[b].index = write_idx
      BY <1>0, <1>1 DEF HoldsOK
    <3> HIDE DEF b
    <3> QED BY <1>0, <1>2, <1>4, <3>1 DEF HoldsOK
  <2>2. HoldsOK'
    BY <1>0, <1>1, <1>13, <2>1 DEF HoldsOK
  <2>3. NumberedOK'
    BY <1>0, <1>1, <1>13 DEF GapsOK, NumberedOK
  <2> QED BY <1>0, <1>1, <2>2, <2>3 DEF GapsOK
<1> QED BY <1>6, <1>7, <1>8, <1>9, <1>11, <1>12, <1>14 DEF Inv

LEMMA RestartInv ==
  ASSUME Inv, Restart
  PROVE  Inv'
<1>0. RingOK /\ NumbersOK /\ HoldsOK /\ MainOK /\ ShapeOK /\ PointersOK /\ ReaderBookOK /\ GapsOK
  BY DEF Inv
<1>1. /\ ~writing' /\ writing' = FALSE /\ write_idx' = write_idx /\ seq' = 1 /\ posted' = posted
      /\ mem' = mem /\ levels' = levels /\ order_map' = order_map
      /\ ev' = ev /\ stage' = stage /\ pc' = pc
      /\ next_idx' = next_idx /\ replay_idx' = replay_idx /\ taken' = taken
      /\ expected_seq' = expected_seq
      /\ raced' = raced /\ restarts' = restarts + 1 /\ replayed' = replayed /\ missed' = missed
      /\ holds' = holds /\ numbered' = numbered /\ misled' = misled
  BY DEF Restart, bookVars, loop
<1>2. restarts \in Nat /\ restarts' # 0 /\ restarts' \in Nat
  BY <1>0, <1>1 DEF RingOK
<1>3. RingOK'
  BY <1>0, <1>1, <1>2 DEF RingOK, MemOK
<1>4. NumbersOK' /\ ReaderBookOK'
  BY <1>2 DEF NumbersOK, ReaderBookOK, Safe
<1>5. MainOK'
  BY <1>0, <1>1 DEF MainOK
<1>6. ShapeOK'
  BY <1>0, <1>1, ShapeKept
<1>7. PointersOK'
  BY <1>0, <1>1 DEF PointersOK, Filled, BeingFilled
<1>8. /\ 0..restarts \subseteq 0..restarts' /\ restarts' \notin 0..restarts
      /\ AheadNumbered' = AheadNumbered /\ \A p \in Block : Ahead(p)' = Ahead(p)
  BY <1>1, <1>2 DEF AheadNumbered, Ahead
<1>9. HoldsOK'
  <2>1. holds \in [Block -> [index : 0..write_idx, writer : 0..restarts]]
    BY <1>0 DEF HoldsOK
  <2>2. holds \in [Block -> [index : 0..write_idx, writer : 0..restarts']]
    BY <1>8, <2>1
  <2>3. \A p \in Block : holds[p].writer # restarts'
    BY <1>8, <2>1
  <2> QED BY <1>0, <1>1, <1>8, <2>2, <2>3 DEF HoldsOK
<1>10. GapsOK'
  <2>1. numbered \in [index : 0..write_idx, writer : 0..restarts']
    BY <1>0, <1>8 DEF GapsOK, NumberedOK
  <2>2. numbered.writer # restarts'
    BY <1>0, <1>8 DEF GapsOK, NumberedOK
  <2> QED BY <1>0, <1>1, <1>8, <2>1, <2>2 DEF GapsOK, NumberedOK
<1> QED BY <1>3, <1>4, <1>5, <1>6, <1>7, <1>9, <1>10 DEF Inv
-----------------------------------------------------------------------------
\* A step of the reader that leaves the records and the book alone.
LEMMA ReaderStep ==
  ASSUME Inv, UNCHANGED <<ring, restarts, holds, mem, levels, order_map>>,
         MainOK', PointersOK', GapsOK',
         Safe' => Safe,
         Safe' => \A n \in 0..write_idx : BeenThrough(n) => BeenThrough(n)',
         stage' # "match",
         Safe' /\ pc' \in {"check", "numbered", "process"} => Outside(taken')
  PROVE  Inv'
<1>0. RingOK /\ NumbersOK /\ HoldsOK /\ MainOK /\ ShapeOK /\ PointersOK /\ ReaderBookOK /\ GapsOK
  BY DEF Inv
<1>1. MemOK' /\ MemOK /\ DOMAIN mem = Block /\ \A p \in Block : posted[p] \in 0..write_idx
  BY <1>0 DEF RingOK, MemOK
<1>2. RingOK' /\ NumbersOK' /\ HoldsOK'
  BY <1>0, <1>1, RingKept
<1>3. ShapeOK'
  BY <1>0, ShapeKept
<1>4. ReaderBookOK'
  <2> SUFFICES ASSUME Safe' PROVE ReaderBookOK'
    BY DEF ReaderBookOK
  <2>1. /\ BookOK /\ AllIndexed /\ Apart /\ RestingOK
        /\ stage = "match" => Outside(ev)
        /\ pc \in {"check", "numbered", "process"} /\ stage = "idle" => Outside(taken)
    BY <1>0 DEF ReaderBookOK
  <2>2. BookOK' /\ AllIndexed' /\ Apart'
    BY <2>1, BookSame
  <2>3. ASSUME NEW s \in Side, NEW price \in DOMAIN levels'[s], NEW x \in ToSet(levels'[s][price])
        PROVE  Filled(x)' /\ BeenThrough(posted[x])'
    <3>1. Filled(x) /\ BeenThrough(posted[x]) /\ x \in Block
      BY <1>1, <2>1 DEF RestingOK, BookOK, LevelsOK
    <3>2. Filled(x)'
      BY <3>1 DEF Filled, BeingFilled, ring
    <3>3. posted' = posted
      BY DEF ring
    <3>4. BeenThrough(posted[x])'
      BY <1>1, <3>1, <3>3 DEF BeenThrough
    <3> QED BY <3>2, <3>4
  <2>4. RestingOK'
    BY <2>3 DEF RestingOK
  <2>5. pc' \in {"check", "numbered", "process"} => Outside(taken)'
    BY DEF Outside
  <2> QED BY <2>2, <2>4, <2>5 DEF ReaderBookOK
<1> QED BY <1>0, <1>2, <1>3, <1>4 DEF Inv

\* The reader drops its book, and what it has been through with it.
LEMMA ReplayStarts ==
  ASSUME Inv, StartReplay, UNCHANGED <<ring, restarts, holds, mem, stage>>,
         MainOK', PointersOK', GapsOK', stage = "idle"
  PROVE  Inv'
<1>0. RingOK /\ NumbersOK /\ HoldsOK
  BY DEF Inv
<1>1. /\ levels' = [side \in Side |-> <<>>] /\ order_map' = <<>> /\ pc' = "replay"
  BY DEF StartReplay
<1>2. MemOK'
  BY <1>0 DEF RingOK, MemOK
<1>3. RingOK' /\ NumbersOK' /\ HoldsOK'
  BY <1>0, <1>2, RingKept
<1>4. ShapeOK' /\ BookOK' /\ AllIndexed' /\ Apart' /\ RestingOK'
  BY <1>1, <1>2, EmptiedBook
<1>5. ReaderBookOK'
  BY <1>1, <1>4 DEF ReaderBookOK
<1> QED BY <1>3, <1>4, <1>5 DEF Inv

\* A replay begins at the next message to come.
LEMMA ReplayIdx ==
  ASSUME RingOK, StartReplay
  PROVE  replay_idx' \in Nat /\ replay_idx' # 0
<1>1. write_idx \in Nat /\ replay_idx' = write_idx + 1
  BY DEF RingOK, StartReplay
<1> QED BY <1>1

LEMMA StartInv ==
  ASSUME Inv, Start
  PROVE  Inv'
<1>0. RingOK /\ MainOK /\ PointersOK /\ GapsOK
  BY DEF Inv
<1>1. /\ pc = "start" /\ pc' \in {"recover", "poll"} /\ next_idx' = write_idx + 1
      /\ mem' = mem /\ levels' = levels /\ order_map' = order_map /\ ev' = ev /\ stage' = stage
      /\ UNCHANGED ring /\ replay_idx' = replay_idx /\ taken' = taken
      /\ expected_seq' = expected_seq /\ raced' = raced /\ restarts' = restarts
      /\ again' = again /\ replayed' = replayed
      /\ holds' = holds /\ numbered' = numbered /\ misled' = misled
  BY DEF Start, bookVars
<1>2. /\ write_idx \in Nat /\ next_idx' \in Nat /\ next_idx' # 0
      /\ stage = "idle" /\ ev = NoEvent /\ taken = NoEvent
  <2>1. write_idx \in Nat
    BY <1>0 DEF RingOK
  <2>2. stage = "idle" /\ ev = NoEvent /\ taken = NoEvent
    BY <1>0, <1>1 DEF MainOK
  <2> QED BY <1>1, <2>1, <2>2
<1>3. PointersOK'
  BY <1>1, <1>2 DEF PointersOK
<1>4. MainOK'
  BY <1>0, <1>1, <1>2 DEF MainOK
<1>5. GapsOK'
  <2>1. missed' => write_idx > 0
    BY Zenon DEF Start
  <2>2. NumberedOK' /\ numbered.index = 0
    BY <1>0, <1>1, NumberedKept DEF GapsOK
  <2> QED BY <1>1, <1>2, <2>1, <2>2 DEF GapsOK
<1>6. \A n \in 0..write_idx : posted \in [Block -> 0..write_idx] /\ n < next_idx'
  BY <1>0, <1>1, <1>2 DEF RingOK
<1>7. Safe' => Safe /\ \A n \in 0..write_idx : BeenThrough(n) => BeenThrough(n)'
  BY <1>1, <1>6 DEF BeenThrough, Safe
<1> QED BY <1>1, <1>2, <1>3, <1>4, <1>5, <1>7, ReaderStep

\* What the recovery does to the history, whoever asks for it.
LEMMA ReplayGaps ==
  ASSUME GapsOK, StartReplay, UNCHANGED <<ring, restarts, holds, mem>>,
         UNCHANGED <<next_idx, taken, expected_seq, numbered>>,
         taken = NoEvent => numbered.index < next_idx
  PROVE  GapsOK'
<1>1. pc' = "replay" /\ missed' = FALSE
  BY DEF StartReplay
<1>2. NumberedOK'
  BY NumberedKept DEF GapsOK
<1> QED BY <1>1, <1>2 DEF GapsOK

LEMMA RecoverInv ==
  ASSUME Inv, Recover
  PROVE  Inv'
<1>0. RingOK /\ MainOK /\ PointersOK /\ GapsOK
  BY DEF Inv
<1>1. /\ pc = "recover" /\ StartReplay /\ pc' = "replay" /\ replayed' = {}
      /\ mem' = mem /\ ev' = ev /\ stage' = stage /\ UNCHANGED ring /\ next_idx' = next_idx
      /\ taken' = taken /\ expected_seq' = expected_seq /\ raced' = raced /\ restarts' = restarts
      /\ holds' = holds /\ numbered' = numbered
  BY DEF Recover, StartReplay
<1>2. stage = "idle" /\ ev = NoEvent /\ taken = NoEvent /\ next_idx \in Nat /\ next_idx # 0
  BY <1>0, <1>1 DEF MainOK
<1>3. replay_idx' \in Nat /\ replay_idx' # 0
  BY <1>0, <1>1, ReplayIdx
<1>4. MainOK'
  BY <1>0, <1>1, <1>2, <1>3 DEF MainOK
<1>5. PointersOK'
  BY <1>1, <1>2 DEF PointersOK
<1>6. GapsOK'
  <2>1. numbered.index < next_idx
    BY <1>0, <1>1, <1>2 DEF GapsOK
  <2> QED BY <1>0, <1>1, <2>1, ReplayGaps
<1> QED BY <1>1, <1>2, <1>4, <1>5, <1>6, ReplayStarts

\* The message that is taken is one the reader has not been through.
LEMMA PollInv ==
  ASSUME Inv, Poll
  PROVE  Inv'
<1> DEFINE p == BlockOf(next_idx)
<1>0. RingOK /\ HoldsOK /\ MainOK /\ PointersOK /\ GapsOK /\ ReaderBookOK
  BY DEF Inv
<1>1. /\ pc = "poll" /\ pc' = "check" /\ posted[p] >= next_idx /\ taken' = p
      /\ next_idx' = posted[p] + 1
      /\ mem' = mem /\ levels' = levels /\ order_map' = order_map /\ ev' = ev /\ stage' = stage
      /\ UNCHANGED ring /\ replay_idx' = replay_idx /\ expected_seq' = expected_seq
      /\ restarts' = restarts /\ replayed' = replayed
      /\ holds' = holds /\ numbered' = numbered /\ misled' = misled
  BY DEF Poll, bookVars
<1>2. /\ p \in Block /\ posted[p] \in Nat /\ posted[p] # 0 /\ next_idx \in Nat /\ p # NoEvent
      /\ stage = "idle" /\ ev = NoEvent
  <2>1. next_idx \in Nat /\ next_idx # 0 /\ stage = "idle" /\ ev = NoEvent
    BY <1>0, <1>1 DEF MainOK
  <2>2. p \in Block /\ p # NoEvent
    BY <2>1, BlockIs
  <2>3. write_idx \in Nat /\ posted \in [Block -> 0..write_idx]
    BY <1>0 DEF RingOK
  <2> HIDE DEF p
  <2> QED BY <1>1, <2>1, <2>2, <2>3
<1> HIDE DEF p
<1>3. ~raced' => ~raced /\ ~BeingFilled(p)
  <2>1. raced' = (raced \/ BeingFilled(p))
    BY DEF Poll, p
  <2> QED BY <2>1, Zenon
<1>4. missed' => missed \/ posted[p] > next_idx
  <2>1. missed' = (missed \/ posted[p] > next_idx)
    BY DEF Poll, p
  <2> QED BY <2>1, Zenon
<1>5. ~again' => ~again /\ posted[p] \notin replayed
  <2>1. again' = (again \/ posted[p] \in replayed)
    BY DEF Poll, p
  <2> QED BY <2>1, Zenon
<1>6. MainOK'
  BY <1>0, <1>1, <1>2 DEF MainOK
<1>7. PointersOK'
  <2> SUFFICES ASSUME ~raced' PROVE PointersOK'
    BY DEF PointersOK
  <2>1. posted'[p] = posted[p] /\ posted[p] = next_idx' - 1
    BY <1>1, <1>2 DEF ring
  <2>2. Filled(taken)'
    BY <1>1, <1>2, <1>3 DEF Filled, BeingFilled, ring
  <2> QED BY <1>1, <1>2, <2>1, <2>2 DEF PointersOK
<1>8. GapsOK'
  <2>1. NumberedOK' /\ numbered.index \in Nat
    BY <1>0, <1>1, NumberedKept DEF GapsOK, NumberedOK
  <2>2. next_idx' - 1 = posted[p] /\ next_idx <= posted[p] /\ next_idx' - 2 = posted[p] - 1
    BY <1>1, <1>2
  <2>3. holds[p].index >= posted[p]
    <3>1. holds[p].index \in Nat /\ posted[p] <= holds[p].index
      BY <1>0, <1>2 DEF HoldsOK
    <3> QED BY <1>2, <3>1
  <2>4. ASSUME CheckGaps, ~misled
        PROVE  numbered.index < posted[p] /\ (missed' => numbered.index < posted[p] - 1)
    <3>1. numbered.index < next_idx /\ (missed => numbered.index < next_idx - 1)
      BY <1>0, <1>1, <2>4 DEF GapsOK
    <3> QED BY <1>2, <1>4, <2>1, <2>2, <3>1
  <2> QED BY <1>1, <2>1, <2>2, <2>3, <2>4 DEF GapsOK
<1>9. ASSUME Safe' PROVE Safe /\ Outside(p)
  <2>1. Safe /\ posted[p] \notin replayed
    BY <1>1, <1>3, <1>5, <1>9 DEF Safe
  <2>2. ~BeenThrough(posted[p])
    BY <1>1, <1>2, <2>1 DEF BeenThrough
  <2> QED BY <1>0, <2>1, <2>2 DEF ReaderBookOK, RestingOK, Outside
<1>10. \A n \in 0..write_idx : BeenThrough(n) => BeenThrough(n)'
  BY <1>1, <1>2 DEF BeenThrough
<1> QED BY <1>1, <1>2, <1>6, <1>7, <1>8, <1>9, <1>10, ReaderStep

LEMMA CheckRecoverInv ==
  ASSUME Inv, CheckRecover
  PROVE  Inv'
<1>0. RingOK /\ MainOK /\ PointersOK /\ GapsOK
  BY DEF Inv
<1>1. /\ pc = "check" /\ StartReplay /\ pc' = "replay" /\ replayed' = {}
      /\ mem' = mem /\ ev' = ev /\ stage' = stage /\ UNCHANGED ring /\ next_idx' = next_idx
      /\ taken' = taken /\ expected_seq' = expected_seq /\ raced' = raced /\ restarts' = restarts
      /\ holds' = holds /\ numbered' = numbered
  BY DEF CheckRecover, StartReplay
<1>2. stage = "idle" /\ ev = NoEvent /\ taken # NoEvent
  BY <1>0, <1>1 DEF MainOK
<1>3. replay_idx' \in Nat /\ replay_idx' # 0
  BY <1>0, <1>1, ReplayIdx
<1>4. MainOK'
  BY <1>0, <1>1, <1>2, <1>3 DEF MainOK
<1>5. PointersOK'
  BY <1>0, <1>1, <1>2 DEF PointersOK, Filled, BeingFilled, ring
<1>6. GapsOK'
  BY <1>0, <1>1, <1>2, ReplayGaps
<1> QED BY <1>1, <1>2, <1>4, <1>5, <1>6, ReplayStarts

\* The message follows the one before it in the numbers of one writer, and the
\* indices of a writer are as far apart as its numbers: nothing has been missed.
LEMMA CheckPassInv ==
  ASSUME Inv, CheckPass
  PROVE  Inv'
<1>0. RingOK /\ HoldsOK /\ MainOK /\ PointersOK /\ GapsOK /\ ReaderBookOK
  BY DEF Inv
<1>1. /\ pc = "check" /\ pc' = "numbered" /\ ~Gap /\ mem' = mem /\ levels' = levels
      /\ order_map' = order_map /\ ev' = ev /\ stage' = stage
      /\ UNCHANGED ring /\ next_idx' = next_idx /\ replay_idx' = replay_idx /\ taken' = taken
      /\ expected_seq' = expected_seq /\ raced' = raced /\ restarts' = restarts
      /\ again' = again /\ missed' = missed /\ replayed' = replayed
      /\ holds' = holds /\ numbered' = numbered
  BY DEF CheckPass, bookVars, loop
<1>2. /\ stage = "idle" /\ ev = NoEvent /\ taken # NoEvent /\ taken \in Block
      /\ next_idx \in Nat /\ expected_seq \in Nat
  BY <1>0, <1>1 DEF MainOK
<1>3. MainOK'
  BY <1>0, <1>1 DEF MainOK
<1>4. PointersOK'
  BY <1>0, <1>1, <1>2 DEF PointersOK, Filled, BeingFilled, ring
<1>5. GapsOK'
  <2>1. NumberedOK'
    BY <1>0, <1>1, NumberedKept DEF GapsOK
  <2>2. ASSUME CheckGaps, ~misled', missed PROVE FALSE
    <3>1. ~misled /\ holds[taken].writer = numbered.writer
      <4>1. misled' = (misled \/ (missed /\ holds[taken].writer # numbered.writer))
        BY DEF CheckPass
      <4> QED BY <2>2, <4>1, Zenon
    <3>2. mem[taken].id = expected_seq
      BY <1>1, <2>2 DEF Gap
    <3>3. Ahead(taken) = AheadNumbered
      BY <1>0, <1>2, <3>1 DEF GapsOK, NumberedOK
    <3>4. holds[taken].index \in Nat /\ numbered.index \in Nat
      BY <1>0, <1>2 DEF HoldsOK, GapsOK, NumberedOK
    <3>5. holds[taken].index = numbered.index + 1
      BY <1>2, <3>2, <3>3, <3>4 DEF Ahead, AheadNumbered
    <3>6. holds[taken].index >= next_idx - 1 /\ numbered.index < next_idx - 2
      BY <1>0, <1>1, <2>2, <3>1 DEF GapsOK
    <3> QED BY <1>2, <3>4, <3>5, <3>6
  <2> QED BY <1>1, <2>1, <2>2 DEF GapsOK
<1>6. Safe' => Safe /\ \A n \in 0..write_idx : BeenThrough(n) => BeenThrough(n)'
  BY <1>1 DEF BeenThrough, Safe
<1>7. Safe => Outside(taken)
  BY <1>0, <1>1, <1>2 DEF ReaderBookOK
<1> QED BY <1>1, <1>2, <1>3, <1>4, <1>5, <1>6, <1>7, ReaderStep

LEMMA NumberInv ==
  ASSUME Inv, Number
  PROVE  Inv'
<1>0. RingOK /\ HoldsOK /\ MainOK /\ PointersOK /\ GapsOK /\ ReaderBookOK
  BY DEF Inv
<1>1. /\ pc = "numbered" /\ pc' = "process" /\ expected_seq' = mem[taken].id + 1
      /\ mem' = mem /\ levels' = levels
      /\ order_map' = order_map /\ ev' = ev /\ stage' = stage
      /\ UNCHANGED ring /\ next_idx' = next_idx /\ replay_idx' = replay_idx /\ taken' = taken
      /\ raced' = raced /\ restarts' = restarts
      /\ again' = again /\ missed' = missed /\ replayed' = replayed
      /\ holds' = holds /\ numbered' = holds[taken]
  BY DEF Number, bookVars
<1>2. /\ stage = "idle" /\ ev = NoEvent /\ taken # NoEvent /\ taken \in Block /\ next_idx \in Nat
      /\ mem[taken].id \in Nat
  <2>1. taken \in DOMAIN mem /\ MemOK
    BY <1>0, <1>1 DEF MainOK, RingOK
  <2> QED BY <1>0, <1>1, <2>1 DEF MainOK, MemOK, EventType
<1>3. MainOK'
  BY <1>0, <1>1, <1>2 DEF MainOK
<1>4. PointersOK'
  BY <1>0, <1>1, <1>2 DEF PointersOK, Filled, BeingFilled, ring
<1>5. GapsOK'
  <2>1. NumberedOK'
    BY <1>0, <1>1, <1>2, NumberedNow
  <2>2. ~misled' => ~misled /\ holds[taken].index = next_idx - 1
    <3>1. misled' = (misled \/ Refilled)
      BY DEF Number
    <3> QED BY <3>1, Zenon DEF Refilled
  <2> QED BY <1>0, <1>1, <2>1, <2>2 DEF GapsOK
<1>6. Safe' => Safe /\ \A n \in 0..write_idx : BeenThrough(n) => BeenThrough(n)'
  BY <1>1 DEF BeenThrough, Safe
<1>7. Safe => Outside(taken)
  BY <1>0, <1>1, <1>2 DEF ReaderBookOK
<1> QED BY <1>1, <1>2, <1>3, <1>4, <1>5, <1>6, <1>7, ReaderStep

\* The book after an event or at the end of a recovery is what it was before.
LEMMA PublishInv ==
  ASSUME Inv, Publish
  PROVE  Inv'
<1>0. MainOK /\ GapsOK
  BY DEF Inv
<1>1. /\ pc = "process" /\ pc' = "poll" /\ taken' = NoEvent /\ stage' = "idle" /\ ev' = NoEvent
      /\ mem' = mem /\ levels' = levels /\ order_map' = order_map
      /\ UNCHANGED ring /\ next_idx' = next_idx /\ replay_idx' = replay_idx
      /\ expected_seq' = expected_seq /\ raced' = raced /\ restarts' = restarts
      /\ again' = again /\ missed' = missed /\ replayed' = replayed
      /\ holds' = holds /\ numbered' = numbered /\ misled' = misled
  BY DEF Publish, bookVars, history
<1>2. MainOK'
  BY <1>0, <1>1 DEF MainOK
<1>3. PointersOK'
  BY <1>1 DEF PointersOK
<1>4. GapsOK'
  <2>1. next_idx \in Nat /\ NumberedOK'
    BY <1>0, <1>1, NumberedKept DEF MainOK, GapsOK
  <2> QED BY <1>0, <1>1, <2>1 DEF GapsOK
<1>5. Safe' => Safe /\ \A n \in 0..write_idx : BeenThrough(n) => BeenThrough(n)'
  BY <1>1 DEF BeenThrough, Safe
<1> QED BY <1>1, <1>2, <1>3, <1>4, <1>5, ReaderStep

LEMMA ReplayedInv ==
  ASSUME Inv, Replayed
  PROVE  Inv'
<1>0. RingOK /\ MainOK /\ GapsOK /\ PointersOK
  BY DEF Inv
<1>1. /\ pc = "replay" /\ pc' = pc /\ taken' = taken /\ stage' = "idle" /\ ev' = NoEvent
      /\ mem' = mem /\ levels' = levels /\ order_map' = order_map
      /\ UNCHANGED ring /\ next_idx' = next_idx /\ replay_idx' = replay_idx
      /\ expected_seq' = expected_seq /\ raced' = raced /\ restarts' = restarts
      /\ again' = again /\ missed' = missed /\ replayed' = replayed
      /\ holds' = holds /\ numbered' = numbered /\ misled' = misled
  BY DEF Replayed, bookVars, loop, history
<1>2. MainOK' /\ GapsOK'
  BY <1>0, <1>1, GapsKept DEF MainOK
<1>3. PointersOK'
  BY <1>0, <1>1 DEF PointersOK, Filled, BeingFilled, ring
<1>4. Safe' => Safe /\ \A n \in 0..write_idx : BeenThrough(n) => BeenThrough(n)'
  BY <1>1 DEF BeenThrough, Safe
<1> QED BY <1>1, <1>2, <1>3, <1>4, ReaderStep

LEMMA ReplayEndInv ==
  ASSUME Inv, ReplayEnd
  PROVE  Inv'
<1>0. RingOK /\ MainOK /\ GapsOK /\ PointersOK
  BY DEF Inv
<1>1. /\ pc = "replay" /\ stage = "idle" /\ pc' = "sync" /\ taken' = taken
      /\ stage' = stage /\ ev' = ev /\ mem' = mem /\ levels' = levels /\ order_map' = order_map
      /\ UNCHANGED ring /\ next_idx' = next_idx /\ replay_idx' = replay_idx
      /\ expected_seq' = expected_seq /\ raced' = raced /\ restarts' = restarts
      /\ again' = again /\ missed' = missed /\ replayed' = replayed
      /\ holds' = holds /\ numbered' = numbered /\ misled' = misled
  BY DEF ReplayEnd, bookVars, loop, history
<1>2. MainOK' /\ GapsOK'
  <2>1. NumberedOK'
    BY <1>0, <1>1, NumberedKept DEF GapsOK
  <2> QED BY <1>0, <1>1, <2>1 DEF MainOK, GapsOK
<1>3. PointersOK'
  <2>1. ev = NoEvent
    BY <1>0, <1>1 DEF MainOK
  <2> QED BY <1>0, <1>1, <2>1 DEF PointersOK, Filled, BeingFilled, ring
<1>4. Safe' => Safe /\ \A n \in 0..write_idx : BeenThrough(n) => BeenThrough(n)'
  BY <1>1 DEF BeenThrough, Safe
<1> QED BY <1>1, <1>2, <1>3, <1>4, ReaderStep

\* After the recovery the successor of the dropped message is expected.
LEMMA SyncInv ==
  ASSUME Inv, Sync
  PROVE  Inv'
<1>0. MainOK /\ GapsOK /\ RingOK /\ HoldsOK
  BY DEF Inv
<1>1. /\ pc = "sync" /\ pc' = "poll" /\ taken' = NoEvent
      /\ expected_seq' = IF taken = NoEvent THEN expected_seq ELSE mem[taken].id + 1
      /\ stage' = stage /\ ev' = ev /\ mem' = mem /\ levels' = levels /\ order_map' = order_map
      /\ UNCHANGED ring /\ next_idx' = next_idx /\ replay_idx' = replay_idx
      /\ raced' = raced /\ restarts' = restarts
      /\ again' = again /\ missed' = missed /\ replayed' = replayed /\ holds' = holds
  BY DEF Sync, bookVars
<1>2. stage = "idle" /\ ev = NoEvent /\ next_idx \in Nat /\ expected_seq \in Nat
  BY <1>0, <1>1 DEF MainOK
<1>3. taken # NoEvent => mem[taken].id \in Nat
  BY <1>0 DEF MainOK, RingOK, MemOK, EventType
<1>4. MainOK'
  BY <1>0, <1>1, <1>2, <1>3 DEF MainOK
<1>5. PointersOK'
  BY <1>1, <1>2 DEF PointersOK
<1>6. GapsOK'
  <2>1. CASE taken = NoEvent
    <3>1. expected_seq' = expected_seq /\ numbered' = numbered /\ misled' = misled
      BY <2>1 DEF Sync
    <3>2. NumberedOK'
      BY <1>0, <1>1, <3>1, NumberedKept DEF GapsOK
    <3> QED BY <1>0, <1>1, <2>1, <3>1, <3>2 DEF GapsOK
  <2>2. CASE taken # NoEvent
    <3>1. taken \in Block /\ expected_seq' = mem[taken].id + 1 /\ numbered' = holds[taken]
      BY <1>0, <2>2 DEF Sync, MainOK
    <3>2. NumberedOK'
      BY <1>0, <1>1, <3>1, NumberedNow
    <3>3. ~misled' => holds[taken].index = next_idx - 1
      <4>1. misled' = (misled \/ Refilled)
        BY <2>2 DEF Sync
      <4> QED BY <4>1, Zenon DEF Refilled
    <3> QED BY <1>0, <1>1, <1>2, <3>1, <3>2, <3>3 DEF GapsOK
  <2> QED BY <2>1, <2>2
<1>7. Safe' => Safe /\ \A n \in 0..write_idx : BeenThrough(n) => BeenThrough(n)'
  BY <1>1 DEF BeenThrough, Safe
<1> QED BY <1>1, <1>2, <1>4, <1>5, <1>6, <1>7, ReaderStep
-----------------------------------------------------------------------------
\* An order that rests stays where it is, with the number of its block.
LEMMA RestingKept ==
  ASSUME RingOK, RestingOK, LevelsOK, UNCHANGED ring,
         \A n \in 0..write_idx : BeenThrough(n) => BeenThrough(n)',
         NEW s \in Side, NEW price \in DOMAIN levels[s], NEW x \in ToSet(levels[s][price])
  PROVE  Filled(x)' /\ BeenThrough(posted[x])'
<1>1. x \in Block /\ posted[x] \in 0..write_idx
  BY DEF RingOK, LevelsOK
<1>2. Filled(x) /\ BeenThrough(posted[x])
  BY DEF RestingOK
<1>3. Filled(x)' /\ posted' = posted
  BY <1>2 DEF Filled, BeingFilled, ring
<1>4. BeenThrough(posted[x])'
  BY <1>1, <1>2, <1>3 DEF BeenThrough
<1> QED BY <1>3, <1>4

\* An event is processed that rests nowhere, as long as blocks keep what they hold.
LEMMA EventStep ==
  ASSUME Inv, NEW p \in Block, ProcessEvent(p, mem[p]), UNCHANGED <<ring, restarts, holds, mem>>,
         MainOK', PointersOK', GapsOK',
         Safe' => Safe /\ Outside(p),
         Safe' => \A n \in 0..write_idx : BeenThrough(n) => BeenThrough(n)'
  PROVE  Inv'
<1>0. RingOK /\ NumbersOK /\ HoldsOK /\ ShapeOK /\ ReaderBookOK /\ MemOK
  BY DEF Inv, RingOK
<1>1. ev' = p /\ stage' # "idle"
  BY DEF ProcessEvent, ProcessAdd, ProcessCancel, ProcessModify, ProcessTrade
<1>2. RingOK' /\ NumbersOK' /\ HoldsOK'
  <2>1. MemOK'
    BY <1>0 DEF MemOK
  <2> QED BY <1>0, <2>1, RingKept
<1>3. ShapeOK'
  BY <1>0, ProcessShape
<1>4. ReaderBookOK'
  <2> SUFFICES ASSUME Safe' PROVE ReaderBookOK'
    BY DEF ReaderBookOK
  <2>1. BookOK /\ AllIndexed /\ Apart /\ RestingOK /\ LevelsOK
    BY <1>0 DEF ReaderBookOK, BookOK
  <2>2. /\ BookOK' /\ Apart' /\ AllIndexed'
        /\ \A side \in Side : DOMAIN levels'[side] \subseteq DOMAIN levels[side]
        /\ \A side \in Side : \A price \in DOMAIN levels'[side] :
             ToSet(levels'[side][price]) \subseteq ToSet(levels[side][price])
    BY <2>1, ProcessSound
  <2>3. ASSUME NEW s \in Side, NEW price \in DOMAIN levels'[s], NEW x \in ToSet(levels'[s][price])
        PROVE  Filled(x)' /\ BeenThrough(posted[x])' /\ x # p
    <3>1. price \in DOMAIN levels[s] /\ x \in ToSet(levels[s][price])
      BY <2>2
    <3>2. x # p
      BY <3>1 DEF Outside
    <3> QED BY <1>0, <2>1, <3>1, <3>2, RestingKept
  <2>4. RestingOK'
    BY <2>3 DEF RestingOK
  <2>5. Outside(ev)'
    BY <1>1, <2>3 DEF Outside
  <2> QED BY <1>1, <2>2, <2>4, <2>5 DEF ReaderBookOK
<1> QED BY <1>2, <1>3, <1>4 DEF Inv

LEMMA ProcessInv ==
  ASSUME Inv, Process
  PROVE  Inv'
<1>0. RingOK /\ MainOK /\ GapsOK /\ PointersOK /\ ReaderBookOK
  BY DEF Inv
<1>1. /\ pc = "process" /\ pc' = pc /\ ProcessEvent(taken, mem[taken])
      /\ mem' = mem /\ UNCHANGED ring /\ next_idx' = next_idx /\ replay_idx' = replay_idx
      /\ taken' = taken /\ expected_seq' = expected_seq /\ raced' = raced /\ restarts' = restarts
      /\ again' = again /\ missed' = missed /\ replayed' = replayed
      /\ holds' = holds /\ numbered' = numbered /\ misled' = misled
  BY DEF Process, loop, history
<1>2. ev' = taken /\ stage = "idle" /\ stage' \in {"match", "publish"}
  BY <1>1 DEF ProcessEvent, ProcessAdd, ProcessCancel, ProcessModify, ProcessTrade
<1>3. taken \in Block /\ taken # NoEvent
  BY <1>0, <1>1 DEF MainOK
<1>4. MainOK'
  BY <1>0, <1>1, <1>2, <1>3 DEF MainOK
<1>5. GapsOK'
  BY <1>0, <1>1, GapsKept
<1>6. PointersOK'
  BY <1>0, <1>1, <1>2, <1>3 DEF PointersOK, Filled, BeingFilled, ring
<1>7. Safe' => Safe /\ Outside(taken)
  BY <1>0, <1>1, <1>2 DEF Safe, ReaderBookOK
<1>8. \A n \in 0..write_idx : BeenThrough(n) => BeenThrough(n)'
  BY <1>1 DEF BeenThrough
<1> QED BY <1>1, <1>3, <1>4, <1>5, <1>6, <1>7, <1>8, EventStep

\* The message that is replayed is one that has not been.
LEMMA ReplayInv ==
  ASSUME Inv, Replay
  PROVE  Inv'
<1> DEFINE p == BlockOf(replay_idx)
<1>0. RingOK /\ MainOK /\ GapsOK /\ PointersOK /\ ReaderBookOK
  BY DEF Inv
<1>1. /\ pc = "replay" /\ pc' = pc /\ stage = "idle" /\ posted[p] >= replay_idx
      /\ replay_idx' = posted[p] + 1 /\ replayed' = replayed \cup {posted[p]}
      /\ ProcessEvent(p, mem[p])
      /\ mem' = mem /\ UNCHANGED ring /\ next_idx' = next_idx
      /\ taken' = taken /\ expected_seq' = expected_seq /\ restarts' = restarts
      /\ again' = again /\ missed' = missed
      /\ holds' = holds /\ numbered' = numbered /\ misled' = misled
  BY DEF Replay
<1>2. ev' = p /\ stage' \in {"match", "publish"}
  BY <1>1 DEF ProcessEvent, ProcessAdd, ProcessCancel, ProcessModify, ProcessTrade
<1>3. /\ p \in Block /\ posted[p] \in Nat /\ posted[p] # 0 /\ replay_idx \in Nat /\ p # NoEvent
  <2>1. replay_idx \in Nat /\ replay_idx # 0
    BY <1>0, <1>1 DEF MainOK
  <2>2. p \in Block /\ p # NoEvent
    BY <2>1, BlockIs
  <2>3. write_idx \in Nat /\ posted \in [Block -> 0..write_idx]
    BY <1>0 DEF RingOK
  <2> HIDE DEF p
  <2> QED BY <1>1, <2>1, <2>2, <2>3
<1> HIDE DEF p
<1>4. ~raced' => ~raced /\ ~BeingFilled(p)
  <2>1. raced' = (raced \/ BeingFilled(p))
    BY DEF Replay, p
  <2> QED BY <2>1, Zenon
<1>5. MainOK'
  <2>1. \A n \in replayed' : n \in Nat /\ n < replay_idx'
    BY <1>0, <1>1, <1>3 DEF MainOK
  <2> QED BY <1>0, <1>1, <1>2, <1>3, <2>1 DEF MainOK
<1>6. GapsOK'
  BY <1>0, <1>1, GapsKept
<1>7. PointersOK'
  <2> SUFFICES ASSUME ~raced' PROVE PointersOK'
    BY DEF PointersOK
  <2>1. taken # NoEvent => Filled(taken) /\ posted[taken] = next_idx - 1
    BY <1>0, <1>4 DEF PointersOK
  <2>2. taken # NoEvent => Filled(taken)' /\ posted'[taken'] = next_idx' - 1
    BY <1>1, <2>1 DEF Filled, BeingFilled, ring
  <2>3. Filled(ev)' /\ posted'[ev'] \in replayed'
    BY <1>1, <1>2, <1>3, <1>4 DEF Filled, BeingFilled, ring
  <2> QED BY <1>1, <2>2, <2>3 DEF PointersOK
<1>8. ASSUME Safe' PROVE Safe /\ Outside(p)
  <2>1. Safe
    BY <1>1, <1>4, <1>8 DEF Safe
  <2>2. ~BeenThrough(posted[p])
    BY <1>0, <1>1, <1>3 DEF BeenThrough, MainOK
  <2> QED BY <1>0, <2>1, <2>2 DEF ReaderBookOK, RestingOK, Outside
<1>9. \A n \in 0..write_idx : BeenThrough(n) => BeenThrough(n)'
  BY <1>1 DEF BeenThrough
<1> QED BY <1>1, <1>3, <1>5, <1>6, <1>7, <1>8, <1>9, EventStep

\* A turn of the matching loop, of an order that is where the event was or is elsewhere.
LEMMA MatchInv ==
  ASSUME Inv, MatchOne
  PROVE  Inv'
<1>0. /\ RingOK /\ NumbersOK /\ HoldsOK /\ MainOK /\ ShapeOK /\ GapsOK /\ PointersOK
      /\ ReaderBookOK /\ MemOK
  BY DEF Inv, RingOK
<1>1. /\ Match /\ stage = "match" /\ stage' = stage /\ ev' = ev
      /\ pc' = pc /\ UNCHANGED ring /\ next_idx' = next_idx /\ replay_idx' = replay_idx
      /\ taken' = taken /\ expected_seq' = expected_seq /\ raced' = raced /\ restarts' = restarts
      /\ again' = again /\ missed' = missed /\ replayed' = replayed
      /\ holds' = holds /\ numbered' = numbered /\ misled' = misled
  BY DEF MatchOne, Match, loop, history
<1>2. ev \in Block /\ DOMAIN mem = Block
  BY <1>0, <1>1 DEF MainOK, RingOK
<1>3. /\ MemOK' /\ ShapeOK' /\ DOMAIN mem' = DOMAIN mem
      /\ \A p \in DOMAIN mem : mem'[p].id = mem[p].id
  BY <1>0, <1>1, <1>2, MatchShape
<1>4. RingOK' /\ NumbersOK' /\ HoldsOK'
  BY <1>0, <1>1, <1>3, RingKept
<1>5. MainOK' /\ GapsOK'
  BY <1>0, <1>1, <1>3, GapsKept DEF MainOK
<1>6. PointersOK'
  BY <1>0, <1>1 DEF PointersOK, Filled, BeingFilled, ring
<1>7. ReaderBookOK'
  <2> SUFFICES ASSUME Safe PROVE ReaderBookOK'
    BY <1>1 DEF ReaderBookOK, Safe
  <2>1. BookOK /\ AllIndexed /\ Apart /\ RestingOK /\ LevelsOK /\ Outside(ev)
    BY <1>0, <1>1 DEF ReaderBookOK, BookOK
  <2>2. \E price, r : Matched(price, r)
    BY <1>1, <1>2, <2>1, MatchIs
  <2>3. PICK price, r : Matched(price, r)
    BY <2>2
  <2>4. /\ BookOK' /\ Apart' /\ AllIndexed'
        /\ \A side \in Side : DOMAIN levels'[side] \subseteq DOMAIN levels[side]
        /\ \A side \in Side : \A p \in DOMAIN levels'[side] :
             ToSet(levels'[side][p]) \subseteq ToSet(levels[side][p])
    BY <1>3, <2>1, <2>3, MatchSound
  <2>5. \A n \in 0..write_idx : BeenThrough(n) => BeenThrough(n)'
    BY <1>1 DEF BeenThrough
  <2>6. ASSUME NEW s \in Side, NEW p \in DOMAIN levels'[s], NEW x \in ToSet(levels'[s][p])
        PROVE  Filled(x)' /\ BeenThrough(posted[x])' /\ x # ev
    <3>1. p \in DOMAIN levels[s] /\ x \in ToSet(levels[s][p])
      BY <2>4
    <3>2. x # ev
      BY <2>1, <3>1 DEF Outside
    <3> QED BY <1>0, <1>1, <2>1, <2>5, <3>1, <3>2, RestingKept
  <2>7. RestingOK'
    BY <2>6 DEF RestingOK
  <2>8. Outside(ev)'
    BY <1>1, <2>6 DEF Outside
  <2> QED BY <1>1, <2>4, <2>7, <2>8 DEF ReaderBookOK
<1> QED BY <1>3, <1>4, <1>5, <1>6, <1>7 DEF Inv

\* What is in the event's block is known by its number, and no order that rests has it.
LEMMA NewToIndex ==
  ASSUME Inv, Safe, stage = "match"
  PROVE  mem[ev].id \notin DOMAIN order_map
<1>0. RingOK /\ NumbersOK /\ MainOK /\ PointersOK /\ ReaderBookOK
  BY DEF Inv
<1>1. BookOK /\ RestingOK /\ IndexOK /\ IndexLive /\ Outside(ev)
  BY <1>0 DEF ReaderBookOK, BookOK
<1>2. ev \in Block /\ ev # NoEvent
  BY <1>0, BlockIs DEF MainOK
<1>3. Filled(ev)
  BY <1>0, <1>2 DEF PointersOK, Safe
<1> SUFFICES ASSUME mem[ev].id \in DOMAIN order_map PROVE FALSE
  OBVIOUS
<1> DEFINE id == mem[ev].id
           o == order_map[id]
<1>4. /\ o \in Block /\ mem[o].id = id /\ mem[o].side \in Side
      /\ mem[o].price \in DOMAIN levels[mem[o].side]
      /\ o \in ToSet(levels[mem[o].side][mem[o].price])
  BY <1>0, <1>1, Indexed, IndexedOn DEF RingOK
<1>5. Filled(o) /\ o # ev
  BY <1>1, <1>4 DEF RestingOK, Outside
<1>6. mem[o].id = posted[o] /\ mem[ev].id = posted[ev]
  BY <1>0, <1>2, <1>3, <1>4, <1>5 DEF NumbersOK, Filled, Safe
<1>7. posted[o] # 0 /\ BlockOf(posted[o]) = o /\ BlockOf(posted[ev]) = ev
  BY <1>0, <1>2, <1>3, <1>4, <1>5 DEF RingOK, Filled
<1> QED BY <1>4, <1>5, <1>6, <1>7

LEMMA RestInv ==
  ASSUME Inv, RestRemainder
  PROVE  Inv'
<1>0. /\ RingOK /\ NumbersOK /\ HoldsOK /\ MainOK /\ ShapeOK /\ GapsOK /\ PointersOK
      /\ ReaderBookOK /\ MemOK
  BY DEF Inv, RingOK
<1>1. /\ Rest /\ stage = "match" /\ stage' = "publish" /\ ev' = ev /\ mem' = mem
      /\ pc' = pc /\ UNCHANGED ring /\ next_idx' = next_idx /\ replay_idx' = replay_idx
      /\ taken' = taken /\ expected_seq' = expected_seq /\ raced' = raced /\ restarts' = restarts
      /\ again' = again /\ missed' = missed /\ replayed' = replayed
      /\ holds' = holds /\ numbered' = numbered /\ misled' = misled
  BY DEF RestRemainder, Rest, loop, history
<1>2. ev \in Block /\ DOMAIN mem = Block /\ ev \in Nat /\ ev # NoEvent
  BY <1>0, <1>1, BlockIs DEF MainOK, RingOK
<1>3. ShapeOK'
  BY <1>0, <1>1, <1>2, RestShape
<1>4. RingOK' /\ NumbersOK' /\ HoldsOK'
  <2>1. MemOK'
    BY <1>0, <1>1 DEF MemOK
  <2> QED BY <1>0, <1>1, <2>1, RingKept
<1>5. MainOK' /\ GapsOK'
  BY <1>0, <1>1, GapsKept DEF MainOK
<1>6. PointersOK'
  BY <1>0, <1>1 DEF PointersOK, Filled, BeingFilled, ring
<1>7. ReaderBookOK'
  <2> SUFFICES ASSUME Safe PROVE ReaderBookOK'
    BY <1>1 DEF ReaderBookOK, Safe
  <2>1. BookOK /\ AllIndexed /\ Apart /\ RestingOK /\ LevelsOK /\ Outside(ev)
    BY <1>0, <1>1 DEF ReaderBookOK, BookOK
  <2>2. \A n \in 0..write_idx : BeenThrough(n) => BeenThrough(n)'
    BY <1>1 DEF BeenThrough
  <2>3. Filled(ev)' /\ BeenThrough(posted[ev])'
    <3>1. Filled(ev)
      BY <1>0, <1>2 DEF PointersOK, Safe
    <3>2. posted[ev] \in replayed \/ (pc \notin {"replay", "sync"} /\ posted[ev] < next_idx)
      <4>1. CASE pc = "replay"
        BY <1>0, <1>2, <4>1 DEF PointersOK, Safe
      <4>2. CASE pc # "replay"
        <5>1. pc = "process" /\ ev = taken /\ next_idx \in Nat
          BY <1>0, <1>1, <4>2 DEF MainOK
        <5>2. posted[ev] = next_idx - 1
          BY <1>0, <1>2, <5>1 DEF PointersOK, Safe
        <5> QED BY <5>1, <5>2
      <4> QED BY <4>1, <4>2
    <3>3. posted' = posted
      BY <1>1 DEF ring
    <3> QED BY <1>1, <3>1, <3>2, <3>3 DEF Filled, BeingFilled, BeenThrough, ring
  <2>4. CASE ~(mem[ev].amount > 0)
    <3>1. levels' = levels /\ order_map' = order_map
      BY <1>1, <2>4 DEF Rest
    <3>2. BookOK' /\ AllIndexed' /\ Apart'
      BY <1>1, <2>1, <3>1, BookSame
    <3>3. ASSUME NEW s \in Side, NEW p \in DOMAIN levels'[s], NEW x \in ToSet(levels'[s][p])
          PROVE  Filled(x)' /\ BeenThrough(posted[x])'
      BY <1>0, <1>1, <2>1, <2>2, <3>1, RestingKept
    <3>4. RestingOK'
      BY <3>3 DEF RestingOK
    <3> QED BY <1>1, <3>2, <3>4 DEF ReaderBookOK
  <2>5. CASE mem[ev].amount > 0
    <3>1. PICK q : Rested(q)
      BY <1>1, <1>2, <2>1, <2>5, RestIs
    <3>2. BookOK' /\ Apart' /\ AllIndexed'
      <4>1. mem[ev].id \notin DOMAIN order_map
        BY <1>1, NewToIndex
      <4> QED BY <1>1, <1>2, <2>1, <3>1, <4>1, RestSound
    <3> DEFINE side == mem[ev].side
               price == mem[ev].price
               t == Append(q, ev)
    <3>3. /\ side \in Side /\ price \in Int /\ q \in Seq(Nat) /\ ev \notin ToSet(q)
          /\ \/ price \in DOMAIN levels[side] /\ q = levels[side][price]
             \/ price \notin DOMAIN levels[side] /\ q = <<>>
          /\ \A i, j \in DOMAIN q : q[i] = q[j] => i = j
          /\ levels' = SetQueue(levels, side, price, t)
      BY <3>1 DEF Rested
    <3>4. t \in Seq(Nat) /\ t # <<>> /\ ToSet(t) = ToSet(q) \cup {ev}
      BY <1>2, <3>3, QueuedBehind
    <3> HIDE DEF t, side, price
    <3>5. /\ \A s \in Side : s # side => levels'[s] = levels[s]
          /\ DOMAIN levels'[side] = DOMAIN levels[side] \cup {price}
          /\ levels'[side][price] = t
          /\ \A p \in DOMAIN levels[side] : p # price => levels'[side][p] = levels[side][p]
      BY <2>1, <3>3, <3>4, SetQueueIs
    <3>6. ASSUME NEW s \in Side, NEW p \in DOMAIN levels'[s], NEW x \in ToSet(levels'[s][p])
          PROVE  Filled(x)' /\ BeenThrough(posted[x])'
      <4>1. CASE x = ev
        BY <1>1, <2>3, <4>1 DEF Filled, BeingFilled, BeenThrough
      <4>2. CASE x # ev
        <5>1. p \in DOMAIN levels[s] /\ x \in ToSet(levels[s][p])
          <6>1. CASE s = side /\ p = price
            <7>1. x \in ToSet(q)
              BY <3>4, <3>5, <4>2, <6>1
            <7>2. q # <<>>
              BY <7>1 DEF ToSet
            <7> QED BY <3>3, <6>1, <7>1, <7>2
          <6>2. CASE s # side \/ p # price
            BY <3>5, <6>2
          <6> QED BY <6>1, <6>2
        <5> QED BY <1>0, <1>1, <2>1, <2>2, <5>1, RestingKept
      <4> QED BY <4>1, <4>2
    <3>7. RestingOK'
      BY <3>6 DEF RestingOK
    <3> QED BY <1>1, <3>2, <3>7 DEF ReaderBookOK
  <2> QED BY <2>4, <2>5
<1> QED BY <1>3, <1>4, <1>5, <1>6, <1>7 DEF Inv
-----------------------------------------------------------------------------
\* Whatever the writers and the reader do, by whatever steps: the blocks hold what was written
\* with the number it was written under, and the reader's pointers lead to blocks.  The book is
\* sound until a block is filled again under one of them.
THEOREM ReaderInvariance == Spec => []Inv
<1>1. Init => Inv
  BY InitInv
<1>2. Inv /\ [Next]_vars => Inv'
  <2> SUFFICES ASSUME Inv, [Next]_vars PROVE Inv'
    OBVIOUS
  <2>1. CASE BeginWrite
    BY <2>1, BeginWriteInv
  <2>2. CASE EndWrite
    BY <2>2, EndWriteInv
  <2>3. CASE Restart
    BY <2>3, RestartInv
  <2>4. CASE Start
    BY <2>4, StartInv
  <2>5. CASE Poll
    BY <2>5, PollInv
  <2>6. CASE CheckRecover
    BY <2>6, CheckRecoverInv
  <2>7. CASE CheckPass
    BY <2>7, CheckPassInv
  <2>8. CASE Number
    BY <2>8, NumberInv
  <2>9. CASE Process
    BY <2>9, ProcessInv
  <2>10. CASE MatchOne
    BY <2>10, MatchInv
  <2>11. CASE RestRemainder
    BY <2>11, RestInv
  <2>12. CASE Publish
    BY <2>12, PublishInv
  <2>13. CASE Replay
    BY <2>13, ReplayInv
  <2>14. CASE Replayed
    BY <2>14, ReplayedInv
  <2>15. CASE ReplayEnd
    BY <2>15, ReplayEndInv
  <2>16. CASE Sync
    BY <2>16, SyncInv
  <2>18. CASE Recover
    BY <2>18, RecoverInv
  <2>17. CASE UNCHANGED vars
    <3>1. /\ pc' = pc /\ mem' = mem /\ levels' = levels /\ order_map' = order_map /\ ev' = ev
          /\ stage' = stage /\ UNCHANGED ring /\ next_idx' = next_idx /\ replay_idx' = replay_idx
          /\ taken' = taken /\ expected_seq' = expected_seq /\ raced' = raced
          /\ restarts' = restarts /\ again' = again /\ missed' = missed /\ replayed' = replayed
          /\ holds' = holds /\ numbered' = numbered /\ misled' = misled
      BY <2>17 DEF vars, bookVars, loop, history
    <3>2. RingOK' /\ NumbersOK' /\ HoldsOK'
      BY <3>1, RingKept DEF Inv, RingOK, MemOK
    <3>3. MainOK' /\ GapsOK'
      BY <3>1, GapsKept DEF Inv, MainOK
    <3>4. ShapeOK' /\ (BookOK => BookOK') /\ (AllIndexed => AllIndexed') /\ (Apart => Apart')
      BY <3>1, BookSame DEF Inv
    <3>5. PointersOK'
      BY <3>1 DEF Inv, PointersOK, Filled, BeingFilled, ring
    <3>6. ReaderBookOK'
      BY <3>1, <3>4
        DEF Inv, ReaderBookOK, Safe, RestingOK, Outside, Filled, BeingFilled, BeenThrough, ring
    <3> QED BY <3>2, <3>3, <3>4, <3>5, <3>6 DEF Inv
  <2> QED BY <2>1, <2>2, <2>3, <2>4, <2>5, <2>6, <2>7, <2>8, <2>9, <2>10, <2>11, <2>12, <2>13,
             <2>14, <2>15, <2>16, <2>17, <2>18 DEF Next, WriterNext, ReaderNext
<1> QED BY <1>1, <1>2, PTL DEF Spec

\* As long as no block is filled again under the reader's pointers, no writer has numbered its
\* messages again and no message was both replayed and read, the index and the queues of the
\* book that is built over the ring agree, and its sides do not cross.
THEOREM BookStaysSound == Spec => []BookSound
<1>1. Inv => BookSound
  <2> SUFFICES ASSUME Inv, Safe PROVE IndexLive /\ QueuesSound /\ AllIndexed /\ Uncrossed
    <3>1. restarts \in Nat \/ ~Inv
      BY DEF Inv, RingOK
    <3> QED BY <3>1 DEF BookSound, Safe
  <2>1. BookOK /\ AllIndexed /\ Apart /\ LevelsOK
    BY DEF Inv, ReaderBookOK, BookOK
  <2>2. ASSUME levels[Bid] # <<>>, levels[Ask] # <<>>
        PROVE  Best(levels, Bid) < Best(levels, Ask)
    <3>1. Bid \in Side /\ Ask \in Side
      BY DEF Side
    <3>2. Best(levels, Bid) \in DOMAIN levels[Bid] /\ Best(levels, Ask) \in DOMAIN levels[Ask]
      BY <2>1, <2>2, <3>1, BestIs
    <3> QED BY <2>1, <3>2 DEF Apart
  <2> QED BY <2>1, <2>2 DEF Uncrossed, BookOK
<1> QED BY <1>1, ReaderInvariance, PTL

\* With --check-gaps no event is applied to a book that missed one before it since the reader
\* started or last recovered: what was lost between two messages shows in the number of the
\* second, and the book is built anew.  Left aside are a number expected from a block that was
\* filled again, and one compared with a number that another writer gave.
THEOREM NoGapUnnoticed == Spec => []GapNoticed
<1>1. Inv => GapNoticed
  BY DEF Inv, GapsOK, GapNoticed
<1> QED BY <1>1, ReaderInvariance, PTL
-----------------------------------------------------------------------------
\* Matching over the ring comes to an end.  For this the orders have only to rest on their own
\* side, so that none is matched against itself; they do until a block is filled again under a
\* pointer, also where a writer has started again or a message was read twice.
SidesHeld ==
  \A side \in Side : \A price \in DOMAIN levels[side] : \A p \in ToSet(levels[side][price]) :
    mem[p].side = side

SidesOK == ~raced => SidesHeld

LEMMA SidesFewer ==
  ASSUME ShapeOK, SidesHeld, \A p \in DOMAIN mem : mem'[p].side = mem[p].side,
         \A side \in Side : \A price \in DOMAIN levels'[side] :
           /\ price \in DOMAIN levels[side]
           /\ ToSet(levels'[side][price]) \subseteq ToSet(levels[side][price])
  PROVE  SidesHeld'
<1> SUFFICES ASSUME NEW s \in Side, NEW p \in DOMAIN levels'[s], NEW x \in ToSet(levels'[s][p])
             PROVE  mem'[x].side = s
  BY DEF SidesHeld
<1>1. p \in DOMAIN levels[s] /\ x \in ToSet(levels[s][p])
  OBVIOUS
<1>2. x \in DOMAIN mem
  BY <1>1 DEF ShapeOK, LevelsOK
<1> QED BY <1>1, <1>2 DEF SidesHeld

LEMMA SidesBySetQueue ==
  ASSUME ShapeOK, SidesHeld, \A p \in DOMAIN mem : mem'[p].side = mem[p].side,
         NEW side \in Side, NEW price \in Int, NEW q \in Seq(Nat),
         \A p \in ToSet(q) : p \in DOMAIN mem /\ mem[p].side = side,
         levels' = SetQueue(levels, side, price, q)
  PROVE  SidesHeld'
<1>1. /\ \A s \in Side : s # side => levels'[s] = levels[s]
      /\ q = <<>> => /\ DOMAIN levels'[side] = DOMAIN levels[side] \ {price}
                     /\ \A p \in DOMAIN levels'[side] : levels'[side][p] = levels[side][p]
      /\ q # <<>> => /\ DOMAIN levels'[side] = DOMAIN levels[side] \cup {price}
                     /\ levels'[side][price] = q
                     /\ \A p \in DOMAIN levels[side] :
                          p # price => levels'[side][p] = levels[side][p]
  BY SetQueueIs DEF ShapeOK
<1> SUFFICES ASSUME NEW s \in Side, NEW p \in DOMAIN levels'[s], NEW x \in ToSet(levels'[s][p])
             PROVE  mem'[x].side = s
  BY DEF SidesHeld
<1>2. CASE p \in DOMAIN levels[s] /\ levels'[s][p] = levels[s][p]
  <2>1. x \in ToSet(levels[s][p]) /\ x \in DOMAIN mem
    BY <1>2 DEF ShapeOK, LevelsOK
  <2> QED BY <1>2, <2>1 DEF SidesHeld
<1>3. CASE s = side /\ levels'[s][p] = q
  BY <1>3
<1>4. \/ p \in DOMAIN levels[s] /\ levels'[s][p] = levels[s][p]
      \/ s = side /\ levels'[s][p] = q
  <2>1. CASE s # side
    BY <1>1, <2>1
  <2>2. CASE s = side /\ q = <<>>
    BY <1>1, <2>2
  <2>3. CASE s = side /\ q # <<>>
    BY <1>1, <2>3
  <2> QED BY <2>1, <2>2, <2>3
<1> QED BY <1>2, <1>3, <1>4

\* A cancel takes one order out of its queue.
LEMMA SidesByCancel ==
  ASSUME MemOK, ShapeOK, SidesHeld, mem' = mem, NEW id, levels' = Cancelled(id)
  PROVE  SidesHeld'
<1> DEFINE o == order_map[id]
           side == mem[o].side
           price == mem[o].price
           q == levels[side][price]
<1>1. CASE levels' = levels
  BY <1>1 DEF SidesHeld
<1>2. CASE id \in DOMAIN order_map /\ price \in DOMAIN levels[side]
  <2>1. side \in Side /\ price \in Int
    BY <1>2 DEF ShapeOK, IndexOK, MemOK, EventType
  <2>2. levels' = SetQueue(levels, side, price, Removed(q, o))
    BY <1>2 DEF Cancelled
  <2>3. q \in Seq(Nat) /\ \A p \in ToSet(q) : p \in DOMAIN mem /\ mem[p].side = side
    BY <1>2, <2>1 DEF ShapeOK, LevelsOK, SidesHeld
  <2> HIDE DEF o, side, price, q
  <2>4. Removed(q, o) \in Seq(Nat) /\ ToSet(Removed(q, o)) = ToSet(q) \ {o}
    <3> DEFINE R == Nat \X Nat
    <3>1. \A i, j \in 1..Len(q) : i < j => <<q[i], q[j]>> \in R
      BY <2>3, ElementOfSeq, LenProperties
    <3> HIDE DEF R
    <3> QED BY <2>3, <3>1, RemovedKeeps
  <2> QED BY <2>1, <2>2, <2>3, <2>4, SidesBySetQueue
<1>3. ~(id \in DOMAIN order_map /\ price \in DOMAIN levels[side]) => levels' = levels
  BY DEF Cancelled
<1> QED BY <1>1, <1>2, <1>3

LEMMA SidesByProcess ==
  ASSUME MemOK, ShapeOK, SidesHeld, mem' = mem, NEW p, ProcessEvent(p, mem[p])
  PROVE  SidesHeld'
<1>1. levels' = levels \/ levels' = Cancelled(mem[p].id)
  BY DEF ProcessEvent, ProcessAdd, ProcessCancel, ProcessModify, ProcessTrade
<1>2. CASE levels' = levels
  BY <1>2 DEF SidesHeld
<1>3. CASE levels' = Cancelled(mem[p].id)
  BY <1>3, SidesByCancel
<1> QED BY <1>1, <1>2, <1>3

\* The order met in a turn of the loop rests on the other side, so it is not the one that came
\* in.  If it had no amount left it leaves its queue.
FirstLeaves(side) ==
  \E price \in DOMAIN levels[side] :
    levels' = SetQueue(levels, side, price, Tail(levels[side][price]))

\* The first order of a queue, and what is behind it.
LEMMA FirstOfQueue ==
  ASSUME NEW q \in Seq(Nat), q # <<>>
  PROVE  Head(q) \in ToSet(q) /\ Tail(q) \in Seq(Nat) /\ ToSet(Tail(q)) \subseteq ToSet(q)
<1>1. Len(q) \in Nat \ {0} /\ DOMAIN q = 1..Len(q)
  BY LenProperties, EmptySeq
<1>2. Head(q) = q[1] /\ 1 \in DOMAIN q
  BY <1>1
<1>3. /\ Tail(q) \in Seq(Nat) /\ Len(Tail(q)) = Len(q) - 1
      /\ \A i \in 1..Len(Tail(q)) : Tail(q)[i] = q[i + 1]
  BY HeadTailProperties
<1>4. DOMAIN Tail(q) = 1..Len(Tail(q))
  BY <1>3, LenProperties
<1>5. \A i \in DOMAIN Tail(q) : i + 1 \in DOMAIN q /\ Tail(q)[i] = q[i + 1]
  BY <1>1, <1>3, <1>4
<1> QED BY <1>2, <1>3, <1>5 DEF ToSet

LEMMA MatchTurn ==
  ASSUME MemOK, ShapeOK, SidesHeld, Match, ev \in DOMAIN mem
  PROVE  /\ SidesHeld'
         /\ mem'[ev].amount \in Nat /\ mem'[ev].amount <= mem[ev].amount
         /\ mem'[ev].amount = mem[ev].amount => FirstLeaves(Opposite(mem[ev].side))
<1> DEFINE e == mem[ev]
           other == Opposite(e.side)
           price == Best(levels, other)
           queue == levels[other][price]
           r == Head(queue)
           traded == IF e.amount < mem[r].amount THEN e.amount ELSE mem[r].amount
<1>0. LevelsOK
  BY DEF ShapeOK
<1>1. /\ Crosses(e)
      /\ mem' = [[mem EXCEPT ![ev].amount = Take(@, traded)]
                    EXCEPT ![r].amount = Take(@, traded)]
      /\ mem'[r].amount = 0 => levels' = SetQueue(levels, other, price, Tail(queue))
      /\ mem'[r].amount # 0 => levels' = levels
  BY DEF Match, NextInQueue
<1>2. e \in EventType
  BY DEF MemOK
<1>3. other \in Side /\ levels[other] # <<>> /\ other # e.side /\ e.amount > 0
  <2>1. other \in Side /\ other # e.side
    BY <1>2 DEF EventType, Side, Bid, Ask, Opposite
  <2> QED BY <1>1, <2>1 DEF Crosses
<1>4. price \in DOMAIN levels[other] /\ price \in Int
  BY <1>0, <1>3, BestIs DEF LevelsOK
<1> HIDE DEF price
<1>5. queue \in Seq(Nat) /\ queue # <<>>
      /\ \A p \in ToSet(queue) : p \in DOMAIN mem /\ mem[p].side = other
  BY <1>0, <1>3, <1>4 DEF LevelsOK, ShapeOK, SidesHeld
<1> HIDE DEF queue, other
<1>6. /\ r \in ToSet(queue) /\ Tail(queue) \in Seq(Nat)
      /\ ToSet(Tail(queue)) \subseteq ToSet(queue)
  BY <1>5, FirstOfQueue
<1>7. r \in DOMAIN mem /\ mem[r].side = other /\ r # ev /\ mem[r] \in EventType
  BY <1>3, <1>5, <1>6 DEF MemOK
<1> HIDE DEF r
<1>8. e.amount \in 0..(AmountMod - 1) /\ mem[r].amount \in 0..(AmountMod - 1)
  BY <1>2, <1>7 DEF EventType
<1>9. traded \in 0..e.amount /\ traded \in 0..mem[r].amount
      /\ (traded = 0 => mem[r].amount = 0)
  BY <1>3, <1>8
<1> HIDE DEF traded
<1>10. mem'[ev].amount = Take(e.amount, traded) /\ mem'[r].amount = Take(mem[r].amount, traded)
  <2>1. mem \in [DOMAIN mem -> EventType] /\ ev \in DOMAIN mem /\ r \in DOMAIN mem /\ r # ev
    BY <1>7 DEF MemOK
  <2> QED BY <1>1, <2>1 DEF EventType
<1>11. /\ mem'[ev].amount = e.amount - traded /\ mem'[r].amount = mem[r].amount - traded
  BY <1>8, <1>9, <1>10, LessTaken
<1>12. mem'[ev].amount \in Nat /\ mem'[ev].amount <= e.amount
  BY <1>8, <1>9, <1>11
<1>13. ASSUME mem'[ev].amount = e.amount PROVE FirstLeaves(other)
  <2>1. traded = 0 /\ mem[r].amount = 0
    BY <1>8, <1>9, <1>11, <1>13
  <2>2. mem'[r].amount = 0
    BY <1>11, <2>1
  <2> QED BY <1>1, <1>4, <2>2 DEF FirstLeaves, queue
<1>14. \A p \in DOMAIN mem : mem'[p].side = mem[p].side
  BY MatchShape
<1>15. SidesHeld'
  <2>1. CASE levels' = levels
    BY <1>14, <2>1, SidesFewer
  <2>2. CASE levels' = SetQueue(levels, other, price, Tail(queue))
    <3> DEFINE t == Tail(queue)
    <3>1. t \in Seq(Nat) /\ \A p \in ToSet(t) : p \in DOMAIN mem /\ mem[p].side = other
      BY <1>5, <1>6
    <3> HIDE DEF t
    <3>2. levels' = SetQueue(levels, other, price, t)
      BY <2>2 DEF t
    <3> QED BY <1>3, <1>4, <1>14, <3>1, <3>2, SidesBySetQueue
  <2> QED BY <1>1, <2>1, <2>2
<1> QED BY <1>12, <1>13, <1>15 DEF other

LEMMA SidesByRest ==
  ASSUME MemOK, ShapeOK, SidesHeld, Rest, ev \in DOMAIN mem, ev \in Nat
  PROVE  SidesHeld'
<1> DEFINE e == mem[ev]
           q == IF e.price \in DOMAIN levels[e.side] THEN levels[e.side][e.price] ELSE <<>>
           t == Append(q, ev)
<1>0. LevelsOK /\ mem' = mem
  BY DEF ShapeOK, Rest
<1>1. e.side \in Side /\ e.price \in Int
  BY DEF MemOK, EventType
<1>2. q \in Seq(Nat) /\ \A p \in ToSet(q) : p \in DOMAIN mem /\ mem[p].side = e.side
  <2>1. CASE e.price \in DOMAIN levels[e.side]
    BY <1>0, <1>1, <2>1 DEF LevelsOK, SidesHeld
  <2>2. CASE e.price \notin DOMAIN levels[e.side]
    BY <2>2, EmptySeq DEF ToSet
  <2> QED BY <2>1, <2>2
<1>3. CASE levels' = SetQueue(levels, e.side, e.price, t)
  <2> HIDE DEF q
  <2>1. t \in Seq(Nat) /\ ToSet(t) \subseteq ToSet(q) \cup {ev}
    <3>1. /\ t \in Seq(Nat) /\ Len(t) = Len(q) + 1 /\ t[Len(q) + 1] = ev
          /\ \A i \in 1..Len(q) : t[i] = q[i]
      BY <1>2, AppendProperties
    <3>2. DOMAIN t = 1..Len(q) + 1 /\ DOMAIN q = 1..Len(q) /\ Len(q) \in Nat
      BY <1>2, <3>1, LenProperties
    <3> HIDE DEF t
    <3>3. ASSUME NEW i \in DOMAIN t PROVE t[i] \in ToSet(q) \cup {ev}
      <4>1. CASE i \in 1..Len(q)
        BY <3>1, <3>2, <4>1 DEF ToSet
      <4>2. CASE i = Len(q) + 1
        BY <3>1, <4>2
      <4> QED BY <3>2, <4>1, <4>2
    <3> QED BY <3>1, <3>3 DEF ToSet
  <2> HIDE DEF t
  <2>2. \A p \in ToSet(t) : p \in DOMAIN mem /\ mem[p].side = e.side
    BY <1>2, <2>1
  <2> QED BY <1>0, <1>1, <1>3, <2>1, <2>2, SidesBySetQueue
<1>4. CASE levels' = levels
  BY <1>0, <1>4 DEF SidesHeld
<1>5. levels' = levels \/ levels' = SetQueue(levels, e.side, e.price, t)
  BY DEF Rest
<1> QED BY <1>3, <1>4, <1>5

\* The writer fills no block that holds a resting order, or the reader has lost it.
LEMMA SidesByWriter ==
  ASSUME RingOK, ShapeOK, SidesHeld, BeginWrite, ~raced'
  PROVE  SidesHeld'
<1>1. PICK m \in Message : mem' = [mem EXCEPT ![BlockOf(write_idx')] = m]
  BY DEF BeginWrite
<1>2. levels' = levels /\ BlockOf(write_idx') \notin Pointed
  <2>1. levels' = levels
    BY Zenon DEF BeginWrite, bookVars
  <2>2. raced' = (raced \/ BlockOf(write_idx') \in Pointed)
    BY DEF BeginWrite
  <2> QED BY <2>1, <2>2, Zenon
<1> SUFFICES ASSUME NEW s \in Side, NEW p \in DOMAIN levels[s], NEW x \in ToSet(levels[s][p])
             PROVE  mem'[x].side = s
  BY <1>2 DEF SidesHeld
<1>3. x \in Resting(s)
  BY DEF Resting
<1>4. x # BlockOf(write_idx')
  BY <1>2, <1>3 DEF Pointed, Side
<1>5. x \in DOMAIN mem /\ mem'[x] = mem[x]
  BY <1>1, <1>4 DEF ShapeOK, LevelsOK
<1> QED BY <1>5 DEF SidesHeld

LEMMA SidesStep ==
  ASSUME Inv, SidesOK, [Next]_vars
  PROVE  SidesOK'
<1> SUFFICES ASSUME ~raced' PROVE SidesHeld'
  BY DEF SidesOK
<1>0. MemOK /\ ShapeOK /\ RingOK /\ MainOK
  BY DEF Inv, RingOK
<1>1. ~raced
  BY DEF Next, WriterNext, ReaderNext, BeginWrite, EndWrite, Restart, Start, Recover, StartReplay,
         Poll, CheckRecover, CheckPass, Number, Process, MatchOne, RestRemainder, Publish, Replay,
         Replayed, ReplayEnd, Sync, history, vars
<1>2. SidesHeld
  BY <1>1 DEF SidesOK
<1>3. ASSUME stage = "match" PROVE ev \in DOMAIN mem /\ ev \in Nat
  BY <1>0, <1>3, BlockIs DEF MainOK, RingOK
<1>4. CASE BeginWrite
  BY <1>0, <1>2, <1>4, SidesByWriter
<1>5. CASE mem' = mem /\ levels' = levels
  BY <1>2, <1>5 DEF SidesHeld
<1>6. CASE StartReplay
  BY <1>6 DEF StartReplay, SidesHeld
<1>7. CASE Process
  BY <1>0, <1>2, <1>7, SidesByProcess DEF Process
<1>8. CASE Replay
  BY <1>0, <1>2, <1>8, SidesByProcess DEF Replay
<1>9. CASE MatchOne
  BY <1>0, <1>2, <1>3, <1>9, MatchTurn DEF MatchOne, Match
<1>10. CASE RestRemainder
  BY <1>0, <1>2, <1>3, <1>10, SidesByRest DEF RestRemainder, Rest
<1>11. ASSUME EndWrite \/ Restart \/ Start \/ Poll \/ CheckPass \/ Number \/ Publish \/ Replayed
                \/ ReplayEnd \/ Sync \/ UNCHANGED vars
       PROVE  mem' = mem /\ levels' = levels
  BY <1>11 DEF EndWrite, Restart, Start, Poll, CheckPass, Number, Publish, Replayed,
               ReplayEnd, Sync, vars, bookVars
<1>12. Recover \/ CheckRecover => StartReplay
  BY DEF Recover, CheckRecover
<1> QED BY <1>4, <1>5, <1>6, <1>7, <1>8, <1>9, <1>10, <1>11, <1>12 DEF Next, WriterNext, ReaderNext

\* Whatever the writers and the reader do, orders rest on the side they were sent to, until a
\* block is filled again under a pointer.
THEOREM SidesInvariance == Spec => [](Inv /\ SidesOK)
<1>1. Init => SidesOK
  BY DEF Init, BookInit, SidesOK, SidesHeld
<1> QED BY <1>1, SidesStep, ReaderInvariance, PTL DEF Spec

\* Until a block is filled again under its pointers, each turn of the reader's matching loop
\* takes something off the order that came in, and never more than it had, or takes an order
\* without amount out of the book: the loop ends, whatever was replayed twice or numbered again.
THEOREM ReaderMatchingShrinks ==
  Spec => [][MatchOne /\ ~raced =>
               /\ mem'[ev].amount \in Nat /\ mem'[ev].amount <= mem[ev].amount
               /\ mem'[ev].amount < mem[ev].amount \/ FirstLeaves(Opposite(mem[ev].side))]_vars
<1> DEFINE Shrinks ==
      /\ mem'[ev].amount \in Nat /\ mem'[ev].amount <= mem[ev].amount
      /\ mem'[ev].amount < mem[ev].amount \/ FirstLeaves(Opposite(mem[ev].side))
<1>1. Inv /\ SidesOK /\ [Next]_vars => [MatchOne /\ ~raced => Shrinks]_vars
  <2> SUFFICES ASSUME Inv, SidesOK, MatchOne, ~raced PROVE Shrinks
    OBVIOUS
  <2>1. MemOK /\ ShapeOK /\ SidesHeld /\ Match
    BY DEF Inv, RingOK, SidesOK, MatchOne
  <2>2. ev \in DOMAIN mem
    BY <2>1 DEF Inv, MainOK, RingOK, Match
  <2>3. /\ mem'[ev].amount \in Nat /\ mem'[ev].amount <= mem[ev].amount
        /\ mem'[ev].amount = mem[ev].amount => FirstLeaves(Opposite(mem[ev].side))
    BY <2>1, <2>2, MatchTurn
  <2>4. mem[ev].amount \in Nat
    BY <2>1, <2>2 DEF MemOK, EventType
  <2> QED BY <2>3, <2>4
<1> QED BY <1>1, SidesInvariance, PTL DEF Spec
=============================================================================
