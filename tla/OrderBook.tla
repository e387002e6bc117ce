------------------------------ MODULE OrderBook ------------------------------
(***************************************************************************)
(* The order book of src/example/order_book.cc: price levels with a queue  *)
(* of resting orders each, an index by order id, and matching of incoming  *)
(* orders against the other side.                                          *)
(*                                                                         *)
(* The book owns no order.  Its queues and its index hold pointers to the  *)
(* Event records it was given, and a trade changes the amounts in those    *)
(* records.  So the memory the pointers refer to is a variable here, mem,  *)
(* and whoever uses the book says what else happens to it: OrderFlow keeps *)
(* every event for ever, ShmReader has them in the slots of the ring.      *)
(*                                                                         *)
(* Prices are counted in ticks of PRICE_STEP.  Timestamps, instrument and  *)
(* trading phase are copied around and left out: is_cross_allowed() exists *)
(* but nothing calls it.                                                   *)
(***************************************************************************)
EXTENDS OrderQueue, FiniteSets, SequencesExt

CONSTANTS
  Levels,    \* levels in a full-depth snapshot, and the bound on a level that
             \* counts as visible: both 10 in the code
  AmountMod, \* amounts are unsigned modulo AmountMod (2^32 in the code)
  VolumeMod  \* the volume is unsigned modulo VolumeMod (2^64 in the code)

ASSUME BookAssumption ==
  Levels \in Nat \ {0} /\ AmountMod \in Nat \ {0} /\ VolumeMod \in Nat \ {0}

VARIABLES
  mem,          \* mem[p]: the Event record pointer p refers to
  levels,       \* levels[side][price]: pointers of the orders resting there
  order_map,    \* order_map[id]: pointer of the resting order id
  last_price, last_amount, volume, last_aggression,  \* the last trade
  last_order_level, last_order_side,                 \* of the last event
  ev,           \* the event in process_event()
  stage         \* "idle", "match" in add_order(), "publish" after process_event()

tradeVars == <<last_price, last_amount, volume, last_aggression>>
bookVars == <<levels, order_map, tradeVars, last_order_level, last_order_side>>

Bid == 0
Ask == 1
Side == {Bid, Ask}
Opposite(side) == 1 - side
NoEvent == 0

BookInit ==
  /\ levels = [side \in Side |-> <<>>]
  /\ order_map = <<>>
  /\ last_price = 0 /\ last_amount = 0 /\ volume = 0 /\ last_aggression = -1
  /\ last_order_level = 0 /\ last_order_side = -1
  /\ ev = NoEvent
  /\ stage = "idle"

Without(f, x) == [y \in DOMAIN f \ {x} |-> f[y]]
With(f, x, v) == [y \in DOMAIN f \cup {x} |-> IF y = x THEN v ELSE f[y]]

\* An emptied level stays.
SetQueue_Faulty(lv, side, price, q) == [lv EXCEPT ![side] = With(@, price, q)]

\* The levels lv with q as the queue of a price, or without the price when the
\* queue is empty.
SetQueue(lv, side, price, q) ==
  [lv EXCEPT ![side] = IF q = <<>> THEN Without(@, price) ELSE With(@, price, q)]

\* Price p comes before price q on a side.
Better(side, p, q) == IF side = Bid THEN p > q ELSE p < q

\* begin()->first
Best(lv, side) ==
  CHOOSE p \in DOMAIN lv[side] : \A q \in DOMAIN lv[side] : q = p \/ Better(side, p, q)

\* The difference is taken the wrong way round.
LevelOf_Faulty(lv, side, price) ==
  IF lv[side] = <<>> THEN 0
  ELSE IF side = Bid THEN price - Best(lv, side) ELSE Best(lv, side) - price

\* calc_order_level(): ticks between the best price of the side and the event's.
LevelOf(lv, side, price) ==
  IF lv[side] = <<>> THEN 0
  ELSE IF side = Bid THEN Best(lv, side) - price ELSE price - Best(lv, side)

SetLevel(lv, e) ==
  /\ last_order_level' = LevelOf(lv, e.side, e.price)
  /\ last_order_side' = e.side
-----------------------------------------------------------------------------
\* process_event(p) for the record e at p.

\* add_order() up to its matching loop.
ProcessAdd(p, e) ==
  /\ stage = "idle" /\ e.type = "add"
  /\ SetLevel(levels, e)
  /\ ev' = p /\ stage' = "match"
  /\ UNCHANGED <<levels, order_map, tradeVars>>

\* What cancel_order() leaves of the levels: the order's pointer is looked for
\* at the price and side its record has now.
Cancelled(id) ==
  IF id \notin DOMAIN order_map THEN levels
  ELSE LET orig == order_map[id]
           side == mem[orig].side
           price == mem[orig].price
       IN IF price \notin DOMAIN levels[side] THEN levels
          ELSE SetQueue(levels, side, price, Removed(levels[side][price], orig))

\* The index entry of a cancelled order is forgotten.
ProcessCancel_Faulty(p, e) ==
  /\ stage = "idle" /\ e.type = "cancel"
  /\ SetLevel(levels, e)
  /\ levels' = Cancelled(e.id)
  /\ ev' = p /\ stage' = "publish"
  /\ UNCHANGED <<order_map, tradeVars>>

\* cancel_order(); the level is that of the cancel's own price and side.
ProcessCancel(p, e) ==
  /\ stage = "idle" /\ e.type = "cancel"
  /\ SetLevel(levels, e)
  /\ levels' = Cancelled(e.id)
  /\ order_map' = Without(order_map, e.id)
  /\ ev' = p /\ stage' = "publish"
  /\ UNCHANGED tradeVars

\* modify_order(): cancel, then add; the level that stays is the add's, in the
\* book the cancel has left.
ProcessModify(p, e) ==
  /\ stage = "idle" /\ e.type = "modify"
  /\ levels' = Cancelled(e.id)
  /\ SetLevel(levels', e)
  /\ order_map' = Without(order_map, e.id)
  /\ ev' = p /\ stage' = "match"
  /\ UNCHANGED tradeVars

\* The reported amount is taken off the volume.
ProcessTrade_Faulty(p, e) ==
  /\ stage = "idle" /\ e.type = "trade"
  /\ last_price' = e.price
  /\ last_amount' = e.amount
  /\ volume' = volume - e.amount
  /\ last_aggression' = e.side
  /\ ev' = p /\ stage' = "publish"
  /\ UNCHANGED <<levels, order_map, last_order_level, last_order_side>>

\* A reported trade changes neither the orders nor the last level.
ProcessTrade(p, e) ==
  /\ stage = "idle" /\ e.type = "trade"
  /\ last_price' = e.price
  /\ last_amount' = e.amount
  /\ volume' = (volume + e.amount) % VolumeMod
  /\ last_aggression' = e.side
  /\ ev' = p /\ stage' = "publish"
  /\ UNCHANGED <<levels, order_map, last_order_level, last_order_side>>

ProcessEvent(p, e) ==
  ProcessAdd(p, e) \/ ProcessCancel(p, e) \/ ProcessModify(p, e) \/ ProcessTrade(p, e)
-----------------------------------------------------------------------------
\* The loop condition with > for >=, and without the test of the amount.
Crosses_Faulty(e) ==
  LET other == Opposite(e.side) IN
  e.amount > 0 /\ levels[other] # <<>> /\ Better(e.side, e.price, Best(levels, other))
Crosses_Endless_Faulty(e) ==
  LET other == Opposite(e.side) IN
  levels[other] # <<>> /\ ~Better(other, e.price, Best(levels, other))

\* Amount left, and the best price of the other side is within the event's.
Crosses(e) ==
  LET other == Opposite(e.side) IN
  /\ e.amount > 0
  /\ levels[other] # <<>>
  /\ ~Better(other, e.price, Best(levels, other))

Take(amount, traded) == (amount - traded) % AmountMod

\* back() for front().
NextInQueue_Faulty(q) == q[Len(q)]

\* The order of a level that is matched next.
NextInQueue(q) == Head(q)

\* One turn of the inner matching loop, with the erasure of an emptied level.
Match ==
  LET e == mem[ev]
      other == Opposite(e.side)
      price == Best(levels, other)
      queue == levels[other][price]
      resting == NextInQueue(queue)
      traded == IF e.amount < mem[resting].amount THEN e.amount ELSE mem[resting].amount
  IN /\ stage = "match"
     /\ Crosses(e)
     /\ mem' = [[mem EXCEPT ![ev].amount = Take(@, traded)]
                  EXCEPT ![resting].amount = Take(@, traded)]
     /\ last_price' = mem[resting].price
     /\ last_amount' = traded
     /\ last_aggression' = e.side
     /\ volume' = (volume + traded) % VolumeMod
     /\ IF mem'[resting].amount = 0
          THEN /\ levels' = SetQueue(levels, other, price, Tail(queue))
               /\ order_map' = Without(order_map, mem[resting].id)
          ELSE UNCHANGED <<levels, order_map>>
     /\ UNCHANGED <<last_order_level, last_order_side, ev, stage>>

\* What is left of the event rests behind the orders of its price.
Rest ==
  LET e == mem[ev]
      here == levels[e.side]
      queue == IF e.price \in DOMAIN here THEN here[e.price] ELSE <<>>
  IN /\ stage = "match"
     /\ ~Crosses(e)
     /\ IF e.amount > 0
          THEN /\ levels' = SetQueue(levels, e.side, e.price, Append(queue, ev))
               /\ order_map' = With(order_map, e.id, ev)
          ELSE UNCHANGED <<levels, order_map>>
     /\ stage' = "publish"
     /\ UNCHANGED <<mem, tradeVars, last_order_level, last_order_side, ev>>
-----------------------------------------------------------------------------
\* Snapshots: of each side the first n levels, with their amounts (unsigned
\* sums) and orders.

Total(q) == SumFunction([i \in DOMAIN q |-> mem[q[i]].amount])

Snapshot(n) ==
  [side \in Side |->
    [price \in {p \in DOMAIN levels[side] :
                  Cardinality({q \in DOMAIN levels[side] : Better(side, q, p)}) < n} |->
      [amount |-> Total(levels[side][price]) % AmountMod, orders |-> Len(levels[side][price])]]]

Top == Snapshot(1)           \* snapshot_tob()
Depth == Snapshot(Levels)    \* snapshot_fod()

\* did_modify_visible_book()
DidModifyVisibleBook == last_order_level <= Levels
-----------------------------------------------------------------------------
Resting(side) == UNION {ToSet(levels[side][p]) : p \in DOMAIN levels[side]}

\* Between two events the book is never crossed: matching goes on until the best
\* bid is below the best ask.
Uncrossed ==
  stage # "match" /\ levels[Bid] # <<>> /\ levels[Ask] # <<>> =>
    Best(levels, Bid) < Best(levels, Ask)

\* Every index entry leads to an order that rests in the queue of its own price and
\* side under that id, with an amount left.  Cancels follow these pointers.
IndexLive ==
  \A id \in DOMAIN order_map :
    LET o == mem[order_map[id]] IN
    /\ o.id = id
    /\ o.amount > 0
    /\ o.price \in DOMAIN levels[o.side]
    /\ order_map[id] \in ToSet(levels[o.side][o.price])

\* No level is empty, and the orders in its queue are of its price and side, with an
\* amount left, each once.
QueuesSound ==
  \A side \in Side : \A price \in DOMAIN levels[side] :
    LET q == levels[side][price] IN
    /\ q # <<>>
    /\ \A i \in DOMAIN q :
          /\ mem[q[i]].side = side /\ mem[q[i]].price = price
          /\ mem[q[i]].amount > 0
          /\ \A j \in DOMAIN q : q[i] = q[j] => i = j

\* What rests can be cancelled.
AllIndexed ==
  \A side \in Side : \A o \in Resting(side) :
    mem[o].id \in DOMAIN order_map /\ order_map[mem[o].id] = o
=============================================================================
