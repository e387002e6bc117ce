------------------------------ MODULE OrderFlow ------------------------------
(***************************************************************************)
(* An order book on its own, as test_order_book_manager.cc drives it: one  *)
(* event at a time, each in memory nobody else touches.  Every order has   *)
(* an id of its own (shm_writer.cc:69 takes the sequence number), or ids   *)
(* come again, as they do after the writer is started again: reuse says    *)
(* which, once and for all.                                                *)
(* After each event the book's snapshots are published as shm_reader does. *)
(***************************************************************************)
EXTENDS OrderBook

CONSTANTS
  Price,     \* prices, in ticks
  Amount,    \* amounts of orders
  MaxEvents  \* bound: events

ASSUME FlowAssumption ==
  /\ Price \subseteq Int
  /\ Amount \subseteq 0..(AmountMod - 1)
  /\ MaxEvents \in Nat

VARIABLES
  shown_top,   \* the snapshot in the top-of-book region
  shown_depth, \* the snapshot in the full-depth region
  reuse        \* of the feed: ids are given to more than one order

\* History.
VARIABLES
  added,      \* amounts of all orders that came in
  cancelled,  \* amounts cancelled or replaced
  reported,   \* amounts of reported trades
  timely      \* the event came with its top shown, and names its order's price

shown == <<shown_top, shown_depth, reuse>>
history == <<added, cancelled, reported, timely>>
vars == <<mem, bookVars, ev, stage, shown, history>>

Arrived == Len(mem)

\* Cancels and modifies name an order that came before; a cancel may carry any
\* price and side.
Events(n) ==
  [type : {"add"}, id : IF reuse THEN 1..n ELSE {n}, side : Side, price : Price, amount : Amount]
    \cup [type : {"cancel", "modify"}, id : 1..(n - 1), side : Side, price : Price, amount : Amount]
    \cup [type : {"trade"}, id : {0}, side : Side, price : Price, amount : Amount]

Init ==
  /\ BookInit
  /\ mem = <<>>
  /\ shown_top = Top
  /\ shown_depth = Depth
  /\ reuse \in BOOLEAN
  /\ added = 0 /\ cancelled = 0 /\ reported = 0
  /\ timely = TRUE

Amounts(condition, amount) == IF condition THEN amount ELSE 0

\* Not a replacement, and not a cancel with another price or side than its order.
Accurate(e) ==
  /\ e.type # "modify"
  /\ e.type = "cancel" /\ e.id \in DOMAIN order_map =>
        LET orig == mem[order_map[e.id]] IN orig.price = e.price /\ orig.side = e.side

\* The next event comes in and is processed up to its matching loop.
Receive(e) ==
  /\ Arrived < MaxEvents
  /\ mem' = Append(mem, e)
  /\ ProcessEvent(Arrived + 1, e)
  /\ added' = added + Amounts(e.type \in {"add", "modify"}, e.amount)
  /\ cancelled' = cancelled
       + (IF e.type \in {"cancel", "modify"} /\ e.id \in DOMAIN order_map
            THEN mem[order_map[e.id]].amount ELSE 0)
  /\ reported' = reported + Amounts(e.type = "trade", e.amount)
  /\ timely' = (shown_top = Top /\ Accurate(e))
  /\ UNCHANGED shown

MatchOne == Match /\ UNCHANGED <<shown, history>>
RestRemainder == Rest /\ UNCHANGED <<shown, history>>

\* write_snapshots_to_shm()
Publish ==
  /\ stage = "publish"
  /\ IF DidModifyVisibleBook
       THEN /\ shown_depth' = Depth
            /\ shown_top' = IF last_order_level <= 0 THEN Top ELSE shown_top
       ELSE UNCHANGED shown
  /\ stage' = "idle"
  /\ ev' = NoEvent
  /\ UNCHANGED <<mem, bookVars, reuse, history>>

Next ==
  \/ \E e \in Events(Arrived + 1) : Receive(e)
  \/ MatchOne
  \/ RestRemainder
  \/ Publish

Spec == Init /\ [][Next]_vars

\* process_event() and the publication run to their end by themselves.
FairSpec == Spec /\ WF_vars(MatchOne) /\ WF_vars(RestRemainder) /\ WF_vars(Publish)
-----------------------------------------------------------------------------
\* The book refers to events that came in, at prices that were named, and the
\* volume never goes below zero.
TypeOK ==
  /\ \A side \in Side : DOMAIN levels[side] \subseteq Price
  /\ \A side \in Side : Resting(side) \subseteq 1..Arrived
  /\ \A id \in DOMAIN order_map : order_map[id] \in 1..Arrived
  /\ stage \in {"idle", "match", "publish"}
  /\ ev \in 0..Arrived
  /\ volume \in Nat
  /\ last_order_side \in Side \cup {-1}

\* The index and the queues hold the same orders, and everything else in the book
\* (cancels, erasures, snapshots) relies on it.  Where ids come again the index is
\* still sound, but orders rest that no cancel reaches any more.
IndexAgrees == IndexLive /\ QueuesSound /\ (~reuse => AllIndexed)

\* No quantity is made or lost: what came in rests, is being matched, was
\* cancelled, or left in trades, twice for each trade.
Conserved ==
  added = Total(SetToSeq(Resting(Bid) \cup Resting(Ask)))
            + (IF stage = "match" THEN mem[ev].amount ELSE 0)
            + cancelled + 2 * (volume - reported)

\* Price-time priority: an order is traded only when every other order of its
\* side, taken from the index, has a worse price, or the same price and came
\* later.  A replaced order counts from its replacement.
PriceTimePriority ==
  [][\A p \in 1..Arrived :
        p # ev /\ mem'[p].amount # mem[p].amount =>
          \A id \in DOMAIN order_map :
            LET q == order_map[id]
                side == mem[p].side
            IN mem[q].side = side =>
                 \/ Better(side, mem[p].price, mem[q].price)
                 \/ mem[p].price = mem[q].price /\ p <= q]_vars

\* The top of the book is published whenever it changes through an order that
\* comes in or a cancel that carries the price and side of its order, trades
\* against the other side included.
TopShown ==
  [][stage = "publish" /\ stage' = "idle" /\ timely => shown_top' = Top]_vars

\* Matching ends, and with it process_event().
EventDone == stage # "idle" ~> stage = "idle"

\* README.md:137: full-depth snapshots are "Published when order modifies managed
\* price layers" (order_book.h:39: "the visible book (first 10 levels)").  Said
\* here of orders that come in only.
DepthShown ==
  stage = "idle" /\ (\A p \in 1..Arrived : mem[p].type = "add") => shown_depth = Depth
=============================================================================
