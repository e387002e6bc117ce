----------------------------- MODULE PassiveBook -----------------------------
(***************************************************************************)
(* The other definition of class OrderBook, in order_book_manager.cc: it   *)
(* keeps the orders of every price and an index by id, and never matches.  *)
(* One event is one step.  build.sh compiles it and links it into nothing; *)
(* order_book.cc defines the same functions.                               *)
(***************************************************************************)
EXTENDS OrderQueue

CONSTANTS
  Price, Amount, VolumeMod,  \* as in OrderFlow
  MaxEvents                  \* bound: events

VARIABLES
  mem,        \* the events that came in; pointers are their numbers
  levels,     \* levels[side][price]: pointers of the orders there
  order_map,  \* order_map[id]: pointer of the order of that id
  last_price, volume, last_aggression  \* of the last reported trade

vars == <<mem, levels, order_map, last_price, volume, last_aggression>>

Bid == 0
Ask == 1

Init ==
  /\ mem = <<>>
  /\ levels = [side \in {Bid, Ask} |-> <<>>]
  /\ order_map = <<>>
  /\ last_price = 0 /\ volume = 0 /\ last_aggression = -1

\* The queue of a price; a level is there as long as it has orders.
Orders(lv, side, price) == IF price \in DOMAIN lv[side] THEN lv[side][price] ELSE <<>>
WithOrders(lv, side, price, q) ==
  [lv EXCEPT ![side] =
     [p \in {p \in DOMAIN lv[side] \cup {price} : p # price \/ q # <<>>} |->
        IF p = price THEN q ELSE lv[side][p]]]

\* The levels after cancel_order() of an id.
Cancelled(id) ==
  IF id \notin DOMAIN order_map THEN levels
  ELSE LET o == order_map[id]
           at == mem[o]
       IN WithOrders(levels, at.side, at.price, Removed(Orders(levels, at.side, at.price), o))

\* add_order() to levels lv: behind the orders of its price, whatever the other side.
Added(lv, p, e) == WithOrders(lv, e.side, e.price, Append(Orders(lv, e.side, e.price), p))

\* order_map without an id, or with it for the event that arrives.
Forget(id) == [i \in DOMAIN order_map \ {id} |-> order_map[i]]
Index(id, p) == [i \in DOMAIN order_map \cup {id} |-> IF i = id THEN p ELSE order_map[i]]

\* process_event()
ProcessEvent(e) ==
  LET p == Len(mem) + 1 IN
  /\ mem' = Append(mem, e)
  /\ CASE e.type = "add" -> levels' = Added(levels, p, e) /\ order_map' = Index(e.id, p)
       [] e.type = "cancel" -> levels' = Cancelled(e.id) /\ order_map' = Forget(e.id)
       [] e.type = "modify" ->
            levels' = Added(Cancelled(e.id), p, e) /\ order_map' = Index(e.id, p)
       [] e.type = "trade" -> UNCHANGED <<levels, order_map>>
  /\ IF e.type = "trade"
       THEN /\ last_price' = e.price /\ last_aggression' = e.side
            /\ volume' = (volume + e.amount) % VolumeMod
       ELSE UNCHANGED <<last_price, volume, last_aggression>>

Events ==
  [type : {"add", "cancel", "modify", "trade"}, id : 0..MaxEvents, side : {Bid, Ask},
   price : Price, amount : Amount]

Next == Len(mem) < MaxEvents /\ \E e \in Events : ProcessEvent(e)

Spec == Init /\ [][Next]_vars
=============================================================================
