--------------------------- MODULE OrderFlowProofs ---------------------------
(***************************************************************************)
(* The order book that is fed one event at a time, for any prices, amounts *)
(* and number of events: index and queues agree, the sides never cross,    *)
(* orders are traded by price, then time, the top is shown, no quantity is *)
(* lost, matching gets on, and until an order crosses the book is that of  *)
(* order_book_manager.cc.                                                  *)
(***************************************************************************)
EXTENDS TwoBooks, OrderBookProofs

-----------------------------------------------------------------------------
Earlier == {p \in Nat \X Nat : p[1] < p[2]}

\* The events that came in, and the one being processed: the last.
EventsOK ==
  /\ mem \in Seq(EventType)
  /\ \A p \in DOMAIN mem : mem[p].price \in Price
  /\ stage \in {"idle", "match", "publish"}
  /\ stage = "idle" => ev = NoEvent
  /\ stage # "idle" => ev = Arrived /\ ev # 0

NumbersOK == volume \in Nat /\ last_order_side \in Side \cup {-1}

\* The book, with each queue in the order of arrival.
QueuesOK ==
  /\ BookOK /\ Apart /\ Arranged(Earlier)
  /\ \A side \in Side : DOMAIN levels[side] \subseteq Price

\* What is being matched is not in the book yet.
NotYetIn == stage = "match" => Outside(ev)

\* With an id for each order, what rests is indexed, and what comes is new to the index.
OwnIds ==
  ~reuse => /\ AllIndexed
            /\ DOMAIN order_map \subseteq 1..Arrived
            /\ stage = "match" => mem[ev].id \notin DOMAIN order_map /\ mem[ev].id \in 1..Arrived

Inv == EventsOK /\ NumbersOK /\ QueuesOK /\ NotYetIn /\ OwnIds
-----------------------------------------------------------------------------
LEMMA MemIs ==
  ASSUME EventsOK
  PROVE  /\ Arrived \in Nat /\ DOMAIN mem = 1..Arrived /\ MemOK
         /\ DOMAIN mem \subseteq Nat /\ ev \in 0..Arrived
         /\ stage # "idle" => ev \in DOMAIN mem
<1>1. Arrived \in Nat /\ DOMAIN mem = 1..Arrived /\ mem \in [DOMAIN mem -> EventType]
  BY LenProperties DEF EventsOK, Arrived
<1>2. ev \in 0..Arrived /\ (stage # "idle" => ev \in DOMAIN mem)
  <2>1. CASE stage = "idle"
    BY <1>1, <2>1 DEF EventsOK, NoEvent
  <2>2. CASE stage # "idle"
    BY <1>1, <2>2 DEF EventsOK
  <2> QED BY <2>1, <2>2
<1> QED BY <1>1, <1>2 DEF MemOK

LEMMA EventIs ==
  ASSUME NEW n \in Nat \ {0}, NEW e \in Events(n)
  PROVE  /\ e \in EventType /\ e.price \in Price
         /\ e.type # "trade" => e.id \in 1..n
         /\ e.type = "add" /\ ~reuse => e.id = n
<1>1. 1..n \subseteq Nat /\ 1..(n - 1) \subseteq 1..n /\ n \in 1..n
  OBVIOUS
<1>2. CASE e \in [type : {"add"}, id : IF reuse THEN 1..n ELSE {n}, side : Side, price : Price,
                  amount : Amount]
  <2>1. e.id \in 1..n /\ (~reuse => e.id = n)
    BY <1>1, <1>2
  <2> QED BY <1>1, <1>2, <2>1, FlowAssumption DEF EventType
<1>3. CASE e \in [type : {"cancel", "modify"}, id : 1..(n - 1), side : Side, price : Price,
                  amount : Amount]
  BY <1>1, <1>3, FlowAssumption DEF EventType
<1>4. CASE e \in [type : {"trade"}, id : {0}, side : Side, price : Price, amount : Amount]
  <2>1. /\ e.type = "trade" /\ e.price \in Price
        /\ e = [type |-> e.type, id |-> e.id, side |-> e.side, price |-> e.price, amount |-> e.amount]
        /\ e.id = 0 /\ e.side \in Side /\ e.amount \in Amount
    BY <1>4
  <2> QED BY <2>1, FlowAssumption DEF EventType
<1> QED BY <1>2, <1>3, <1>4 DEF Events

\* The event that comes in is the last, and rests nowhere yet.
LEMMA ArrivalIs ==
  ASSUME EventsOK, QueuesOK, NEW e \in Events(Arrived + 1), mem' = Append(mem, e)
  PROVE  /\ mem' \in Seq(EventType) /\ MemOK' /\ Arrived' = Arrived + 1
         /\ \A p \in DOMAIN mem' : mem'[p].price \in Price
         /\ \A p \in DOMAIN mem : p \in DOMAIN mem' /\ mem'[p] = mem[p]
         /\ Arrived + 1 \in DOMAIN mem' /\ Arrived + 1 \in Nat /\ mem'[Arrived + 1] = e
         /\ Outside(Arrived + 1) /\ OthersAlike(Arrived + 1)
<1> DEFINE n == Arrived + 1
<1>1. Arrived \in Nat /\ DOMAIN mem = 1..Arrived /\ mem \in Seq(EventType)
  BY MemIs DEF EventsOK
<1>2. e \in EventType /\ e.price \in Price
  BY <1>1, EventIs
<1>3. /\ mem' \in Seq(EventType) /\ Len(mem') = n /\ mem'[n] = e
      /\ \A p \in 1..Arrived : mem'[p] = mem[p]
  BY <1>1, <1>2, AppendProperties DEF Arrived
<1>4. DOMAIN mem' = 1..n /\ mem' \in [DOMAIN mem' -> EventType]
  BY <1>3, LenProperties
<1>5. \A p \in DOMAIN mem : p \in DOMAIN mem' /\ mem'[p] = mem[p]
  BY <1>1, <1>3, <1>4
<1>6. \A p \in DOMAIN mem' : mem'[p].price \in Price
  <2>1. \A p \in DOMAIN mem' : p = n \/ p \in DOMAIN mem
    BY <1>1, <1>4
  <2> QED BY <1>2, <1>3, <1>5, <2>1 DEF EventsOK
<1>7. ASSUME NEW side \in Side, NEW p \in DOMAIN levels[side], NEW x \in ToSet(levels[side][p])
      PROVE  x \in DOMAIN mem /\ x # n /\ mem[x].amount > 0
  <2>1. x \in DOMAIN mem
    BY DEF QueuesOK, BookOK, LevelsOK
  <2>2. mem[x].amount > 0
    BY Queued DEF QueuesOK, BookOK
  <2> QED BY <1>1, <2>1, <2>2
<1>8. Outside(n) /\ OthersAlike(n)
  BY <1>5, <1>7 DEF Outside, OthersAlike
<1> QED BY <1>1, <1>3, <1>4, <1>5, <1>6, <1>8 DEF MemOK, Arrived


LEMMA InitInv ==
  ASSUME Init PROVE Inv
<1>1. /\ mem = <<>> /\ levels = [side \in Side |-> <<>>] /\ order_map = <<>>
      /\ volume = 0 /\ last_order_side = -1 /\ ev = 0 /\ stage = "idle"
  BY DEF Init, BookInit, NoEvent
<1>2. DOMAIN levels = Side /\ \A side \in Side : levels[side] = <<>> /\ DOMAIN levels[side] = {}
  BY <1>1
<1>3. EventsOK
  BY <1>1, EmptySeq DEF EventsOK, NoEvent
<1>4. NumbersOK
  BY <1>1 DEF NumbersOK
<1>5. MemOK /\ LevelsOK
  <2>1. <<>> \in [{} -> Seq(Nat)] /\ IsFiniteSet({})
    BY FS_EmptySet
  <2>2. \A side \in Side : levels[side] \in [DOMAIN levels[side] -> Seq(Nat)]
    BY <1>2, <2>1
  <2>3. LevelsOK
    BY <1>2, <2>1, <2>2 DEF LevelsOK
  <2>4. MemOK
    BY <1>1 DEF MemOK
  <2> QED BY <2>3, <2>4
<1>6. DOMAIN order_map = {}
  BY <1>1
<1>7. IndexOK /\ IndexLive /\ QueuesSound /\ Apart /\ Arranged(Earlier)
  BY <1>2, <1>6 DEF IndexOK, IndexLive, QueuesSound, Apart, Arranged, Side
<1>8. QueuesOK
  BY <1>2, <1>5, <1>7 DEF QueuesOK, BookOK
<1>9. OwnIds /\ NotYetIn
  BY <1>1, <1>2, <1>6 DEF OwnIds, NotYetIn, AllIndexed, Resting
<1> QED BY <1>3, <1>4, <1>8, <1>9 DEF Inv
-----------------------------------------------------------------------------
\* What every event does to the book before it is matched.
LEMMA ReceiveBook ==
  ASSUME Inv, NEW e \in Events(Arrived + 1), Receive(e)
  PROVE  /\ BookOK' /\ (Apart => Apart') /\ (AllIndexed => AllIndexed')
         /\ Arranged(Earlier)'
         /\ DOMAIN order_map' \subseteq DOMAIN order_map
         /\ e.type = "modify" => e.id \notin DOMAIN order_map'
         /\ \A side \in Side : DOMAIN levels'[side] \subseteq DOMAIN levels[side]
         /\ \A side \in Side : \A price \in DOMAIN levels'[side] :
              ToSet(levels'[side][price]) \subseteq ToSet(levels[side][price])
<1> DEFINE n == Arrived + 1
<1>0. EventsOK /\ QueuesOK /\ BookOK /\ Arranged(Earlier)
  BY DEF Inv, QueuesOK
<1>1. mem' = Append(mem, e) /\ ProcessEvent(n, e)
  BY DEF Receive
<1>2. /\ MemOK' /\ Outside(n) /\ OthersAlike(n)
      /\ \A p \in DOMAIN mem : p \in DOMAIN mem' /\ mem'[p] = mem[p]
  BY <1>0, <1>1, ArrivalIs
<1> HIDE DEF n
<1>3. CASE ProcessAdd(n, e) \/ ProcessTrade(n, e)
  <2>1. levels' = levels /\ order_map' = order_map /\ e.type # "modify"
    BY <1>3 DEF ProcessAdd, ProcessTrade
  <2>2. BookOK' /\ (AllIndexed => AllIndexed') /\ (Apart => Apart')
    BY <1>0, <1>2, <2>1, StillSound
  <2>3. Arranged(Earlier)'
    BY <1>0, <2>1 DEF Arranged
  <2> QED BY <2>1, <2>2, <2>3
<1>4. CASE ProcessCancel(n, e) \/ ProcessModify(n, e)
  <2>1. levels' = Cancelled(e.id) /\ order_map' = Without(order_map, e.id)
    BY <1>4 DEF ProcessCancel, ProcessModify
  <2>2. /\ BookOK' /\ (Apart => Apart') /\ (AllIndexed => AllIndexed')
        /\ DOMAIN order_map' = DOMAIN order_map \ {e.id}
        /\ \A side \in Side : DOMAIN levels'[side] \subseteq DOMAIN levels[side]
        /\ \A side \in Side : \A price \in DOMAIN levels'[side] :
             ToSet(levels'[side][price]) \subseteq ToSet(levels[side][price])
    BY <1>0, <1>2, <2>1, CancelSound
  <2>3. Arranged(Earlier)'
    BY <1>0, <2>1, ArrangedByCancel
  <2> QED BY <2>2, <2>3
<1> QED BY <1>1, <1>3, <1>4 DEF ProcessEvent

LEMMA ReceiveInv ==
  ASSUME Inv, NEW e \in Events(Arrived + 1), Receive(e)
  PROVE  Inv'
<1> DEFINE n == Arrived + 1
<1>0. EventsOK /\ QueuesOK /\ OwnIds /\ NumbersOK
  BY DEF Inv
<1>1. mem' = Append(mem, e) /\ ProcessEvent(n, e) /\ reuse' = reuse
  BY DEF Receive, shown
<1>2. /\ mem' \in Seq(EventType) /\ Arrived' = n /\ n \in Nat /\ n # 0 /\ mem'[n] = e
      /\ \A p \in DOMAIN mem' : mem'[p].price \in Price
      /\ DOMAIN mem = 1..Arrived /\ Arrived \in Nat
  BY <1>0, <1>1, ArrivalIs, MemIs
<1>3. /\ e \in EventType
      /\ e.type = "add" /\ ~reuse => e.id = n
  BY <1>2, EventIs
<1>4. /\ ev' = n /\ stage' \in {"match", "publish"} /\ stage = "idle"
      /\ (stage' = "match" => e.type \in {"add", "modify"})
  BY <1>1 DEF ProcessEvent, ProcessAdd, ProcessCancel, ProcessModify, ProcessTrade
<1>5. EventsOK'
  BY <1>2, <1>4 DEF EventsOK
<1>6. NumbersOK'
  <2>1. volume' \in Nat
    <3>1. CASE volume' = volume
      BY <1>0, <3>1 DEF NumbersOK
    <3>2. CASE volume' = (volume + e.amount) % VolumeMod
      <4>1. VolumeMod \in Nat \ {0} /\ volume + e.amount \in Int
        BY <1>0, <1>3, BookAssumption DEF NumbersOK, EventType
      <4> QED BY <3>2, <4>1
    <3> QED BY <1>1, <3>1, <3>2
          DEF ProcessEvent, ProcessAdd, ProcessCancel, ProcessModify, ProcessTrade, tradeVars
  <2>2. last_order_side' \in Side \cup {-1}
    <3>1. last_order_side' = last_order_side \/ last_order_side' = e.side
      BY <1>1 DEF ProcessEvent, ProcessAdd, ProcessCancel, ProcessModify, ProcessTrade, SetLevel
    <3> QED BY <1>0, <1>3, <3>1 DEF NumbersOK, EventType
  <2> QED BY <2>1, <2>2 DEF NumbersOK
<1> HIDE DEF n
<1>7. /\ BookOK' /\ (Apart => Apart') /\ (AllIndexed => AllIndexed')
      /\ Arranged(Earlier)'
      /\ DOMAIN order_map' \subseteq DOMAIN order_map
      /\ e.type = "modify" => e.id \notin DOMAIN order_map'
      /\ \A side \in Side : DOMAIN levels'[side] \subseteq DOMAIN levels[side]
      /\ \A side \in Side : \A price \in DOMAIN levels'[side] :
           ToSet(levels'[side][price]) \subseteq ToSet(levels[side][price])
  BY ReceiveBook
<1>8. QueuesOK'
  <2>1. \A side \in Side : DOMAIN levels'[side] \subseteq Price
    BY <1>0, <1>7 DEF QueuesOK
  <2> QED BY <1>0, <1>7, <2>1 DEF QueuesOK
<1>9. NotYetIn'
  <2>1. ASSUME NEW side \in Side, NEW price \in DOMAIN levels'[side]
        PROVE  ev' \notin ToSet(levels'[side][price])
    <3>1. ToSet(levels'[side][price]) \subseteq DOMAIN mem
      BY <1>0, <1>7 DEF QueuesOK, BookOK, LevelsOK
    <3>2. n \notin DOMAIN mem
      BY <1>2 DEF n
    <3> QED BY <1>4, <3>1, <3>2
  <2> QED BY <2>1 DEF NotYetIn, Outside
<1>10. OwnIds'
  <2> SUFFICES ASSUME ~reuse
               PROVE  /\ AllIndexed' /\ DOMAIN order_map' \subseteq 1..Arrived'
                      /\ stage' = "match" => /\ mem'[ev'].id \notin DOMAIN order_map'
                                             /\ mem'[ev'].id \in 1..Arrived'
    BY <1>1 DEF OwnIds
  <2>1. AllIndexed /\ DOMAIN order_map \subseteq 1..Arrived
    BY <1>0 DEF OwnIds
  <2>2. 1..Arrived \subseteq 1..Arrived' /\ n \notin 1..Arrived
    BY <1>2 DEF n
  <2>3. stage' = "match" => e.id \notin DOMAIN order_map' /\ e.id \in 1..Arrived'
    <3>2. e.type # "trade" => e.id \in 1..Arrived'
      BY <1>2, EventIs DEF n
    <3>1. e.type = "add" => e.id \notin DOMAIN order_map
      BY <1>3, <2>1, <2>2
    <3> QED BY <1>4, <1>7, <3>1, <3>2
  <2> QED BY <1>2, <1>4, <1>7, <2>1, <2>2, <2>3
<1> QED BY <1>5, <1>6, <1>8, <1>9, <1>10 DEF Inv

LEMMA MatchInv ==
  ASSUME Inv, MatchOne
  PROVE  Inv'
<1>0. EventsOK /\ QueuesOK /\ OwnIds /\ NumbersOK /\ NotYetIn /\ BookOK /\ Apart /\ Arranged(Earlier)
  BY DEF Inv, QueuesOK
<1>1. /\ Match /\ reuse' = reuse /\ stage = "match" /\ stage' = stage /\ ev' = ev
      /\ last_order_side' = last_order_side
  BY DEF MatchOne, Match, shown
<1>2. ev \in DOMAIN mem /\ Outside(ev) /\ DOMAIN mem = 1..Arrived /\ Arrived \in Nat /\ ev = Arrived
  BY <1>0, <1>1, MemIs DEF NotYetIn, EventsOK
<1>3. MemOK' /\ (volume \in Nat => volume' \in Nat) /\ \E price, r : Matched(price, r)
  BY <1>0, <1>1, <1>2, MatchIs
<1>4. PICK price, r : Matched(price, r)
  BY <1>3
<1>5. /\ BookOK' /\ Apart' /\ (AllIndexed => AllIndexed')
      /\ DOMAIN order_map' \subseteq DOMAIN order_map
      /\ \A side \in Side : DOMAIN levels'[side] \subseteq DOMAIN levels[side]
      /\ \A side \in Side : \A p \in DOMAIN levels'[side] :
           ToSet(levels'[side][p]) \subseteq ToSet(levels[side][p])
  BY <1>0, <1>2, <1>3, <1>4, MatchSound
<1>6. Arranged(Earlier)'
  BY <1>0, <1>4, ArrangedByMatch
<1>7. /\ DOMAIN mem' = DOMAIN mem
      /\ \A p \in DOMAIN mem : mem'[p].price = mem[p].price /\ mem'[p].id = mem[p].id
  BY <1>4 DEF Matched
<1>8. mem' \in Seq(EventType) /\ Arrived' = Arrived
  <2>1. mem' \in [1..Arrived -> EventType]
    BY <1>2, <1>3, <1>7 DEF MemOK
  <2>2. mem' \in Seq(EventType)
    BY <1>2, <2>1, SeqDef
  <2>3. Len(mem') = Arrived
    BY <1>2, <1>7, <2>2, LenProperties
  <2> QED BY <2>2, <2>3 DEF Arrived
<1>9. EventsOK'
  BY <1>0, <1>1, <1>7, <1>8 DEF EventsOK
<1>10. QueuesOK'
  <2>1. \A side \in Side : DOMAIN levels'[side] \subseteq Price
    BY <1>0, <1>5 DEF QueuesOK
  <2> QED BY <1>5, <1>6, <2>1 DEF QueuesOK
<1>11. NumbersOK'
  BY <1>0, <1>1, <1>3 DEF NumbersOK
<1>12. NotYetIn'
  BY <1>1, <1>2, <1>5 DEF NotYetIn, Outside
<1>13. OwnIds'
  BY <1>0, <1>1, <1>2, <1>5, <1>7, <1>8 DEF OwnIds
<1> QED BY <1>9, <1>10, <1>11, <1>12, <1>13 DEF Inv

LEMMA RestInv ==
  ASSUME Inv, RestRemainder
  PROVE  Inv'
<1>0. EventsOK /\ QueuesOK /\ OwnIds /\ NumbersOK /\ NotYetIn /\ BookOK /\ Apart /\ Arranged(Earlier)
  BY DEF Inv, QueuesOK
<1>1. /\ Rest /\ reuse' = reuse /\ stage = "match" /\ stage' = "publish" /\ ev' = ev
      /\ mem' = mem /\ volume' = volume /\ last_order_side' = last_order_side
  BY DEF RestRemainder, Rest, shown, tradeVars
<1>2. /\ ev \in DOMAIN mem /\ ev \in Nat /\ Outside(ev) /\ ev = Arrived /\ ev # 0
      /\ DOMAIN mem = 1..Arrived /\ Arrived \in Nat /\ MemOK
  BY <1>0, <1>1, MemIs DEF NotYetIn, EventsOK
<1>3. EventsOK' /\ NumbersOK' /\ NotYetIn'
  BY <1>0, <1>1 DEF EventsOK, NumbersOK, NotYetIn, Arrived
<1>4. /\ BookOK' /\ Apart' /\ Arranged(Earlier)'
      /\ \A side \in Side : DOMAIN levels'[side] \subseteq Price
      /\ (AllIndexed /\ mem[ev].id \notin DOMAIN order_map => AllIndexed')
      /\ DOMAIN order_map' \subseteq DOMAIN order_map \cup {mem[ev].id}
  <2>1. CASE mem[ev].amount > 0
    <3>1. PICK q : Rested(q)
      BY <1>0, <1>1, <1>2, <2>1, RestIs
    <3>2. /\ BookOK' /\ Apart' /\ (AllIndexed /\ mem[ev].id \notin DOMAIN order_map => AllIndexed')
      BY <1>0, <1>1, <1>2, <3>1, RestSound
    <3>3. \A x \in ToSet(q) : <<x, ev>> \in Earlier
      <4>1. ToSet(q) \subseteq DOMAIN mem /\ ev \notin ToSet(q)
        BY <3>1 DEF Rested
      <4>2. \A x \in ToSet(q) : x \in Nat /\ x < ev
        BY <1>2, <4>1
      <4> QED BY <1>2, <4>2 DEF Earlier
    <3>4. Arranged(Earlier)'
      BY <1>0, <1>2, <3>1, <3>3, ArrangedByRest
    <3>5. \A side \in Side : DOMAIN levels'[side] \subseteq Price
      <4>1. mem[ev].price \in Price
        BY <1>0, <1>2 DEF EventsOK
      <4>2. /\ mem[ev].side \in Side /\ mem[ev].price \in Int /\ q \in Seq(Nat)
            /\ ev \notin ToSet(q) /\ \A i, j \in DOMAIN q : q[i] = q[j] => i = j
        BY <3>1 DEF Rested
      <4>3. Append(q, ev) \in Seq(Nat) /\ Append(q, ev) # <<>>
        BY <1>2, <4>2, QueuedBehind
      <4>4. levels' = SetQueue(levels, mem[ev].side, mem[ev].price, Append(q, ev))
        BY <3>1 DEF Rested
      <4>5. /\ \A s \in Side : s # mem[ev].side => levels'[s] = levels[s]
            /\ DOMAIN levels'[mem[ev].side] = DOMAIN levels[mem[ev].side] \cup {mem[ev].price}
        <5> DEFINE t == Append(q, ev)
        <5>1. LevelsOK
          BY <1>0 DEF BookOK
        <5> HIDE DEF t
        <5>2. t \in Seq(Nat) /\ t # <<>> /\ levels' = SetQueue(levels, mem[ev].side, mem[ev].price, t)
          BY <4>3, <4>4 DEF t
        <5> QED BY <4>2, <5>1, <5>2, SetQueueIs
      <4> QED BY <1>0, <4>1, <4>5 DEF QueuesOK
    <3>6. DOMAIN order_map' = DOMAIN order_map \cup {mem[ev].id}
      BY <3>1 DEF Rested, With
    <3> QED BY <3>2, <3>4, <3>5, <3>6
  <2>2. CASE ~(mem[ev].amount > 0)
    <3>1. levels' = levels /\ order_map' = order_map
      BY <1>1, <2>2 DEF Rest
    <3>2. OthersAlike(ev)
      <4>1. ASSUME NEW side \in Side, NEW p \in DOMAIN levels[side], NEW x \in ToSet(levels[side][p])
            PROVE  x \in DOMAIN mem /\ mem[x].amount > 0
        BY <1>0, Queued DEF BookOK, LevelsOK
      <4> QED BY <1>1, <4>1 DEF OthersAlike
    <3>3. BookOK' /\ (AllIndexed => AllIndexed') /\ Apart'
      <4>1. MemOK'
        BY <1>1, <1>2 DEF MemOK
      <4> QED BY <1>0, <1>2, <3>1, <3>2, <4>1, StillSound
    <3>4. Arranged(Earlier)'
      BY <1>0, <3>1 DEF Arranged
    <3> QED BY <1>0, <3>1, <3>3, <3>4 DEF QueuesOK
  <2> QED BY <2>1, <2>2
<1>5. QueuesOK'
  BY <1>4 DEF QueuesOK
<1>6. OwnIds'
  <2> SUFFICES ASSUME ~reuse PROVE AllIndexed' /\ DOMAIN order_map' \subseteq 1..Arrived'
    BY <1>1 DEF OwnIds
  <2>1. /\ AllIndexed /\ DOMAIN order_map \subseteq 1..Arrived /\ mem[ev].id \notin DOMAIN order_map
        /\ mem[ev].id \in 1..Arrived
    BY <1>0, <1>1 DEF OwnIds
  <2> QED BY <1>1, <1>4, <2>1 DEF Arrived
<1> QED BY <1>3, <1>5, <1>6 DEF Inv
-----------------------------------------------------------------------------
\* Whatever comes in, trades or rests, the book's invariant holds.
THEOREM Invariance == Spec => []Inv
<1>1. Init => Inv
  BY InitInv
<1>2. Inv /\ [Next]_vars => Inv'
  <2> SUFFICES ASSUME Inv, [Next]_vars PROVE Inv'
    OBVIOUS
  <2>1. CASE \E e \in Events(Arrived + 1) : Receive(e)
    BY <2>1, ReceiveInv
  <2>2. CASE MatchOne
    BY <2>2, MatchInv
  <2>3. CASE RestRemainder
    BY <2>3, RestInv
  <2>4. CASE Publish
    <3>1. /\ mem' = mem /\ levels' = levels /\ order_map' = order_map /\ volume' = volume
          /\ last_order_side' = last_order_side /\ reuse' = reuse
          /\ stage' = "idle" /\ ev' = NoEvent
      BY <2>4 DEF Publish, bookVars, tradeVars
    <3>2. EventsOK' /\ NumbersOK' /\ NotYetIn' /\ OwnIds'
      BY <3>1 DEF Inv, EventsOK, NumbersOK, NotYetIn, OwnIds, AllIndexed, Resting, Arrived
    <3>3. QueuesOK'
      BY <3>1 DEF Inv, QueuesOK, BookOK, MemOK, LevelsOK, IndexOK, IndexLive, QueuesSound, Apart, Arranged
    <3> QED BY <3>2, <3>3 DEF Inv
  <2>5. CASE UNCHANGED vars
    <3>1. /\ mem' = mem /\ levels' = levels /\ order_map' = order_map /\ volume' = volume
          /\ last_order_side' = last_order_side /\ reuse' = reuse
          /\ stage' = stage /\ ev' = ev
      BY <2>5 DEF vars, bookVars, tradeVars, shown
    <3>2. EventsOK' /\ NumbersOK' /\ NotYetIn' /\ OwnIds'
      BY <3>1 DEF Inv, EventsOK, NumbersOK, NotYetIn, OwnIds, AllIndexed, Resting, Arrived, Outside
    <3>3. QueuesOK'
      BY <3>1 DEF Inv, QueuesOK, BookOK, MemOK, LevelsOK, IndexOK, IndexLive, QueuesSound, Apart, Arranged
    <3> QED BY <3>2, <3>3 DEF Inv
  <2> QED BY <2>1, <2>2, <2>3, <2>4, <2>5 DEF Next
<1> QED BY <1>1, <1>2, PTL DEF Spec

\* The book and its index hold only events that came in, at prices that were named, and the
\* volume stays a number.
THEOREM HoldsArrivals == Spec => []TypeOK
<1>1. Inv => TypeOK
  <2> SUFFICES ASSUME Inv PROVE TypeOK
    OBVIOUS
  <2>0. EventsOK /\ NumbersOK /\ QueuesOK /\ LevelsOK /\ IndexOK
    BY DEF Inv, QueuesOK, BookOK
  <2>1. DOMAIN mem = 1..Arrived /\ ev \in 0..Arrived
    BY <2>0, MemIs
  <2>2. \A side \in Side : Resting(side) \subseteq 1..Arrived
    BY <2>0, <2>1 DEF LevelsOK, Resting
  <2>3. \A id \in DOMAIN order_map : order_map[id] \in 1..Arrived
    BY <2>0, <2>1 DEF IndexOK
  <2> QED BY <2>0, <2>1, <2>2, <2>3 DEF TypeOK, QueuesOK, EventsOK, NumbersOK
<1> QED BY <1>1, Invariance, PTL

\* Between two events the best bid is below the best ask, for any prices.
THEOREM NeverCrossed == Spec => []Uncrossed
<1>1. Inv => Uncrossed
  <2> SUFFICES ASSUME Inv, levels[Bid] # <<>>, levels[Ask] # <<>>
               PROVE  Best(levels, Bid) < Best(levels, Ask)
    BY DEF Uncrossed
  <2>0. LevelsOK /\ Apart
    BY DEF Inv, QueuesOK, BookOK
  <2>1. Bid \in Side /\ Ask \in Side
    BY DEF Side
  <2>2. Best(levels, Bid) \in DOMAIN levels[Bid] /\ Best(levels, Ask) \in DOMAIN levels[Ask]
    BY <2>0, <2>1, BestIs
  <2> QED BY <2>0, <2>2 DEF Apart
<1> QED BY <1>1, Invariance, PTL

\* The index and the queues agree, whatever is cancelled or replaced: every index entry leads to
\* a live order in the queue of its price, and where each order has its own id every order that
\* rests is found.
THEOREM IndexAgreement == Spec => []IndexAgrees
<1>1. Inv => IndexAgrees
  BY DEF Inv, QueuesOK, BookOK, OwnIds, IndexAgrees
<1> QED BY <1>1, Invariance, PTL

\* Only the order with the best price of its side that came first is ever traded.
THEOREM BestAndFirst == Spec => PriceTimePriority
<1> DEFINE First ==
      \A p \in 1..Arrived :
        p # ev /\ mem'[p].amount # mem[p].amount =>
          \A id \in DOMAIN order_map :
            LET q == order_map[id]
                side == mem[p].side
            IN mem[q].side = side =>
                 \/ Better(side, mem[p].price, mem[q].price)
                 \/ mem[p].price = mem[q].price /\ p <= q
<1>1. Inv /\ [Next]_vars => [First]_vars
  <2> SUFFICES ASSUME Inv, Next PROVE First
    OBVIOUS
  <2>0. EventsOK /\ QueuesOK /\ BookOK /\ Arranged(Earlier) /\ IndexLive /\ LevelsOK /\ NotYetIn
    BY DEF Inv, QueuesOK, BookOK
  <2>1. DOMAIN mem = 1..Arrived /\ Arrived \in Nat
    BY <2>0, MemIs
  <2>2. CASE \E e \in Events(Arrived + 1) : Receive(e)
    <3>1. \A p \in DOMAIN mem : mem'[p] = mem[p]
      BY <2>0, <2>2, ArrivalIs DEF Receive
    <3> QED BY <2>1, <3>1
  <2>3. CASE RestRemainder \/ Publish
    <3>1. mem' = mem
      BY <2>3 DEF RestRemainder, Rest, Publish
    <3> QED BY <3>1
  <2>4. CASE MatchOne
    <3>1. Match /\ stage = "match"
      BY <2>4 DEF MatchOne, Match
    <3>2. ev \in DOMAIN mem /\ Outside(ev)
      BY <2>0, <3>1, MemIs DEF NotYetIn
    <3>3. PICK price, r : Matched(price, r)
      BY <2>0, <3>1, <3>2, MatchIs
    <3> DEFINE other == Opposite(mem[ev].side)
               queue == levels[other][price]
    <3>4. /\ other \in Side /\ price \in DOMAIN levels[other]
          /\ \A p \in DOMAIN levels[other] : p = price \/ Better(other, price, p)
          /\ queue \in Seq(Nat) /\ queue # <<>> /\ r = Head(queue)
          /\ mem[r].side = other /\ mem[r].price = price
          /\ \A p \in DOMAIN mem : p # ev /\ p # r => mem'[p] = mem[p]
      BY <3>3 DEF Matched
    <3> HIDE DEF other
    <3>5. \A x \in ToSet(queue) : x = r \/ r < x
      <4>1. 1 \in DOMAIN queue /\ r = queue[1]
        <5>1. \A i, j \in DOMAIN queue : queue[i] = queue[j] => i = j
          BY <2>0, <3>4, Queued DEF BookOK
        <5> HIDE DEF queue
        <5> QED BY <3>4, <5>1, HeadAndTail
      <4>2. ASSUME NEW i \in DOMAIN queue, i # 1 PROVE r < queue[i]
        <5>1. 1 < i
          <6>1. DOMAIN queue = 1..Len(queue) /\ Len(queue) \in Nat
            BY <3>4, LenProperties
          <6> QED BY <4>2, <6>1
        <5>2. <<queue[1], queue[i]>> \in Earlier
          BY <2>0, <3>4, <4>1, <5>1 DEF Arranged
        <5> QED BY <4>1, <5>2 DEF Earlier
      <4> QED BY <4>1, <4>2 DEF ToSet
    <3>6. ASSUME NEW id \in DOMAIN order_map, mem[order_map[id]].side = other
          PROVE  \/ Better(other, price, mem[order_map[id]].price)
                 \/ price = mem[order_map[id]].price /\ r <= order_map[id]
      <4> DEFINE q == order_map[id]
      <4>1. mem[q].price \in DOMAIN levels[other] /\ q \in ToSet(levels[other][mem[q].price])
        BY <2>0, <3>6, Indexed
      <4>2. q \in Nat /\ r \in Nat
        <5>1. q \in DOMAIN mem /\ r \in DOMAIN mem
          BY <2>0, <3>3 DEF BookOK, IndexOK, Matched
        <5> QED BY <2>1, <5>1
      <4>3. CASE mem[q].price = price
        BY <3>5, <4>1, <4>2, <4>3
      <4>4. CASE mem[q].price # price
        BY <3>4, <4>1, <4>4
      <4> QED BY <4>3, <4>4
    <3> QED BY <2>1, <3>4, <3>6
  <2> QED BY <2>2, <2>3, <2>4 DEF Next
<1>2. PriceTimePriority <=> [][First]_vars
  BY PTL DEF PriceTimePriority
<1> HIDE DEF First
<1> QED BY <1>1, <1>2, Invariance, PTL DEF Spec
-----------------------------------------------------------------------------
\* The top of one side: f its levels, m the memory.
TotalIn(m, q) == SumFunction([i \in DOMAIN q |-> m[q[i]].amount])

TopSide(m, f, side) ==
  [price \in {p \in DOMAIN f : Cardinality({q \in DOMAIN f : Better(side, q, p)}) < 1} |->
    [amount |-> TotalIn(m, f[price]) % AmountMod, orders |-> Len(f[price])]]

\* The price no other is better than.
IsTop(f, side, p) == p \in DOMAIN f /\ \A q \in DOMAIN f : ~Better(side, q, p)

LEMMA TopPrices ==
  ASSUME NEW f, NEW side, IsFiniteSet(DOMAIN f)
  PROVE  \A p : p \in {x \in DOMAIN f : Cardinality({q \in DOMAIN f : Better(side, q, x)}) < 1}
                  <=> IsTop(f, side, p)
<1> SUFFICES ASSUME NEW p \in DOMAIN f
             PROVE  Cardinality({q \in DOMAIN f : Better(side, q, p)}) < 1
                      <=> \A q \in DOMAIN f : ~Better(side, q, p)
  BY DEF IsTop
<1> DEFINE B == {q \in DOMAIN f : Better(side, q, p)}
<1>1. IsFiniteSet(B)
  BY FS_Subset
<1>2. Cardinality(B) \in Nat /\ (Cardinality(B) = 0 <=> B = {})
  BY <1>1, FS_CardinalityType, FS_EmptySet
<1>3. B = {} <=> \A q \in DOMAIN f : ~Better(side, q, p)
  OBVIOUS
<1> HIDE DEF B
<1>4. Cardinality(B) < 1 <=> B = {}
  BY <1>2
<1> QED BY <1>3, <1>4 DEF B

\* The tops are the same when the same price is the best, with the same orders in its queue,
\* none of them traded.
LEMMA TopSideSame ==
  ASSUME NEW m, NEW n, NEW f, NEW g, NEW side, IsFiniteSet(DOMAIN f), IsFiniteSet(DOMAIN g),
         \A p : IsTop(f, side, p) <=> IsTop(g, side, p),
         \A p : IsTop(f, side, p) =>
                  /\ g[p] = f[p]
                  /\ \A i \in DOMAIN f[p] : n[f[p][i]].amount = m[f[p][i]].amount
  PROVE  TopSide(n, g, side) = TopSide(m, f, side)
<1> DEFINE F == {p \in DOMAIN f : Cardinality({q \in DOMAIN f : Better(side, q, p)}) < 1}
           G == {p \in DOMAIN g : Cardinality({q \in DOMAIN g : Better(side, q, p)}) < 1}
           A(p) == [amount |-> TotalIn(m, f[p]) % AmountMod, orders |-> Len(f[p])]
           C(p) == [amount |-> TotalIn(n, g[p]) % AmountMod, orders |-> Len(g[p])]
<1>1. \A p : (p \in F <=> IsTop(f, side, p)) /\ (p \in G <=> IsTop(g, side, p))
  BY TopPrices
<1>2. ASSUME NEW p, IsTop(f, side, p) PROVE C(p) = A(p)
  <2>1. g[p] = f[p] /\ \A i \in DOMAIN f[p] : n[f[p][i]].amount = m[f[p][i]].amount
    BY <1>2
  <2>2. [i \in DOMAIN f[p] |-> n[f[p][i]].amount] = [i \in DOMAIN f[p] |-> m[f[p][i]].amount]
    BY <2>1
  <2>3. TotalIn(n, f[p]) = TotalIn(m, f[p])
    BY <2>2, Zenon DEF TotalIn
  <2> QED BY <2>1, <2>3
<1>3. TopSide(m, f, side) = [p \in F |-> A(p)] /\ TopSide(n, g, side) = [p \in G |-> C(p)]
  BY DEF TopSide
<1> HIDE DEF F, G, A, C
<1>4. F = G
  BY <1>1
<1>5. \A p \in F : C(p) = A(p)
  BY <1>1, <1>2
<1>6. [p \in G |-> C(p)] = [p \in F |-> A(p)]
  BY <1>4, <1>5
<1> QED BY <1>3, <1>6

\* What happens at a price that is not the best of its side does not change the top.
LEMMA WorseChanged ==
  ASSUME NEW f, NEW g, NEW side \in Side, NEW price \in Int,
         DOMAIN f \subseteq Int, DOMAIN g \subseteq Int,
         NEW b \in DOMAIN f, Better(side, b, price),
         \A p : p # price => (p \in DOMAIN f <=> p \in DOMAIN g),
         \A p \in DOMAIN f : p # price => g[p] = f[p]
  PROVE  \A p : /\ IsTop(f, side, p) <=> IsTop(g, side, p)
                /\ IsTop(f, side, p) => g[p] = f[p]
<1>1. b # price /\ b \in DOMAIN g /\ b \in Int
  BY DEF Better, Side, Bid, Ask
<1>2. \A x, y, z \in Int : Better(side, x, y) /\ Better(side, y, z) => Better(side, x, z)
  BY DEF Better, Side, Bid, Ask
<1>3. ASSUME NEW p, IsTop(f, side, p) PROVE IsTop(g, side, p) /\ g[p] = f[p]
  <2>1. p \in DOMAIN f /\ p # price /\ p \in DOMAIN g /\ p \in Int /\ g[p] = f[p]
    BY <1>3 DEF IsTop
  <2>2. ASSUME NEW q \in DOMAIN g, Better(side, q, p) PROVE FALSE
    <3>1. q = price
      BY <1>3, <2>2 DEF IsTop
    <3>2. Better(side, b, p)
      BY <1>1, <1>2, <2>1, <2>2, <3>1
    <3> QED BY <1>3, <3>2 DEF IsTop
  <2> QED BY <2>1, <2>2 DEF IsTop
<1>4. ASSUME NEW p, IsTop(g, side, p) PROVE IsTop(f, side, p)
  <2>1. p \in DOMAIN g /\ p # price /\ p \in DOMAIN f /\ p \in Int
    BY <1>1, <1>4 DEF IsTop
  <2>2. ASSUME NEW q \in DOMAIN f, Better(side, q, p) PROVE FALSE
    <3>1. q = price
      BY <1>4, <2>2 DEF IsTop
    <3>2. Better(side, b, p)
      BY <1>1, <1>2, <2>1, <2>2, <3>1
    <3> QED BY <1>1, <1>4, <3>2 DEF IsTop
  <2> QED BY <2>1, <2>2 DEF IsTop
<1> QED BY <1>3, <1>4

\* Nobody traded, and nothing happened to a side but at a price worse than its best.
Quiet(side) ==
  \/ levels'[side] = levels[side]
  \/ \E price \in Int : \E b \in DOMAIN levels[side] :
       /\ Better(side, b, price)
       /\ \A p : p # price => (p \in DOMAIN levels[side] <=> p \in DOMAIN levels'[side])
       /\ \A p \in DOMAIN levels[side] : p # price => levels'[side][p] = levels[side][p]

LEMMA TopSame ==
  ASSUME LevelsOK, LevelsOK', \A p \in DOMAIN mem : mem'[p] = mem[p],
         \A side \in Side : Quiet(side)
  PROVE  Top' = Top
<1>1. Top = [side \in Side |-> TopSide(mem, levels[side], side)]
  BY DEF Top, Snapshot, Total, TopSide, TotalIn
<1>2. Top' = [side \in Side |-> TopSide(mem', levels'[side], side)]
  BY DEF Top, Snapshot, Total, TopSide, TotalIn
<1>3. ASSUME NEW side \in Side
      PROVE  TopSide(mem', levels'[side], side) = TopSide(mem, levels[side], side)
  <2> DEFINE f == levels[side]
             g == levels'[side]
  <2>1. /\ DOMAIN f \subseteq Int /\ IsFiniteSet(DOMAIN f)
        /\ DOMAIN g \subseteq Int /\ IsFiniteSet(DOMAIN g)
    BY DEF LevelsOK
  <2>2. ASSUME NEW p \in DOMAIN f, NEW i \in DOMAIN f[p] PROVE mem'[f[p][i]].amount = mem[f[p][i]].amount
    <3>1. f[p][i] \in ToSet(f[p])
      BY DEF ToSet
    <3>2. f[p][i] \in DOMAIN mem
      BY <3>1 DEF LevelsOK
    <3> QED BY <3>2
  <2>3. \A p : /\ IsTop(f, side, p) <=> IsTop(g, side, p)
               /\ IsTop(f, side, p) => g[p] = f[p]
    <3>1. CASE g = f
      BY <3>1
    <3>2. CASE \E price \in Int : \E b \in DOMAIN f :
                 /\ Better(side, b, price)
                 /\ \A p : p # price => (p \in DOMAIN f <=> p \in DOMAIN g)
                 /\ \A p \in DOMAIN f : p # price => g[p] = f[p]
      <4> HIDE DEF f, g
      <4> QED BY <2>1, <3>2, WorseChanged
    <3> QED BY <3>1, <3>2 DEF Quiet
  <2> HIDE DEF f, g
  <2>4. \A p : IsTop(f, side, p) =>
                 /\ g[p] = f[p]
                 /\ \A i \in DOMAIN f[p] : mem'[f[p][i]].amount = mem[f[p][i]].amount
    BY <2>2, <2>3 DEF IsTop
  <2>5. TopSide(mem', g, side) = TopSide(mem, f, side)
    BY <2>1, <2>3, <2>4, TopSideSame
  <2> QED BY <2>5 DEF f, g
<1> QED BY <1>1, <1>2, <1>3
-----------------------------------------------------------------------------
\* A timely event that is not at the best price or better leaves the top as it is shown; what
\* is matched has a better price before it on its own side.
TopKept ==
  stage # "idle" /\ timely /\ last_order_level > 0 =>
    /\ shown_top = Top
    /\ stage = "match" =>
         \E b \in DOMAIN levels[mem[ev].side] : Better(mem[ev].side, b, mem[ev].price)

TopInv == last_order_level \in Int /\ TopKept

LEMMA LevelIs ==
  ASSUME LevelsOK, NEW side \in Side, NEW price \in Int
  PROVE  /\ LevelOf(levels, side, price) \in Int
         /\ LevelOf(levels, side, price) > 0 => \E b \in DOMAIN levels[side] : Better(side, b, price)
<1>1. CASE levels[side] = <<>>
  BY <1>1 DEF LevelOf
<1>2. CASE levels[side] # <<>>
  <2>1. Best(levels, side) \in DOMAIN levels[side] /\ Best(levels, side) \in Int
    BY <1>2, BestIs DEF LevelsOK
  <2>2. LevelOf(levels, side, price)
          = IF side = Bid THEN Best(levels, side) - price ELSE price - Best(levels, side)
    BY <1>2 DEF LevelOf
  <2>3. LevelOf(levels, side, price) > 0 => Better(side, Best(levels, side), price)
    BY <2>1, <2>2 DEF Better
  <2> QED BY <2>1, <2>2, <2>3
<1> QED BY <1>1, <1>2

\* A cancel at a price that is not the best of its side.
LEMMA WorseCancelled ==
  ASSUME BookOK, NEW id, NEW side \in Side, NEW price \in Int,
         id \in DOMAIN order_map => mem[order_map[id]].side = side /\ mem[order_map[id]].price = price,
         NEW b \in DOMAIN levels[side], Better(side, b, price),
         levels' = Cancelled(id)
  PROVE  \A s \in Side : Quiet(s)
<1>0. LevelsOK /\ IndexLive /\ QueuesSound
  BY DEF BookOK
<1>1. CASE id \notin DOMAIN order_map
  BY <1>1 DEF Cancelled, Quiet
<1>2. CASE id \in DOMAIN order_map
  <2> DEFINE o == order_map[id]
             q == levels[side][price]
             r == Removed(q, o)
  <2>1. price \in DOMAIN levels[side] /\ mem[o].side = side /\ mem[o].price = price
    BY <1>0, <1>2, Indexed
  <2>2. levels' = SetQueue(levels, side, price, r)
    BY <1>2, <2>1 DEF Cancelled
  <2>3. q \in Seq(Nat) /\ \A i, j \in DOMAIN q : q[i] = q[j] => i = j
    <3>1. q \in Seq(Nat)
      BY <1>0, <2>1 DEF LevelsOK
    <3>2. \A i, j \in DOMAIN q : q[i] = q[j] => i = j
      BY <1>0, <2>1, Queued
    <3> QED BY <3>1, <3>2
  <2> HIDE DEF o, q
  <2>4. r \in Seq(Nat)
    BY <2>3, RemovedFrom
  <2> HIDE DEF r
  <2>5. /\ \A s \in Side : s # side => levels'[s] = levels[s]
        /\ r = <<>> => /\ DOMAIN levels'[side] = DOMAIN levels[side] \ {price}
                       /\ \A p \in DOMAIN levels'[side] : levels'[side][p] = levels[side][p]
        /\ r # <<>> => /\ DOMAIN levels'[side] = DOMAIN levels[side] \cup {price}
                       /\ \A p \in DOMAIN levels[side] :
                            p # price => levels'[side][p] = levels[side][p]
    BY <1>0, <2>2, <2>4, SetQueueIs
  <2>6. /\ \A p : p # price => (p \in DOMAIN levels[side] <=> p \in DOMAIN levels'[side])
        /\ \A p \in DOMAIN levels[side] : p # price => levels'[side][p] = levels[side][p]
    <3>1. CASE r = <<>>
      BY <2>5, <3>1
    <3>2. CASE r # <<>>
      BY <2>5, <3>2
    <3> QED BY <3>1, <3>2
  <2>7. Quiet(side)
    BY <2>6 DEF Quiet
  <2>8. \A s \in Side : s # side => Quiet(s)
    BY <2>5 DEF Quiet
  <2> QED BY <2>7, <2>8
<1> QED BY <1>1, <1>2

LEMMA ReceiveTop ==
  ASSUME Inv, Inv', TopInv, NEW e \in Events(Arrived + 1), Receive(e)
  PROVE  TopInv'
<1> DEFINE n == Arrived + 1
<1>0. EventsOK /\ QueuesOK /\ BookOK /\ LevelsOK
  BY DEF Inv, QueuesOK, BookOK
<1>00. LevelsOK' /\ BookOK'
  BY DEF Inv, QueuesOK, BookOK
<1>1. mem' = Append(mem, e) /\ ProcessEvent(n, e) /\ shown_top' = shown_top
      /\ timely' = (shown_top = Top /\ Accurate(e))
  BY DEF Receive, shown
<1>2. /\ mem'[n] = e /\ n \in Nat \ {0}
      /\ \A p \in DOMAIN mem : mem'[p] = mem[p]
  BY <1>0, <1>1, ArrivalIs, MemIs
<1>3. e \in EventType
  BY <1>2, EventIs
<1>4. e.side \in Side /\ e.price \in Int
  BY <1>3 DEF EventType
<1> HIDE DEF n
<1>5. CASE ProcessAdd(n, e)
  <2>1. levels' = levels /\ stage' = "match" /\ ev' = n
        /\ last_order_level' = LevelOf(levels, e.side, e.price)
    BY <1>5 DEF ProcessAdd, SetLevel
  <2>2. Top' = Top
    <3>1. \A s \in Side : Quiet(s)
      BY <2>1 DEF Quiet
    <3> QED BY <1>0, <1>00, <1>2, <3>1, TopSame
  <2>3. /\ last_order_level' \in Int
        /\ last_order_level' > 0 => \E b \in DOMAIN levels[e.side] : Better(e.side, b, e.price)
    BY <1>0, <1>4, <2>1, LevelIs
  <2> QED BY <1>1, <1>2, <2>1, <2>2, <2>3 DEF TopInv, TopKept
<1>6. CASE ProcessTrade(n, e)
  <2>1. levels' = levels /\ stage' = "publish" /\ last_order_level' = last_order_level
    BY <1>6 DEF ProcessTrade
  <2>2. Top' = Top
    <3>1. \A s \in Side : Quiet(s)
      BY <2>1 DEF Quiet
    <3> QED BY <1>0, <1>00, <1>2, <3>1, TopSame
  <2> QED BY <1>1, <2>1, <2>2 DEF TopInv, TopKept
<1>7. CASE ProcessCancel(n, e)
  <2>1. levels' = Cancelled(e.id) /\ stage' = "publish" /\ e.type = "cancel"
        /\ last_order_level' = LevelOf(levels, e.side, e.price)
    BY <1>7 DEF ProcessCancel, SetLevel
  <2>2. /\ last_order_level' \in Int
        /\ last_order_level' > 0 => \E b \in DOMAIN levels[e.side] : Better(e.side, b, e.price)
    BY <1>0, <1>4, <2>1, LevelIs
  <2>3. ASSUME timely', last_order_level' > 0 PROVE shown_top' = Top'
    <3>1. shown_top = Top /\ Accurate(e)
      BY <1>1, <2>3
    <3>2. e.id \in DOMAIN order_map =>
            mem[order_map[e.id]].side = e.side /\ mem[order_map[e.id]].price = e.price
      BY <2>1, <3>1 DEF Accurate
    <3>3. PICK b \in DOMAIN levels[e.side] : Better(e.side, b, e.price)
      BY <2>2, <2>3
    <3>4. \A s \in Side : Quiet(s)
      BY <1>0, <1>4, <2>1, <3>2, <3>3, WorseCancelled
    <3>5. Top' = Top
      BY <1>0, <1>00, <1>2, <3>4, TopSame
    <3> QED BY <1>1, <3>1, <3>5
  <2> QED BY <2>1, <2>2, <2>3 DEF TopInv, TopKept
<1>8. CASE ProcessModify(n, e)
  <2>1. /\ e.type = "modify" /\ last_order_level' = LevelOf(levels', e.side, e.price)
    BY <1>8 DEF ProcessModify, SetLevel
  <2>2. ~timely'
    BY <1>1, <2>1 DEF Accurate
  <2>3. last_order_level' \in Int
    <3>1. CASE levels'[e.side] = <<>>
      BY <2>1, <3>1 DEF LevelOf
    <3>2. CASE levels'[e.side] # <<>>
      <4> DEFINE f == levels'[e.side]
      <4>1. f \in [DOMAIN f -> Seq(Nat)] /\ DOMAIN f \subseteq Int /\ IsFiniteSet(DOMAIN f)
        BY <1>00, <1>4 DEF LevelsOK
      <4>2. DOMAIN f # {}
        <5> SUFFICES ASSUME DOMAIN f = {} PROVE FALSE
          OBVIOUS
        <5>1. <<>> \in [{} -> Seq(Nat)] /\ f \in [{} -> Seq(Nat)]
          BY <4>1
        <5> HIDE DEF f
        <5>2. f = <<>>
          BY <5>1
        <5> QED BY <3>2, <5>2 DEF f
      <4>3. Best(levels', e.side) \in Int
        <5> DEFINE S == DOMAIN f
        <5>1. \E p \in S : \A q \in S : q = p \/ Better(e.side, p, q)
          BY <1>4, <4>1, <4>2, HasBest
        <5>2. Best(levels', e.side) = CHOOSE p \in S : \A q \in S : q = p \/ Better(e.side, p, q)
          BY DEF Best
        <5> HIDE DEF S
        <5>3. Best(levels', e.side) \in S
          BY <5>1, <5>2
        <5> QED BY <4>1, <5>3 DEF S
      <4> QED BY <1>4, <2>1, <3>2, <4>3 DEF LevelOf
    <3> QED BY <3>1, <3>2
  <2> QED BY <2>2, <2>3 DEF TopInv, TopKept
<1> QED BY <1>1, <1>5, <1>6, <1>7, <1>8 DEF ProcessEvent

LEMMA MatchTop ==
  ASSUME Inv, TopInv, MatchOne
  PROVE  TopInv'
<1>0. EventsOK /\ MemOK /\ LevelsOK /\ Apart
  BY DEF Inv, QueuesOK, BookOK
<1>1. /\ stage = "match" /\ Crosses(mem[ev]) /\ last_order_level' = last_order_level
      /\ timely' = timely
  BY DEF MatchOne, Match, history
<1>2. mem[ev] \in EventType
  BY <1>0, <1>1, MemIs DEF MemOK
<1> DEFINE side == mem[ev].side
           price == mem[ev].price
           other == Opposite(side)
<1>3. side \in Side /\ price \in Int /\ other \in Side
  BY <1>2 DEF EventType, Side, Bid, Ask, Opposite
<1>4. levels[other] # <<>> /\ ~Better(other, price, Best(levels, other))
  BY <1>1 DEF Crosses
<1>5. Best(levels, other) \in DOMAIN levels[other] /\ Best(levels, other) \in Int
  BY <1>0, <1>3, <1>4, BestIs DEF LevelsOK
<1>6. ASSUME NEW b \in DOMAIN levels[side], Better(side, b, price) PROVE FALSE
  <2>1. b \in Int
    BY <1>0, <1>3 DEF LevelsOK
  <2>2. CASE side = Bid
    <3>1. other = Ask /\ ~(price < Best(levels, other)) /\ b > price
      BY <1>4, <1>6, <2>2 DEF Better, Opposite, Bid, Ask
    <3>2. b < Best(levels, other)
      BY <1>0, <1>5, <2>2, <3>1 DEF Apart
    <3> QED BY <1>3, <1>5, <2>1, <3>1, <3>2
  <2>3. CASE side = Ask
    <3>1. other = Bid /\ ~(price > Best(levels, other)) /\ b < price
      BY <1>4, <1>6, <2>3 DEF Better, Opposite, Bid, Ask
    <3>2. Best(levels, other) < b
      BY <1>0, <1>5, <2>3, <3>1 DEF Apart
    <3> QED BY <1>3, <1>5, <2>1, <3>1, <3>2
  <2> QED BY <1>3, <2>2, <2>3 DEF Side
<1>7. ~(timely /\ last_order_level > 0)
  BY <1>1, <1>6 DEF TopInv, TopKept
<1> QED BY <1>1, <1>7 DEF TopInv, TopKept

LEMMA RestTop ==
  ASSUME Inv, Inv', TopInv, RestRemainder
  PROVE  TopInv'
<1>0. EventsOK /\ QueuesOK /\ BookOK /\ LevelsOK /\ MemOK /\ NotYetIn /\ LevelsOK'
  BY DEF Inv, QueuesOK, BookOK
<1>1. /\ Rest /\ stage = "match" /\ stage' = "publish" /\ mem' = mem /\ shown_top' = shown_top
      /\ last_order_level' = last_order_level /\ timely' = timely
  BY DEF RestRemainder, Rest, shown, history
<1>2. ev \in DOMAIN mem /\ ev \in Nat /\ Outside(ev)
  BY <1>0, <1>1, MemIs DEF NotYetIn
<1> SUFFICES ASSUME timely, last_order_level > 0 PROVE shown_top' = Top'
  BY <1>1 DEF TopInv, TopKept
<1>3. shown_top = Top
  BY <1>1 DEF TopInv, TopKept
<1>4. PICK b \in DOMAIN levels[mem[ev].side] : Better(mem[ev].side, b, mem[ev].price)
  BY <1>1 DEF TopInv, TopKept
<1>5. \A s \in Side : Quiet(s)
  <2>1. CASE ~(mem[ev].amount > 0)
    <3>1. levels' = levels
      BY <1>1, <2>1 DEF Rest
    <3> QED BY <3>1 DEF Quiet
  <2>2. CASE mem[ev].amount > 0
    <3>1. PICK q : Rested(q)
      BY <1>0, <1>1, <1>2, <2>2, RestIs
    <3> DEFINE side == mem[ev].side
               price == mem[ev].price
               t == Append(q, ev)
    <3>2. /\ side \in Side /\ price \in Int /\ q \in Seq(Nat) /\ ev \notin ToSet(q)
          /\ \A i, j \in DOMAIN q : q[i] = q[j] => i = j
          /\ levels' = SetQueue(levels, side, price, t)
      BY <3>1 DEF Rested
    <3>3. t \in Seq(Nat) /\ t # <<>>
      BY <1>2, <3>2, QueuedBehind
    <3> HIDE DEF t
    <3>4. /\ \A s \in Side : s # side => levels'[s] = levels[s]
          /\ DOMAIN levels'[side] = DOMAIN levels[side] \cup {price}
          /\ \A p \in DOMAIN levels[side] : p # price => levels'[side][p] = levels[side][p]
      BY <1>0, <3>2, <3>3, SetQueueIs
    <3> HIDE DEF side, price
    <3>5. Quiet(side)
      BY <1>4, <3>2, <3>4 DEF Quiet, side, price
    <3>6. \A s \in Side : s # side => Quiet(s)
      BY <3>4 DEF Quiet
    <3> QED BY <3>5, <3>6
  <2> QED BY <2>1, <2>2
<1>6. Top' = Top
  BY <1>0, <1>1, <1>5, TopSame
<1> QED BY <1>1, <1>3, <1>6

\* The top that is shown is that of the book, after every event that comes with its top shown
\* and names its order's price and side, whether it is published or not.
THEOREM ShowsTop == Spec => TopShown
<1> DEFINE Step == stage = "publish" /\ stage' = "idle" /\ timely => shown_top' = Top
<1>1. Init => TopInv
  BY DEF Init, BookInit, TopInv, TopKept
<1>2. Inv /\ Inv' /\ TopInv /\ [Next]_vars => TopInv' /\ [Step]_vars
  <2> SUFFICES ASSUME Inv, Inv', TopInv, [Next]_vars PROVE TopInv' /\ [Step]_vars
    OBVIOUS
  <2>1. CASE \E e \in Events(Arrived + 1) : Receive(e)
    <3>1. PICK e \in Events(Arrived + 1) : Receive(e)
      BY <2>1
    <3>2. TopInv'
      BY <3>1, ReceiveTop
    <3>3. stage # "publish"
      BY <3>1 DEF Receive, ProcessEvent, ProcessAdd, ProcessCancel, ProcessModify, ProcessTrade
    <3> QED BY <3>2, <3>3
  <2>2. CASE MatchOne
    <3>1. stage # "publish"
      BY <2>2 DEF MatchOne, Match
    <3> QED BY <2>2, <3>1, MatchTop
  <2>3. CASE RestRemainder
    <3>1. stage # "publish"
      BY <2>3 DEF RestRemainder, Rest
    <3> QED BY <2>3, <3>1, RestTop
  <2>4. CASE Publish
    <3>1. /\ stage = "publish" /\ stage' = "idle" /\ last_order_level' = last_order_level
          /\ last_order_level <= Levels /\ last_order_level <= 0 => shown_top' = Top
          /\ ~(last_order_level <= Levels /\ last_order_level <= 0) => shown_top' = shown_top
      BY <2>4 DEF Publish, DidModifyVisibleBook, bookVars, shown
    <3>2. last_order_level \in Int /\ Levels \in Nat
      BY BookAssumption DEF TopInv
    <3>3. CASE last_order_level > 0
      BY <3>1, <3>2, <3>3 DEF TopInv, TopKept
    <3>4. CASE last_order_level <= 0
      BY <3>1, <3>2, <3>4 DEF TopInv, TopKept
    <3> QED BY <3>2, <3>3, <3>4
  <2>5. CASE UNCHANGED vars
    <3>1. /\ mem' = mem /\ levels' = levels /\ last_order_level' = last_order_level
          /\ stage' = stage /\ ev' = ev /\ shown_top' = shown_top /\ timely' = timely
      BY <2>5 DEF vars, bookVars, shown, history
    <3>2. Top' = Top
      BY <3>1 DEF Top, Snapshot, Total
    <3>3. TopInv'
      BY <3>1, <3>2 DEF TopInv, TopKept
    <3> QED BY <2>5, <3>3
  <2> QED BY <2>1, <2>2, <2>3, <2>4, <2>5 DEF Next
<1>3. TopShown <=> [][Step]_vars
  BY PTL DEF TopShown
<1> HIDE DEF Step
<1> QED BY <1>1, <1>2, <1>3, Invariance, PTL DEF Spec
-----------------------------------------------------------------------------
\* Until an order crosses: the passive book is the book between two events, and the book
\* before the event that is being matched.
TwoInv ==
  ~crossed =>
    /\ stage # "match" => passive = Contents
    /\ stage = "match" =>
         /\ ~Crosses(mem[ev])
         /\ mem[ev] \in Passive!Events /\ mem[ev].amount # 0
         /\ Len(passive.mem) < MaxEvents
         /\ ev = Len(passive.mem) + 1 /\ mem = Append(passive.mem, mem[ev])
         /\ last_price = passive.last_price /\ volume = passive.volume
         /\ last_aggression = passive.last_aggression
         /\ \/ /\ mem[ev].type = "add"
               /\ levels = passive.levels /\ order_map = passive.order_map
            \/ /\ mem[ev].type = "modify"
               /\ levels = Passive!Cancelled(mem[ev].id)
               /\ order_map = Passive!Forget(mem[ev].id)

\* The two ways of writing down a level say the same.
LEMMA SameLevels ==
  ASSUME NEW lv, NEW side, NEW price, NEW q
  PROVE  SetQueue(lv, side, price, q) = Passive!WithOrders(lv, side, price, q)
<1> DEFINE f == lv[side]
           g == [p \in {p \in DOMAIN f \cup {price} : p # price \/ q # <<>>} |->
                   IF p = price THEN q ELSE f[p]]
           h == IF q = <<>> THEN Without(f, price) ELSE With(f, price, q)
<1>1. h = g
  <2>1. CASE q = <<>>
    <3>1. {p \in DOMAIN f \cup {price} : p # price \/ q # <<>>} = DOMAIN f \ {price}
      BY <2>1
    <3>2. g = [p \in DOMAIN f \ {price} |-> f[p]]
      BY <3>1
    <3> QED BY <2>1, <3>2 DEF Without
  <2>2. CASE q # <<>>
    <3>1. {p \in DOMAIN f \cup {price} : p # price \/ q # <<>>} = DOMAIN f \cup {price}
      BY <2>2
    <3> QED BY <2>2, <3>1 DEF With
  <2> QED BY <2>1, <2>2
<1>2. SetQueue(lv, side, price, q) = [lv EXCEPT ![side] = h]
  BY DEF SetQueue
<1>3. Passive!WithOrders(lv, side, price, q) = [lv EXCEPT ![side] = g]
  BY DEF Passive!WithOrders
<1> HIDE DEF h, g
<1> QED BY <1>1, <1>2, <1>3

LEMMA SameRemoved ==
  ASSUME NEW q, NEW o
  PROVE  Removed(q, o) = Passive!Removed(q, o)
BY Zenon DEF Removed, Passive!Removed

LEMMA SameCancel ==
  ASSUME BookOK, passive = Contents, NEW id
  PROVE  Cancelled(id) = Passive!Cancelled(id) /\ Without(order_map, id) = Passive!Forget(id)
<1>1. passive.mem = mem /\ passive.levels = levels /\ passive.order_map = order_map
  BY DEF Contents
<1>2. CASE id \notin DOMAIN order_map
  BY <1>1, <1>2 DEF Cancelled, Passive!Cancelled, Without, Passive!Forget
<1>3. CASE id \in DOMAIN order_map
  <2> DEFINE o == order_map[id]
             side == mem[o].side
             price == mem[o].price
             q == levels[side][price]
  <2>1. price \in DOMAIN levels[side]
    BY <1>3, Indexed DEF BookOK
  <2>2. Cancelled(id) = SetQueue(levels, side, price, Removed(q, o))
    BY <1>3, <2>1 DEF Cancelled
  <2>3. Passive!Cancelled(id) = Passive!WithOrders(levels, side, price, Removed(q, o))
    <3>1. Passive!Orders(levels, side, price) = q
      BY <2>1 DEF Passive!Orders
    <3>2. Passive!Cancelled(id) =
            Passive!WithOrders(levels, side, price, Removed(Passive!Orders(levels, side, price), o))
      <4> DEFINE at == passive.mem[passive.order_map[id]]
      <4>1. id \in DOMAIN passive.order_map
        BY <1>1, <1>3
      <4>2. Passive!Cancelled(id) =
              Passive!WithOrders(passive.levels, at.side, at.price,
                Passive!Removed(Passive!Orders(passive.levels, at.side, at.price),
                                passive.order_map[id]))
        BY <4>1, Zenon DEF Passive!Cancelled
      <4>3. at = mem[o] /\ passive.order_map[id] = o /\ passive.levels = levels
        BY <1>1
      <4> HIDE DEF at, o
      <4> QED BY <4>2, <4>3, SameRemoved, Zenon
    <3> QED BY <3>1, <3>2, Zenon
  <2>4. Without(order_map, id) = Passive!Forget(id)
    BY <1>1 DEF Without, Passive!Forget
  <2> HIDE DEF o, side, price, q
  <2> QED BY <2>2, <2>3, <2>4, SameLevels
<1> QED BY <1>2, <1>3

\* What comes in is what the passive book takes.
LEMMA SameEvents ==
  ASSUME Arrived \in Nat, Arrived < MaxEvents, NEW e \in Events(Arrived + 1)
  PROVE  /\ e \in Passive!Events /\ e.amount # 0
         /\ e.type \in {"add", "cancel", "modify", "trade"}
<1> DEFINE n == Arrived + 1
<1>1. /\ n \in Nat /\ 1..n \subseteq 0..MaxEvents /\ 1..(n - 1) \subseteq 0..MaxEvents
      /\ n \in 0..MaxEvents /\ 0 \in 0..MaxEvents /\ Side = {Bid, Ask}
  BY FlowAssumption DEF Side
<1>2. CASE e \in [type : {"add"}, id : IF reuse THEN 1..n ELSE {n}, side : Side, price : Price,
                  amount : Amount]
  <2>1. e.id \in 0..MaxEvents
    BY <1>1, <1>2
  <2> QED BY <1>1, <1>2, <2>1, TwoAssumption DEF Passive!Events, Bid, Ask, Passive!Bid, Passive!Ask
<1>3. CASE e \in [type : {"cancel", "modify"}, id : 1..(n - 1), side : Side, price : Price,
                  amount : Amount]
  BY <1>1, <1>3, TwoAssumption DEF Passive!Events, Bid, Ask, Passive!Bid, Passive!Ask
<1>4. CASE e \in [type : {"trade"}, id : {0}, side : Side, price : Price, amount : Amount]
  BY <1>1, <1>4, TwoAssumption DEF Passive!Events, Bid, Ask, Passive!Bid, Passive!Ask
<1> QED BY <1>2, <1>3, <1>4 DEF Events

LEMMA TwoInitIs ==
  ASSUME TwoInit
  PROVE  TwoInv /\ Passive!Init
<1>1. /\ passive = Contents /\ stage = "idle" /\ mem = <<>> /\ levels = [side \in Side |-> <<>>]
      /\ order_map = <<>> /\ last_price = 0 /\ volume = 0 /\ last_aggression = -1
  BY DEF TwoInit, Init, BookInit
<1>2. Passive!Init
  BY <1>1 DEF Contents, Passive!Init, Side, Bid, Ask, Passive!Bid, Passive!Ask
<1> QED BY <1>1, <1>2 DEF TwoInv

\* An event comes in that the passive book is done with in one step, or one that is to rest.
LEMMA TwoReceive ==
  ASSUME Inv, TwoInv, NEW e \in Events(Arrived + 1), Receive(e), Follow, ~crossed, ~crossed'
  PROVE  TwoInv' /\ (Passive!Next \/ passive' = passive)
<1> DEFINE n == Arrived + 1
<1>0. BookOK /\ Arrived \in Nat
  BY MemIs DEF Inv, QueuesOK
<1>1. /\ mem' = Append(mem, e) /\ ProcessEvent(n, e) /\ Arrived < MaxEvents
  BY DEF Receive
<1>2. stage = "idle" /\ passive = Contents
  BY <1>1 DEF ProcessEvent, ProcessAdd, ProcessCancel, ProcessModify, ProcessTrade, TwoInv
<1>3. /\ passive.mem = mem /\ passive.levels = levels /\ passive.order_map = order_map
      /\ passive.last_price = last_price /\ passive.volume = volume
      /\ passive.last_aggression = last_aggression
  BY <1>2 DEF Contents
<1>4. e \in Passive!Events /\ e.amount # 0 /\ e.type \in {"add", "cancel", "modify", "trade"}
  BY <1>0, <1>1, SameEvents
<1>5. mem'[n] = e
  <2>1. EventsOK /\ QueuesOK
    BY DEF Inv
  <2> QED BY <1>1, <2>1, ArrivalIs
<1>6. /\ Cancelled(e.id) = Passive!Cancelled(e.id)
      /\ Without(order_map, e.id) = Passive!Forget(e.id)
  BY <1>0, <1>2, SameCancel
<1>7. Len(passive.mem) = Arrived /\ Len(passive.mem) < MaxEvents /\ n = Len(passive.mem) + 1
  BY <1>1, <1>3 DEF Arrived
<1>8. CASE ProcessAdd(n, e) \/ ProcessModify(n, e)
  <2>1. /\ stage' = "match" /\ ev' = n /\ passive' = passive /\ last_price' = last_price
        /\ volume' = volume /\ last_aggression' = last_aggression
    BY <1>8 DEF ProcessAdd, ProcessModify, tradeVars, Follow
  <2>2. ~Crosses(mem[ev])'
    BY <2>1, Zenon DEF Follow, CrossesOnArrival
  <2>3. \/ /\ e.type = "add" /\ levels' = passive.levels /\ order_map' = passive.order_map
        \/ /\ e.type = "modify" /\ levels' = Passive!Cancelled(e.id)
           /\ order_map' = Passive!Forget(e.id)
    BY <1>3, <1>6, <1>8 DEF ProcessAdd, ProcessModify
  <2>4. mem'[ev'] = e
    BY <1>5, <2>1
  <2>5. Passive!Cancelled(mem[ev].id)' = Passive!Cancelled(e.id)
    BY <2>1, <2>4 DEF Passive!Cancelled
  <2>6. Passive!Forget(mem[ev].id)' = Passive!Forget(e.id)
    BY <2>1, <2>4 DEF Passive!Forget
  <2>7. /\ mem[ev]' = e /\ mem[ev].type' = e.type /\ mem[ev].amount' = e.amount
        /\ ev' = Len(passive.mem)' + 1 /\ mem' = Append(passive.mem, mem[ev])'
        /\ Len(passive.mem)' < MaxEvents
    BY <1>1, <1>3, <1>7, <2>1, <2>4
  <2>8. mem[ev]' \in Passive!Events
    BY <1>4, <2>7 DEF Passive!Events
  <2> QED BY <1>3, <1>4, <2>1, <2>2, <2>3, <2>5, <2>6, <2>7, <2>8 DEF TwoInv
<1>9. CASE ProcessCancel(n, e) \/ ProcessTrade(n, e)
  <2>1. stage' = "publish" /\ passive' = Contents' /\ TwoInv'
    BY <1>9 DEF ProcessCancel, ProcessTrade, Follow, TwoInv
  <2>2. /\ passive'.mem = Append(passive.mem, e) /\ passive'.levels = levels'
        /\ passive'.order_map = order_map' /\ passive'.last_price = last_price'
        /\ passive'.volume = volume' /\ passive'.last_aggression = last_aggression'
    BY <1>1, <1>3, <2>1 DEF Contents
  <2>3. CASE ProcessCancel(n, e)
    <3>1. /\ e.type = "cancel" /\ levels' = Cancelled(e.id) /\ order_map' = Without(order_map, e.id)
          /\ last_price' = last_price /\ volume' = volume /\ last_aggression' = last_aggression
      BY <2>3 DEF ProcessCancel, tradeVars
    <3>2. Passive!ProcessEvent(e)
      BY <1>3, <1>6, <2>2, <3>1 DEF Passive!ProcessEvent
    <3> QED BY <1>4, <1>7, <2>1, <3>2 DEF Passive!Next
  <2>4. CASE ProcessTrade(n, e)
    <3>1. /\ e.type = "trade" /\ levels' = levels /\ order_map' = order_map
          /\ last_price' = e.price /\ volume' = (volume + e.amount) % VolumeMod
          /\ last_aggression' = e.side
      BY <2>4 DEF ProcessTrade
    <3>2. Passive!ProcessEvent(e)
      BY <1>3, <2>2, <3>1 DEF Passive!ProcessEvent
    <3> QED BY <1>4, <1>7, <2>1, <3>2 DEF Passive!Next
  <2> QED BY <1>9, <2>3, <2>4
<1> QED BY <1>1, <1>8, <1>9 DEF ProcessEvent

\* What does not cross rests, and so ends an event that the passive book takes in one step.
LEMMA TwoRest ==
  ASSUME Inv, TwoInv, RestRemainder, Follow, ~crossed, ~crossed'
  PROVE  TwoInv' /\ Passive!Next
<1> DEFINE e == mem[ev]
           n == Len(passive.mem) + 1
           lv == IF e.type = "add" THEN passive.levels ELSE Passive!Cancelled(e.id)
           q == Passive!Orders(lv, e.side, e.price)
<1>1. /\ Rest /\ stage = "match" /\ stage' = "publish" /\ mem' = mem /\ last_price' = last_price
      /\ volume' = volume /\ last_aggression' = last_aggression
  BY DEF RestRemainder, Rest, tradeVars
<1>2. /\ e \in Passive!Events /\ e.amount # 0 /\ Len(passive.mem) < MaxEvents /\ ev = n
      /\ mem = Append(passive.mem, e) /\ last_price = passive.last_price
      /\ volume = passive.volume /\ last_aggression = passive.last_aggression
      /\ e.type \in {"add", "modify"} /\ levels = lv
      /\ e.type = "add" => order_map = passive.order_map
      /\ e.type = "modify" => order_map = Passive!Forget(e.id)
  BY <1>1 DEF TwoInv
<1>3. e.amount > 0
  <2>1. EventsOK
    BY DEF Inv
  <2>2. e \in EventType
    BY <1>1, <2>1, MemIs DEF MemOK
  <2> QED BY <1>2, <2>2 DEF EventType
<1>4. passive' = Contents' /\ TwoInv'
  BY <1>1 DEF Follow, TwoInv
<1>5. levels' = Passive!Added(lv, n, e)
  <2>1. levels' = SetQueue(levels, e.side, e.price, Append(q, ev))
    BY <1>1, <1>2, <1>3 DEF Rest, Passive!Orders
  <2> HIDE DEF q, lv, e, n
  <2>2. levels' = Passive!WithOrders(lv, e.side, e.price, Append(q, n))
    BY <1>2, <2>1, SameLevels
  <2> QED BY <2>2 DEF Passive!Added, q
<1>6. order_map' = Passive!Index(e.id, n)
  <2>1. order_map' = With(order_map, e.id, n)
    BY <1>1, <1>2, <1>3 DEF Rest
  <2>2. CASE e.type = "add"
    BY <1>2, <2>1, <2>2 DEF With, Passive!Index
  <2>3. CASE e.type = "modify"
    <3>1. order_map = [i \in DOMAIN passive.order_map \ {e.id} |-> passive.order_map[i]]
      BY <1>2, <2>3 DEF Passive!Forget
    <3>2. DOMAIN order_map \cup {e.id} = DOMAIN passive.order_map \cup {e.id}
      BY <3>1
    <3> HIDE DEF e, n
    <3> QED BY <2>1, <3>1, <3>2 DEF With, Passive!Index
  <2> QED BY <1>2, <2>2, <2>3
<1>7. /\ passive'.mem = Append(passive.mem, e) /\ passive'.levels = levels'
      /\ passive'.order_map = order_map' /\ passive'.last_price = passive.last_price
      /\ passive'.volume = passive.volume /\ passive'.last_aggression = passive.last_aggression
  BY <1>1, <1>2, <1>4 DEF Contents
<1> HIDE DEF e
<1>8. Passive!ProcessEvent(e)
  BY <1>2, <1>5, <1>6, <1>7 DEF Passive!ProcessEvent
<1> QED BY <1>2, <1>4, <1>8 DEF Passive!Next

\* The steps of the two books go together as long as nothing crosses, and the passive book
\* is left alone from then on.
LEMMA TwoStep ==
  ASSUME Inv, TwoInv, [TwoNext]_twoVars
  PROVE  TwoInv' /\ [Passive!Next]_(Passive!vars)
<1>1. CASE UNCHANGED twoVars
  <2>1. /\ mem' = mem /\ levels' = levels /\ order_map' = order_map /\ stage' = stage /\ ev' = ev
        /\ last_price' = last_price /\ volume' = volume /\ last_aggression' = last_aggression
        /\ passive' = passive /\ crossed' = crossed
    BY <1>1 DEF twoVars, vars, bookVars, tradeVars
  <2> QED BY <2>1 DEF TwoInv, Contents, Crosses, Passive!Cancelled, Passive!Forget, Passive!vars
<1>2. CASE TwoNext
  <2>1. Next /\ Follow
    BY <1>2 DEF TwoNext
  <2>2. CASE crossed'
    <3>1. passive' = passive
      BY <2>1, <2>2 DEF Follow
    <3> QED BY <2>2, <3>1 DEF TwoInv, Passive!vars
  <2>3. CASE ~crossed'
    <3>1. ~crossed
      BY <2>1, <2>3 DEF Follow
    <3>2. CASE \E e \in Events(Arrived + 1) : Receive(e)
      BY <2>1, <2>3, <3>1, <3>2, TwoReceive DEF Passive!vars
    <3>3. CASE MatchOne
      BY <3>1, <3>3 DEF MatchOne, Match, TwoInv
    <3>4. CASE RestRemainder
      BY <2>1, <2>3, <3>1, <3>4, TwoRest
    <3>5. CASE Publish
      <4>1. /\ stage = "publish" /\ stage' = "idle" /\ mem' = mem /\ levels' = levels
            /\ order_map' = order_map /\ last_price' = last_price /\ volume' = volume
            /\ last_aggression' = last_aggression
        BY <3>5 DEF Publish, bookVars, tradeVars
      <4>2. passive = Contents /\ Contents' = Contents /\ passive' = Contents' /\ TwoInv'
        BY <2>1, <2>3, <3>1, <4>1 DEF TwoInv, Contents, Follow
      <4> QED BY <4>2 DEF Passive!vars
    <3> QED BY <2>1, <3>2, <3>3, <3>4, <3>5 DEF Next
  <2> QED BY <2>2, <2>3
<1> QED BY <1>1, <1>2

\* Whatever orders come in, until the first one that crosses the matching book of order_book.cc
\* takes the steps of the passive one of order_book_manager.cc: the same queues, index and
\* figures of the last trade.
THEOREM SameUntilCrossed == TwoSpec => PassiveSpec
<1>1. TwoSpec => []Inv
  <2>1. TwoInit => Init
    BY DEF TwoInit
  <2>2. [TwoNext]_twoVars => [Next]_vars
    BY DEF TwoNext, twoVars
  <2> QED BY <2>1, <2>2, Invariance, PTL DEF TwoSpec, Spec
<1>2. TwoInit => TwoInv /\ Passive!Init
  BY TwoInitIs
<1>3. Inv /\ TwoInv /\ [TwoNext]_twoVars => TwoInv' /\ [Passive!Next]_(Passive!vars)
  BY TwoStep
<1> QED BY <1>1, <1>2, <1>3, PTL DEF TwoSpec, PassiveSpec, Passive!Spec
-----------------------------------------------------------------------------
\* What rests, on both sides, and what is still to be matched or to rest.
Rests == Resting(Bid) \cup Resting(Ask)
RestSum == SumFunctionOnSet(AmountIn, Rests)
Pending == IF stage = "match" THEN mem[ev].amount ELSE 0

\* No quantity is made or lost, and so far too little came in for the volume to wrap.
Balanced(most) ==
  /\ added \in Nat /\ cancelled \in Nat /\ reported \in Nat
  /\ Arrived <= MaxEvents
  /\ added + reported <= Arrived * most
  /\ added = RestSum + Pending + cancelled + 2 * (volume - reported)

LEMMA RestsIs ==
  ASSUME BookOK
  PROVE  /\ Rests \in SUBSET DOMAIN mem
         /\ \A x : x \in Rests <=> \E side \in Side : \E price \in DOMAIN levels[side] :
                                     x \in ToSet(levels[side][price])
<1>1. \A x : x \in Rests <=> \E side \in Side : \E price \in DOMAIN levels[side] :
                               x \in ToSet(levels[side][price])
  BY DEF Rests, Resting, Side
<1>2. LevelsOK
  BY DEF BookOK
<1> QED BY <1>1, <1>2 DEF LevelsOK

\* The orders that rest are finitely many, each with an amount.
LEMMA AmountsRest ==
  ASSUME EventsOK, BookOK
  PROVE  /\ IsFiniteSet(Rests) /\ Rests \in SUBSET DOMAIN mem
         /\ \A x \in DOMAIN mem : AmountIn[x] \in Nat /\ AmountIn[x] = mem[x].amount
         /\ RestSum \in Nat
<1>1. Rests \in SUBSET DOMAIN mem
  BY RestsIs
<1>2. IsFiniteSet(Rests)
  <2>1. DOMAIN mem = 1..Arrived /\ Arrived \in Nat
    BY MemIs
  <2>2. IsFiniteSet(1..Arrived)
    BY <2>1, FS_Interval
  <2> QED BY <1>1, <2>1, <2>2, FS_Subset
<1>3. \A x \in DOMAIN mem : AmountIn[x] \in Nat /\ AmountIn[x] = mem[x].amount
  BY MemIs DEF AmountIn, MemOK, EventType
<1>4. \A x \in Rests : AmountIn[x] \in Nat
  BY <1>1, <1>3
<1>5. RestSum \in Nat
  BY <1>2, <1>4, SumNat DEF RestSum
<1> QED BY <1>1, <1>2, <1>3, <1>5

LEMMA RestsGone ==
  ASSUME LevelsOK, NEW o, OrderGone(o)
  PROVE  Rests' = Rests \ {o}
<1>1. \A x : x \in Rests <=> \E side \in Side : \E price \in DOMAIN levels[side] :
                               x \in ToSet(levels[side][price])
  BY DEF Rests, Resting, Side
<1>2. \A x : x \in Rests' <=> \E side \in Side : \E price \in DOMAIN levels'[side] :
                                x \in ToSet(levels'[side][price])
  BY DEF Rests, Resting, Side
<1>3. ASSUME NEW x \in Rests' PROVE x \in Rests \ {o}
  <2>1. PICK side \in Side : \E price \in DOMAIN levels'[side] : x \in ToSet(levels'[side][price])
    BY <1>2
  <2>2. PICK price \in DOMAIN levels'[side] : x \in ToSet(levels'[side][price])
    BY <2>1
  <2>3. price \in DOMAIN levels[side] /\ ToSet(levels'[side][price]) = ToSet(levels[side][price]) \ {o}
    BY DEF OrderGone
  <2> QED BY <1>1, <2>2, <2>3
<1>4. ASSUME NEW x \in Rests \ {o} PROVE x \in Rests'
  <2>1. PICK side \in Side : \E price \in DOMAIN levels[side] : x \in ToSet(levels[side][price])
    BY <1>1
  <2>2. PICK price \in DOMAIN levels[side] : x \in ToSet(levels[side][price])
    BY <2>1
  <2>3. IF price \in DOMAIN levels'[side]
          THEN ToSet(levels'[side][price]) = ToSet(levels[side][price]) \ {o}
          ELSE ToSet(levels[side][price]) \subseteq {o}
    BY DEF OrderGone
  <2> QED BY <1>2, <2>2, <2>3
<1> QED BY <1>3, <1>4

LEMMA RestsMore ==
  ASSUME BookOK, ev \in Nat, NEW q, Rested(q)
  PROVE  Rests' = Rests \cup {ev}
<1> DEFINE side == mem[ev].side
           price == mem[ev].price
           t == Append(q, ev)
<1>0. LevelsOK
  BY DEF BookOK
<1>1. /\ side \in Side /\ price \in Int /\ q \in Seq(Nat) /\ ev \notin ToSet(q)
      /\ \/ price \in DOMAIN levels[side] /\ q = levels[side][price]
         \/ price \notin DOMAIN levels[side] /\ q = <<>>
      /\ \A i, j \in DOMAIN q : q[i] = q[j] => i = j
      /\ levels' = SetQueue(levels, side, price, t)
  BY DEF Rested
<1>2. t \in Seq(Nat) /\ t # <<>> /\ ToSet(t) = ToSet(q) \cup {ev}
  BY <1>1, QueuedBehind
<1> HIDE DEF t, side, price
<1>3. /\ \A s \in Side : s # side => levels'[s] = levels[s]
      /\ DOMAIN levels'[side] = DOMAIN levels[side] \cup {price}
      /\ levels'[side][price] = t
      /\ \A p \in DOMAIN levels[side] : p # price => levels'[side][p] = levels[side][p]
  BY <1>0, <1>1, <1>2, SetQueueIs
<1>4. q = <<>> => ToSet(q) = {}
  BY DEF ToSet
<1>5. \A x : x \in Rests <=> \E s \in Side : \E p \in DOMAIN levels[s] : x \in ToSet(levels[s][p])
  BY DEF Rests, Resting, Side
<1>6. \A x : x \in Rests' <=> \E s \in Side : \E p \in DOMAIN levels'[s] : x \in ToSet(levels'[s][p])
  BY DEF Rests, Resting, Side
<1>7. ASSUME NEW x \in Rests' PROVE x \in Rests \cup {ev}
  <2>1. PICK s \in Side : \E p \in DOMAIN levels'[s] : x \in ToSet(levels'[s][p])
    BY <1>6
  <2>2. PICK p \in DOMAIN levels'[s] : x \in ToSet(levels'[s][p])
    BY <2>1
  <2>3. CASE s = side /\ p = price
    <3>1. x \in ToSet(q) \/ x = ev
      BY <1>2, <1>3, <2>2, <2>3
    <3> QED BY <1>1, <1>4, <1>5, <3>1
  <2>4. CASE s # side
    BY <1>3, <1>5, <2>2, <2>4
  <2>5. CASE s = side /\ p # price
    BY <1>3, <1>5, <2>2, <2>5
  <2> QED BY <2>3, <2>4, <2>5
<1>8. ASSUME NEW x \in Rests PROVE x \in Rests'
  <2>1. PICK s \in Side : \E p \in DOMAIN levels[s] : x \in ToSet(levels[s][p])
    BY <1>5
  <2>2. PICK p \in DOMAIN levels[s] : x \in ToSet(levels[s][p])
    BY <2>1
  <2>3. CASE s = side /\ p = price
    BY <1>1, <1>2, <1>3, <1>6, <2>2, <2>3
  <2>4. CASE s # side
    BY <1>3, <1>6, <2>2, <2>4
  <2>5. CASE s = side /\ p # price
    BY <1>3, <1>6, <2>2, <2>5
  <2> QED BY <2>3, <2>4, <2>5
<1>9. ev \in Rests'
  BY <1>1, <1>2, <1>3, <1>6
<1> QED BY <1>7, <1>8, <1>9

\* Where the orders that rest keep their amounts, so does their sum.
LEMMA SumKept ==
  ASSUME EventsOK, BookOK, NEW T \in SUBSET DOMAIN mem, Rests' = T,
         \A x \in T : x \in DOMAIN mem' /\ mem'[x].amount = mem[x].amount
  PROVE  RestSum' = SumFunctionOnSet(AmountIn, T)
<1>1. PICK b : b = AmountIn'
  OBVIOUS
<1>2. RestSum' = SumFunctionOnSet(b, T)
  BY <1>1, Zenon DEF RestSum
<1>3. \A x \in T : b[x] = AmountIn[x]
  BY <1>1 DEF AmountIn
<1>4. IsFiniteSet(T)
  <2>1. DOMAIN mem = 1..Arrived /\ Arrived \in Nat
    BY MemIs
  <2>2. IsFiniteSet(1..Arrived)
    BY <2>1, FS_Interval
  <2> QED BY <2>1, <2>2, FS_Subset
<1>5. SumFunctionOnSet(b, T) = SumFunctionOnSet(AmountIn, T)
  BY <1>3, <1>4, SumEqual
<1> QED BY <1>2, <1>5

\* The order that is cancelled or replaced takes its amount with it.
LEMMA SumCancelled ==
  ASSUME EventsOK, BookOK, NEW id \in DOMAIN order_map, levels' = Cancelled(id),
         \A x \in DOMAIN mem : x \in DOMAIN mem' /\ mem'[x] = mem[x]
  PROVE  RestSum = RestSum' + mem[order_map[id]].amount /\ RestSum' \in Nat
<1> DEFINE o == order_map[id]
           T == Rests \ {o}
<1>1. Rests' = T
  <2>1. OrderGone(o) /\ LevelsOK
    BY CancelGone DEF BookOK
  <2> QED BY <2>1, RestsGone
<1>2. o \in Rests
  <2>1. mem[o].side \in Side
    BY IndexedOn
  <2>2. mem[o].price \in DOMAIN levels[mem[o].side] /\ o \in ToSet(levels[mem[o].side][mem[o].price])
    BY Indexed DEF BookOK
  <2> HIDE DEF o
  <2> QED BY <2>1, <2>2, RestsIs
<1>3. /\ IsFiniteSet(Rests) /\ Rests \in SUBSET DOMAIN mem
      /\ \A x \in DOMAIN mem : AmountIn[x] \in Nat /\ AmountIn[x] = mem[x].amount
  BY AmountsRest
<1> HIDE DEF o
<1>4. T \in SUBSET DOMAIN mem /\ IsFiniteSet(T)
  BY <1>3, FS_Subset
<1>5. RestSum' = SumFunctionOnSet(AmountIn, T)
  <2>1. \A x \in T : x \in DOMAIN mem' /\ mem'[x].amount = mem[x].amount
    BY <1>4
  <2> HIDE DEF T
  <2> QED BY <1>1, <1>4, <2>1, SumKept
<1>6. RestSum = AmountIn[o] + SumFunctionOnSet(AmountIn, T)
  <2>1. \A x \in Rests : AmountIn[x] \in Int
    BY <1>3
  <2> QED BY <1>2, <1>3, <2>1, SumWithout DEF RestSum
<1>7. SumFunctionOnSet(AmountIn, T) \in Nat
  <2>1. \A x \in T : AmountIn[x] \in Nat
    BY <1>3
  <2> QED BY <1>4, <2>1, SumNat
<1>8. AmountIn[o] \in Nat /\ AmountIn[o] = mem[o].amount
  BY <1>2, <1>3
<1> QED BY <1>5, <1>6, <1>7, <1>8 DEF o

\* A trade takes as much off the resting order as off the one that came in.
LEMMA SumTraded ==
  ASSUME EventsOK, BookOK, Outside(ev), ev \in DOMAIN mem,
         NEW price, NEW r, NEW traded, Matched(price, r), Exchanged(r, traded)
  PROVE  RestSum = RestSum' + traded /\ RestSum' \in Nat
<1> DEFINE T == Rests \ {r}
           other == Opposite(mem[ev].side)
<1>1. /\ other \in Side /\ price \in DOMAIN levels[other] /\ r \in ToSet(levels[other][price])
      /\ r \in DOMAIN mem /\ r # ev /\ DOMAIN mem' = DOMAIN mem
      /\ \A p \in DOMAIN mem : p # ev /\ p # r => mem'[p] = mem[p]
      /\ mem'[r].amount \in 0..(AmountMod - 1)
      /\ mem'[r].amount # 0 => levels' = levels
  BY DEF Matched
<1> HIDE DEF other
<1>2. r \in Rests /\ ev \notin Rests
  BY <1>1, RestsIs DEF Outside
<1>3. /\ IsFiniteSet(Rests) /\ Rests \in SUBSET DOMAIN mem
      /\ \A x \in DOMAIN mem : AmountIn[x] \in Nat /\ AmountIn[x] = mem[x].amount
  BY AmountsRest
<1>4. T \in SUBSET DOMAIN mem /\ IsFiniteSet(T) /\ r \notin T /\ Rests = T \cup {r} /\ ev \notin T
  BY <1>2, <1>3, FS_Subset
<1>5. RestSum = AmountIn[r] + SumFunctionOnSet(AmountIn, T)
  <2>1. \A x \in Rests : AmountIn[x] \in Int
    BY <1>3
  <2> QED BY <1>2, <1>3, <2>1, SumWithout DEF RestSum
<1>6. SumFunctionOnSet(AmountIn, T) \in Nat
  <2>1. \A x \in T : AmountIn[x] \in Nat
    BY <1>3
  <2> QED BY <1>4, <2>1, SumNat
<1>7. /\ traded \in Nat /\ traded <= mem[r].amount /\ mem'[r].amount = mem[r].amount - traded
      /\ mem[r].amount \in Nat /\ AmountIn[r] = mem[r].amount
  BY <1>1, <1>3 DEF Exchanged
<1>8. \A x \in T : x \in DOMAIN mem' /\ mem'[x].amount = mem[x].amount
  BY <1>1, <1>4
<1> HIDE DEF T
<1>9. CASE mem'[r].amount = 0
  <2>1. OrderGone(r) /\ LevelsOK
    BY <1>9, MatchGone DEF BookOK
  <2>2. Rests' = T
    BY <2>1, RestsGone DEF T
  <2>3. RestSum' = SumFunctionOnSet(AmountIn, T)
    BY <1>4, <1>8, <2>2, SumKept
  <2> QED BY <1>5, <1>6, <1>7, <1>9, <2>3
<1>10. CASE mem'[r].amount # 0
  <2>1. Rests' = T \cup {r}
    BY <1>1, <1>4, <1>10 DEF Rests, Resting
  <2>2. PICK b : b = AmountIn'
    OBVIOUS
  <2>3. RestSum' = SumFunctionOnSet(b, T \cup {r})
    BY <2>1, <2>2, Zenon DEF RestSum
  <2>4. b[r] = mem'[r].amount /\ \A x \in T : b[x] = AmountIn[x]
    BY <1>1, <1>3, <1>4, <1>8, <2>2 DEF AmountIn
  <2>5. b[r] \in Int /\ \A x \in T : b[x] \in Int
    BY <1>1, <1>3, <1>4, <2>4
  <2>6. SumFunctionOnSet(b, T \cup {r}) = SumFunctionOnSet(b, T) + b[r]
    BY <1>4, <2>5, SumAdded
  <2>7. SumFunctionOnSet(b, T) = SumFunctionOnSet(AmountIn, T)
    BY <1>4, <2>4, SumEqual
  <2> QED BY <1>1, <1>5, <1>6, <1>7, <2>3, <2>4, <2>6, <2>7
<1> QED BY <1>9, <1>10

\* What rests in the end is added to it.
LEMMA SumRested ==
  ASSUME EventsOK, BookOK, Outside(ev), ev \in DOMAIN mem, ev \in Nat, mem' = mem,
         NEW q, Rested(q)
  PROVE  RestSum' = RestSum + mem[ev].amount
<1>1. Rests' = Rests \cup {ev} /\ ev \notin Rests
  BY RestsMore, RestsIs DEF Outside
<1>2. AmountIn' = AmountIn
  BY DEF AmountIn
<1>3. RestSum' = SumFunctionOnSet(AmountIn, Rests \cup {ev})
  BY <1>1, <1>2, Zenon DEF RestSum
<1>4. /\ IsFiniteSet(Rests) /\ Rests \in SUBSET DOMAIN mem
      /\ \A x \in DOMAIN mem : AmountIn[x] \in Nat /\ AmountIn[x] = mem[x].amount
  BY AmountsRest
<1>5. AmountIn[ev] \in Int /\ \A x \in Rests : AmountIn[x] \in Int
  BY <1>4
<1>6. SumFunctionOnSet(AmountIn, Rests \cup {ev}) = SumFunctionOnSet(AmountIn, Rests) + AmountIn[ev]
  BY <1>1, <1>4, <1>5, SumAdded
<1> QED BY <1>3, <1>4, <1>6 DEF RestSum

\* So much may come in before the volume wraps.
Fits(most) == (\A amount \in Amount : amount <= most) /\ MaxEvents * most < VolumeMod

\* What balances is within what came in, and so is the volume after a trade of what is there.
LEMMA NoWrap ==
  ASSUME NEW most \in Nat, Fits(most), NEW n \in Nat, n <= MaxEvents,
         NEW x \in Nat, NEW y \in Nat, x + y <= n * most,
         NEW v \in Nat, 2 * (v - y) <= x
  PROVE  v % VolumeMod = v
<1>1. v <= x + y
  OBVIOUS
<1>2. n * most <= MaxEvents * most
  <2>1. MaxEvents \in Nat
    BY FlowAssumption
  <2> QED BY <2>1
<1>3. v < VolumeMod
  <2>1. n * most \in Nat /\ MaxEvents * most \in Nat /\ VolumeMod \in Nat
    BY FlowAssumption, BookAssumption
  <2> QED BY <1>1, <1>2, <2>1 DEF Fits
<1> QED BY <1>3, BookAssumption

LEMMA ReceiveBalanced ==
  ASSUME NEW most \in Nat, Fits(most), Inv, Balanced(most),
         NEW e \in Events(Arrived + 1), Receive(e)
  PROVE  Balanced(most)'
<1> DEFINE n == Arrived + 1
           came == Amounts(e.type \in {"add", "modify"}, e.amount)
           told == Amounts(e.type = "trade", e.amount)
           gone == IF e.type \in {"cancel", "modify"} /\ e.id \in DOMAIN order_map
                     THEN mem[order_map[e.id]].amount ELSE 0
<1>0. EventsOK /\ QueuesOK /\ BookOK /\ NumbersOK
  BY DEF Inv, QueuesOK
<1>1. /\ mem' = Append(mem, e) /\ ProcessEvent(n, e) /\ Arrived < MaxEvents
  BY DEF Receive
<1>2. /\ Arrived' = n /\ Arrived \in Nat /\ mem'[n] = e /\ DOMAIN mem = 1..Arrived
      /\ \A p \in DOMAIN mem : p \in DOMAIN mem' /\ mem'[p] = mem[p]
  BY <1>0, <1>1, ArrivalIs, MemIs
<1>3. e.amount \in Nat /\ e.amount <= most
  <2>1. e.amount \in Amount
    BY <1>2 DEF Events
  <2>2. e.amount \in Nat
    <3>1. e \in EventType
      BY <1>2, EventIs
    <3> QED BY <3>1 DEF EventType
  <2> QED BY <2>1, <2>2 DEF Fits
<1>4. /\ came \in Nat /\ told \in Nat /\ came + told <= most
      /\ e.type = "add" => came = e.amount /\ told = 0 /\ gone = 0
      /\ e.type = "modify" => came = e.amount /\ told = 0
      /\ e.type = "cancel" => came = 0 /\ told = 0
      /\ e.type = "trade" => came = 0 /\ told = e.amount /\ gone = 0
  BY <1>3 DEF Amounts
<1>5. added' = added + came /\ cancelled' = cancelled + gone /\ reported' = reported + told
  BY DEF Receive
<1>6. came \in Nat /\ told \in Nat /\ came + told <= most
  BY <1>4
<1> HIDE DEF came, told, gone
<1>7. /\ added \in Nat /\ cancelled \in Nat /\ reported \in Nat
      /\ added + reported <= Arrived * most
      /\ added = RestSum + Pending + cancelled + 2 * (volume - reported)
  BY DEF Balanced
<1>8. stage = "idle" /\ ev' = n
  BY <1>1 DEF ProcessEvent, ProcessAdd, ProcessCancel, ProcessModify, ProcessTrade
<1>9. Pending = 0 /\ RestSum \in Nat /\ volume \in Nat
  BY <1>0, <1>8, AmountsRest DEF Pending, NumbersOK
<1>10. Pending' = IF stage' = "match" THEN e.amount ELSE 0
  BY <1>2, <1>8 DEF Pending
<1>11. Arrived' <= MaxEvents /\ added' + reported' <= Arrived' * most
  <2>1. n <= MaxEvents
    BY <1>1, <1>2, FlowAssumption
  <2>2. n * most = Arrived * most + most /\ Arrived * most \in Nat
    BY <1>2
  <2>3. added' + reported' <= Arrived * most + most
    BY <1>7, <1>5, <1>6, <2>2
  <2> QED BY <1>2, <2>1, <2>2, <2>3
<1>12. /\ gone \in Nat /\ RestSum = RestSum' + gone /\ RestSum' \in Nat
  <2>1. CASE levels' = levels /\ gone = 0
    <3>1. Rests' = Rests
      BY <2>1 DEF Rests, Resting
    <3>2. Rests \in SUBSET DOMAIN mem
      BY <1>0, RestsIs
    <3>3. RestSum' = SumFunctionOnSet(AmountIn, Rests)
      BY <1>0, <1>2, <3>1, <3>2, SumKept
    <3> QED BY <1>9, <2>1, <3>3 DEF RestSum
  <2>2. CASE levels' = Cancelled(e.id) /\ e.type \in {"cancel", "modify"} /\ e.id \in DOMAIN order_map
    <3>1. RestSum = RestSum' + mem[order_map[e.id]].amount /\ RestSum' \in Nat
      BY <1>0, <1>2, <2>2, SumCancelled
    <3>2. mem[order_map[e.id]].amount \in Nat
      BY <1>0, <2>2, IndexedOn
    <3> QED BY <2>2, <3>1, <3>2 DEF gone
  <2>3. \/ levels' = levels /\ gone = 0
        \/ levels' = Cancelled(e.id) /\ e.type \in {"cancel", "modify"} /\ e.id \in DOMAIN order_map
    BY <1>1 DEF ProcessEvent, ProcessAdd, ProcessCancel, ProcessModify, ProcessTrade, Cancelled, gone
  <2> QED BY <2>1, <2>2, <2>3
<1> HIDE DEF n
<1>13. Pending' = came /\ volume' = volume + told
  <2>1. CASE ProcessTrade(n, e)
    <3>1. /\ e.type = "trade" /\ stage' = "publish" /\ volume' = (volume + e.amount) % VolumeMod
      BY <2>1 DEF ProcessTrade
    <3>2. came = 0 /\ told = e.amount
      BY <1>4, <3>1
    <3>3. (volume + e.amount) % VolumeMod = volume + e.amount
      <4>1. PICK v \in Nat : v = volume + e.amount
        BY <1>3, <1>9
      <4>2. PICK y \in Nat : y = reported'
        BY <1>7, <1>5, <1>6
      <4>3. PICK x \in Nat : x = added'
        BY <1>7, <1>5, <1>6
      <4>4. PICK k \in Nat : k = Arrived'
        BY <1>2 DEF n
      <4>5. k <= MaxEvents /\ x + y <= k * most
        BY <1>11, <4>2, <4>3, <4>4
      <4>6. 2 * (v - y) <= x
        BY <1>3, <1>7, <1>9, <1>5, <1>6, <3>2, <4>1, <4>2, <4>3
      <4>7. v % VolumeMod = v
        BY <4>5, <4>6, NoWrap
      <4> QED BY <4>1, <4>7
    <3> QED BY <1>10, <3>1, <3>2, <3>3
  <2>2. CASE ProcessAdd(n, e) \/ ProcessModify(n, e)
    <3>1. e.type \in {"add", "modify"} /\ stage' = "match" /\ volume' = volume
      BY <2>2 DEF ProcessAdd, ProcessModify, tradeVars
    <3> QED BY <1>4, <1>9, <1>10, <3>1
  <2>3. CASE ProcessCancel(n, e)
    <3>1. e.type = "cancel" /\ stage' = "publish" /\ volume' = volume
      BY <2>3 DEF ProcessCancel, tradeVars
    <3> QED BY <1>4, <1>9, <1>10, <3>1
  <2> QED BY <1>1, <2>1, <2>2, <2>3 DEF ProcessEvent
<1>14. added' = RestSum' + Pending' + cancelled' + 2 * (volume' - reported')
  BY <1>7, <1>9, <1>12, <1>13, <1>5, <1>6
<1>15. added' \in Nat /\ cancelled' \in Nat /\ reported' \in Nat
  BY <1>7, <1>12, <1>5, <1>6
<1> QED BY <1>11, <1>14, <1>15 DEF Balanced

LEMMA MatchBalanced ==
  ASSUME NEW most \in Nat, Fits(most), Inv, Balanced(most), MatchOne
  PROVE  Balanced(most)'
<1>0. EventsOK /\ BookOK /\ NumbersOK /\ NotYetIn
  BY DEF Inv, QueuesOK
<1>1. /\ Match /\ stage = "match" /\ stage' = stage /\ ev' = ev
      /\ added' = added /\ cancelled' = cancelled /\ reported' = reported
  BY DEF MatchOne, Match, history
<1>2. ev \in DOMAIN mem /\ Outside(ev) /\ DOMAIN mem = 1..Arrived /\ Arrived \in Nat
  BY <1>0, <1>1, MemIs DEF NotYetIn
<1>3. PICK price, r, traded : Matched(price, r) /\ Exchanged(r, traded)
  BY <1>0, <1>1, <1>2, MatchIs
<1>4. RestSum = RestSum' + traded /\ RestSum' \in Nat
  BY <1>0, <1>2, <1>3, SumTraded
<1>5. /\ added \in Nat /\ cancelled \in Nat /\ reported \in Nat
      /\ Arrived <= MaxEvents /\ added + reported <= Arrived * most
      /\ added = RestSum + Pending + cancelled + 2 * (volume - reported)
  BY DEF Balanced
<1>6. /\ traded \in Nat /\ mem[ev].amount \in Nat /\ traded <= mem[ev].amount
      /\ mem'[ev].amount = mem[ev].amount - traded
      /\ volume' = (volume + traded) % VolumeMod /\ volume \in Nat
  <2>1. mem[ev].amount \in Nat
    BY <1>0, <1>2 DEF BookOK, MemOK, EventType
  <2>2. /\ traded \in 0..mem[ev].amount /\ mem'[ev].amount = mem[ev].amount - traded
        /\ volume' = (volume + traded) % VolumeMod
    BY <1>3 DEF Exchanged
  <2> QED BY <1>0, <2>1, <2>2 DEF NumbersOK
<1>7. Pending = mem[ev].amount /\ Pending' = mem[ev].amount - traded
  BY <1>1, <1>6 DEF Pending
<1>8. volume' = volume + traded
  <2>1. PICK v \in Nat : v = volume + traded
    BY <1>6
  <2>2. 2 * (v - reported) <= added
    BY <1>4, <1>5, <1>6, <1>7, <2>1
  <2>3. v % VolumeMod = v
    BY <1>2, <1>5, <2>2, NoWrap
  <2> QED BY <1>6, <2>1, <2>3
<1>9. Arrived' = Arrived
  <2>1. Arrived' \in Nat /\ DOMAIN mem' = 1..Arrived' /\ DOMAIN mem' = DOMAIN mem
    <3>1. EventsOK'
      BY MatchInv DEF Inv
    <3>2. mem' \in Seq(EventType)
      BY <3>1 DEF EventsOK
    <3>3. DOMAIN mem' = DOMAIN mem
      BY <1>3 DEF Matched
    <3> QED BY <3>2, <3>3, LenProperties DEF Arrived
  <2> QED BY <1>2, <2>1
<1>10. added' = RestSum' + Pending' + cancelled' + 2 * (volume' - reported')
  BY <1>1, <1>4, <1>5, <1>6, <1>7, <1>8
<1> QED BY <1>1, <1>5, <1>9, <1>10 DEF Balanced

LEMMA RestBalanced ==
  ASSUME NEW most \in Nat, Inv, Balanced(most), RestRemainder
  PROVE  Balanced(most)'
<1>0. EventsOK /\ BookOK /\ NotYetIn
  BY DEF Inv, QueuesOK
<1>1. /\ Rest /\ stage = "match" /\ stage' = "publish" /\ mem' = mem /\ volume' = volume
      /\ added' = added /\ cancelled' = cancelled /\ reported' = reported /\ Arrived' = Arrived
  BY DEF RestRemainder, Rest, history, tradeVars, Arrived
<1>2. ev \in DOMAIN mem /\ Outside(ev) /\ ev \in Nat
  BY <1>0, <1>1, MemIs DEF NotYetIn
<1>3. mem[ev].amount \in Nat /\ RestSum \in Nat
  BY <1>0, <1>2, AmountsRest DEF BookOK, MemOK, EventType
<1>4. RestSum' = RestSum + mem[ev].amount
  <2>1. CASE mem[ev].amount > 0
    <3>1. PICK q : Rested(q)
      BY <1>0, <1>1, <1>2, <2>1, RestIs
    <3> QED BY <1>0, <1>1, <1>2, <3>1, SumRested
  <2>2. CASE ~(mem[ev].amount > 0)
    <3>1. levels' = levels
      BY <1>1, <2>2 DEF Rest
    <3>2. RestSum' = RestSum
      BY <1>1, <3>1 DEF RestSum, Rests, Resting, AmountIn
    <3> QED BY <1>3, <2>2, <3>2
  <2> QED BY <2>1, <2>2
<1>5. Pending = mem[ev].amount /\ Pending' = 0
  BY <1>1 DEF Pending
<1> QED BY <1>1, <1>3, <1>4, <1>5 DEF Balanced

LEMMA BalancedSame ==
  ASSUME NEW most, Balanced(most), mem' = mem, levels' = levels, volume' = volume,
         added' = added, cancelled' = cancelled, reported' = reported, Pending' = Pending
  PROVE  Balanced(most)'
<1>1. RestSum' = RestSum /\ Arrived' = Arrived
  BY DEF RestSum, Rests, Resting, AmountIn, Arrived
<1> QED BY <1>1 DEF Balanced

\* No quantity is made or lost, in any book that trades too little for its volume to wrap: with
\* 32 bits to an amount and 64 to the volume, 2^32 events of the largest amount fit.
THEOREM Conservation ==
  ASSUME NEW CONSTANT most \in Nat, Fits(most)
  PROVE  Spec => []Conserved
<1>1. Init => Balanced(most)
  <2> SUFFICES ASSUME Init PROVE Balanced(most)
    OBVIOUS
  <2>1. /\ mem = <<>> /\ levels = [side \in Side |-> <<>>] /\ stage = "idle" /\ volume = 0
        /\ added = 0 /\ cancelled = 0 /\ reported = 0
    BY DEF Init, BookInit
  <2>2. Rests = {}
    BY <2>1 DEF Rests, Resting, Side
  <2>3. RestSum = 0
    BY <2>2, SumEmpty DEF RestSum
  <2>4. Arrived = 0 /\ Pending = 0 /\ MaxEvents \in Nat
    BY <2>1, EmptySeq, FlowAssumption DEF Arrived, Pending
  <2> QED BY <2>1, <2>3, <2>4 DEF Balanced
<1>2. Inv /\ Balanced(most) /\ [Next]_vars => Balanced(most)'
  <2> SUFFICES ASSUME Inv, Balanced(most), [Next]_vars PROVE Balanced(most)'
    OBVIOUS
  <2>1. CASE \E e \in Events(Arrived + 1) : Receive(e)
    BY <2>1, ReceiveBalanced
  <2>2. CASE MatchOne
    BY <2>2, MatchBalanced
  <2>3. CASE RestRemainder
    BY <2>3, RestBalanced
  <2>4. CASE Publish
    <3>1. /\ mem' = mem /\ levels' = levels /\ volume' = volume /\ stage = "publish" /\ stage' = "idle"
          /\ added' = added /\ cancelled' = cancelled /\ reported' = reported
      BY <2>4 DEF Publish, bookVars, tradeVars, history
    <3>2. Pending' = Pending
      BY <3>1 DEF Pending
    <3> QED BY <3>1, <3>2, BalancedSame
  <2>5. CASE UNCHANGED vars
    <3>1. /\ mem' = mem /\ levels' = levels /\ volume' = volume /\ stage' = stage /\ ev' = ev
          /\ added' = added /\ cancelled' = cancelled /\ reported' = reported
      BY <2>5 DEF vars, bookVars, tradeVars, history
    <3>2. Pending' = Pending
      BY <3>1 DEF Pending
    <3> QED BY <3>1, <3>2, BalancedSame
  <2> QED BY <2>1, <2>2, <2>3, <2>4, <2>5 DEF Next
<1>3. Inv /\ Balanced(most) => Conserved
  <2> SUFFICES ASSUME Inv, Balanced(most) PROVE Conserved
    OBVIOUS
  <2>1. EventsOK /\ BookOK
    BY DEF Inv, QueuesOK
  <2>2. /\ IsFiniteSet(Rests) /\ Rests \in SUBSET DOMAIN mem
        /\ \A o \in DOMAIN mem : mem[o].amount \in Nat
    BY <2>1, AmountsRest
  <2>3. Total(SetToSeq(Rests)) = RestSum
    BY <2>2, TotalOfSet DEF RestSum
  <2> QED BY <2>3 DEF Balanced, Conserved, Rests, Pending
<1> QED BY <1>1, <1>2, <1>3, Invariance, PTL DEF Spec

\* Each turn of the matching loop takes something off the order that came in, so that no order
\* is matched for ever.
THEOREM MatchingShrinks ==
  Spec => [][MatchOne => mem'[ev].amount \in Nat /\ mem'[ev].amount < mem[ev].amount]_vars
<1>1. Inv /\ [Next]_vars =>
        [MatchOne => mem'[ev].amount \in Nat /\ mem'[ev].amount < mem[ev].amount]_vars
  <2> SUFFICES ASSUME Inv, MatchOne
               PROVE  mem'[ev].amount \in Nat /\ mem'[ev].amount < mem[ev].amount
    OBVIOUS
  <2>0. EventsOK /\ BookOK /\ NotYetIn
    BY DEF Inv, QueuesOK
  <2>1. Match /\ stage = "match" /\ Crosses(mem[ev])
    BY DEF MatchOne, Match
  <2>2. ev \in DOMAIN mem /\ Outside(ev)
    BY <2>0, <2>1, MemIs DEF NotYetIn
  <2>3. PICK price, r, traded : Matched(price, r) /\ Exchanged(r, traded)
    BY <2>0, <2>1, <2>2, MatchIs
  <2>4. mem[ev].amount \in Nat /\ mem[ev].amount > 0
    BY <2>0, <2>1, <2>2 DEF Crosses, BookOK, MemOK, EventType
  <2>5. mem[r].amount > 0
    <3> DEFINE other == Opposite(mem[ev].side)
    <3>1. other \in Side /\ price \in DOMAIN levels[other] /\ r \in ToSet(levels[other][price])
      BY <2>3 DEF Matched
    <3>2. QueuesSound
      BY <2>0 DEF BookOK
    <3> HIDE DEF other
    <3> QED BY <3>1, <3>2, Queued
  <2>6. /\ traded \in 0..mem[ev].amount /\ (traded = mem[ev].amount \/ traded = mem[r].amount)
        /\ mem'[ev].amount = mem[ev].amount - traded
    BY <2>3 DEF Exchanged
  <2> QED BY <2>4, <2>5, <2>6
<1> QED BY <1>1, Invariance, PTL DEF Spec
=============================================================================
