------------------------------- MODULE TwoBooks -------------------------------
(***************************************************************************)
(* The repository defines class OrderBook twice, with the same functions,  *)
(* in order_book.cc and order_book_manager.cc.  Until the first order that *)
(* comes in crosses the other side, a program cannot tell which one it was *)
(* linked with: up to there OrderFlow implements PassiveBook.              *)
(*                                                                         *)
(* passive is what the book held after the last event that both books      *)
(* treat alike.  An event takes several steps here and one there: it       *)
(* counts when its matching loop has been left.                            *)
(***************************************************************************)
EXTENDS OrderFlow

\* shm_writer.cc:32 draws amounts from 1 on.  An order of no amount would tell the books
\* apart: only the passive one keeps it.
ASSUME TwoAssumption == 0 \notin Amount

\* History.
VARIABLES
  passive,  \* the book both definitions agree on
  crossed   \* an order has come in that trades

twoVars == <<vars, passive, crossed>>

Contents ==
  [mem |-> mem, levels |-> levels, order_map |-> order_map,
   last_price |-> last_price, volume |-> volume, last_aggression |-> last_aggression]

\* The event that has come in has somebody to trade with.
CrossesOnArrival == stage = "match" /\ Crosses(mem[ev])

TwoInit == Init /\ passive = Contents /\ crossed = FALSE

\* Added to every step.
Follow ==
  /\ crossed' = (crossed \/ CrossesOnArrival')
  /\ passive' = IF crossed' \/ stage' = "match" THEN passive ELSE Contents'

TwoNext == Next /\ Follow

TwoSpec == TwoInit /\ [][TwoNext]_twoVars

FairTwo ==
  /\ TwoSpec
  /\ WF_twoVars(MatchOne /\ Follow)
  /\ WF_twoVars(RestRemainder /\ Follow)
  /\ WF_twoVars(Publish /\ Follow)

Passive == INSTANCE PassiveBook WITH
  mem <- passive.mem,
  levels <- passive.levels,
  order_map <- passive.order_map,
  last_price <- passive.last_price,
  volume <- passive.volume,
  last_aggression <- passive.last_aggression

\* Before orders cross, the matching book does what the passive one does: the same
\* queues in the same order, the same index, the same figures of the last trade.
PassiveSpec == Passive!Spec
=============================================================================
