------------------------------ MODULE OrderQueue ------------------------------
(***************************************************************************)
(* The std::list of the orders at one price, as both definitions of class  *)
(* OrderBook use it.  Appending to it and taking from its front are        *)
(* operators of Sequences.                                                 *)
(***************************************************************************)
EXTENDS Integers, Sequences

\* pit->second.remove(orig): the queue without any occurrence of order o.
Removed(queue, o) ==
  LET kept[i \in 0..Len(queue)] ==
        IF i = 0 THEN <<>>
        ELSE IF queue[i] = o THEN kept[i - 1] ELSE Append(kept[i - 1], queue[i])
  IN kept[Len(queue)]
=============================================================================
