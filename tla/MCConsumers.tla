----------------------------- MODULE MCConsumers -----------------------------
(***************************************************************************)
(* SnapshotConsumers for TLC: a consumer object is the program it is in    *)
(* with the channel it was opened for.                                     *)
(***************************************************************************)
EXTENDS SnapshotConsumers, TLC

CONSTANTS monitor, test, simple, csv

Kinds == (monitor :> "monitor") @@ (test :> "test") @@ (simple :> "simple")
CsvConsumer == <<csv, "fod">>
Consumers == {CsvConsumer} \cup {<<p, ch>> \in Program \X Channel : ch \in ToSet(Polls(p))}
Sources == [c \in Consumers |-> c[2]]
Printers == {CsvConsumer, <<test, "fod">>}

Groups == {{monitor}, {simple}, {test}, {csv}}
=============================================================================
