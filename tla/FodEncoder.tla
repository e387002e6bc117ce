------------------------------ MODULE FodEncoder ------------------------------
(***************************************************************************)
(* FODParquetEncoder of src/example/parquet_encoder.cc: rows are collected *)
(* in columns, and every BATCH_SIZE of them go into a file of their own    *)
(* named after the time in milliseconds.                                   *)
(*                                                                         *)
(* Every call of Arrow may throw; the exception leaves add_snapshot(),     *)
(* flush_batch() or close() with the rows still in the columns, and what   *)
(* the library has left of the file is not known.  The caller may go on.   *)
(* The destructor calls close(), and an exception there ends the process.  *)
(* Rows are named by their number, files by the time of their name.        *)
(***************************************************************************)
EXTENDS Integers, Sequences, SequencesExt

CONSTANTS
  BatchSize,    \* BATCH_SIZE: 10000
  MaxRows,      \* bound: snapshots added
  MaxTime,      \* bound: milliseconds
  MaxFailures   \* bound: calls of Arrow that throw

ASSUME EncoderAssumption ==
  BatchSize \in Nat \ {0} /\ MaxRows \in Nat /\ MaxTime \in Nat /\ MaxFailures \in Nat

VARIABLES
  columns,   \* the rows of the batch
  total,     \* total_snapshots_
  files,     \* files[t]: the rows a reader finds in the file named t
  pc,        \* "ready", a step of flush_batch(), "gone" or "aborted"
  ending,    \* the destructor is running
  name,      \* the name of the file being written
  clock      \* milliseconds

\* History.
VARIABLES
  written,   \* names of the files written to their end, in order
  failures,  \* calls that threw
  replaced   \* a file that held rows was opened again

vars == <<columns, total, files, pc, ending, name, clock, written, failures, replaced>>

Init ==
  /\ columns = <<>> /\ total = 0
  /\ files = [t \in 0..MaxTime |-> <<>>]
  /\ pc = "ready" /\ ending = FALSE
  /\ name = 0 /\ clock = 0
  /\ written = <<>> /\ failures = 0 /\ replaced = FALSE

Tick ==
  /\ clock < MaxTime
  /\ clock' = clock + 1
  /\ UNCHANGED <<columns, total, files, pc, ending, name, written, failures, replaced>>

\* add_snapshot(), up to the flush of a full batch.
AddSnapshot ==
  /\ pc = "ready"
  /\ total < MaxRows
  /\ total' = total + 1
  /\ columns' = Append(columns, total')
  /\ pc' = IF Len(columns') >= BatchSize THEN "batch" ELSE "ready"
  /\ UNCHANGED <<files, ending, name, clock, written, failures, replaced>>

\* A batch is flushed only when it is full.
Flushed_Faulty == Len(columns) < BatchSize

\* flush_batch() returns at once
Flushed == columns = <<>>

\* flush_batch() or close(), called from outside
Flush ==
  /\ pc = "ready"
  /\ ~Flushed
  /\ pc' = "batch"
  /\ UNCHANGED <<columns, total, files, ending, name, clock, written, failures, replaced>>

\* The destructor, and the close() in it.
Destroy ==
  /\ pc = "ready"
  /\ ending' = TRUE
  /\ pc' = IF Flushed THEN "gone" ELSE "batch"
  /\ UNCHANGED <<columns, total, files, name, clock, written, failures, replaced>>

\* create_batch() has copied the columns; the file gets its name.
GenerateFilename ==
  /\ pc = "batch"
  /\ name' = clock
  /\ pc' = "open"
  /\ UNCHANGED <<columns, total, files, ending, clock, written, failures, replaced>>

\* FileOutputStream::Open() empties a file of that name.
OpenFile ==
  /\ pc = "open"
  /\ files' = [files EXCEPT ![name] = <<>>]
  /\ replaced' = (replaced \/ files[name] # <<>>)
  /\ pc' = "write"
  /\ UNCHANGED <<columns, total, ending, name, clock, written, failures>>

\* WriteRecordBatch() and Close()
WriteFile ==
  /\ pc = "write"
  /\ files' = [files EXCEPT ![name] = columns]
  /\ written' = Append(written, name)
  /\ pc' = "clear"
  /\ UNCHANGED <<columns, total, ending, name, clock, failures, replaced>>

\* The batch is forgotten whether it was written or not.
Fail_Faulty ==
  /\ pc \in {"batch", "open", "write"}
  /\ failures < MaxFailures
  /\ failures' = failures + 1
  /\ columns' = <<>>
  /\ pc' = IF ending THEN "aborted" ELSE "ready"
  /\ UNCHANGED <<total, files, ending, name, clock, written, replaced>>

\* PARQUET_THROW_NOT_OK throws, before or after the rows have reached the file.
Fail ==
  /\ pc \in {"batch", "open", "write"}
  /\ failures < MaxFailures
  /\ failures' = failures + 1
  /\ \E rows \in {<<>>, columns} :
        files' = IF pc = "write" THEN [files EXCEPT ![name] = rows] ELSE files
  /\ pc' = IF ending THEN "aborted" ELSE "ready"
  /\ UNCHANGED <<columns, total, ending, name, clock, written, replaced>>

\* The columns keep their rows.
ClearBatchData_Faulty ==
  /\ pc = "clear"
  /\ pc' = IF ending THEN "gone" ELSE "ready"
  /\ UNCHANGED <<columns, total, files, ending, name, clock, written, failures, replaced>>

\* clear_batch_data(), and the return from the flush
ClearBatchData ==
  /\ pc = "clear"
  /\ columns' = <<>>
  /\ pc' = IF ending THEN "gone" ELSE "ready"
  /\ UNCHANGED <<total, files, ending, name, clock, written, failures, replaced>>

Next ==
  \/ Tick \/ AddSnapshot \/ Flush \/ Destroy
  \/ GenerateFilename \/ OpenFile \/ WriteFile \/ Fail \/ ClearBatchData

Spec == Init /\ [][Next]_vars
-----------------------------------------------------------------------------
InFiles == UNION {ToSet(files[t]) : t \in 0..MaxTime}

\* Whatever throws, each row added is in the columns or in a file, until two
\* batches are written within a millisecond: the second replaces the first.
NothingLost == ~replaced => 1..total \subseteq ToSet(columns) \cup InFiles

\* Without a failure no row is written twice, and the files, in the order they
\* were written, hold the rows in the order they were added.
RowsOnce ==
  failures = 0 /\ ~replaced /\ pc = "ready" =>
    FlattenSeq([i \in DOMAIN written |-> files[written[i]]]) \o columns
      = [n \in 1..total |-> n]

\* The destructor leaves nothing in memory: it ends with all rows in files, or
\* takes the process down.
ClosedComplete == pc = "gone" /\ ~replaced => 1..total \subseteq InFiles
=============================================================================
