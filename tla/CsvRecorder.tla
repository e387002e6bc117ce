----------------------------- MODULE CsvRecorder -----------------------------
(***************************************************************************)
(* The program of src/example/fod_parquet_writer.cc: a consumer of the     *)
(* full-depth region that writes one line of a CSV file for every snapshot *)
(* it is told of.                                                          *)
(*                                                                         *)
(* add_snapshot() is given a reference into the region.  It first goes     *)
(* over the depth to add up volumes and spread, and then over the snapshot *)
(* again to write its columns, while shm_reader may store the next one.    *)
(* Every line ends in std::endl, so it reaches the file at once or breaks  *)
(* the stream; the batch counter only decides when flush() is called on a  *)
(* stream that holds nothing.  run() never returns: SIGINT ends the        *)
(* process, before its handler is there by default, afterwards by exit(0), *)
(* and neither runs a destructor of main's locals.                         *)
(*                                                                         *)
(* A line is the record of the publications its values come from.          *)
(***************************************************************************)
EXTENDS SnapshotChannel

CONSTANTS
  recorder,    \* the consumer that is this program
  Summed,      \* the fields add_snapshot() reads for its derived columns
  BatchSize,   \* FODDataWriter's batch_size: its default, as the one on the command
               \* line is not passed on
  MaxRuns      \* bound: times the program is started

ASSUME RecorderAssumption ==
  /\ recorder \in Consumer /\ Source[recorder] = "fod" /\ recorder \in Printing
  /\ Summed \subseteq Field
  /\ BatchSize \in Nat \ {0} /\ MaxRuns \in Nat

VARIABLES
  step,           \* "off", "connected", "opened", "headed", "polling", "summing",
                  \* "writing", "failed" by an exception, "killed", or "stopped"
                  \* by the handler
  sums,           \* sums[f]: publication whose f went into the derived columns
  unsummed,       \* fields still to be added up
  file,           \* the lines in the file of this run, the last one maybe cut short
  good,           \* the state of the stream: no write has failed
  current_batch_  \* lines since the last flush_batch()

\* History.
VARIABLES
  runs,     \* program starts
  composed  \* the lines of this run: number told, publications added up and written

recorderVars == <<step, sums, unsummed, file, good, current_batch_, runs, composed>>

NoSums == [f \in Summed |-> 0]

\* A line of which only part reached the file.
Cut == [number |-> 0, sums |-> NoSums, columns |-> [f \in Field |-> 0]]

RecorderInit ==
  /\ step = "off"
  /\ sums = NoSums /\ unsummed = {}
  /\ file = <<>> /\ good = TRUE
  /\ current_batch_ = 0
  /\ runs = 0 /\ composed = <<>>
-----------------------------------------------------------------------------
\* consumer_(shm_name): attaches, keeps a null pointer, or dies of SIGBUS.
Connect ==
  /\ step \in {"off", "failed", "killed", "stopped"} /\ proc[recorder] = "off"
  /\ runs < MaxRuns
  /\ runs' = runs + 1
  /\ IF region["fod"] = "absent" THEN UNCHANGED vars ELSE Open(recorder)
  /\ step' = IF region["fod"] = "empty" THEN "killed" ELSE "connected"
  /\ file' = <<>> /\ good' = TRUE
  /\ current_batch_' = 0
  /\ composed' = <<>>
  /\ UNCHANGED <<sums, unsummed>>

\* The program is gone, and its consumer still counted.
Unwind_Faulty ==
  /\ proc' = [proc EXCEPT ![recorder] = "off"]
  /\ UNCHANGED <<publisherVars, active_consumers, last_seen, got, unread, leaked>>

\* An exception in the constructor destroys consumer_, if it was attached.
Unwind == IF Attached(recorder) THEN Close(recorder) ELSE UNCHANGED vars

\* writer_(output_dir): open_new_file() throws when the file cannot be opened.
OpenFile ==
  /\ step = "connected"
  /\ \/ step' = "opened" /\ UNCHANGED vars
     \/ step' = "failed" /\ Unwind
  /\ UNCHANGED <<sums, unsummed, file, good, current_batch_, runs, composed>>

\* write_headers(): a failed write shows in the stream only.
WriteHeaders ==
  /\ step = "opened"
  /\ step' = "headed"
  /\ good' \in BOOLEAN
  /\ UNCHANGED <<vars, sums, unsummed, file, current_batch_, runs, composed>>

\* The constructor's test of consumer_, after the file was made.
CheckConsumer ==
  /\ step = "headed"
  /\ step' = IF Attached(recorder) THEN "polling" ELSE "failed"
  /\ UNCHANGED <<vars, sums, unsummed, file, good, current_batch_, runs, composed>>

\* The sums go on from those of the line before.
RunPoll_Faulty ==
  /\ step = "polling"
  /\ HasNewSnapshot(recorder)
  /\ step' = IF composed = <<>> THEN "summing" ELSE "writing"
  /\ unsummed' = IF composed = <<>> THEN Summed ELSE {}
  /\ UNCHANGED <<sums, file, good, current_batch_, runs, composed>>

\* Only the number that follows the last one is new.
RunPoll_Next_Faulty ==
  /\ step = "polling"
  /\ last_seq["fod"] = last_seen[recorder] + 1
  /\ HasNewSnapshot(recorder)
  /\ step' = "summing"
  /\ sums' = NoSums /\ unsummed' = Summed
  /\ UNCHANGED <<file, good, current_batch_, runs, composed>>

\* run() is told of a snapshot and calls add_snapshot().
RunPoll ==
  /\ step = "polling"
  /\ HasNewSnapshot(recorder)
  /\ step' = "summing"
  /\ sums' = NoSums /\ unsummed' = Summed
  /\ UNCHANGED <<file, good, current_batch_, runs, composed>>

\* Spread and volumes, from the region.
AddUp(f) ==
  /\ step = "summing"
  /\ f \in unsummed
  /\ sums' = [sums EXCEPT ![f] = latest["fod"][f]]
  /\ unsummed' = unsummed \ {f}
  /\ step' = IF unsummed' = {} THEN "writing" ELSE step
  /\ UNCHANGED <<vars, file, good, current_batch_, runs, composed>>

\* A column, from the region again.
WriteColumn(f) ==
  /\ step = "writing"
  /\ ReadField(recorder, f)
  /\ UNCHANGED recorderVars

Line == [number |-> last_seen[recorder], sums |-> sums, columns |-> got[recorder]]

\* Lines stay in the stream's buffer until the batch is full.
Written_Faulty(ok) ==
  /\ file' = IF good /\ ok /\ current_batch_ + 1 >= BatchSize
               THEN Append(composed, Line) ELSE file
  /\ good' = (good /\ ok)

\* std::endl writes the line out; a failed write may leave part of it in the file,
\* and a stream that is not good takes nothing more.
Written(ok) ==
  /\ file' = IF good THEN Append(file, IF ok THEN Line ELSE Cut) ELSE file
  /\ good' = (good /\ ok)

\* The end of add_snapshot().
EndLine(ok) ==
  /\ step = "writing" /\ proc[recorder] = "polling"
  /\ Written(ok)
  /\ composed' = Append(composed, Line)
  /\ current_batch_' = IF current_batch_ + 1 >= BatchSize THEN 0 ELSE current_batch_ + 1
  /\ step' = "polling"
  /\ UNCHANGED <<vars, sums, unsummed, runs>>

Recording == step \in {"polling", "summing", "writing"}

\* SIGINT: its handler is there once the constructor is done, and calls exit(0),
\* which runs no destructor of main's locals either.  What the stream's buffer
\* holds of a line is lost.
Interrupt ==
  /\ Recording \/ step \in {"connected", "opened", "headed"}
  /\ step' = IF Recording THEN "stopped" ELSE "killed"
  /\ IF Attached(recorder) THEN Vanish(recorder) ELSE UNCHANGED vars
  /\ UNCHANGED <<sums, unsummed, file, good, current_batch_, runs, composed>>
-----------------------------------------------------------------------------
\* The steps run() takes by itself.
RecorderRuns ==
  \/ RunPoll
  \/ \E f \in Summed : AddUp(f)
  \/ \E f \in Field : WriteColumn(f)
  \/ \E ok \in BOOLEAN : EndLine(ok)

RecorderNext == Connect \/ OpenFile \/ WriteHeaders \/ CheckConsumer \/ RecorderRuns \/ Interrupt
-----------------------------------------------------------------------------
\* Whenever the process dies, the file holds every line that add_snapshot() has
\* counted, in order and whole, up to the first write that failed, of which there
\* may be a part; and fewer lines than a batch wait for their flush().
FileHoldsLines ==
  /\ current_batch_ < BatchSize
  /\ IF good THEN file = composed
     ELSE file = <<>> \/ (Last(file) = Cut /\ IsStrictPrefix(Front(file), composed))

\* A line's derived columns are never older than the snapshot it was written for,
\* never newer than its own columns, and those never newer than the sums of the
\* next line: publications that overlap a line only ever mix it forwards.
LinesInOrder ==
  \A i \in DOMAIN composed : \A f \in Summed :
    /\ carried["fod"][composed[i].number] <= composed[i].sums[f]
    /\ composed[i].sums[f] <= composed[i].columns[f]
    /\ i < Len(composed) =>
         /\ composed[i].number < composed[i + 1].number
         /\ composed[i].columns[f] <= composed[i + 1].sums[f]

\* A program that goes on polling writes a line for every snapshot announced, or
\* for a later one, as long as its stream is good.
EventuallyWritten ==
  \A n \in 1..MaxPublished :
    (step = "polling" /\ good /\ last_seq["fod"] >= n)
      ~> (~Recording \/ ~good \/ \E i \in DOMAIN file : file[i].number >= n)
=============================================================================
