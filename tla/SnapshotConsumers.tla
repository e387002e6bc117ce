-------------------------- MODULE SnapshotConsumers --------------------------
(***************************************************************************)
(* shm_reader's publishing and the programs that consume it, on the same   *)
(* two regions: the CSV program of CsvRecorder and those of                *)
(* ConsumerPrograms.  Which of them are ever started is chosen once, as    *)
(* the people who run them do.                                             *)
(***************************************************************************)
EXTENDS CsvRecorder, ConsumerPrograms

CONSTANT Casts  \* sets of programs that may be run together

Csv == recorder[1]

ASSUME CastAssumption ==
  /\ Csv \notin Program
  /\ \A k \in Casts : k \subseteq Program \cup {Csv}

VARIABLE cast  \* the programs of this behaviour

allVars == <<vars, recorderVars, programVars, cast>>

AllInit == Init /\ RecorderInit /\ ProgramInit /\ cast \in Casts

Publishing == PublisherNext /\ UNCHANGED <<recorderVars, programVars, cast>>
Records(step_) == Csv \in cast /\ step_ /\ UNCHANGED <<programVars, cast>>
Runs(p, step_) == p \in cast /\ step_ /\ UNCHANGED <<recorderVars, cast>>

AllNext ==
  \/ Publishing
  \/ Records(RecorderNext)
  \/ \E p \in Program : Runs(p, ProgramNext(p))

AllSpec == AllInit /\ [][AllNext]_allVars

\* Programs poll and sleep by themselves.  Starting the CSV program, signals and
\* publications need not come.
FairAll ==
  /\ AllSpec
  /\ WF_allVars(Records(RecorderRuns))
  /\ \A p \in Program : WF_allVars(Runs(p, ProgramStep(p)))
=============================================================================
