--------------------------- MODULE ConsumerPrograms ---------------------------
(***************************************************************************)
(* The programs that poll the snapshot regions until a signal stops them:  *)
(* simple_consumer.cc and snapshot_monitor.cc, each with a consumer object *)
(* on either region, and test_fod_reader.cc with one on the full depth.    *)
(*                                                                         *)
(* The monitor and the test program map the regions once more before they  *)
(* make their objects, the monitor for its statistics.  A consumer object  *)
(* whose region could not be opened stays without one for good; a program  *)
(* goes on as long as one of its objects has a region.  Touching a region  *)
(* between its shm_open and its ftruncate kills the program.               *)
(***************************************************************************)
EXTENDS SnapshotChannel

CONSTANTS
  Program,  \* running programs; program p has the consumers <<p, channel>>
  Kind      \* Kind[p]: "simple", "monitor" or "test"

Polls(p) == IF Kind[p] = "test" THEN <<"fod">> ELSE <<"tob", "fod">>

ASSUME ProgramAssumption ==
  /\ Kind \in [Program -> {"simple", "monitor", "test"}]
  /\ {c \in Consumer : c[1] \in Program} =
       {c \in Program \X Channel : c[2] \in ToSet(Polls(c[1]))}
  /\ \A c \in Consumer : Source[c] = c[2]
  /\ {c \in Printing : c[1] \in Program} =
       {c \in Consumer : c[1] \in Program /\ Kind[c[1]] = "test"}

VARIABLES
  pc,       \* pc[p]: "map", "construct", "check", "head", "poll", "read", "close",
            \* "done" or "crashed"
  turn,     \* turn[p]: which of its channels p is busy with
  mapped,   \* mapped[p]: the regions p has mapped directly
  running   \* running[p]: no signal yet

programVars == <<pc, turn, mapped, running>>

Ended(p) == pc[p] \in {"done", "crashed"}
Chan(p) == Polls(p)[turn[p]]
Object(p) == <<p, Chan(p)>>
LastTurn(p) == turn[p] = Len(Polls(p))

\* The signal handlers are set first; a signal before that leaves nothing behind.
ProgramInit ==
  /\ pc = [p \in Program |-> IF Kind[p] = "simple" THEN "construct" ELSE "map"]
  /\ turn = [p \in Program |-> 1]
  /\ mapped = [p \in Program |-> {}]
  /\ running = [p \in Program |-> TRUE]

\* The next channel of the same loop, or on to step next with the first one.
Advance(p, next) ==
  /\ pc' = [pc EXCEPT ![p] = IF LastTurn(p) THEN next ELSE @]
  /\ turn' = [turn EXCEPT ![p] = IF LastTurn(p) THEN 1 ELSE @ + 1]

\* The process dies with what it had attached.
Crash(p) ==
  /\ pc' = [pc EXCEPT ![p] = "crashed"]
  /\ proc' = [c \in Consumer |-> IF c[1] = p THEN "dead" ELSE proc[c]]
  /\ leaked' = [ch \in Channel |->
                  leaked[ch] + Cardinality({c \in {<<p, ch>>} \cap Consumer : Attached(c)})]
  /\ UNCHANGED <<publisherVars, active_consumers, last_seen, got, unread, turn, mapped, running>>

\* open_tob_shm(), open_fod_shm(): read-only mappings.  The test program looks into
\* its region at once; without any mapping a program ends.
MapRegion(p) ==
  /\ pc[p] = "map"
  /\ IF Kind[p] = "test" /\ region[Chan(p)] = "empty" THEN Crash(p)
     ELSE /\ mapped' = [mapped EXCEPT ![p] =
                          IF region[Chan(p)] = "absent" THEN @ ELSE @ \cup {Chan(p)}]
          /\ Advance(p, IF mapped'[p] = {} THEN "done" ELSE "construct")
          /\ UNCHANGED <<vars, running>>

\* The constructors of the consumer objects.
Construct(p) ==
  /\ pc[p] = "construct"
  /\ CASE region[Chan(p)] = "empty" -> Crash(p)
       [] region[Chan(p)] = "ready" ->
            Open(Object(p)) /\ Advance(p, "check") /\ UNCHANGED <<mapped, running>>
       [] OTHER -> Advance(p, "check") /\ UNCHANGED <<vars, mapped, running>>

\* is_valid()
CheckValid(p) ==
  /\ pc[p] = "check"
  /\ pc' = [pc EXCEPT ![p] =
              IF \E c \in Consumer : c[1] = p /\ Attached(c) THEN "head" ELSE "done"]
  /\ UNCHANGED <<vars, turn, mapped, running>>

\* The flag is looked at only after something new has come.
TestFlag_Faulty(p) ==
  /\ pc[p] = "head"
  /\ running[p] \/ \E c \in Consumer : c[1] = p /\ last_seen[c] < last_seq[Source[c]]
  /\ IF running[p]
       THEN pc' = [pc EXCEPT ![p] = "poll"] /\ UNCHANGED turn
       ELSE /\ pc' = [pc EXCEPT ![p] = "close"]
            /\ turn' = [turn EXCEPT ![p] = Len(Polls(p))]
  /\ UNCHANGED <<vars, mapped, running>>

\* while (running), after the statistics and the sleep of the last round.
TestFlag(p) ==
  /\ pc[p] = "head"
  /\ IF running[p]
       THEN pc' = [pc EXCEPT ![p] = "poll"] /\ UNCHANGED turn
       ELSE /\ pc' = [pc EXCEPT ![p] = "close"]
            /\ turn' = [turn EXCEPT ![p] = Len(Polls(p))]
  /\ UNCHANGED <<vars, mapped, running>>

\* Has_new_snapshot() of an object without a region ends the round.
Poll_Faulty(p) ==
  /\ pc[p] = "poll"
  /\ IF Attached(Object(p)) /\ last_seq[Chan(p)] > last_seen[Object(p)]
       THEN HasNewSnapshot(Object(p)) ELSE UNCHANGED vars
  /\ IF ~Attached(Object(p))
       THEN pc' = [pc EXCEPT ![p] = "head"] /\ turn' = [turn EXCEPT ![p] = 1]
       ELSE Advance(p, IF proc'[Object(p)] = "reading" THEN "read" ELSE "head")
  /\ UNCHANGED <<mapped, running>>

\* has_new_snapshot() and the counting of what it finds.
Poll(p) ==
  /\ pc[p] = "poll"
  /\ IF Attached(Object(p)) /\ last_seq[Chan(p)] > last_seen[Object(p)]
       THEN HasNewSnapshot(Object(p)) ELSE UNCHANGED vars
  /\ Advance(p, IF proc'[Object(p)] = "reading" THEN "read" ELSE "head")
  /\ UNCHANGED <<mapped, running>>

\* The test program prints the fields of the snapshot.
Read(p, f) ==
  /\ pc[p] = "read"
  /\ ReadField(Object(p), f)
  /\ pc' = [pc EXCEPT ![p] = IF proc'[Object(p)] = "reading" THEN @ ELSE "head"]
  /\ UNCHANGED <<turn, mapped, running>>

\* main() returns: the destructors, last object first.
Destroy(p) ==
  /\ pc[p] = "close"
  /\ IF Attached(Object(p)) THEN Close(Object(p)) ELSE UNCHANGED vars
  /\ pc' = [pc EXCEPT ![p] = IF turn[p] = 1 THEN "done" ELSE @]
  /\ turn' = [turn EXCEPT ![p] = IF @ = 1 THEN 1 ELSE @ - 1]
  /\ UNCHANGED <<mapped, running>>

\* signal_handler()
Signal(p) ==
  /\ running[p] /\ ~Ended(p)
  /\ running' = [running EXCEPT ![p] = FALSE]
  /\ UNCHANGED <<vars, pc, turn, mapped>>

\* SIGKILL
Kill(p) ==
  /\ ~Ended(p)
  /\ \A ch \in Channel : leaked[ch] < MaxLeaks
  /\ Crash(p)
-----------------------------------------------------------------------------
ProgramStep(p) ==
  \/ MapRegion(p) \/ Construct(p) \/ CheckValid(p) \/ TestFlag(p) \/ Poll(p)
  \/ \E f \in Field : Read(p, f)
  \/ Destroy(p)

ProgramNext(p) == ProgramStep(p) \/ Signal(p) \/ Kill(p)
-----------------------------------------------------------------------------
\* What an object has been told of, numbers it skipped included.
ToldSoFar(c) == ToSet(SubSeq(carried[Source[c]], 1, last_seen[c]))

\* A program polls the top before the depth, so it may be told of an event's depth
\* first; but once it has polled the top again it has been told of the top of
\* every such event.
TopFollows ==
  \A p \in Program :
    pc[p] = "poll" /\ turn[p] = 2 /\ Attached(<<p, "tob">>) =>
      ToldSoFar(<<p, "fod">>) \cap tops \subseteq ToldSoFar(<<p, "tob">>)

\* A signal stops a program wherever it is, within the round it is in, and whether
\* or not anything is published.
StopsOnSignal == \A p \in Program : ~running[p] ~> Ended(p)

\* A program keeps catching up with what is announced on each region it could open,
\* also when it could open only one of them.
KeepsPolling ==
  \A p \in Program : \A ch \in ToSet(Polls(p)) :
    pc[p] = "head" /\ Attached(<<p, ch>>)
      ~> (last_seen[<<p, ch>>] = last_seq[ch] \/ ~running[p] \/ Ended(p))
=============================================================================
