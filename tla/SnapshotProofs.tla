---------------------------- MODULE SnapshotProofs ----------------------------
(***************************************************************************)
(* The snapshot regions and the programs that poll them, for any finite    *)
(* set of consumers, any fields and any number of publications: what a     *)
(* consumer reads is as new as it was told, the consumer counts are exact, *)
(* the regions implement the abstract feed, and what the CSV program and   *)
(* the polling programs make of them is in order.                          *)
(***************************************************************************)
EXTENDS SnapshotConsumers, SequenceTheorems, FiniteSetTheorems, TLAPS

\* The part of a program's death that shows on the regions.
ProcessDies(p) ==
  /\ proc' = [c \in Consumer |-> IF c[1] = p THEN "dead" ELSE proc[c]]
  /\ leaked' = [ch \in Channel |->
                  leaked[ch] + Cardinality({c \in {<<p, ch>>} \cap Consumer : Attached(c)})]
  /\ UNCHANGED <<publisherVars, active_consumers, last_seen, got, unread>>

\* Whatever the programs do, this is what consumers do to the regions.
ConsumerStep(c) ==
  \/ Open(c) \/ HasNewSnapshot(c) \/ Close(c) \/ Vanish(c)
  \/ \E f \in Field : ReadField(c, f)

ChannelNext ==
  \/ PublisherNext
  \/ \E c \in Consumer : ConsumerStep(c)
  \/ \E p \in Program : ProcessDies(p)

-----------------------------------------------------------------------------
PublisherTypeOK ==
  /\ region \in [Channel -> {"absent", "empty", "ready"}]
  /\ last_seq \in [Channel -> Nat]
  /\ latest \in [Channel -> [Field -> Nat]]
  /\ todo \in {<<>>, <<"fod">>, <<"tob", "fod">>} /\ unstored \subseteq Field
  /\ made \in Nat /\ tops \subseteq Nat /\ deaths \in Nat
  /\ carried \in [Channel -> Seq(Nat)]

ConsumerTypeOK ==
  /\ active_consumers \in [Channel -> Int] /\ leaked \in [Channel -> Nat]
  /\ proc \in [Consumer -> {"off", "polling", "reading", "dead"}]
  /\ last_seen \in [Consumer -> Nat]
  /\ got \in [Consumer -> [Field -> Nat]]
  /\ unread \in [Consumer -> SUBSET Field]

\* Announced publications have increasing numbers, and the one being stored is not yet
\* among those of the channels it is still to go to.
Announced ==
  \A ch \in Channel :
    /\ last_seq[ch] = Len(carried[ch])
    /\ \A i \in 1..Len(carried[ch]) : carried[ch][i] \in 1..made
    /\ \A i, j \in 1..Len(carried[ch]) : i < j => carried[ch][i] < carried[ch][j]
    /\ ch \in ToSet(todo) => \A i \in 1..Len(carried[ch]) : carried[ch][i] < made

\* A region holds what was announced last or parts of something newer, and all of the
\* current publication but the fields not stored yet.
Stored ==
  /\ \A ch \in Channel : \A f \in Field :
       /\ latest[ch][f] <= made
       /\ \A i \in 1..Len(carried[ch]) : carried[ch][i] <= latest[ch][f]
  /\ todo # <<>> => made > 0 /\ \A f \in Field \ unstored : latest[Head(todo)][f] = made

\* A consumer has been told of announcements only, and has read nothing that was not in
\* the region by then.
Informed ==
  \A c \in Consumer :
    /\ last_seen[c] <= Len(carried[Source[c]])
    /\ proc[c] = "reading" => last_seen[c] > 0 /\ c \in Printing
    /\ proc[c] = "polling" => unread[c] = {}
    /\ \A f \in Field : got[c][f] <= latest[Source[c]][f]

ChannelInv ==
  /\ PublisherTypeOK /\ ConsumerTypeOK
  /\ Announced /\ Stored /\ Informed
  /\ NotOlderThanTold /\ CountExact

-----------------------------------------------------------------------------
ProgramTypeOK ==
  /\ pc \in [Program -> {"map", "construct", "check", "head", "poll", "read", "close",
                         "done", "crashed"}]
  /\ turn \in [Program -> {1, 2}]
  /\ \A p \in Program : turn[p] <= Len(Polls(p))
  /\ mapped \in [Program -> SUBSET Channel]
  /\ running \in [Program -> BOOLEAN]
  /\ cast \in Casts

\* A program goes through its loops from the first channel on.
FromTheFirst == \A p \in Program : pc[p] \in {"check", "head", "read"} => turn[p] = 1

\* The top of an event is announced before its depth.
TopFirst ==
  /\ tops \subseteq 1..made
  /\ ToSet(carried["fod"]) \cap tops \subseteq ToSet(carried["tob"])
  /\ todo = <<"fod">> /\ made \in tops => made \in ToSet(carried["tob"])

ProgramInv == ProgramTypeOK /\ FromTheFirst /\ TopFirst /\ TopFollows
-----------------------------------------------------------------------------
\* The object a program is busy with is one of its own.
LEMMA OwnObject ==
  ASSUME ProgramTypeOK, NEW p \in Program
  PROVE  /\ Chan(p) \in Channel /\ Object(p) \in Consumer
         /\ Object(p) = <<p, Chan(p)>> /\ Source[Object(p)] = Chan(p)
<1>1. Chan(p) \in ToSet(Polls(p)) /\ Chan(p) \in Channel
  BY DEF ProgramTypeOK, Chan, Polls, ToSet, Channel
<1>2. <<p, Chan(p)>> \in {d \in Program \X Channel : d[2] \in ToSet(Polls(d[1]))}
  BY <1>1
<1>3. <<p, Chan(p)>> \in Consumer
  BY <1>2, ProgramAssumption
<1> QED BY <1>1, <1>3, ProgramAssumption DEF Object

LEMMA ProgramSteps ==
  ASSUME ProgramTypeOK, NEW p \in Program, ProgramNext(p)
  PROVE  ChannelNext \/ UNCHANGED vars
<1> DEFINE c == Object(p)
<1>1. c \in Consumer
  BY OwnObject
<1> HIDE DEF c
<1>2. ASSUME ConsumerStep(c) PROVE ChannelNext
  BY <1>1, <1>2 DEF ChannelNext
<1>3. ASSUME Crash(p) PROVE ChannelNext
  BY <1>3 DEF ChannelNext, Crash, ProcessDies
<1>4. CASE MapRegion(p)
  BY <1>3, <1>4 DEF MapRegion
<1>5. CASE Construct(p)
  BY <1>2, <1>3, <1>5 DEF Construct, ConsumerStep, c
<1>6. CASE CheckValid(p) \/ TestFlag(p) \/ Signal(p)
  BY <1>6 DEF CheckValid, TestFlag, Signal
<1>7. CASE Poll(p)
  BY <1>2, <1>7 DEF Poll, ConsumerStep, c
<1>8. CASE \E f \in Field : Read(p, f)
  BY <1>2, <1>8 DEF Read, ConsumerStep, c
<1>9. CASE Destroy(p)
  BY <1>2, <1>9 DEF Destroy, ConsumerStep, c
<1>10. CASE Kill(p)
  BY <1>3, <1>10 DEF Kill
<1> QED
  BY <1>4, <1>5, <1>6, <1>7, <1>8, <1>9, <1>10 DEF ProgramNext, ProgramStep

LEMMA RecorderSteps ==
  ASSUME RecorderNext
  PROVE  ChannelNext \/ UNCHANGED vars
<1>1. ASSUME ConsumerStep(recorder) PROVE ChannelNext
  BY <1>1, RecorderAssumption DEF ChannelNext
<1>2. CASE Connect
  BY <1>1, <1>2 DEF Connect, ConsumerStep
<1>3. CASE OpenFile
  BY <1>1, <1>3 DEF OpenFile, Unwind, ConsumerStep
<1>4. CASE WriteHeaders \/ CheckConsumer
  BY <1>4 DEF WriteHeaders, CheckConsumer
<1>5. CASE RunPoll
  BY <1>1, <1>5 DEF RunPoll, ConsumerStep
<1>6. CASE \E f \in Summed : AddUp(f)
  BY <1>6 DEF AddUp
<1>7. CASE \E f \in Field : WriteColumn(f)
  BY <1>1, <1>7 DEF WriteColumn, ConsumerStep
<1>8. CASE \E ok \in BOOLEAN : EndLine(ok)
  BY <1>8 DEF EndLine
<1>9. CASE Interrupt
  BY <1>1, <1>9 DEF Interrupt, ConsumerStep
<1> QED
  BY <1>2, <1>3, <1>4, <1>5, <1>6, <1>7, <1>8, <1>9 DEF RecorderNext, RecorderRuns

LEMMA ChannelSteps == ProgramTypeOK /\ [AllNext]_allVars => [ChannelNext]_vars
<1> SUFFICES ASSUME ProgramTypeOK, [AllNext]_allVars PROVE [ChannelNext]_vars
  OBVIOUS
<1>1. CASE Publishing
  BY <1>1 DEF Publishing, ChannelNext
<1>2. CASE Records(RecorderNext)
  BY <1>2, RecorderSteps DEF Records
<1>3. ASSUME NEW p \in Program, Runs(p, ProgramNext(p)) PROVE [ChannelNext]_vars
  BY <1>3, ProgramSteps DEF Runs
<1>4. CASE UNCHANGED allVars
  BY <1>4 DEF allVars
<1> QED BY <1>1, <1>2, <1>3, <1>4 DEF AllNext
-----------------------------------------------------------------------------
\* What is left to publish to.
LEMMA TodoFacts ==
  ASSUME PublisherTypeOK
  PROVE  /\ ToSet(<<>>) = {} /\ ToSet(<<"fod">>) = {"fod"} /\ ToSet(<<"tob", "fod">>) = Channel
         /\ todo # <<>> =>
              /\ Head(todo) \in Channel
              /\ Tail(todo) = IF Head(todo) = "tob" THEN <<"fod">> ELSE <<>>
              /\ ToSet(todo) = {Head(todo)} \cup ToSet(Tail(todo))
              /\ Head(todo) \notin ToSet(Tail(todo))
<1>1. ToSet(<<>>) = {} /\ ToSet(<<"fod">>) = {"fod"} /\ ToSet(<<"tob", "fod">>) = Channel
  BY DEF ToSet, Channel
<1>2. /\ Head(<<"fod">>) = "fod" /\ Tail(<<"fod">>) = <<>>
      /\ Head(<<"tob", "fod">>) = "tob" /\ Tail(<<"tob", "fod">>) = <<"fod">>
      /\ "tob" # "fod"
  OBVIOUS
<1>3. CASE todo = <<"fod">>
  BY <1>1, <1>2, <1>3 DEF Channel
<1>4. CASE todo = <<"tob", "fod">>
  BY <1>1, <1>2, <1>4 DEF Channel
<1>5. CASE todo = <<>>
  BY <1>1, <1>5
<1> QED BY <1>3, <1>4, <1>5 DEF PublisherTypeOK

LEMMA PublisherTypeStep ==
  ASSUME PublisherTypeOK, [ChannelNext]_vars
  PROVE  PublisherTypeOK'
<1> USE DEF PublisherTypeOK
<1>1. ASSUME NEW ch \in Channel, Create(ch) PROVE PublisherTypeOK'
  BY <1>1 DEF Create
<1>2. ASSUME NEW atTop \in BOOLEAN, BeginPublish(atTop) PROVE PublisherTypeOK'
  BY <1>2 DEF BeginPublish, Targets
<1>3. ASSUME NEW f \in Field, StoreField(f) PROVE PublisherTypeOK'
  <2>1. Head(todo) \in Channel
    BY <1>3, TodoFacts DEF StoreField
  <2> QED BY <1>3, <2>1 DEF StoreField
<1>4. CASE Announce
  <2> DEFINE ch == Head(todo)
  <2>1. ch \in Channel /\ Tail(todo) \in {<<>>, <<"fod">>}
    BY <1>4, TodoFacts DEF Announce
  <2> HIDE DEF ch
  <2>2. Append(carried[ch], made) \in Seq(Nat)
    BY <2>1, AppendProperties
  <2>3. carried' = [carried EXCEPT ![ch] = Append(carried[ch], made)]
    BY <1>4 DEF Announce, ch
  <2>4. carried' \in [Channel -> Seq(Nat)]
    BY <2>1, <2>2, <2>3
  <2>5. last_seq' \in [Channel -> Nat]
    BY <1>4, <2>1 DEF Announce, ch
  <2> QED BY <1>4, <2>1, <2>4, <2>5 DEF Announce
<1>5. CASE PublisherDies
  BY <1>5 DEF PublisherDies
<1>6. CASE UNCHANGED publisherVars
  BY <1>6 DEF publisherVars
<1>7. ASSUME NEW c \in Consumer, ConsumerStep(c) PROVE UNCHANGED publisherVars
  BY <1>7 DEF ConsumerStep, Open, HasNewSnapshot, ReadField, Close, Vanish
<1>8. ASSUME NEW p \in Program, ProcessDies(p) PROVE UNCHANGED publisherVars
  BY <1>8 DEF ProcessDies
<1> HIDE DEF PublisherTypeOK
<1> QED
  BY <1>1, <1>2, <1>3, <1>4, <1>5, <1>6, <1>7, <1>8 DEF ChannelNext, PublisherNext, vars

LEMMA FewConsumers ==
  ASSUME NEW S \in SUBSET Consumer
  PROVE  IsFiniteSet(S) /\ Cardinality(S) \in Nat
BY ChannelAssumption, FS_Subset, FS_CardinalityType

LEMMA ConsumerTypeStep ==
  ASSUME PublisherTypeOK, ConsumerTypeOK, [ChannelNext]_vars
  PROVE  ConsumerTypeOK'
<1>s. Source \in [Consumer -> Channel]
  BY ChannelAssumption
<1> USE DEF ConsumerTypeOK
<1>1. ASSUME NEW c \in Consumer, Open(c) PROVE ConsumerTypeOK'
  BY <1>1, <1>s DEF Open
<1>2. ASSUME NEW c \in Consumer, HasNewSnapshot(c) PROVE ConsumerTypeOK'
  BY <1>2, <1>s DEF HasNewSnapshot, PublisherTypeOK
<1>3. ASSUME NEW c \in Consumer, NEW f \in Field, ReadField(c, f) PROVE ConsumerTypeOK'
  <2>1. got' \in [Consumer -> [Field -> Nat]]
    <3>1. latest[Source[c]][f] \in Nat
      BY <1>s DEF PublisherTypeOK
    <3>2. got' = [got EXCEPT ![c] = [got[c] EXCEPT ![f] = latest[Source[c]][f]]]
      BY <1>3 DEF ReadField
    <3>3. [got[c] EXCEPT ![f] = latest[Source[c]][f]] \in [Field -> Nat]
      BY <3>1
    <3> QED BY <3>2, <3>3
  <2> QED BY <1>3, <2>1 DEF ReadField
<1>4. ASSUME NEW c \in Consumer, Close(c) PROVE ConsumerTypeOK'
  <2>1. active_consumers' \in [Channel -> Int]
    <3>1. /\ Source[c] \in Channel
          /\ active_consumers' = [active_consumers EXCEPT ![Source[c]] = @ - 1]
      BY <1>4, <1>s DEF Close
    <3> QED BY <3>1
  <2>2. proc' \in [Consumer -> {"off", "polling", "reading", "dead"}]
    BY <1>4 DEF Close
  <2> QED BY <1>4, <2>1, <2>2 DEF Close
<1>5. ASSUME NEW c \in Consumer, Vanish(c) PROVE ConsumerTypeOK'
  <2>1. leaked' \in [Channel -> Nat]
    <3>1. Source[c] \in Channel /\ leaked' = [leaked EXCEPT ![Source[c]] = @ + 1]
      BY <1>5, <1>s DEF Vanish
    <3> QED BY <3>1
  <2>2. proc' \in [Consumer -> {"off", "polling", "reading", "dead"}]
    BY <1>5 DEF Vanish
  <2> QED BY <1>5, <2>1, <2>2 DEF Vanish
<1>6. ASSUME NEW p \in Program, ProcessDies(p) PROVE ConsumerTypeOK'
  <2>1. \A ch \in Channel :
          Cardinality({c \in {<<p, ch>>} \cap Consumer : Attached(c)}) \in Nat
    BY FewConsumers
  <2>2. leaked' \in [Channel -> Nat]
    BY <1>6, <2>1 DEF ProcessDies
  <2> QED BY <1>6, <2>2 DEF ProcessDies
<1>7. CASE UNCHANGED consumerVars
  BY <1>7 DEF consumerVars
<1>8. ASSUME PublisherNext PROVE UNCHANGED consumerVars
  BY <1>8 DEF PublisherNext, Create, BeginPublish, StoreField, Announce, PublisherDies
<1> HIDE DEF ConsumerTypeOK
<1> QED
  BY <1>1, <1>2, <1>3, <1>4, <1>5, <1>6, <1>7, <1>8 DEF ChannelNext, ConsumerStep, vars
-----------------------------------------------------------------------------
\* The effect of an announcement on the numbers announced.
LEMMA OneMore ==
  ASSUME PublisherTypeOK, Announce
  PROVE  LET ch == Head(todo)
             n == Len(carried[ch])
         IN  /\ ch \in Channel /\ n \in Nat
             /\ carried' = [carried EXCEPT ![ch] = Append(carried[ch], made)]
             /\ Len(carried'[ch]) = n + 1 /\ carried'[ch][n + 1] = made
             /\ \A i \in 1..n : carried'[ch][i] = carried[ch][i]
             /\ \A h \in Channel \ {ch} : carried'[h] = carried[h]
<1> DEFINE ch == Head(todo)
           s == carried[ch]
<1>1. ch \in Channel /\ s \in Seq(Nat) /\ made \in Nat
  BY TodoFacts DEF Announce, PublisherTypeOK
<1>2. carried' = [carried EXCEPT ![ch] = Append(s, made)]
  BY DEF Announce
<1> HIDE DEF ch, s
<1>3. Len(s) \in Nat
  BY <1>1, LenProperties
<1>4. carried'[ch] = Append(s, made) /\ \A h \in Channel \ {ch} : carried'[h] = carried[h]
  BY <1>1, <1>2 DEF PublisherTypeOK
<1>5. /\ Len(Append(s, made)) = Len(s) + 1 /\ Append(s, made)[Len(s) + 1] = made
      /\ \A i \in 1..Len(s) : Append(s, made)[i] = s[i]
  BY <1>1, AppendProperties
<1> QED BY <1>1, <1>2, <1>3, <1>4, <1>5 DEF ch, s

\* What is announced stays, and what is stored is replaced by something newer.
LEMMA Forwards ==
  ASSUME PublisherTypeOK, Stored, [ChannelNext]_vars
  PROVE  /\ made <= made'
         /\ \A ch \in Channel :
              /\ Len(carried[ch]) <= Len(carried'[ch])
              /\ \A i \in 1..Len(carried[ch]) : carried'[ch][i] = carried[ch][i]
              /\ \A f \in Field : latest[ch][f] <= latest'[ch][f]
<1>0. /\ made \in Nat
      /\ \A ch \in Channel : /\ Len(carried[ch]) \in Nat
                             /\ \A f \in Field : latest[ch][f] \in Nat
  BY LenProperties DEF PublisherTypeOK
<1>1. ASSUME NEW atTop \in BOOLEAN, BeginPublish(atTop) PROVE made' = made + 1 /\ carried' = carried /\ latest' = latest
  BY <1>1 DEF BeginPublish
<1>2. ASSUME NEW f \in Field, StoreField(f)
      PROVE  /\ made' = made /\ carried' = carried
             /\ \A ch \in Channel : \A g \in Field : latest[ch][g] <= latest'[ch][g]
  <2>1. Head(todo) \in Channel
    BY <1>2, TodoFacts DEF StoreField
  <2>2. latest' = [latest EXCEPT ![Head(todo)] = [latest[Head(todo)] EXCEPT ![f] = made]]
    BY <1>2 DEF StoreField
  <2>3. \A ch \in Channel : \A g \in Field :
          latest'[ch][g] = IF ch = Head(todo) /\ g = f THEN made ELSE latest[ch][g]
    BY <2>1, <2>2 DEF PublisherTypeOK
  <2>4. latest[Head(todo)][f] <= made
    BY <2>1 DEF Stored
  <2> QED BY <1>0, <1>2, <2>3, <2>4 DEF StoreField
<1>3. CASE Announce
  <2>1. made' = made /\ latest' = latest
    BY <1>3 DEF Announce
  <2> QED BY <1>0, <1>3, <2>1, OneMore
<1>4. CASE UNCHANGED <<made, carried, latest>>
  BY <1>0, <1>4
<1>5. ASSUME NEW ch \in Channel, Create(ch) PROVE UNCHANGED <<made, carried, latest>>
  BY <1>5 DEF Create
<1>6. ASSUME PublisherDies PROVE UNCHANGED <<made, carried, latest>>
  BY <1>6 DEF PublisherDies
<1>7. ASSUME NEW c \in Consumer, ConsumerStep(c) PROVE UNCHANGED <<made, carried, latest>>
  BY <1>7 DEF ConsumerStep, Open, HasNewSnapshot, ReadField, Close, Vanish, publisherVars
<1>8. ASSUME NEW p \in Program, ProcessDies(p) PROVE UNCHANGED <<made, carried, latest>>
  BY <1>8 DEF ProcessDies, publisherVars
<1>9. CASE UNCHANGED vars
  BY <1>0, <1>9 DEF vars, publisherVars
<1>10. CASE \E atTop \in BOOLEAN : BeginPublish(atTop)
  BY <1>0, <1>1, <1>10
<1>11. CASE \E f \in Field : StoreField(f)
  BY <1>0, <1>2, <1>11
<1> QED
  BY <1>3, <1>4, <1>5, <1>6, <1>7, <1>8, <1>9, <1>10, <1>11 DEF ChannelNext, PublisherNext

\* Only the publisher changes what the publisher keeps.
LEMMA ConsumersOnlyRead ==
  /\ \A c \in Consumer : ConsumerStep(c) => UNCHANGED publisherVars
  /\ \A p \in Program : ProcessDies(p) => UNCHANGED publisherVars
  /\ PublisherNext => UNCHANGED consumerVars
<1>1. \A c \in Consumer : ConsumerStep(c) => UNCHANGED publisherVars
  BY DEF ConsumerStep, Open, HasNewSnapshot, ReadField, Close, Vanish
<1>2. \A p \in Program : ProcessDies(p) => UNCHANGED publisherVars
  BY DEF ProcessDies
<1>3. PublisherNext => UNCHANGED consumerVars
  BY DEF PublisherNext, Create, BeginPublish, StoreField, Announce, PublisherDies
<1> QED BY <1>1, <1>2, <1>3

LEMMA AnnouncedStep ==
  ASSUME PublisherTypeOK, Announced, Stored, [ChannelNext]_vars
  PROVE  Announced'
<1>0. /\ made \in Nat
      /\ \A ch \in Channel : Len(carried[ch]) \in Nat
      /\ \A ch \in Channel : \A i \in 1..Len(carried[ch]) : carried[ch][i] \in Nat
  BY LenProperties, ElementOfSeq DEF PublisherTypeOK
<1>1. ASSUME NEW atTop \in BOOLEAN, BeginPublish(atTop) PROVE Announced'
  <2>1. made' = made + 1 /\ carried' = carried /\ last_seq' = last_seq
    BY <1>1 DEF BeginPublish
  <2> QED BY <1>0, <2>1 DEF Announced
<1>2. CASE Announce
  <2> DEFINE ch == Head(todo)
             n == Len(carried[ch])
  <2>1. /\ ch \in Channel /\ n \in Nat
        /\ Len(carried'[ch]) = n + 1 /\ carried'[ch][n + 1] = made
        /\ \A i \in 1..n : carried'[ch][i] = carried[ch][i]
        /\ \A h \in Channel \ {ch} : carried'[h] = carried[h]
    BY <1>2, OneMore
  <2>2. /\ ch \in ToSet(todo) /\ ch \notin ToSet(todo') /\ ToSet(todo') \subseteq ToSet(todo)
        /\ todo # <<>> /\ made' = made
    BY <1>2, TodoFacts DEF Announce
  <2>3. last_seq' = [last_seq EXCEPT ![ch] = @ + 1]
    BY <1>2 DEF Announce
  <2>4. last_seq'[ch] = last_seq[ch] + 1 /\ \A h \in Channel \ {ch} : last_seq'[h] = last_seq[h]
    BY <2>1, <2>3 DEF PublisherTypeOK
  <2> HIDE DEF ch
  <2>5. \A i \in 1..n : carried[ch][i] \in 1..made /\ carried[ch][i] < made
    BY <2>1, <2>2 DEF Announced
  <2>6. made > 0
    BY <2>2 DEF Stored
  <2> SUFFICES ASSUME NEW h \in Channel
               PROVE  /\ last_seq'[h] = Len(carried'[h])
                      /\ \A i \in 1..Len(carried'[h]) : carried'[h][i] \in 1..made'
                      /\ \A i, j \in 1..Len(carried'[h]) :
                            i < j => carried'[h][i] < carried'[h][j]
                      /\ h \in ToSet(todo') =>
                            \A i \in 1..Len(carried'[h]) : carried'[h][i] < made'
    BY DEF Announced
  <2>7. CASE h # ch
    BY <2>1, <2>2, <2>4, <2>7 DEF Announced
  <2>8. CASE h = ch
    <3>1. last_seq'[ch] = n + 1
      BY <2>1, <2>4 DEF Announced
    <3>2. \A i \in 1..(n + 1) : i \in 1..n \/ i = n + 1
      BY <2>1
    <3>3. \A i \in 1..(n + 1) : carried'[ch][i] \in 1..made
      <4>1. \A i \in 1..n : carried'[ch][i] \in 1..made
        BY <2>1, <2>5
      <4>2. made \in 1..made
        BY <1>0, <2>6
      <4> QED BY <2>1, <3>2, <4>1, <4>2
    <3>4. \A i, j \in 1..n : i < j => carried[ch][i] < carried[ch][j]
      BY <2>1 DEF Announced
    <3>5. ASSUME NEW i \in 1..(n + 1), NEW j \in 1..(n + 1), i < j
          PROVE  carried'[ch][i] < carried'[ch][j]
      <4>1. i \in 1..n
        BY <2>1, <3>5
      <4>2. CASE j \in 1..n
        BY <2>1, <3>4, <3>5, <4>1, <4>2
      <4>3. CASE j = n + 1
        BY <2>1, <2>5, <4>1, <4>3
      <4> QED BY <3>2, <4>2, <4>3
    <3> QED BY <2>1, <2>2, <2>8, <3>1, <3>3, <3>5
  <2> QED BY <2>7, <2>8
<1>3. CASE UNCHANGED <<made, carried, last_seq, todo>>
  BY <1>3 DEF Announced
<1>4. CASE PublisherDies
  <2>1. ToSet(todo') = {} /\ UNCHANGED <<made, carried, last_seq>>
    BY <1>4, TodoFacts DEF PublisherDies
  <2> QED BY <2>1 DEF Announced
<1>5. ASSUME NEW ch \in Channel, Create(ch) PROVE UNCHANGED <<made, carried, last_seq, todo>>
  BY <1>5 DEF Create
<1>6. ASSUME NEW f \in Field, StoreField(f) PROVE UNCHANGED <<made, carried, last_seq, todo>>
  BY <1>6 DEF StoreField
<1>7. CASE UNCHANGED publisherVars
  BY <1>3, <1>7 DEF publisherVars
<1> QED
  BY <1>1, <1>2, <1>3, <1>4, <1>5, <1>6, <1>7, ConsumersOnlyRead
     DEF ChannelNext, PublisherNext, vars

LEMMA StoredStep ==
  ASSUME PublisherTypeOK, PublisherTypeOK', Announced, Stored, [ChannelNext]_vars
  PROVE  Stored'
<1>0. /\ made \in Nat
      /\ \A ch \in Channel : /\ Len(carried[ch]) \in Nat
                             /\ \A i \in 1..Len(carried[ch]) : carried[ch][i] \in Nat
                             /\ \A f \in Field : latest[ch][f] \in Nat
  BY LenProperties, ElementOfSeq DEF PublisherTypeOK
<1>1. ASSUME NEW atTop \in BOOLEAN, BeginPublish(atTop) PROVE Stored'
  <2>1. made' = made + 1 /\ carried' = carried /\ latest' = latest /\ unstored' = Field
    BY <1>1 DEF BeginPublish
  <2>2. \A ch \in Channel : \A f \in Field :
          /\ latest'[ch][f] <= made'
          /\ \A i \in 1..Len(carried'[ch]) : carried'[ch][i] <= latest'[ch][f]
    BY <1>0, <2>1 DEF Stored
  <2>3. made' > 0 /\ \A f \in Field \ unstored' : latest'[Head(todo')][f] = made'
    BY <1>0, <2>1
  <2> QED BY <2>2, <2>3 DEF Stored
<1>2. ASSUME NEW f \in Field, StoreField(f) PROVE Stored'
  <2>1. Head(todo) \in Channel /\ todo # <<>>
    BY <1>2, TodoFacts DEF StoreField
  <2>2. latest' = [latest EXCEPT ![Head(todo)] = [latest[Head(todo)] EXCEPT ![f] = made]]
    BY <1>2 DEF StoreField
  <2>3. \A ch \in Channel : \A g \in Field :
          latest'[ch][g] = IF ch = Head(todo) /\ g = f THEN made ELSE latest[ch][g]
    BY <2>1, <2>2 DEF PublisherTypeOK
  <2>4. made' = made /\ carried' = carried /\ todo' = todo /\ unstored' = unstored \ {f}
    BY <1>2 DEF StoreField
  <2>5. \A ch \in Channel : \A g \in Field :
          /\ latest'[ch][g] <= made'
          /\ \A i \in 1..Len(carried'[ch]) : carried'[ch][i] <= latest'[ch][g]
    BY <1>0, <2>3, <2>4 DEF Stored, Announced
  <2>6. made > 0 /\ \A g \in Field \ unstored : latest[Head(todo)][g] = made
    BY <2>1 DEF Stored
  <2>7. \A g \in Field \ unstored' : latest'[Head(todo')][g] = made'
    BY <2>1, <2>3, <2>4, <2>6
  <2> QED BY <2>4, <2>5, <2>6, <2>7 DEF Stored
<1>3. CASE Announce
  <2> DEFINE ch == Head(todo)
             n == Len(carried[ch])
  <2>1. /\ ch \in Channel /\ n \in Nat
        /\ Len(carried'[ch]) = n + 1 /\ carried'[ch][n + 1] = made
        /\ \A i \in 1..n : carried'[ch][i] = carried[ch][i]
        /\ \A h \in Channel \ {ch} : carried'[h] = carried[h]
    BY <1>3, OneMore
  <2>2. /\ latest' = latest /\ made' = made /\ todo # <<>> /\ unstored = {}
        /\ todo' # <<>> => unstored' = Field
    BY <1>3 DEF Announce
  <2>3. made > 0 /\ \A f \in Field : latest[ch][f] = made
    BY <2>2 DEF Stored
  <2> HIDE DEF ch
  <2>4. ASSUME NEW h \in Channel, NEW f \in Field
        PROVE  /\ latest'[h][f] <= made'
               /\ \A i \in 1..Len(carried'[h]) : carried'[h][i] <= latest'[h][f]
    <3>1. CASE h # ch
      BY <2>1, <2>2, <3>1 DEF Stored
    <3>2. CASE h = ch
      <4>1. \A i \in 1..(n + 1) : i \in 1..n \/ i = n + 1
        BY <2>1
      <4>2. \A i \in 1..n : carried[ch][i] <= latest[ch][f]
        BY <2>1 DEF Stored
      <4>3. latest'[h][f] = made /\ made' = made
        BY <2>2, <2>3, <3>2
      <4>4. \A i \in 1..n : carried'[ch][i] <= made
        BY <2>1, <2>3, <4>2
      <4>5. carried'[ch][n + 1] <= made /\ made <= made
        BY <1>0, <2>1
      <4> QED BY <2>1, <3>2, <4>1, <4>3, <4>4, <4>5
    <3> QED BY <3>1, <3>2
  <2> QED BY <2>2, <2>3, <2>4 DEF Stored
<1>4. CASE UNCHANGED <<made, carried, latest, todo, unstored>>
  BY <1>4 DEF Stored
<1>5. CASE PublisherDies
  BY <1>5 DEF PublisherDies, Stored
<1>6. ASSUME NEW ch \in Channel, Create(ch)
      PROVE  UNCHANGED <<made, carried, latest, todo, unstored>>
  BY <1>6 DEF Create
<1>7. CASE UNCHANGED publisherVars
  BY <1>4, <1>7 DEF publisherVars
<1> QED
  BY <1>1, <1>2, <1>3, <1>4, <1>5, <1>6, <1>7, ConsumersOnlyRead
     DEF ChannelNext, PublisherNext, vars
-----------------------------------------------------------------------------
\* What consumers have been told and have read holds whatever the publisher does.
LEMMA ConsumersUndisturbed ==
  ASSUME PublisherTypeOK, PublisherTypeOK', ConsumerTypeOK, Stored, Informed,
         NotOlderThanTold, [ChannelNext]_vars, UNCHANGED consumerVars
  PROVE  Informed' /\ NotOlderThanTold'
<1>s. Source \in [Consumer -> Channel]
  BY ChannelAssumption
<1>1. \A ch \in Channel :
        /\ Len(carried[ch]) \in Nat /\ Len(carried[ch]) <= Len(carried'[ch])
        /\ \A i \in 1..Len(carried[ch]) : carried'[ch][i] = carried[ch][i]
        /\ \A f \in Field : latest[ch][f] \in Nat /\ latest[ch][f] <= latest'[ch][f]
  BY Forwards, LenProperties DEF PublisherTypeOK
<1>2. UNCHANGED <<proc, last_seen, got, unread>>
  BY DEF consumerVars
<1>3. \A c \in Consumer : Source[c] \in Channel /\ last_seen[c] \in Nat
  BY <1>s DEF ConsumerTypeOK
<1>4. Informed'
  <2> SUFFICES ASSUME NEW c \in Consumer
               PROVE  /\ last_seen'[c] <= Len(carried'[Source[c]])
                      /\ proc'[c] = "reading" => last_seen'[c] > 0 /\ c \in Printing
                      /\ proc'[c] = "polling" => unread'[c] = {}
                      /\ \A f \in Field : got'[c][f] <= latest'[Source[c]][f]
    BY DEF Informed
  <2>1. last_seen'[c] <= Len(carried'[Source[c]])
    <3>1. Len(carried'[Source[c]]) \in Int
      BY <1>1, <1>3
    <3> QED BY <1>1, <1>2, <1>3, <3>1 DEF Informed
  <2>2. ASSUME NEW f \in Field PROVE got'[c][f] <= latest'[Source[c]][f]
    <3>1. got[c][f] <= latest[Source[c]][f] /\ got[c][f] \in Nat
      BY DEF Informed, ConsumerTypeOK
    <3>2. latest[Source[c]][f] <= latest'[Source[c]][f] /\ latest'[Source[c]][f] \in Nat
      BY <1>1, <1>3 DEF PublisherTypeOK
    <3>3. latest[Source[c]][f] \in Nat
      BY <1>1, <1>3
    <3> QED BY <1>2, <3>1, <3>2, <3>3
  <2> QED BY <1>2, <2>1, <2>2 DEF Informed
<1>5. NotOlderThanTold'
  <2>1. \A c \in Consumer : last_seen[c] # 0 => last_seen[c] \in 1..Len(carried[Source[c]])
    BY <1>1, <1>3 DEF Informed
  <2>2. \A c \in Consumer : last_seen[c] # 0 => Told(c)' = Told(c)
    BY <1>1, <1>2, <1>3, <2>1 DEF Told
  <2>3. \A c \in Consumer : Attached(c)' <=> Attached(c)
    BY <1>2 DEF Attached
  <2> QED BY <1>2, <2>2, <2>3 DEF NotOlderThanTold
<1> QED BY <1>4, <1>5

LEMMA ConsumerStepKeeps ==
  ASSUME PublisherTypeOK, ConsumerTypeOK, Announced, Stored, Informed, NotOlderThanTold,
         NEW c \in Consumer, ConsumerStep(c)
  PROVE  Informed' /\ NotOlderThanTold'
<1>p. UNCHANGED publisherVars
  BY ConsumersOnlyRead
<1>s. Source \in [Consumer -> Channel]
  BY ChannelAssumption
<1>0. /\ carried' = carried /\ latest' = latest /\ last_seq' = last_seq
      /\ \A ch \in Channel : /\ Len(carried[ch]) \in Nat /\ last_seq[ch] \in Nat
                             /\ last_seq[ch] = Len(carried[ch])
                             /\ \A f \in Field : latest[ch][f] \in Nat
  BY <1>p, LenProperties DEF publisherVars, PublisherTypeOK, Announced
<1>1. \A d \in Consumer : Source[d] \in Channel /\ last_seen[d] \in Nat
  BY <1>s DEF ConsumerTypeOK
\* It is enough to look at the consumer that moves.
<1>2. ASSUME \A d \in Consumer \ {c} :
               /\ last_seen'[d] = last_seen[d] /\ proc'[d] = proc[d]
               /\ unread'[d] = unread[d] /\ got'[d] = got[d],
             last_seen'[c] <= Len(carried[Source[c]]),
             proc'[c] = "reading" => last_seen'[c] > 0 /\ c \in Printing,
             proc'[c] = "polling" => unread'[c] = {},
             \A f \in Field : got'[c][f] <= latest[Source[c]][f],
             Attached(c)' /\ c \in Printing /\ last_seen'[c] # 0 =>
               \A f \in Field \ unread'[c] : got'[c][f] >= carried[Source[c]][last_seen'[c]]
      PROVE  Informed' /\ NotOlderThanTold'
  <2>1. Informed'
    BY <1>0, <1>1, <1>2 DEF Informed
  <2>2. \A d \in Consumer \ {c} : (Attached(d)' <=> Attached(d)) /\ Told(d)' = Told(d)
    BY <1>0, <1>1, <1>2 DEF Attached, Told
  <2>3. Told(c)' = carried[Source[c]][last_seen'[c]]
    BY <1>0 DEF Told
  <2>4. NotOlderThanTold'
    BY <1>0, <1>1, <1>2, <2>2, <2>3 DEF NotOlderThanTold
  <2> QED BY <2>1, <2>4
<1>3. CASE Open(c)
  <2>1. /\ last_seen' = [last_seen EXCEPT ![c] = 0]
        /\ got' = [got EXCEPT ![c] = [f \in Field |-> 0]]
        /\ unread' = [unread EXCEPT ![c] = {}]
        /\ \/ proc' = [proc EXCEPT ![c] = "polling"]
           \/ proc' = [proc EXCEPT ![c] = "dead"]
    BY <1>3 DEF Open
  <2>2. \A d \in Consumer \ {c} : /\ last_seen'[d] = last_seen[d] /\ proc'[d] = proc[d]
                                  /\ unread'[d] = unread[d] /\ got'[d] = got[d]
    BY <2>1 DEF ConsumerTypeOK
  <2>3. /\ last_seen'[c] = 0 /\ got'[c] = [f \in Field |-> 0] /\ unread'[c] = {}
        /\ proc'[c] # "reading"
    BY <2>1 DEF ConsumerTypeOK
  <2>4. \A f \in Field : got'[c][f] <= latest[Source[c]][f]
    BY <1>0, <1>1, <2>3
  <2> QED BY <1>0, <1>1, <1>2, <2>2, <2>3, <2>4
<1>4. CASE HasNewSnapshot(c)
  <2>1. /\ last_seen' = [last_seen EXCEPT ![c] = last_seq[Source[c]]]
        /\ proc' = [proc EXCEPT ![c] = IF c \in Printing THEN "reading" ELSE @]
        /\ unread' = [unread EXCEPT ![c] = IF c \in Printing THEN Field ELSE {}]
        /\ got' = got /\ proc[c] = "polling" /\ last_seq[Source[c]] > last_seen[c]
    BY <1>4 DEF HasNewSnapshot
  <2>2. \A d \in Consumer \ {c} : /\ last_seen'[d] = last_seen[d] /\ proc'[d] = proc[d]
                                  /\ unread'[d] = unread[d] /\ got'[d] = got[d]
    BY <2>1 DEF ConsumerTypeOK
  <2>3. /\ last_seen'[c] = last_seq[Source[c]]
        /\ c \in Printing => proc'[c] = "reading" /\ unread'[c] = Field
        /\ c \notin Printing => proc'[c] = "polling" /\ unread'[c] = {}
    BY <2>1 DEF ConsumerTypeOK
  <2>4. \A f \in Field : got'[c][f] <= latest[Source[c]][f]
    BY <2>1 DEF Informed
  <2>5. last_seen'[c] > 0 /\ last_seen'[c] <= Len(carried[Source[c]])
    BY <1>0, <1>1, <2>1, <2>3
  <2> QED BY <1>2, <2>2, <2>3, <2>4, <2>5
<1>5. ASSUME NEW f \in Field, ReadField(c, f) PROVE Informed' /\ NotOlderThanTold'
  <2>1. /\ got' = [got EXCEPT ![c] = [got[c] EXCEPT ![f] = latest[Source[c]][f]]]
        /\ unread' = [unread EXCEPT ![c] = @ \ {f}]
        /\ proc' = [proc EXCEPT ![c] = IF unread[c] = {f} THEN "polling" ELSE @]
        /\ last_seen' = last_seen /\ proc[c] = "reading" /\ f \in unread[c]
    BY <1>5 DEF ReadField
  <2>2. \A d \in Consumer \ {c} : /\ last_seen'[d] = last_seen[d] /\ proc'[d] = proc[d]
                                  /\ unread'[d] = unread[d] /\ got'[d] = got[d]
    BY <2>1 DEF ConsumerTypeOK
  <2>3. /\ \A g \in Field : got'[c][g] = IF g = f THEN latest[Source[c]][f] ELSE got[c][g]
        /\ unread'[c] = unread[c] \ {f}
        /\ proc'[c] = IF unread[c] = {f} THEN "polling" ELSE "reading"
    BY <2>1 DEF ConsumerTypeOK
  <2>4. last_seen[c] > 0 /\ last_seen[c] <= Len(carried[Source[c]]) /\ c \in Printing
    BY <2>1 DEF Informed
  <2>5. \A g \in Field : got'[c][g] <= latest[Source[c]][g]
    BY <1>0, <1>1, <2>3 DEF Informed
  <2>6. carried[Source[c]][last_seen[c]] <= latest[Source[c]][f]
    BY <1>0, <1>1, <2>4 DEF Stored
  <2>7. \A g \in Field \ unread[c] : got[c][g] >= carried[Source[c]][last_seen[c]]
    BY <1>1, <2>1, <2>4 DEF NotOlderThanTold, Told, Attached
  <2>8. \A g \in Field \ unread'[c] : got'[c][g] >= carried[Source[c]][last_seen'[c]]
    <3>1. carried[Source[c]][last_seen[c]] \in Nat
      BY <1>0, <1>1, <2>4, ElementOfSeq DEF PublisherTypeOK
    <3>2. latest[Source[c]][f] \in Nat
      BY <1>0, <1>1
    <3> QED BY <2>1, <2>3, <2>6, <2>7, <3>1, <3>2
  <2> QED BY <1>2, <2>1, <2>2, <2>3, <2>4, <2>5, <2>8
<1>6. CASE Close(c) \/ Vanish(c)
  <2>1. /\ proc' = [proc EXCEPT ![c] = "off"]
        /\ last_seen' = last_seen /\ got' = got /\ unread' = unread
    BY <1>6 DEF Close, Vanish
  <2>2. \A d \in Consumer \ {c} : /\ last_seen'[d] = last_seen[d] /\ proc'[d] = proc[d]
                                  /\ unread'[d] = unread[d] /\ got'[d] = got[d]
    BY <2>1 DEF ConsumerTypeOK
  <2>3. proc'[c] = "off"
    BY <2>1 DEF ConsumerTypeOK
  <2>4. ~Attached(c)'
    BY <2>3 DEF Attached
  <2> QED BY <1>2, <2>1, <2>2, <2>3, <2>4 DEF Informed
<1> QED BY <1>3, <1>4, <1>5, <1>6 DEF ConsumerStep

LEMMA DeathKeeps ==
  ASSUME PublisherTypeOK, ConsumerTypeOK, Informed, NotOlderThanTold,
         NEW p \in Program, ProcessDies(p)
  PROVE  Informed' /\ NotOlderThanTold'
<1>1. /\ \A d \in Consumer : proc'[d] = "dead" \/ proc'[d] = proc[d]
      /\ UNCHANGED <<carried, latest, last_seen, got, unread>>
  BY DEF ProcessDies, publisherVars
<1>2. Informed'
  BY <1>1 DEF Informed
<1>3. \A d \in Consumer : /\ Told(d)' = Told(d)
                          /\ Attached(d)' => Attached(d)
  BY <1>1 DEF Told, Attached
<1>4. NotOlderThanTold'
  BY <1>1, <1>3 DEF NotOlderThanTold
<1> QED BY <1>2, <1>4
-----------------------------------------------------------------------------
\* The consumers a region counts rightly.
AttachedTo == [ch \in Channel |-> {c \in Consumer : Attached(c) /\ Source[c] = ch}]

LEMMA CountIs ==
  CountExact <=>
    \A ch \in Channel : active_consumers[ch] = leaked[ch] + Cardinality(AttachedTo[ch])
BY DEF CountExact, AttachedTo

\* One consumer more or less, or none.
LEMMA CountOne ==
  ASSUME ConsumerTypeOK, NEW c \in Consumer, \A d \in Consumer \ {c} : proc'[d] = proc[d],
         NEW ch \in Channel
  PROVE  /\ Cardinality(AttachedTo[ch]) \in Nat /\ Cardinality(AttachedTo'[ch]) \in Nat
         /\ ch # Source[c] => Cardinality(AttachedTo'[ch]) = Cardinality(AttachedTo[ch])
         /\ ch = Source[c] =>
              Cardinality(AttachedTo'[ch]) =
                Cardinality(AttachedTo[ch])
                  + (IF proc'[c] \in {"polling", "reading"} THEN 1 ELSE 0)
                  - (IF proc[c] \in {"polling", "reading"} THEN 1 ELSE 0)
<1> DEFINE A == AttachedTo[ch]
           B == AttachedTo'[ch]
<1>2. /\ \A d \in Consumer \ {c} : Attached(d)' <=> Attached(d)
      /\ Attached(c) <=> proc[c] \in {"polling", "reading"}
      /\ Attached(c)' <=> proc'[c] \in {"polling", "reading"}
  BY DEF Attached
<1>3. A \subseteq Consumer /\ B \subseteq Consumer
  BY DEF AttachedTo
<1>4. /\ \A d \in Consumer : d \in A <=> Attached(d) /\ Source[d] = ch
      /\ \A d \in Consumer : d \in B <=> Attached(d)' /\ Source[d] = ch
  BY DEF AttachedTo
<1> HIDE DEF A, B
<1>5. /\ IsFiniteSet(A) /\ Cardinality(A) \in Nat /\ IsFiniteSet(B) /\ Cardinality(B) \in Nat
  BY <1>3, FewConsumers
<1>6. CASE ch # Source[c]
  <2>1. B = A
    BY <1>2, <1>3, <1>4, <1>6
  <2> QED BY <1>5, <1>6, <2>1 DEF A, B
<1>7. CASE ch = Source[c] /\ Attached(c)' /\ ~Attached(c)
  <2>1. B = A \cup {c} /\ c \notin A
    BY <1>2, <1>3, <1>4, <1>7
  <2>2. Cardinality(B) = Cardinality(A) + 1
    BY <1>5, <2>1, FS_AddElement
  <2> QED BY <1>2, <1>5, <1>7, <2>2 DEF A, B
<1>8. CASE ch = Source[c] /\ ~Attached(c)' /\ Attached(c)
  <2>1. B = A \ {c} /\ c \in A
    BY <1>2, <1>3, <1>4, <1>8
  <2>2. Cardinality(B) = Cardinality(A) - 1
    BY <1>5, <2>1, FS_RemoveElement
  <2> QED BY <1>2, <1>5, <1>8, <2>2 DEF A, B
<1>9. CASE ch = Source[c] /\ (Attached(c)' <=> Attached(c))
  <2>1. B = A
    BY <1>2, <1>3, <1>4, <1>9
  <2> QED BY <1>2, <1>5, <1>9, <2>1 DEF A, B
<1> QED BY <1>6, <1>7, <1>8, <1>9

LEMMA CountStep ==
  ASSUME ConsumerTypeOK, Informed, CountExact, NEW c \in Consumer, ConsumerStep(c)
  PROVE  CountExact'
<1>s. Source[c] \in Channel
  BY ChannelAssumption
<1>0. /\ \A ch \in Channel : active_consumers[ch] \in Int /\ leaked[ch] \in Nat
      /\ \A ch \in Channel :
           active_consumers[ch] = leaked[ch] + Cardinality(AttachedTo[ch])
  BY CountIs DEF ConsumerTypeOK
<1> SUFFICES ASSUME NEW ch \in Channel
             PROVE  active_consumers'[ch] = leaked'[ch] + Cardinality(AttachedTo'[ch])
  BY DEF CountExact, AttachedTo
<1>1. \A d \in Consumer \ {c} : proc'[d] = proc[d]
  BY DEF ConsumerStep, Open, HasNewSnapshot, ReadField, Close, Vanish, ConsumerTypeOK
<1> DEFINE n == Cardinality(AttachedTo[ch])
           m == Cardinality(AttachedTo'[ch])
<1>2. CASE Open(c) /\ region[Source[c]] = "ready"
  <2>1. /\ proc'[c] = "polling" /\ proc[c] = "off" /\ leaked' = leaked
        /\ active_consumers' = [active_consumers EXCEPT ![Source[c]] = @ + 1]
    BY <1>2 DEF Open, ConsumerTypeOK
  <2>2. active_consumers'[ch] =
          IF ch = Source[c] THEN active_consumers[ch] + 1 ELSE active_consumers[ch]
    BY <2>1 DEF ConsumerTypeOK
  <2>3. n \in Nat /\ m \in Nat /\ m = IF ch = Source[c] THEN n + 1 ELSE n
    BY <1>1, <2>1, CountOne
  <2> QED BY <1>0, <2>1, <2>2, <2>3 DEF n, m
<1>3. CASE Open(c) /\ region[Source[c]] # "ready"
  <2>1. /\ proc'[c] = "dead" /\ proc[c] = "off" /\ leaked' = leaked
        /\ active_consumers' = active_consumers
    BY <1>3 DEF Open, ConsumerTypeOK
  <2>3. n \in Nat /\ m \in Nat /\ m = n
    BY <1>1, <2>1, CountOne
  <2> QED BY <1>0, <2>1, <2>3 DEF n, m
<1>4. CASE HasNewSnapshot(c)
  <2>1. /\ proc'[c] \in {"polling", "reading"} /\ proc[c] \in {"polling", "reading"}
        /\ leaked' = leaked /\ active_consumers' = active_consumers
    BY <1>4 DEF HasNewSnapshot, Attached, ConsumerTypeOK
  <2>3. n \in Nat /\ m \in Nat /\ m = n
    BY <1>1, <2>1, CountOne
  <2> QED BY <1>0, <2>1, <2>3 DEF n, m
<1>5. ASSUME NEW f \in Field, ReadField(c, f)
      PROVE  active_consumers'[ch] = leaked'[ch] + m
  <2>1. /\ proc'[c] \in {"polling", "reading"} /\ proc[c] \in {"polling", "reading"}
        /\ leaked' = leaked /\ active_consumers' = active_consumers
    BY <1>5 DEF ReadField, Attached, ConsumerTypeOK
  <2>3. n \in Nat /\ m \in Nat /\ m = n
    BY <1>1, <2>1, CountOne
  <2> QED BY <1>0, <2>1, <2>3 DEF n, m
<1>6. CASE Close(c)
  <2>1. /\ proc'[c] = "off" /\ proc[c] \in {"polling", "reading"} /\ leaked' = leaked
        /\ active_consumers' = [active_consumers EXCEPT ![Source[c]] = @ - 1]
    BY <1>6 DEF Close, ConsumerTypeOK
  <2>2. active_consumers'[ch] =
          IF ch = Source[c] THEN active_consumers[ch] - 1 ELSE active_consumers[ch]
    BY <2>1 DEF ConsumerTypeOK
  <2>3. n \in Nat /\ m \in Nat /\ m = IF ch = Source[c] THEN n - 1 ELSE n
    BY <1>1, <2>1, CountOne
  <2> QED BY <1>0, <2>1, <2>2, <2>3 DEF n, m
<1>7. CASE Vanish(c)
  <2>1. /\ proc'[c] = "off" /\ proc[c] \in {"polling", "reading"}
        /\ active_consumers' = active_consumers
        /\ leaked' = [leaked EXCEPT ![Source[c]] = @ + 1]
    BY <1>7 DEF Vanish, Attached, ConsumerTypeOK
  <2>2. leaked'[ch] = IF ch = Source[c] THEN leaked[ch] + 1 ELSE leaked[ch]
    BY <2>1 DEF ConsumerTypeOK
  <2>3. n \in Nat /\ m \in Nat /\ m = IF ch = Source[c] THEN n - 1 ELSE n
    BY <1>1, <2>1, CountOne
  <2> QED BY <1>0, <2>1, <2>2, <2>3 DEF n, m
<1> QED BY <1>2, <1>3, <1>4, <1>5, <1>6, <1>7 DEF ConsumerStep

\* A process that dies leaves its objects, all of them, in the counts.
LEMMA CountDeath ==
  ASSUME ConsumerTypeOK, CountExact, NEW p \in Program, ProcessDies(p)
  PROVE  CountExact'
<1>1. SUFFICES ASSUME NEW ch \in Channel
               PROVE  active_consumers'[ch] = leaked'[ch] + Cardinality(AttachedTo'[ch])
  BY DEF CountExact, AttachedTo
<1> DEFINE X == {c \in {<<p, ch>>} \cap Consumer : Attached(c)}
           A == AttachedTo[ch]
<1>2. leaked'[ch] = leaked[ch] + Cardinality(X) /\ active_consumers' = active_consumers
  BY DEF ProcessDies
<1>3. active_consumers[ch] = leaked[ch] + Cardinality(A) /\ leaked[ch] \in Nat
  BY CountIs DEF ConsumerTypeOK
<1>4. \A c \in Consumer : c[1] = p /\ Source[c] = ch => c = <<p, ch>>
  <2> SUFFICES ASSUME NEW c \in Consumer, c[1] = p, Source[c] = ch PROVE c = <<p, ch>>
    OBVIOUS
  <2>1. c \in {d \in Consumer : d[1] \in Program}
    OBVIOUS
  <2>2. c \in Program \X Channel
    BY <2>1, ProgramAssumption
  <2>3. c[2] = ch
    BY ProgramAssumption
  <2> QED BY <2>2, <2>3
<1>5. \A c \in Consumer : Attached(c)' <=> Attached(c) /\ c[1] # p
  BY DEF ProcessDies, Attached
<1>6. <<p, ch>> \in Consumer => Source[<<p, ch>>] = ch
  BY ProgramAssumption
<1>7. /\ AttachedTo'[ch] = {c \in Consumer : Attached(c)' /\ Source[c] = ch}
      /\ A = {c \in Consumer : Attached(c) /\ Source[c] = ch}
  BY DEF AttachedTo
<1>8. AttachedTo'[ch] = A \ X /\ X \subseteq A
  BY <1>4, <1>5, <1>6, <1>7
<1>9. A \subseteq Consumer /\ X \subseteq Consumer
  BY <1>7
<1> HIDE DEF A, X
<1>10. /\ IsFiniteSet(A) /\ Cardinality(A) \in Nat /\ Cardinality(X) \in Nat
       /\ A \cap X = X
  BY <1>8, <1>9, FewConsumers
<1>11. Cardinality(A \ X) = Cardinality(A) - Cardinality(A \cap X)
  BY <1>10, FS_Difference
<1>12. Cardinality(AttachedTo'[ch]) = Cardinality(A) - Cardinality(X)
  BY <1>8, <1>10, <1>11
<1>13. active_consumers'[ch] = active_consumers[ch]
  BY <1>2
<1>14. active_consumers[ch] = leaked[ch] + Cardinality(A) /\ leaked[ch] \in Nat
  BY <1>3 DEF A
<1> QED BY <1>2, <1>10, <1>12, <1>13, <1>14

LEMMA CountUndisturbed ==
  ASSUME CountExact, UNCHANGED consumerVars
  PROVE  CountExact'
<1>1. \A ch \in Channel : AttachedTo'[ch] = AttachedTo[ch]
  BY DEF AttachedTo, Attached, consumerVars
<1>2. UNCHANGED <<active_consumers, leaked>>
  BY DEF consumerVars
<1> QED BY <1>1, <1>2 DEF CountExact, AttachedTo
-----------------------------------------------------------------------------
LEMMA ChannelInit == AllInit => ChannelInv
<1> SUFFICES ASSUME AllInit PROVE ChannelInv
  OBVIOUS
<1> USE DEF AllInit, Init
<1>1. PublisherTypeOK
  BY EmptySeq DEF PublisherTypeOK
<1>2. ConsumerTypeOK
  BY DEF ConsumerTypeOK
<1>3. \A ch \in Channel : Len(carried[ch]) = 0
  BY EmptySeq
<1>4. Announced
  BY <1>3, TodoFacts, <1>1 DEF Announced
<1>5. Stored
  BY <1>3 DEF Stored
<1>6. Informed
  <2>1. \A c \in Consumer : Source[c] \in Channel
    BY ChannelAssumption
  <2> QED BY <1>3, <2>1 DEF Informed
<1>7. \A c \in Consumer : ~Attached(c)
  BY DEF Attached
<1>8. NotOlderThanTold
  BY <1>7 DEF NotOlderThanTold
<1>9. CountExact
  <2>1. \A ch \in Channel : AttachedTo[ch] = {}
    BY <1>7 DEF AttachedTo
  <2>2. \A ch \in Channel : Cardinality(AttachedTo[ch]) = 0
    BY <2>1, FS_EmptySet
  <2> QED BY <2>2, CountIs
<1> QED BY <1>1, <1>2, <1>4, <1>5, <1>6, <1>8, <1>9 DEF ChannelInv

LEMMA ChannelStep == ChannelInv /\ [ChannelNext]_vars => ChannelInv'
<1> SUFFICES ASSUME ChannelInv, [ChannelNext]_vars PROVE ChannelInv'
  OBVIOUS
<1>1. /\ PublisherTypeOK /\ ConsumerTypeOK /\ Announced /\ Stored /\ Informed
      /\ NotOlderThanTold /\ CountExact
  BY DEF ChannelInv
<1>2. PublisherTypeOK' /\ ConsumerTypeOK'
  BY <1>1, PublisherTypeStep, ConsumerTypeStep
<1>3. Announced' /\ Stored'
  BY <1>1, <1>2, AnnouncedStep, StoredStep
<1>4. Informed' /\ NotOlderThanTold' /\ CountExact'
  <2>1. CASE UNCHANGED consumerVars
    BY <1>1, <1>2, <2>1, ConsumersUndisturbed, CountUndisturbed
  <2>2. ASSUME NEW c \in Consumer, ConsumerStep(c)
        PROVE  Informed' /\ NotOlderThanTold' /\ CountExact'
    BY <1>1, <2>2, ConsumerStepKeeps, CountStep
  <2>3. ASSUME NEW p \in Program, ProcessDies(p)
        PROVE  Informed' /\ NotOlderThanTold' /\ CountExact'
    BY <1>1, <2>3, DeathKeeps, CountDeath
  <2> QED BY <2>1, <2>2, <2>3, ConsumersOnlyRead DEF ChannelNext, vars
<1> QED BY <1>1, <1>2, <1>3, <1>4 DEF ChannelInv
-----------------------------------------------------------------------------
LEMMA PollsOf ==
  ASSUME NEW p \in Program
  PROVE  /\ Kind[p] = "test" => Polls(p) = <<"fod">> /\ Len(Polls(p)) = 1
         /\ Kind[p] # "test" => Polls(p) = <<"tob", "fod">> /\ Len(Polls(p)) = 2
         /\ Len(Polls(p)) \in {1, 2}
BY DEF Polls

LEMMA TurnType ==
  ASSUME ProgramTypeOK, NEW p \in Program, NEW t \in {1, 2}, t <= Len(Polls(p)),
         turn' = [turn EXCEPT ![p] = t]
  PROVE  turn' \in [Program -> {1, 2}] /\ \A q \in Program : turn'[q] <= Len(Polls(q))
<1>1. turn' \in [Program -> {1, 2}]
  BY DEF ProgramTypeOK
<1>2. \A q \in Program : turn'[q] = IF q = p THEN t ELSE turn[q]
  BY DEF ProgramTypeOK
<1> QED BY <1>1, <1>2 DEF ProgramTypeOK

LEMMA ProgramTypeStep == ProgramTypeOK /\ [AllNext]_allVars => ProgramTypeOK'
<1> SUFFICES ASSUME ProgramTypeOK, [AllNext]_allVars PROVE ProgramTypeOK'
  OBVIOUS
<1>1. CASE UNCHANGED programVars /\ UNCHANGED cast
  BY <1>1 DEF ProgramTypeOK, programVars
<1>2. ASSUME NEW p \in Program, ProgramNext(p), UNCHANGED cast PROVE ProgramTypeOK'
  <2>1. ASSUME NEW next \in {"construct", "check", "head", "read", "done"}, Advance(p, next),
               mapped' \in [Program -> SUBSET Channel], UNCHANGED running
        PROVE  ProgramTypeOK'
    <3>1. pc' \in [Program -> {"map", "construct", "check", "head", "poll", "read", "close",
                               "done", "crashed"}]
      BY <2>1 DEF ProgramTypeOK, Advance
    <3>2. turn' \in [Program -> {1, 2}] /\ \A q \in Program : turn'[q] <= Len(Polls(q))
      <4> DEFINE t == IF LastTurn(p) THEN 1 ELSE turn[p] + 1
      <4>1. turn' = [turn EXCEPT ![p] = t]
        BY <2>1 DEF Advance
      <4>2. turn[p] <= Len(Polls(p)) /\ turn[p] \in {1, 2} /\ Len(Polls(p)) \in {1, 2}
        BY PollsOf DEF ProgramTypeOK
      <4>3. t \in {1, 2} /\ t <= Len(Polls(p))
        <5> DEFINE n == Len(Polls(p))
        <5>1. LastTurn(p) <=> turn[p] = n
          BY DEF LastTurn
        <5> HIDE DEF n
        <5>2. turn[p] <= n /\ turn[p] \in {1, 2} /\ n \in {1, 2}
          BY <4>2 DEF n
        <5>3. t \in {1, 2} /\ t <= n
          BY <5>1, <5>2
        <5> QED BY <5>3 DEF n
      <4> HIDE DEF t
      <4> QED BY <4>1, <4>3, TurnType
    <3> QED BY <1>2, <2>1, <3>1, <3>2 DEF ProgramTypeOK
  <2>2. ASSUME Crash(p) PROVE ProgramTypeOK'
    BY <1>2, <2>2 DEF Crash, ProgramTypeOK
  <2>3. CASE MapRegion(p) /\ ~Crash(p)
    <3>1. Chan(p) \in Channel
      BY OwnObject
    <3>2. mapped' \in [Program -> SUBSET Channel]
      BY <2>3, <3>1 DEF MapRegion, ProgramTypeOK
    <3>3. Advance(p, IF mapped'[p] = {} THEN "done" ELSE "construct") /\ UNCHANGED running
      BY <2>3 DEF MapRegion
    <3> QED BY <2>1, <3>2, <3>3
  <2>4. CASE Construct(p) /\ ~Crash(p)
    BY <2>1, <2>4 DEF Construct, ProgramTypeOK
  <2>5. CASE CheckValid(p)
    BY <1>2, <2>5 DEF CheckValid, ProgramTypeOK
  <2>6. CASE TestFlag(p)
    <3>1. CASE running[p]
      BY <1>2, <2>6, <3>1 DEF TestFlag, ProgramTypeOK
    <3>2. CASE ~running[p]
      <4>1. turn' = [turn EXCEPT ![p] = Len(Polls(p))] /\ pc' = [pc EXCEPT ![p] = "close"]
        BY <2>6, <3>2 DEF TestFlag
      <4>2. turn' \in [Program -> {1, 2}] /\ \A q \in Program : turn'[q] <= Len(Polls(q))
        <5> DEFINE t == Len(Polls(p))
        <5>1. t \in {1, 2} /\ t <= t /\ turn' = [turn EXCEPT ![p] = t]
          BY <4>1, PollsOf
        <5> HIDE DEF t
        <5>2. t = Len(Polls(p))
          BY DEF t
        <5> QED BY <5>1, <5>2, TurnType
      <4>3. UNCHANGED <<mapped, running>>
        BY <2>6 DEF TestFlag
      <4> QED BY <1>2, <4>1, <4>2, <4>3 DEF ProgramTypeOK
    <3> QED BY <3>1, <3>2
  <2>7. CASE Poll(p)
    BY <2>1, <2>7 DEF Poll, ProgramTypeOK
  <2>8. CASE \E f \in Field : Read(p, f)
    BY <1>2, <2>8 DEF Read, ProgramTypeOK
  <2>9. CASE Destroy(p)
    BY <1>2, <2>9, PollsOf DEF Destroy, ProgramTypeOK
  <2>10. CASE Signal(p)
    BY <1>2, <2>10 DEF Signal, ProgramTypeOK
  <2>11. CASE Kill(p)
    BY <2>2, <2>11 DEF Kill
  <2> QED
    BY <1>2, <2>2, <2>3, <2>4, <2>5, <2>6, <2>7, <2>8, <2>9, <2>10, <2>11
       DEF ProgramNext, ProgramStep
<1> QED
  BY <1>1, <1>2 DEF AllNext, Publishing, Records, Runs, allVars

LEMMA ProgramTypeInit == AllInit => ProgramTypeOK
<1> SUFFICES ASSUME AllInit PROVE ProgramTypeOK
  OBVIOUS
<1>1. \A p \in Program : turn[p] = 1 /\ turn[p] <= Len(Polls(p))
  <2> SUFFICES ASSUME NEW p \in Program PROVE turn[p] = 1 /\ turn[p] <= Len(Polls(p))
    OBVIOUS
  <2>1. turn[p] = 1
    BY DEF AllInit, ProgramInit
  <2>2. Len(Polls(p)) \in {1, 2}
    BY PollsOf
  <2> QED BY <2>1, <2>2
<1> QED BY <1>1 DEF AllInit, ProgramInit, ProgramTypeOK
-----------------------------------------------------------------------------
\* The regions stay consistent under every step of every program.
THEOREM ChannelInvariance == AllSpec => [](ChannelInv /\ ProgramTypeOK)
<1>1. AllInit => ChannelInv /\ ProgramTypeOK
  BY ChannelInit, ProgramTypeInit
<1>2. ChannelInv /\ ProgramTypeOK /\ [AllNext]_allVars => (ChannelInv /\ ProgramTypeOK)'
  BY ChannelSteps, ChannelStep, ProgramTypeStep
<1> QED BY <1>1, <1>2, PTL DEF AllSpec

\* What a consumer reads is of the publication it was told of or of a later one.
THEOREM AsNewAsTold == AllSpec => []NotOlderThanTold
<1>1. ChannelInv => NotOlderThanTold
  BY DEF ChannelInv
<1> QED BY <1>1, ChannelInvariance, PTL

\* The count of a region is that of its consumers and of those that died attached.
THEOREM CountsConsumers == AllSpec => []CountExact
<1>1. ChannelInv => CountExact
  BY DEF ChannelInv
<1> QED BY <1>1, ChannelInvariance, PTL

\* Only an overlapping publication tears a snapshot: nothing read is newer than the region,
\* nor older than the announcement.
THEOREM TornByOverwritingOnly == AllSpec => []WholeUnlessOverwritten
<1>1. ChannelInv => WholeUnlessOverwritten
  <2> SUFFICES ASSUME ChannelInv, NEW c \in Consumer,
                      Attached(c), c \in Printing, last_seen[c] # 0,
                      \A f \in Field : latest[Source[c]][f] <= Told(c),
                      NEW f \in Field \ unread[c]
               PROVE  got[c][f] = Told(c)
    BY DEF WholeUnlessOverwritten
  <2>1. got[c][f] >= Told(c)
    BY DEF ChannelInv, NotOlderThanTold
  <2>2. got[c][f] <= latest[Source[c]][f] /\ latest[Source[c]][f] <= Told(c)
    BY DEF ChannelInv, Informed
  <2>3. Source[c] \in Channel /\ last_seen[c] \in Nat
    BY ChannelAssumption DEF ChannelInv, ConsumerTypeOK
  <2>4. last_seen[c] \in 1..Len(carried[Source[c]])
    <3>1. last_seen[c] <= Len(carried[Source[c]])
      BY DEF ChannelInv, Informed
    <3>2. Len(carried[Source[c]]) \in Nat
      BY <2>3, LenProperties DEF ChannelInv, PublisherTypeOK
    <3> QED BY <2>3, <3>1, <3>2
  <2>5. Told(c) \in Nat
    BY <2>3, <2>4, ElementOfSeq DEF ChannelInv, PublisherTypeOK, Told
  <2>6. got[c][f] \in Nat /\ latest[Source[c]][f] \in Nat
    BY <2>3 DEF ChannelInv, ConsumerTypeOK, PublisherTypeOK
  <2> HIDE DEF Told
  <2> QED BY <2>1, <2>2, <2>5, <2>6
<1> QED BY <1>1, ChannelInvariance, PTL
-----------------------------------------------------------------------------
\* The consumers the feed calls attached.
Present == {c \in Consumer : Attached(c)}

LEMMA PresentOnly ==
  ASSUME ConsumerTypeOK, NEW c \in Consumer, \A d \in Consumer \ {c} : proc'[d] = proc[d]
  PROVE  Present' = IF proc'[c] \in {"polling", "reading"} THEN Present \cup {c} ELSE Present \ {c}
BY DEF Present, Attached

LEMMA FeedInit == AllInit => Feed!Init
<1> SUFFICES ASSUME AllInit PROVE Feed!Init
  OBVIOUS
<1>1. {c \in Consumer : Attached(c)} = {}
  BY DEF AllInit, Init, Attached
<1> QED BY <1>1 DEF AllInit, Init, Feed!Init

LEMMA FeedConsumer ==
  ASSUME ChannelInv, NEW c \in Consumer, ConsumerStep(c)
  PROVE  [Feed!Next]_(Feed!vars)
<1>0. ConsumerTypeOK /\ PublisherTypeOK /\ Announced /\ Stored /\ Informed
  BY DEF ChannelInv
<1>s. Source[c] \in Channel
  BY ChannelAssumption
<1>p. UNCHANGED <<made, carried, latest, last_seq>>
  BY ConsumersOnlyRead DEF publisherVars
<1>1. \A d \in Consumer \ {c} : proc'[d] = proc[d]
  BY <1>0 DEF ConsumerStep, Open, HasNewSnapshot, ReadField, Close, Vanish, ConsumerTypeOK
<1>2. Present' = IF proc'[c] \in {"polling", "reading"} THEN Present \cup {c} ELSE Present \ {c}
  BY <1>0, <1>1, PresentOnly
<1>3. c \in Present <=> proc[c] \in {"polling", "reading"}
  BY DEF Present, Attached
<1>4. last_seq[Source[c]] = Len(carried[Source[c]])
  BY <1>0, <1>s DEF Announced
<1>5. CASE Open(c)
  <2>1. /\ proc[c] = "off" /\ proc'[c] \in {"polling", "dead"}
        /\ last_seen' = [last_seen EXCEPT ![c] = 0]
        /\ got' = [got EXCEPT ![c] = [f \in Field |-> 0]]
    BY <1>0, <1>5 DEF Open, ConsumerTypeOK
  <2>2. CASE proc'[c] = "polling"
    <3>1. c \notin Present /\ Present' = Present \cup {c}
      BY <1>2, <1>3, <2>1, <2>2
    <3>2. Feed!Attach(c)
      BY <1>p, <2>1, <3>1 DEF Feed!Attach, Present
    <3> QED BY <3>2 DEF Feed!Next
  <2>3. CASE proc'[c] = "dead"
    <3>1. c \notin Present /\ Present' = Present
      BY <1>2, <1>3, <2>1, <2>3
    <3>2. Feed!Forget(c)
      BY <1>p, <2>1, <3>1 DEF Feed!Forget, Present
    <3> QED BY <3>2 DEF Feed!Next
  <2> QED BY <2>1, <2>2, <2>3
<1>6. CASE HasNewSnapshot(c)
  <2>1. /\ proc[c] = "polling" /\ proc'[c] \in {"polling", "reading"}
        /\ last_seen' = [last_seen EXCEPT ![c] = last_seq[Source[c]]] /\ got' = got
        /\ last_seen[c] < last_seq[Source[c]]
    <3>1. /\ proc[c] = "polling" /\ last_seq[Source[c]] > last_seen[c]
          /\ last_seen' = [last_seen EXCEPT ![c] = last_seq[Source[c]]] /\ got' = got
          /\ proc' = [proc EXCEPT ![c] = IF c \in Printing THEN "reading" ELSE @]
      BY <1>6 DEF HasNewSnapshot
    <3>2. last_seq[Source[c]] \in Nat /\ last_seen[c] \in Nat
      BY <1>0, <1>s DEF PublisherTypeOK, ConsumerTypeOK
    <3> QED BY <1>0, <3>1, <3>2 DEF ConsumerTypeOK
  <2>2. c \in Present /\ Present' = Present
    BY <1>2, <1>3, <2>1
  <2>3. Feed!Notice(c)
    BY <1>p, <1>4, <2>1, <2>2 DEF Feed!Notice, Present
  <2> QED BY <2>3 DEF Feed!Next
<1>7. ASSUME NEW f \in Field, ReadField(c, f) PROVE Feed!Next
  <2>1. /\ proc[c] = "reading" /\ proc'[c] \in {"polling", "reading"}
        /\ got' = [got EXCEPT ![c][f] = latest[Source[c]][f]] /\ last_seen' = last_seen
    BY <1>0, <1>7 DEF ReadField, ConsumerTypeOK
  <2>2. c \in Present /\ Present' = Present
    BY <1>2, <1>3, <2>1
  <2>3. last_seen[c] > 0 /\ last_seen[c] \in 1..Len(carried[Source[c]])
    <3>1. last_seen[c] > 0 /\ last_seen[c] <= Len(carried[Source[c]]) /\ last_seen[c] \in Nat
      BY <1>0, <2>1 DEF Informed, ConsumerTypeOK
    <3>2. Len(carried[Source[c]]) \in Nat
      BY <1>0, <1>s, LenProperties DEF PublisherTypeOK
    <3> QED BY <3>1, <3>2
  <2> DEFINE n == latest[Source[c]][f]
  <2>4. n \in carried[Source[c]][last_seen[c]] .. made
    <3>1. carried[Source[c]][last_seen[c]] <= n /\ n <= made
      BY <1>0, <1>s, <2>3 DEF Stored
    <3>2. carried[Source[c]][last_seen[c]] \in Nat /\ n \in Nat /\ made \in Nat
      BY <1>0, <1>s, <2>3, ElementOfSeq DEF PublisherTypeOK
    <3> QED BY <3>1, <3>2
  <2>5. n >= got[c][f]
    <3>1. got[c][f] <= n
      BY <1>0 DEF Informed
    <3>2. n \in Nat /\ got[c][f] \in Nat
      BY <1>0, <1>s DEF PublisherTypeOK, ConsumerTypeOK
    <3> HIDE DEF n
    <3> QED BY <3>1, <3>2
  <2>6. got' = [got EXCEPT ![c][f] = n]
    BY <2>1
  <2> HIDE DEF n
  <2>7. Feed!ReadPart(c, f)
    BY <1>p, <2>1, <2>2, <2>3, <2>4, <2>5, <2>6 DEF Feed!ReadPart, Present
  <2> QED BY <2>7 DEF Feed!Next
<1>8. CASE Close(c) \/ Vanish(c)
  <2>1. proc'[c] = "off" /\ last_seen' = last_seen /\ got' = got /\ c \in Present
    BY <1>0, <1>3, <1>8 DEF Close, Vanish, Attached, ConsumerTypeOK
  <2>2. Present' = Present \ {c} /\ {c} \in SUBSET Present
    BY <1>2, <2>1
  <2>3. Feed!Detach({c})
    BY <1>p, <2>1, <2>2 DEF Feed!Detach, Present
  <2> QED BY <2>2, <2>3 DEF Feed!Next, Present
<1> QED BY <1>5, <1>6, <1>7, <1>8 DEF ConsumerStep

LEMMA FeedPublisher ==
  ASSUME ChannelInv, PublisherNext
  PROVE  [Feed!Next]_(Feed!vars)
<1>0. PublisherTypeOK /\ Announced /\ Stored
  BY DEF ChannelInv
<1>1. UNCHANGED <<last_seen, got, proc>>
  BY ConsumersOnlyRead DEF consumerVars
<1>2. Present' = Present
  BY <1>1 DEF Present, Attached
<1>3. CASE UNCHANGED <<made, carried>>
  BY <1>1, <1>2, <1>3 DEF Feed!vars, Present
<1>4. ASSUME NEW atTop \in BOOLEAN, BeginPublish(atTop) PROVE Feed!Next
  <2>1. Feed!Make
    BY <1>1, <1>2, <1>4 DEF Feed!Make, BeginPublish, Present
  <2> QED BY <2>1 DEF Feed!Next
<1>5. CASE Announce
  <2> DEFINE ch == Head(todo)
  <2>1. ch \in Channel /\ ch \in ToSet(todo) /\ todo # <<>> /\ made' = made
    BY <1>0, <1>5, TodoFacts DEF Announce
  <2>2. carried' = [carried EXCEPT ![ch] = Append(@, made)]
    BY <1>5 DEF Announce
  <2> HIDE DEF ch
  <2>3. made > 0
    BY <1>0, <2>1 DEF Stored
  <2>4. carried[ch] # <<>> => carried[ch][Len(carried[ch])] < made
    <3>1. carried[ch] \in Seq(Nat) /\ \A i \in 1..Len(carried[ch]) : carried[ch][i] < made
      BY <1>0, <2>1 DEF Announced, PublisherTypeOK
    <3>2. carried[ch] # <<>> => Len(carried[ch]) \in 1..Len(carried[ch])
      BY <3>1, EmptySeq, LenProperties
    <3> QED BY <3>1, <3>2
  <2>5. Feed!Announce(ch)
    BY <1>1, <1>2, <2>1, <2>2, <2>3, <2>4 DEF Feed!Announce, Present
  <2> QED BY <2>1, <2>5 DEF Feed!Next
<1>6. ASSUME ~Announce, \A atTop \in BOOLEAN : ~BeginPublish(atTop)
      PROVE  UNCHANGED <<made, carried>>
  BY <1>6 DEF PublisherNext, Create, StoreField, PublisherDies
<1> QED BY <1>3, <1>4, <1>5, <1>6

LEMMA FeedDeath ==
  ASSUME ChannelInv, NEW p \in Program, ProcessDies(p)
  PROVE  Feed!Next
<1> DEFINE D == {c \in Present : c[1] = p}
<1>1. UNCHANGED <<made, carried, last_seen, got>>
  BY DEF ProcessDies, publisherVars
<1>2. \A c \in Consumer : proc'[c] = IF c[1] = p THEN "dead" ELSE proc[c]
  BY DEF ProcessDies
<1>3. Present' = Present \ D /\ D \in SUBSET Present
  BY <1>2 DEF Present, Attached
<1> HIDE DEF D
<1>4. Feed!Detach(D)
  BY <1>1, <1>3 DEF Feed!Detach, Present
<1> QED BY <1>3, <1>4 DEF Feed!Next, Present

\* Publisher and consumers together, whoever dies and restarts, behave as the abstract feed:
\* the regions, their fields and the counts are details no program can tell.
THEOREM Refinement == AllSpec => FeedSpec
<1>1. ChannelInv /\ [ChannelNext]_vars => [Feed!Next]_(Feed!vars)
  <2> SUFFICES ASSUME ChannelInv, [ChannelNext]_vars PROVE [Feed!Next]_(Feed!vars)
    OBVIOUS
  <2>1. CASE UNCHANGED vars
    BY <2>1 DEF vars, publisherVars, consumerVars, Feed!vars, Attached
  <2> QED BY <2>1, FeedPublisher, FeedConsumer, FeedDeath DEF ChannelNext
<1>2. ProgramTypeOK /\ [AllNext]_allVars => [ChannelNext]_vars
  BY ChannelSteps
<1> QED BY <1>1, <1>2, FeedInit, ChannelInvariance, PTL DEF AllSpec, FeedSpec, Feed!Spec
-----------------------------------------------------------------------------
\* A consumer that does not move, as the others see it.
Still(c) ==
  /\ proc'[c] = proc[c] /\ last_seen'[c] = last_seen[c]
  /\ got'[c] = got[c] /\ unread'[c] = unread[c]

LEMMA OthersStill ==
  ASSUME ConsumerTypeOK, NEW c \in Consumer, ConsumerStep(c), NEW d \in Consumer, d # c
  PROVE  Still(d)
BY DEF ConsumerStep, Open, HasNewSnapshot, ReadField, Close, Vanish, ConsumerTypeOK, Still

\* A program moves its own objects only.
LEMMA OwnObjectsOnly ==
  ASSUME ProgramTypeOK, ConsumerTypeOK, NEW p \in Program, ProgramNext(p),
         NEW d \in Consumer, d[1] # p
  PROVE  Still(d)
<1> DEFINE c == Object(p)
<1>1. c \in Consumer /\ c = <<p, Chan(p)>>
  BY OwnObject
<1>2. d # c
  BY <1>1
<1> HIDE DEF c
<1>3. ASSUME ConsumerStep(c) PROVE Still(d)
  BY <1>1, <1>2, <1>3, OthersStill
<1>4. ASSUME Crash(p) PROVE Still(d)
  BY <1>4 DEF Crash, Still
<1>5. ASSUME UNCHANGED vars PROVE Still(d)
  BY <1>5 DEF vars, consumerVars, Still
<1>6. CASE MapRegion(p)
  BY <1>4, <1>5, <1>6 DEF MapRegion
<1>7. CASE Construct(p)
  BY <1>3, <1>4, <1>5, <1>7 DEF Construct, ConsumerStep, c
<1>8. CASE CheckValid(p) \/ TestFlag(p) \/ Signal(p)
  BY <1>5, <1>8 DEF CheckValid, TestFlag, Signal
<1>9. CASE Poll(p)
  BY <1>3, <1>5, <1>9 DEF Poll, ConsumerStep, c
<1>10. CASE \E f \in Field : Read(p, f)
  BY <1>3, <1>10 DEF Read, ConsumerStep, c
<1>11. CASE Destroy(p)
  BY <1>3, <1>5, <1>11 DEF Destroy, ConsumerStep, c
<1>12. CASE Kill(p)
  BY <1>4, <1>12 DEF Kill
<1> QED
  BY <1>6, <1>7, <1>8, <1>9, <1>10, <1>11, <1>12 DEF ProgramNext, ProgramStep

LEMMA RecorderMovesItself ==
  ASSUME ConsumerTypeOK, RecorderNext, NEW d \in Consumer, d # recorder
  PROVE  Still(d)
<1>1. ASSUME ConsumerStep(recorder) PROVE Still(d)
  BY <1>1, RecorderAssumption, OthersStill
<1>2. ASSUME UNCHANGED vars PROVE Still(d)
  BY <1>2 DEF vars, consumerVars, Still
<1>3. CASE Connect
  BY <1>1, <1>2, <1>3 DEF Connect, ConsumerStep
<1>4. CASE OpenFile
  BY <1>1, <1>2, <1>4 DEF OpenFile, Unwind, ConsumerStep
<1>5. CASE WriteHeaders \/ CheckConsumer \/ \E f \in Summed : AddUp(f)
  BY <1>2, <1>5 DEF WriteHeaders, CheckConsumer, AddUp
<1>6. CASE RunPoll
  BY <1>1, <1>6 DEF RunPoll, ConsumerStep
<1>7. CASE \E f \in Field : WriteColumn(f)
  BY <1>1, <1>7 DEF WriteColumn, ConsumerStep
<1>8. CASE \E ok \in BOOLEAN : EndLine(ok)
  BY <1>2, <1>8 DEF EndLine
<1>9. CASE Interrupt
  BY <1>1, <1>2, <1>9 DEF Interrupt, ConsumerStep
<1> QED
  BY <1>3, <1>4, <1>5, <1>6, <1>7, <1>8, <1>9 DEF RecorderNext, RecorderRuns

\* The publisher moves no consumer at all.
LEMMA PublisherMovesNone ==
  ASSUME PublisherNext \/ UNCHANGED vars, NEW d \in Consumer
  PROVE  Still(d)
<1>1. UNCHANGED consumerVars
  BY ConsumersOnlyRead DEF vars
<1> QED BY <1>1 DEF consumerVars, Still
-----------------------------------------------------------------------------
LEMMA FromTheFirstStep ==
  ProgramTypeOK /\ FromTheFirst /\ [AllNext]_allVars => FromTheFirst'
<1> SUFFICES ASSUME ProgramTypeOK, FromTheFirst, [AllNext]_allVars PROVE FromTheFirst'
  OBVIOUS
<1>1. CASE UNCHANGED programVars
  BY <1>1 DEF FromTheFirst, programVars
<1>2. ASSUME NEW p \in Program, ProgramNext(p) PROVE FromTheFirst'
  <2>1. ASSUME NEW next, Advance(p, next), pc[p] \notin {"check", "head", "read"}
        PROVE  FromTheFirst'
    BY <2>1 DEF Advance, ProgramTypeOK, FromTheFirst
  <2>2. ASSUME Crash(p) PROVE FromTheFirst'
    BY <2>2 DEF Crash, ProgramTypeOK, FromTheFirst
  <2>3. CASE MapRegion(p)
    BY <2>1, <2>2, <2>3 DEF MapRegion
  <2>4. CASE Construct(p)
    BY <2>1, <2>2, <2>4 DEF Construct
  <2>5. CASE CheckValid(p)
    BY <2>5 DEF CheckValid, ProgramTypeOK, FromTheFirst
  <2>6. CASE TestFlag(p)
    BY <2>6 DEF TestFlag, ProgramTypeOK, FromTheFirst
  <2>7. CASE Poll(p)
    BY <2>1, <2>7 DEF Poll
  <2>8. CASE \E f \in Field : Read(p, f)
    BY <2>8 DEF Read, ProgramTypeOK, FromTheFirst
  <2>9. CASE Destroy(p)
    BY <2>9 DEF Destroy, ProgramTypeOK, FromTheFirst
  <2>10. CASE Signal(p)
    BY <2>10 DEF Signal, FromTheFirst
  <2>11. CASE Kill(p)
    BY <2>2, <2>11 DEF Kill
  <2> QED
    BY <1>2, <2>3, <2>4, <2>5, <2>6, <2>7, <2>8, <2>9, <2>10, <2>11
       DEF ProgramNext, ProgramStep
<1> QED
  BY <1>1, <1>2 DEF AllNext, Publishing, Records, Runs, allVars

LEMMA TopFirstStep ==
  ASSUME ChannelInv, TopFirst, [ChannelNext]_vars
  PROVE  TopFirst'
<1>0. PublisherTypeOK /\ Announced
  BY DEF ChannelInv
<1>1. made \in Nat /\ "fod" \in Channel /\ "tob" \in Channel
  BY <1>0 DEF PublisherTypeOK, Channel
<1>2. ToSet(carried["fod"]) \subseteq 1..made
  <2>1. DOMAIN carried["fod"] = 1..Len(carried["fod"])
    BY <1>0, <1>1, LenProperties DEF PublisherTypeOK
  <2> QED BY <1>0, <1>1, <2>1 DEF Announced, ToSet
<1>3. CASE UNCHANGED <<made, tops, carried, todo>>
  BY <1>3 DEF TopFirst
<1>4. ASSUME NEW atTop \in BOOLEAN, BeginPublish(atTop) PROVE TopFirst'
  <2>1. /\ made' = made + 1 /\ carried' = carried
        /\ tops' = IF atTop THEN tops \cup {made + 1} ELSE tops
        /\ todo' = IF atTop THEN <<"tob", "fod">> ELSE <<"fod">>
    BY <1>4 DEF BeginPublish, Targets
  <2>2. tops' \subseteq 1..made'
    BY <1>1, <2>1 DEF TopFirst
  <2>3. ToSet(carried["fod"]) \cap tops' \subseteq ToSet(carried["tob"])
    BY <1>1, <1>2, <2>1 DEF TopFirst
  <2>4. ~(todo' = <<"fod">> /\ made' \in tops')
    BY <1>1, <2>1 DEF TopFirst
  <2> QED BY <2>1, <2>2, <2>3, <2>4 DEF TopFirst
<1>5. CASE Announce
  <2> DEFINE ch == Head(todo)
             n == Len(carried[ch])
  <2>1. /\ ch \in Channel /\ n \in Nat
        /\ Len(carried'[ch]) = n + 1 /\ carried'[ch][n + 1] = made
        /\ \A i \in 1..n : carried'[ch][i] = carried[ch][i]
        /\ \A h \in Channel \ {ch} : carried'[h] = carried[h]
    BY <1>0, <1>5, OneMore
  <2>2. ToSet(carried'[ch]) = ToSet(carried[ch]) \cup {made}
    <3>1. PublisherTypeOK'
      BY <1>0, PublisherTypeStep
    <3>2. DOMAIN carried[ch] = 1..n /\ DOMAIN carried'[ch] = 1..(n + 1)
      BY <1>0, <2>1, <3>1, LenProperties DEF PublisherTypeOK
    <3>3. 1..(n + 1) = 1..n \cup {n + 1}
      BY <2>1
    <3>4. ToSet(carried'[ch]) = {carried'[ch][i] : i \in 1..(n + 1)}
      BY <3>2 DEF ToSet
    <3>5. ToSet(carried[ch]) = {carried[ch][i] : i \in 1..n}
      BY <3>2 DEF ToSet
    <3> HIDE DEF ch, n
    <3>6. \A i \in 1..n : carried'[ch][i] = carried[ch][i]
      BY <2>1
    <3>7. carried'[ch][n + 1] = made
      BY <2>1
    <3> QED BY <3>3, <3>4, <3>5, <3>6, <3>7
  <2>3. /\ made' = made /\ tops' = tops /\ todo' = Tail(todo) /\ todo # <<>>
        /\ todo = <<"fod">> \/ ch = "tob"
    BY <1>0, <1>5 DEF Announce, PublisherTypeOK
  <2>4. /\ ch = "tob" => Tail(todo) = <<"fod">>
        /\ ch = "fod" => Tail(todo) = <<>>
        /\ ch = "tob" \/ ch = "fod"
    BY <1>0, <2>1, <2>3, TodoFacts DEF Channel
  <2> HIDE DEF ch, n
  <2>5. CASE ch = "tob"
    BY <1>1, <2>1, <2>2, <2>3, <2>4, <2>5 DEF TopFirst
  <2>6. CASE ch = "fod"
    BY <1>1, <2>1, <2>2, <2>3, <2>4, <2>6, EmptySeq DEF TopFirst
  <2> QED BY <2>4, <2>5, <2>6
<1>6. CASE PublisherDies
  BY <1>6 DEF PublisherDies, TopFirst
<1>7. ASSUME NEW ch \in Channel, Create(ch) PROVE UNCHANGED <<made, tops, carried, todo>>
  BY <1>7 DEF Create
<1>8. ASSUME NEW f \in Field, StoreField(f) PROVE UNCHANGED <<made, tops, carried, todo>>
  BY <1>8 DEF StoreField
<1>9. CASE UNCHANGED publisherVars
  BY <1>3, <1>9 DEF publisherVars
<1> QED
  BY <1>3, <1>4, <1>5, <1>6, <1>7, <1>8, <1>9, ConsumersOnlyRead
     DEF ChannelNext, PublisherNext, vars

\* The elements of the beginning of a sequence.
LEMMA FirstOnes ==
  ASSUME NEW s \in Seq(Nat), NEW n \in Nat, n <= Len(s)
  PROVE  ToSet(SubSeq(s, 1, n)) = {s[i] : i \in 1..n}
<1>1. Len(s) \in Nat
  BY LenProperties
<1>2. /\ SubSeq(s, 1, n) \in Seq(Nat) /\ Len(SubSeq(s, 1, n)) = n
      /\ \A i \in 1..n : SubSeq(s, 1, n)[i] = s[i]
  <2>1. \A i \in 1..n : i \in 1..Len(s)
    BY <1>1
  <2>2. \A i \in 1..n : s[i] \in Nat
    BY <1>1, <2>1, ElementOfSeq
  <2>3. /\ SubSeq(s, 1, n) \in Seq(Nat)
        /\ Len(SubSeq(s, 1, n)) = IF 1 <= n THEN n - 1 + 1 ELSE 0
        /\ \A i \in 1..(n - 1 + 1) : SubSeq(s, 1, n)[i] = s[1 + i - 1]
    BY <1>1, <2>2, SubSeqProperties
  <2> QED BY <1>1, <2>3
<1>3. DOMAIN SubSeq(s, 1, n) = 1..n
  BY <1>2, LenProperties
<1> QED BY <1>2, <1>3 DEF ToSet

\* What a consumer has been told of are the first so many announcements.
LEMMA ToldIs ==
  ASSUME PublisherTypeOK, ConsumerTypeOK, Informed, NEW c \in Consumer
  PROVE  ToldSoFar(c) = {carried[Source[c]][i] : i \in 1..last_seen[c]}
<1>1. /\ carried[Source[c]] \in Seq(Nat) /\ last_seen[c] \in Nat
      /\ last_seen[c] <= Len(carried[Source[c]])
  BY ChannelAssumption DEF PublisherTypeOK, ConsumerTypeOK, Informed
<1> QED BY <1>1, FirstOnes DEF ToldSoFar

\* A program that does not move, and whose objects do not, sees announcements and
\* publications come, none of which it has been told of.
LEMMA TopFollowsStill ==
  ASSUME ChannelInv, ChannelInv', ProgramTypeOK, [ChannelNext]_vars, TopFirst,
         NEW p \in Program, pc[p] = "poll", turn[p] = 2, Attached(<<p, "tob">>)',
         Still(<<p, "tob">>), Still(<<p, "fod">>),
         ToldSoFar(<<p, "fod">>) \cap tops \subseteq ToldSoFar(<<p, "tob">>)
  PROVE  (ToldSoFar(<<p, "fod">>) \cap tops)' \subseteq ToldSoFar(<<p, "tob">>)'
<1>0. /\ PublisherTypeOK /\ ConsumerTypeOK /\ Informed /\ Announced /\ Stored
      /\ PublisherTypeOK' /\ ConsumerTypeOK' /\ Informed'
  BY DEF ChannelInv
<1>1. ASSUME NEW ch \in Channel
      PROVE  /\ <<p, ch>> \in Consumer /\ Source[<<p, ch>>] = ch
             /\ last_seen'[<<p, ch>>] = last_seen[<<p, ch>>]
             /\ last_seen[<<p, ch>>] \in Nat
             /\ last_seen[<<p, ch>>] <= Len(carried[ch]) /\ Len(carried[ch]) \in Nat
  <2>1. ch \in ToSet(Polls(p))
    <3>1. Polls(p) = <<"tob", "fod">>
      <4>1. turn[p] <= Len(Polls(p))
        BY DEF ProgramTypeOK
      <4>2. /\ Kind[p] = "test" => Len(Polls(p)) = 1
            /\ Kind[p] # "test" => Polls(p) = <<"tob", "fod">>
        BY PollsOf
      <4>3. Len(Polls(p)) # 1
        BY <4>1
      <4> QED BY <4>2, <4>3
    <3> QED BY <1>0, <3>1, TodoFacts
  <2>2. <<p, ch>> \in {c \in Program \X Channel : c[2] \in ToSet(Polls(c[1]))}
    BY <2>1
  <2>3. <<p, ch>> \in Consumer
    BY <2>2, ProgramAssumption
  <2>4. Source[<<p, ch>>] = ch
    BY <2>3, ProgramAssumption
  <2>5. last_seen'[<<p, ch>>] = last_seen[<<p, ch>>]
    BY DEF Still, Channel
  <2>6. last_seen[<<p, ch>>] \in Nat /\ last_seen[<<p, ch>>] <= Len(carried[ch])
    BY <1>0, <2>3, <2>4 DEF ConsumerTypeOK, Informed
  <2> QED BY <1>0, <2>3, <2>4, <2>5, <2>6, LenProperties DEF PublisherTypeOK
<1>2. ASSUME NEW ch \in Channel
      PROVE  ToldSoFar(<<p, ch>>)' = ToldSoFar(<<p, ch>>)
  <2> DEFINE n == last_seen[<<p, ch>>]
  <2>1. ToldSoFar(<<p, ch>>) = {carried[ch][i] : i \in 1..n}
    BY <1>0, <1>1, ToldIs
  <2>2. ToldSoFar(<<p, ch>>)' = {carried'[ch][i] : i \in 1..n}
    <3> DEFINE t == carried'[ch]
    <3>1. /\ t \in Seq(Nat) /\ Len(carried[ch]) <= Len(t) /\ Len(t) \in Nat
      BY <1>0, Forwards, LenProperties DEF PublisherTypeOK
    <3>2. n \in Nat /\ n <= Len(t)
      BY <1>1, <3>1
    <3>3. ToldSoFar(<<p, ch>>)' = ToSet(SubSeq(t, 1, n))
      BY <1>1 DEF ToldSoFar
    <3> HIDE DEF t, n
    <3> QED BY <3>1, <3>2, <3>3, FirstOnes DEF t
  <2>3. \A i \in 1..n : carried'[ch][i] = carried[ch][i]
    BY <1>0, <1>1, Forwards
  <2> HIDE DEF n
  <2>4. {carried'[ch][i] : i \in 1..n} = {carried[ch][i] : i \in 1..n}
    BY <2>3
  <2> QED BY <2>1, <2>2, <2>4
<1>3. tops' = tops \/ tops' = tops \cup {made + 1}
  <2>1. UNCHANGED publisherVars => tops' = tops
    BY DEF publisherVars
  <2> QED
    BY <2>1, ConsumersOnlyRead
       DEF ChannelNext, PublisherNext, Create, BeginPublish, StoreField, Announce, PublisherDies,
           vars
<1>4. made + 1 \notin ToldSoFar(<<p, "fod">>)
  <2>1. "fod" \in Channel
    BY DEF Channel
  <2>2. ToldSoFar(<<p, "fod">>) = {carried["fod"][i] : i \in 1..last_seen[<<p, "fod">>]}
    <3>1. <<p, "fod">> \in Consumer /\ Source[<<p, "fod">>] = "fod"
      BY <1>1, <2>1
    <3> QED BY <1>0, <3>1, ToldIs
  <2>3. \A i \in 1..last_seen[<<p, "fod">>] : carried["fod"][i] \in 1..made
    BY <1>0, <1>1, <2>1 DEF Announced
  <2>4. made \in Nat
    BY <1>0 DEF PublisherTypeOK
  <2> QED BY <2>2, <2>3, <2>4
<1>5. /\ ToldSoFar(<<p, "fod">>)' = ToldSoFar(<<p, "fod">>)
      /\ ToldSoFar(<<p, "tob">>)' = ToldSoFar(<<p, "tob">>)
  BY <1>2 DEF Channel
<1>6. (ToldSoFar(<<p, "fod">>) \cap tops)' = ToldSoFar(<<p, "fod">>)' \cap tops'
  OBVIOUS
<1> QED BY <1>3, <1>4, <1>5, <1>6

\* The two objects of a program that polls both channels.
LEMMA BothObjects ==
  ASSUME ProgramTypeOK, NEW p \in Program, turn[p] = 2 \/ Len(Polls(p)) = 2,
         NEW ch \in Channel
  PROVE  /\ <<p, ch>> \in Consumer /\ Source[<<p, ch>>] = ch
         /\ Polls(p) = <<"tob", "fod">> /\ Len(Polls(p)) = 2
<1>1. Polls(p) = <<"tob", "fod">> /\ Len(Polls(p)) = 2
  <2>1. turn[p] <= Len(Polls(p))
    BY DEF ProgramTypeOK
  <2>2. /\ Kind[p] = "test" => Len(Polls(p)) = 1
        /\ Kind[p] # "test" => Polls(p) = <<"tob", "fod">> /\ Len(Polls(p)) = 2
    BY PollsOf
  <2>3. Len(Polls(p)) # 1
    BY <2>1
  <2> QED BY <2>2, <2>3
<1>2. ch \in ToSet(Polls(p))
  BY <1>1 DEF ToSet, Channel
<1>3. <<p, ch>> \in {c \in Program \X Channel : c[2] \in ToSet(Polls(c[1]))}
  BY <1>2
<1>4. <<p, ch>> \in Consumer
  BY <1>3, ProgramAssumption
<1> QED BY <1>1, <1>4, ProgramAssumption

\* A poll of the top tells of every top announced, and so of those of the depths told before.
LEMMA TopPolled ==
  ASSUME ChannelInv, ChannelInv', ProgramTypeOK, TopFirst, NEW p \in Program, Poll(p),
         pc'[p] = "poll", turn'[p] = 2, Attached(<<p, "tob">>)'
  PROVE  (ToldSoFar(<<p, "fod">>) \cap tops)' \subseteq ToldSoFar(<<p, "tob">>)'
<1>0. /\ PublisherTypeOK /\ ConsumerTypeOK /\ Informed /\ Announced
      /\ PublisherTypeOK' /\ ConsumerTypeOK' /\ Informed'
  BY DEF ChannelInv
<1>1. turn[p] = 1 /\ Len(Polls(p)) = 2
  <2>1. /\ pc' = [pc EXCEPT ![p] = IF LastTurn(p)
                                   THEN (IF proc'[Object(p)] = "reading" THEN "read" ELSE "head")
                                   ELSE @]
        /\ turn' = [turn EXCEPT ![p] = IF LastTurn(p) THEN 1 ELSE @ + 1]
    BY DEF Poll, Advance
  <2>2. ~LastTurn(p)
    <3>1. LastTurn(p) => pc'[p] \in {"read", "head"}
      BY <2>1 DEF ProgramTypeOK
    <3> QED BY <3>1
  <2>3. turn'[p] = turn[p] + 1
    BY <2>1, <2>2 DEF ProgramTypeOK
  <2>4. turn[p] \in {1, 2} /\ turn[p] <= Len(Polls(p)) /\ turn[p] # Len(Polls(p))
    BY <2>2 DEF ProgramTypeOK, LastTurn
  <2> QED BY <2>3, <2>4, PollsOf
<1>2. "tob" \in Channel /\ "fod" \in Channel
  BY DEF Channel
<1> DEFINE c == <<p, "tob">>
           d == <<p, "fod">>
<1>3. /\ c \in Consumer /\ Source[c] = "tob" /\ d \in Consumer /\ Source[d] = "fod"
      /\ Object(p) = c /\ Chan(p) = "tob" /\ d # c
  <2>1. Polls(p) = <<"tob", "fod">>
    BY <1>1, <1>2, BothObjects
  <2> QED BY <1>1, <1>2, <2>1, BothObjects DEF Object, Chan
<1> HIDE DEF c, d
<1>4. \/ HasNewSnapshot(c)
      \/ UNCHANGED vars /\ ~(Attached(c) /\ last_seq["tob"] > last_seen[c])
  BY <1>3 DEF Poll
<1>5. UNCHANGED publisherVars
  BY <1>4 DEF HasNewSnapshot, vars
<1>6. carried' = carried /\ tops' = tops
  BY <1>5 DEF publisherVars
<1>7. last_seq["tob"] = Len(carried["tob"]) /\ Len(carried["tob"]) \in Nat
  BY <1>0, <1>2, LenProperties DEF Announced, PublisherTypeOK
<1>8. last_seen'[c] = Len(carried["tob"])
  <2>1. CASE HasNewSnapshot(c)
    BY <1>0, <1>3, <1>7, <2>1 DEF HasNewSnapshot, ConsumerTypeOK
  <2>2. CASE UNCHANGED vars /\ ~(Attached(c) /\ last_seq["tob"] > last_seen[c])
    <3>1. last_seen' = last_seen /\ proc' = proc
      BY <2>2 DEF vars, consumerVars
    <3>2. Attached(c)
      BY <3>1 DEF Attached, c
    <3>3. last_seen[c] \in Nat /\ last_seen[c] <= Len(carried["tob"])
      BY <1>0, <1>3 DEF ConsumerTypeOK, Informed
    <3> QED BY <1>7, <2>2, <3>1, <3>2, <3>3
  <2> QED BY <1>4, <2>1, <2>2
<1>9. last_seen'[d] = last_seen[d]
  BY <1>0, <1>3, <1>4 DEF HasNewSnapshot, vars, consumerVars, ConsumerTypeOK
<1>10. ToldSoFar(c)' = ToSet(carried["tob"])
  <2>1. ToldSoFar(c)' = ToSet(SubSeq(carried["tob"], 1, Len(carried["tob"])))
    BY <1>3, <1>6, <1>8 DEF ToldSoFar
  <2>2. carried["tob"] \in Seq(Nat) /\ DOMAIN carried["tob"] = 1..Len(carried["tob"])
    BY <1>0, <1>2, LenProperties DEF PublisherTypeOK
  <2>3. ToSet(carried["tob"]) = {carried["tob"][i] : i \in 1..Len(carried["tob"])}
    BY <2>2 DEF ToSet
  <2>4. Len(carried["tob"]) <= Len(carried["tob"])
    BY <1>7
  <2> QED BY <1>7, <2>1, <2>2, <2>3, <2>4, FirstOnes
<1>11. ToldSoFar(d)' \subseteq ToSet(carried["fod"])
  <2> DEFINE n == last_seen[d]
  <2>1. ToldSoFar(d)' = ToSet(SubSeq(carried["fod"], 1, n))
    BY <1>3, <1>6, <1>9 DEF ToldSoFar
  <2>2. /\ carried["fod"] \in Seq(Nat) /\ n \in Nat /\ n <= Len(carried["fod"])
        /\ Len(carried["fod"]) \in Nat /\ DOMAIN carried["fod"] = 1..Len(carried["fod"])
    BY <1>0, <1>2, <1>3, LenProperties DEF PublisherTypeOK, ConsumerTypeOK, Informed
  <2> HIDE DEF n
  <2>3. ToSet(SubSeq(carried["fod"], 1, n)) = {carried["fod"][i] : i \in 1..n}
    BY <2>2, FirstOnes
  <2>4. \A i \in 1..n : i \in DOMAIN carried["fod"]
    BY <2>2
  <2> QED BY <2>1, <2>3, <2>4 DEF ToSet
<1>12. ToSet(carried["fod"]) \cap tops \subseteq ToSet(carried["tob"])
  BY DEF TopFirst
<1> QED BY <1>6, <1>10, <1>11, <1>12 DEF c, d

\* No other step brings a program to its second channel.
LEMMA OnlyPolls ==
  ASSUME ProgramTypeOK, FromTheFirst, NEW p \in Program, ProgramNext(p), ~Poll(p), ~Signal(p),
         pc'[p] = "poll"
  PROVE  turn'[p] = 1
<1>1. ASSUME NEW next, Advance(p, next), next # "poll", pc[p] # "poll" PROVE FALSE
  BY <1>1 DEF Advance, ProgramTypeOK
<1>2. ASSUME Crash(p) PROVE FALSE
  BY <1>2 DEF Crash, ProgramTypeOK
<1>3. CASE MapRegion(p)
  <2>1. Advance(p, IF mapped'[p] = {} THEN "done" ELSE "construct") /\ pc[p] = "map"
    BY <1>2, <1>3 DEF MapRegion
  <2> QED BY <1>1, <2>1
<1>4. CASE Construct(p)
  BY <1>1, <1>2, <1>4 DEF Construct
<1>5. CASE CheckValid(p)
  BY <1>5 DEF CheckValid, ProgramTypeOK
<1>6. CASE TestFlag(p)
  <2>1. turn[p] = 1
    BY <1>6 DEF TestFlag, FromTheFirst
  <2> QED BY <1>6, <2>1 DEF TestFlag, ProgramTypeOK
<1>7. CASE \E f \in Field : Read(p, f)
  BY <1>7 DEF Read, ProgramTypeOK
<1>8. CASE Destroy(p)
  BY <1>8 DEF Destroy, ProgramTypeOK
<1>9. CASE Kill(p)
  BY <1>2, <1>9 DEF Kill
<1> QED
  BY <1>3, <1>4, <1>5, <1>6, <1>7, <1>8, <1>9 DEF ProgramNext, ProgramStep

\* A program moves its own counters only.
LEMMA OwnCountersOnly ==
  ASSUME ProgramTypeOK, NEW q \in Program, ProgramNext(q), NEW p \in Program, p # q
  PROVE  pc'[p] = pc[p] /\ turn'[p] = turn[p]
BY DEF ProgramNext, ProgramStep, MapRegion, Construct, CheckValid, TestFlag, Poll, Read, Destroy,
       Signal, Kill, Crash, Advance, ProgramTypeOK

LEMMA TopFollowsStep ==
  ASSUME ChannelInv, ChannelInv', ProgramInv, ProgramTypeOK', [AllNext]_allVars
  PROVE  TopFollows'
<1>0. ProgramTypeOK /\ FromTheFirst /\ TopFirst /\ TopFollows /\ ConsumerTypeOK
  BY DEF ProgramInv, ChannelInv
<1>c. [ChannelNext]_vars
  BY <1>0, ChannelSteps
<1> SUFFICES ASSUME NEW p \in Program, pc'[p] = "poll", turn'[p] = 2, Attached(<<p, "tob">>)'
             PROVE  (ToldSoFar(<<p, "fod">>) \cap tops)' \subseteq ToldSoFar(<<p, "tob">>)'
  BY DEF TopFollows
<1>1. ASSUME pc[p] = "poll", turn[p] = 2, Still(<<p, "tob">>), Still(<<p, "fod">>)
      PROVE  (ToldSoFar(<<p, "fod">>) \cap tops)' \subseteq ToldSoFar(<<p, "tob">>)'
  <2>1. Attached(<<p, "tob">>)
    BY <1>1 DEF Attached, Still
  <2>2. ToldSoFar(<<p, "fod">>) \cap tops \subseteq ToldSoFar(<<p, "tob">>)
    BY <1>0, <1>1, <2>1 DEF TopFollows
  <2> QED BY <1>0, <1>c, <1>1, <2>2, TopFollowsStill
<1>2. ASSUME turn[p] = 2
      PROVE  <<p, "tob">> \in Consumer /\ <<p, "fod">> \in Consumer
  BY <1>0, <1>2, BothObjects DEF Channel
<1>3. CASE Publishing \/ UNCHANGED allVars
  <2>1. pc[p] = "poll" /\ turn[p] = 2
    BY <1>3 DEF Publishing, allVars, programVars
  <2>2. PublisherNext \/ UNCHANGED vars
    BY <1>3 DEF Publishing, allVars
  <2> QED BY <1>1, <1>2, <2>1, <2>2, PublisherMovesNone
<1>4. CASE Records(RecorderNext)
  <2>1. pc[p] = "poll" /\ turn[p] = 2 /\ RecorderNext
    BY <1>4 DEF Records, programVars
  <2>2. <<p, "tob">> # recorder /\ <<p, "fod">> # recorder
    BY CastAssumption DEF Csv
  <2> QED BY <1>0, <1>1, <1>2, <2>1, <2>2, RecorderMovesItself
<1>5. ASSUME NEW q \in Program, Runs(q, ProgramNext(q)), q # p
      PROVE  (ToldSoFar(<<p, "fod">>) \cap tops)' \subseteq ToldSoFar(<<p, "tob">>)'
  <2>1. ProgramNext(q)
    BY <1>5 DEF Runs
  <2>2. pc[p] = "poll" /\ turn[p] = 2
    BY <1>0, <1>5, <2>1, OwnCountersOnly
  <2>3. <<p, "tob">>[1] # q /\ <<p, "fod">>[1] # q
    BY <1>5
  <2> QED BY <1>0, <1>1, <1>2, <2>1, <2>2, <2>3, OwnObjectsOnly
<1>6. CASE Runs(p, ProgramNext(p))
  <2>1. ProgramNext(p)
    BY <1>6 DEF Runs
  <2>2. CASE Poll(p)
    BY <1>0, <2>2, TopPolled
  <2>3. CASE Signal(p)
    <3>1. pc[p] = "poll" /\ turn[p] = 2 /\ UNCHANGED vars
      BY <2>3 DEF Signal
    <3> QED BY <1>1, <1>2, <3>1, PublisherMovesNone
  <2>4. CASE ~Poll(p) /\ ~Signal(p)
    BY <1>0, <2>1, <2>4, OnlyPolls
  <2> QED BY <2>2, <2>3, <2>4
<1> QED BY <1>3, <1>4, <1>5, <1>6 DEF AllNext

\* Once a program has polled the top again, it knows the top of every event whose depth it was
\* told of before.
THEOREM TopsNotMissed == AllSpec => []TopFollows
<1>1. AllInit => ProgramInv
  <2> SUFFICES ASSUME AllInit PROVE ProgramInv
    OBVIOUS
  <2>1. ProgramTypeOK
    BY ProgramTypeInit
  <2>2. \A p \in Program : pc[p] \in {"map", "construct"}
    BY DEF AllInit, ProgramInit
  <2>3. FromTheFirst /\ TopFollows
    BY <2>2 DEF FromTheFirst, TopFollows
  <2>4. TopFirst
    BY DEF AllInit, Init, TopFirst, ToSet, Channel
  <2> QED BY <2>1, <2>3, <2>4 DEF ProgramInv
<1>2. ChannelInv /\ ChannelInv' /\ ProgramInv /\ [AllNext]_allVars => ProgramInv'
  BY ProgramTypeStep, FromTheFirstStep, ChannelSteps, TopFirstStep, TopFollowsStep
     DEF ProgramInv
<1>3. ProgramInv => TopFollows
  BY DEF ProgramInv
<1> QED BY <1>1, <1>2, <1>3, ChannelInvariance, PTL DEF AllSpec
-----------------------------------------------------------------------------
\* The CSV program, for any fields, batch size and number of runs, beside any polling programs:
\* its file holds the lines it has counted, and its lines mix publications only forwards.

LineType == [number : Nat, sums : [Summed -> Nat], columns : [Field -> Nat]]

RecorderTypeOK ==
  /\ step \in {"off", "connected", "opened", "headed", "polling", "summing", "writing",
               "failed", "killed", "stopped"}
  /\ sums \in [Summed -> Nat] /\ unsummed \subseteq Summed
  /\ file \in Seq(LineType) /\ composed \in Seq(LineType)
  /\ good \in BOOLEAN /\ current_batch_ \in Nat /\ runs \in Nat

\* Where the program is, and where its consumer is.
InStep ==
  /\ step \in {"connected", "opened", "headed"} =>
       file = <<>> /\ composed = <<>> /\ proc[recorder] \in {"off", "polling"}
  /\ step = "polling" => proc[recorder] = "polling"
  /\ step = "summing" => proc[recorder] = "reading" /\ unread[recorder] = Field
  /\ step = "writing" => proc[recorder] \in {"polling", "reading"} /\ unsummed = {}
                         /\ last_seen[recorder] > 0

\* The line being made: of a number not written yet, its sums no older than the columns of
\* the line before, its columns no older than its sums.
LineAtHand ==
  /\ \A i \in DOMAIN composed : composed[i].number \in 1..last_seen[recorder]
  /\ \A i \in DOMAIN composed : \A f \in Summed : composed[i].columns[f] <= latest["fod"][f]
  /\ step \in {"summing", "writing"} =>
       /\ \A i \in DOMAIN composed : composed[i].number < last_seen[recorder]
       /\ \A f \in Summed \ unsummed :
            /\ carried["fod"][last_seen[recorder]] <= sums[f]
            /\ sums[f] <= latest["fod"][f]
            /\ \A i \in DOMAIN composed : composed[i].columns[f] <= sums[f]
  /\ step = "writing" =>
       \A f \in Summed \ unread[recorder] : sums[f] <= got[recorder][f]

RecorderInv ==
  RecorderTypeOK /\ InStep /\ LineAtHand /\ FileHoldsLines /\ LinesInOrder
-----------------------------------------------------------------------------
LEMMA Recorder ==
  /\ recorder \in Consumer /\ Source[recorder] = "fod" /\ recorder \in Printing
  /\ "fod" \in Channel /\ \A f \in Summed : f \in Field
BY RecorderAssumption DEF Channel

\* Every step is one of the program or leaves it, and its consumer, alone.
LEMMA OrQuiet ==
  ASSUME ChannelInv, ProgramTypeOK, [AllNext]_allVars
  PROVE  RecorderNext \/ (Still(recorder) /\ UNCHANGED recorderVars)
<1>0. ConsumerTypeOK
  BY DEF ChannelInv
<1>1. CASE Publishing \/ UNCHANGED allVars
  <2>1. PublisherNext \/ UNCHANGED vars
    BY <1>1 DEF Publishing, allVars
  <2>2. UNCHANGED recorderVars
    BY <1>1 DEF Publishing, allVars
  <2> QED BY <2>1, <2>2, Recorder, PublisherMovesNone
<1>2. CASE Records(RecorderNext)
  BY <1>2 DEF Records
<1>3. ASSUME NEW p \in Program, Runs(p, ProgramNext(p))
      PROVE  Still(recorder) /\ UNCHANGED recorderVars
  <2>1. ProgramNext(p) /\ UNCHANGED recorderVars
    BY <1>3 DEF Runs
  <2>2. recorder[1] # p
    BY CastAssumption DEF Csv
  <2> QED BY <1>0, <2>1, <2>2, Recorder, OwnObjectsOnly
<1> QED BY <1>1, <1>2, <1>3 DEF AllNext

LEMMA LineTyped ==
  ASSUME ConsumerTypeOK, RecorderTypeOK
  PROVE  Line \in LineType /\ Cut \in LineType
BY Recorder DEF ConsumerTypeOK, RecorderTypeOK, Line, Cut, NoSums, LineType

\* What the program does to its consumer.
LEMMA ObjectSteps ==
  ASSUME RecorderNext
  PROVE  \/ ConsumerStep(recorder)
         \/ UNCHANGED vars
BY DEF RecorderNext, RecorderRuns, Connect, OpenFile, WriteHeaders, CheckConsumer, RunPoll, AddUp,
       WriteColumn, EndLine, Interrupt, Unwind, ConsumerStep

LEMMA RecorderTypeStep ==
  ASSUME PublisherTypeOK, ConsumerTypeOK, RecorderTypeOK,
         RecorderNext \/ UNCHANGED recorderVars
  PROVE  RecorderTypeOK'
<1>t. Line \in LineType /\ Cut \in LineType
  BY LineTyped
<1>e. <<>> \in Seq(LineType) /\ NoSums \in [Summed -> Nat]
  BY EmptySeq DEF NoSums
<1> USE DEF RecorderTypeOK
<1>1. CASE Connect
  BY <1>1, <1>e DEF Connect
<1>2. CASE OpenFile
  BY <1>2 DEF OpenFile
<1>3. CASE WriteHeaders \/ CheckConsumer
  BY <1>3 DEF WriteHeaders, CheckConsumer
<1>4. CASE RunPoll
  BY <1>4, <1>e DEF RunPoll
<1>5. ASSUME NEW f \in Summed, AddUp(f) PROVE RecorderTypeOK'
  <2>1. latest["fod"][f] \in Nat
    BY Recorder DEF PublisherTypeOK
  <2>2. sums' \in [Summed -> Nat]
    BY <1>5, <2>1 DEF AddUp
  <2>3. unsummed' \subseteq Summed /\ step' \in {"summing", "writing"}
    BY <1>5 DEF AddUp
  <2> QED BY <1>5, <2>2, <2>3 DEF AddUp
<1>6. ASSUME NEW f \in Field, WriteColumn(f) PROVE RecorderTypeOK'
  BY <1>6 DEF WriteColumn, recorderVars
<1>7. ASSUME NEW ok \in BOOLEAN, EndLine(ok) PROVE RecorderTypeOK'
  <2>1. composed' \in Seq(LineType)
    BY <1>7, <1>t, AppendProperties DEF EndLine
  <2>2. file' \in Seq(LineType)
    <3>1. Append(file, Line) \in Seq(LineType) /\ Append(file, Cut) \in Seq(LineType)
      BY <1>t, AppendProperties
    <3>2. file' \in {file, Append(file, Line), Append(file, Cut)}
      BY <1>7 DEF EndLine, Written
    <3> QED BY <3>1, <3>2
  <2>3. good' \in BOOLEAN
    BY <1>7 DEF EndLine, Written
  <2>4. current_batch_' \in Nat
    BY <1>7 DEF EndLine
  <2> QED BY <1>7, <2>1, <2>2, <2>3, <2>4 DEF EndLine
<1>8. CASE Interrupt
  BY <1>8 DEF Interrupt
<1>9. CASE UNCHANGED recorderVars
  BY <1>9 DEF recorderVars
<1> QED
  BY <1>1, <1>2, <1>3, <1>4, <1>5, <1>6, <1>7, <1>8, <1>9 DEF RecorderNext, RecorderRuns

LEMMA InStepStep ==
  ASSUME PublisherTypeOK, ConsumerTypeOK, Informed, RecorderTypeOK, InStep,
         RecorderNext \/ (Still(recorder) /\ UNCHANGED recorderVars)
  PROVE  InStep'
<1> USE DEF InStep
<1>1. CASE Connect
  <2>1. CASE region["fod"] = "absent"
    BY <1>1, <2>1 DEF Connect, vars, consumerVars
  <2>2. CASE region["fod"] # "absent"
    <3>1. Open(recorder)
      BY <1>1, <2>2 DEF Connect
    <3>2. region["fod"] = "ready" => proc'[recorder] = "polling"
      BY <3>1, Recorder DEF Open, ConsumerTypeOK
    <3>3. step' = "connected" => region["fod"] = "ready"
      BY <1>1, <2>2, Recorder DEF Connect, PublisherTypeOK
    <3>4. proc'[recorder] \in {"polling", "dead"}
      BY <3>1, Recorder DEF Open, ConsumerTypeOK
    <3> QED BY <1>1, <3>1, <3>2, <3>3, <3>4 DEF Connect
  <2> QED BY <2>1, <2>2
<1>2. CASE OpenFile
  BY <1>2 DEF OpenFile, vars, consumerVars
<1>3. CASE WriteHeaders
  BY <1>3 DEF WriteHeaders, vars, consumerVars
<1>4. CASE CheckConsumer
  BY <1>4 DEF CheckConsumer, Attached, vars, consumerVars
<1>5. CASE RunPoll
  BY <1>5, Recorder DEF RunPoll, HasNewSnapshot, ConsumerTypeOK
<1>6. ASSUME NEW f \in Summed, AddUp(f) PROVE InStep'
  <2>1. last_seen[recorder] > 0
    BY <1>6, Recorder DEF AddUp, Informed
  <2>2. UNCHANGED <<proc, unread, last_seen>> /\ step' \in {"summing", "writing"}
    BY <1>6 DEF AddUp, vars, consumerVars
  <2>3. step' = "writing" => unsummed' = {}
    BY <1>6 DEF AddUp
  <2> QED BY <1>6, <2>1, <2>2, <2>3 DEF AddUp
<1>7. ASSUME NEW f \in Field, WriteColumn(f) PROVE InStep'
  BY <1>7, Recorder DEF WriteColumn, ReadField, recorderVars, ConsumerTypeOK
<1>8. ASSUME NEW ok \in BOOLEAN, EndLine(ok) PROVE InStep'
  BY <1>8 DEF EndLine, vars, consumerVars
<1>9. CASE Interrupt
  BY <1>9 DEF Interrupt
<1>10. CASE Still(recorder) /\ UNCHANGED recorderVars
  BY <1>10 DEF Still, recorderVars
<1> QED
  BY <1>1, <1>2, <1>3, <1>4, <1>5, <1>6, <1>7, <1>8, <1>9, <1>10 DEF RecorderNext, RecorderRuns
-----------------------------------------------------------------------------
\* What the regions do is no matter to the lines already made.
LEMMA Ahead ==
  ASSUME ChannelInv, [ChannelNext]_vars
  PROVE  /\ last_seen[recorder] \in Nat /\ last_seen[recorder] <= Len(carried["fod"])
         /\ Len(carried["fod"]) \in Nat
         /\ \A i \in 1..Len(carried["fod"]) : /\ carried["fod"][i] \in Nat
                                              /\ carried'["fod"][i] = carried["fod"][i]
         /\ \A f \in Field : /\ latest["fod"][f] \in Nat /\ latest'["fod"][f] \in Nat
                             /\ latest["fod"][f] <= latest'["fod"][f]
                             /\ got[recorder][f] \in Nat /\ got[recorder][f] <= latest["fod"][f]
<1>0. PublisherTypeOK /\ ConsumerTypeOK /\ Stored /\ Informed
  BY DEF ChannelInv
<1>1. PublisherTypeOK'
  BY <1>0, PublisherTypeStep
<1>2. carried["fod"] \in Seq(Nat)
  BY <1>0, Recorder DEF PublisherTypeOK
<1>3. /\ Len(carried["fod"]) \in Nat
      /\ \A i \in 1..Len(carried["fod"]) : carried["fod"][i] \in Nat
  BY <1>2, LenProperties, ElementOfSeq
<1>4. last_seen[recorder] \in Nat /\ last_seen[recorder] <= Len(carried["fod"])
  BY <1>0, Recorder DEF ConsumerTypeOK, Informed
<1>5. \A f \in Field : latest["fod"][f] \in Nat /\ latest'["fod"][f] \in Nat
  BY <1>0, <1>1, Recorder DEF PublisherTypeOK
<1>6. \A f \in Field : got[recorder][f] \in Nat /\ got[recorder][f] <= latest["fod"][f]
  BY <1>0, Recorder DEF ConsumerTypeOK, Informed
<1>7. /\ \A i \in 1..Len(carried["fod"]) : carried'["fod"][i] = carried["fod"][i]
      /\ \A f \in Field : latest["fod"][f] <= latest'["fod"][f]
  BY <1>0, Recorder, Forwards
<1> QED BY <1>3, <1>4, <1>5, <1>6, <1>7

\* The lines made, one by one.
LEMMA LineFacts ==
  ASSUME RecorderTypeOK
  PROVE  /\ DOMAIN composed = 1..Len(composed) /\ Len(composed) \in Nat
         /\ \A i \in DOMAIN composed :
              /\ composed[i].number \in Nat
              /\ \A f \in Summed : composed[i].sums[f] \in Nat /\ composed[i].columns[f] \in Nat
<1>1. DOMAIN composed = 1..Len(composed) /\ Len(composed) \in Nat
  BY LenProperties DEF RecorderTypeOK
<1>2. \A i \in DOMAIN composed : composed[i] \in LineType
  BY <1>1, ElementOfSeq DEF RecorderTypeOK
<1> QED BY <1>1, <1>2, Recorder DEF LineType

\* A line is made by the end of add_snapshot().
LEMMA LineMade ==
  ASSUME ConsumerTypeOK, RecorderTypeOK, NEW ok \in BOOLEAN, EndLine(ok)
  PROVE  /\ DOMAIN composed' = 1..Len(composed) + 1 /\ Len(composed') = Len(composed) + 1
         /\ \A i \in 1..Len(composed) : composed'[i] = composed[i]
         /\ composed'[Len(composed) + 1].number = last_seen[recorder]
         /\ composed'[Len(composed) + 1].sums = sums
         /\ composed'[Len(composed) + 1].columns = got[recorder]
<1>1. Line \in LineType /\ composed \in Seq(LineType)
  BY LineTyped DEF RecorderTypeOK
<1>2. composed' = Append(composed, Line)
  BY DEF EndLine
<1>3. /\ Append(composed, Line) \in Seq(LineType)
      /\ Len(Append(composed, Line)) = Len(composed) + 1
      /\ \A i \in 1..Len(composed) : Append(composed, Line)[i] = composed[i]
      /\ Append(composed, Line)[Len(composed) + 1] = Line
  BY <1>1, AppendProperties
<1>4. DOMAIN composed' = 1..Len(composed) + 1
  BY <1>2, <1>3, LenProperties
<1> QED BY <1>2, <1>3, <1>4 DEF Line

\* Where the line at hand, and its consumer, stay as they are.
LEMMA LineStays ==
  ASSUME ChannelInv, [ChannelNext]_vars, RecorderTypeOK, LineAtHand,
         step' = step \/ step' \notin {"summing", "writing"},
         UNCHANGED <<sums, unsummed, composed>>,
         last_seen'[recorder] = last_seen[recorder],
         got'[recorder] = got[recorder], unread'[recorder] = unread[recorder],
         step \in {"summing", "writing"} => last_seen[recorder] > 0
  PROVE  LineAtHand'
<1>1. /\ \A i \in DOMAIN composed : composed[i].number \in 1..last_seen[recorder]
      /\ \A i \in DOMAIN composed : \A f \in Summed : composed[i].columns[f] <= latest'["fod"][f]
  BY Ahead, LineFacts, Recorder DEF LineAtHand
<1>2. step \in {"summing", "writing"} =>
        /\ \A i \in DOMAIN composed : composed[i].number < last_seen[recorder]
        /\ \A f \in Summed \ unsummed :
             /\ carried'["fod"][last_seen[recorder]] <= sums[f]
             /\ sums[f] <= latest'["fod"][f]
             /\ \A i \in DOMAIN composed : composed[i].columns[f] <= sums[f]
  <2> SUFFICES ASSUME step \in {"summing", "writing"}
               PROVE  /\ \A i \in DOMAIN composed : composed[i].number < last_seen[recorder]
                      /\ \A f \in Summed \ unsummed :
                           /\ carried'["fod"][last_seen[recorder]] <= sums[f]
                           /\ sums[f] <= latest'["fod"][f]
                           /\ \A i \in DOMAIN composed : composed[i].columns[f] <= sums[f]
    OBVIOUS
  <2>1. last_seen[recorder] \in 1..Len(carried["fod"])
    BY Ahead
  <2>2. carried'["fod"][last_seen[recorder]] = carried["fod"][last_seen[recorder]]
    BY <2>1, Ahead
  <2>3. \A f \in Summed : sums[f] \in Nat /\ latest["fod"][f] \in Nat /\ latest'["fod"][f] \in Nat
                          /\ latest["fod"][f] <= latest'["fod"][f]
    BY Ahead, Recorder DEF RecorderTypeOK
  <2> QED BY <2>2, <2>3 DEF LineAtHand
<1>3. step = "writing" => \A f \in Summed \ unread[recorder] : sums[f] <= got[recorder][f]
  BY DEF LineAtHand
<1> QED BY <1>1, <1>2, <1>3 DEF LineAtHand

LEMMA LineAtHandStep ==
  ASSUME ChannelInv, [ChannelNext]_vars, RecorderTypeOK, InStep, LineAtHand,
         RecorderNext \/ (Still(recorder) /\ UNCHANGED recorderVars)
  PROVE  LineAtHand'
<1>0. PublisherTypeOK /\ ConsumerTypeOK /\ Stored /\ Informed
  BY DEF ChannelInv
<1>s. step \in {"summing", "writing"} => last_seen[recorder] > 0
  BY <1>0, Recorder DEF InStep, Informed
<1>1. CASE Connect
  <2>1. composed' = <<>> /\ step' \in {"killed", "connected"}
    BY <1>1 DEF Connect
  <2>2. DOMAIN composed' = {}
    BY <2>1
  <2> QED BY <2>1, <2>2 DEF LineAtHand
<1>2. CASE OpenFile
  <2>1. UNCHANGED vars \/ Close(recorder)
    BY <1>2 DEF OpenFile, Unwind
  <2>2. UNCHANGED <<last_seen, got, unread>>
    BY <2>1 DEF vars, consumerVars, Close
  <2> QED BY <1>2, <1>s, <2>2, LineStays DEF OpenFile
<1>3. CASE WriteHeaders \/ CheckConsumer
  BY <1>3, <1>s, LineStays DEF WriteHeaders, CheckConsumer, vars, consumerVars
<1>4. CASE RunPoll
  <2>1. /\ UNCHANGED <<latest, carried, composed>> /\ step' = "summing" /\ unsummed' = Summed
        /\ last_seen'[recorder] = last_seq["fod"] /\ last_seq["fod"] > last_seen[recorder]
        /\ last_seq["fod"] \in Nat
    BY <1>0, <1>4, Recorder
       DEF RunPoll, HasNewSnapshot, publisherVars, ConsumerTypeOK, PublisherTypeOK
  <2>2. \A i \in DOMAIN composed : composed[i].number < last_seen'[recorder]
                                   /\ composed[i].number \in 1..last_seen'[recorder]
    BY <2>1, Ahead DEF LineAtHand
  <2> QED BY <2>1, <2>2 DEF LineAtHand
<1>5. ASSUME NEW f \in Summed, AddUp(f) PROVE LineAtHand'
  <2>1. /\ UNCHANGED <<latest, carried, composed, last_seen, unread, got>>
        /\ sums' = [sums EXCEPT ![f] = latest["fod"][f]] /\ unsummed' = unsummed \ {f}
        /\ step = "summing" /\ step' \in {"summing", "writing"}
    BY <1>5 DEF AddUp, vars, publisherVars, consumerVars
  <2>2. unread[recorder] = Field
    BY <2>1 DEF InStep
  <2>3. last_seen[recorder] \in 1..Len(carried["fod"])
    BY <1>s, <2>1, Ahead
  <2>4. carried["fod"][last_seen[recorder]] <= latest["fod"][f]
    BY <1>0, <2>3, Recorder DEF Stored
  <2>5. /\ \A i \in DOMAIN composed : composed[i].columns[f] <= latest["fod"][f]
        /\ latest["fod"][f] <= latest["fod"][f]
    BY Ahead, Recorder DEF LineAtHand
  <2>6. sums'[f] = latest["fod"][f] /\ \A g \in Summed \ {f} : sums'[g] = sums[g]
    BY <2>1 DEF RecorderTypeOK
  <2>7. \A g \in Summed \ unsummed' :
          /\ carried["fod"][last_seen[recorder]] <= sums'[g]
          /\ sums'[g] <= latest["fod"][g]
          /\ \A i \in DOMAIN composed : composed[i].columns[g] <= sums'[g]
    BY <2>1, <2>4, <2>5, <2>6 DEF LineAtHand
  <2>8. \A g \in Summed : g \in unread[recorder]
    BY <2>2, Recorder
  <2> QED BY <2>1, <2>7, <2>8 DEF LineAtHand
<1>6. ASSUME NEW f \in Field, WriteColumn(f) PROVE LineAtHand'
  <2>1. /\ UNCHANGED <<latest, carried, last_seen, composed, sums, unsummed, step>>
        /\ step = "writing" /\ unread'[recorder] = unread[recorder] \ {f}
        /\ got'[recorder] = [got[recorder] EXCEPT ![f] = latest["fod"][f]]
    BY <1>0, <1>6, Recorder
       DEF WriteColumn, ReadField, recorderVars, publisherVars, ConsumerTypeOK
  <2>2. \A g \in Field : got'[recorder][g] = IF g = f THEN latest["fod"][f] ELSE got[recorder][g]
    BY <1>0, <2>1, Recorder DEF ConsumerTypeOK
  <2>3. \A g \in Summed : sums[g] <= latest["fod"][g]
    BY <2>1 DEF LineAtHand, InStep
  <2>4. \A g \in Summed \ unread'[recorder] : sums[g] <= got'[recorder][g]
    BY <2>1, <2>2, <2>3, Recorder DEF LineAtHand
  <2> QED BY <2>1, <2>4 DEF LineAtHand
<1>7. ASSUME NEW ok \in BOOLEAN, EndLine(ok) PROVE LineAtHand'
  <2>1. UNCHANGED <<latest, carried, last_seen, got, unread>> /\ step' = "polling"
    BY <1>7 DEF EndLine, vars, publisherVars, consumerVars
  <2>2. last_seen[recorder] \in Nat /\ last_seen[recorder] > 0
    BY <1>7, <1>s, Ahead DEF EndLine
  <2>3. \A f \in Summed : got[recorder][f] <= latest["fod"][f]
    BY Ahead, Recorder
  <2>4. \A i \in DOMAIN composed' :
          /\ composed'[i].number \in 1..last_seen[recorder]
          /\ \A f \in Summed : composed'[i].columns[f] <= latest["fod"][f]
    BY <1>0, <1>7, <2>2, <2>3, LineFacts, LineMade DEF LineAtHand
  <2> QED BY <2>1, <2>4 DEF LineAtHand
<1>8. CASE Interrupt
  <2>1. UNCHANGED vars \/ Vanish(recorder)
    BY <1>8 DEF Interrupt
  <2>2. UNCHANGED <<last_seen, got, unread>>
    BY <2>1 DEF vars, consumerVars, Vanish
  <2>3. step' \in {"stopped", "killed"}
    BY <1>8 DEF Interrupt
  <2> QED BY <1>8, <1>s, <2>2, <2>3, LineStays DEF Interrupt
<1>9. CASE Still(recorder) /\ UNCHANGED recorderVars
  BY <1>9, <1>s, LineStays DEF Still, recorderVars
<1> QED
  BY <1>1, <1>2, <1>3, <1>4, <1>5, <1>6, <1>7, <1>8, <1>9 DEF RecorderNext, RecorderRuns
-----------------------------------------------------------------------------
LEMMA InOrderStep ==
  ASSUME ChannelInv, [ChannelNext]_vars, RecorderTypeOK, InStep, LineAtHand, LinesInOrder,
         RecorderNext \/ (Still(recorder) /\ UNCHANGED recorderVars)
  PROVE  LinesInOrder'
<1>0. ConsumerTypeOK /\ Informed
  BY DEF ChannelInv
<1>1. \A i \in DOMAIN composed :
        carried'["fod"][composed[i].number] = carried["fod"][composed[i].number]
  BY Ahead, LineFacts DEF LineAtHand
<1>2. CASE UNCHANGED composed
  BY <1>1, <1>2 DEF LinesInOrder
<1>3. CASE Connect
  <2>1. DOMAIN composed' = {}
    BY <1>3 DEF Connect
  <2> QED BY <2>1 DEF LinesInOrder
<1>4. ASSUME NEW ok \in BOOLEAN, EndLine(ok) PROVE LinesInOrder'
  <2> DEFINE n == Len(composed)
  <2>1. /\ n \in Nat /\ DOMAIN composed = 1..n
        /\ DOMAIN composed' = 1..n + 1 /\ Len(composed') = n + 1
        /\ \A i \in 1..n : composed'[i] = composed[i]
        /\ composed'[n + 1].number = last_seen[recorder]
        /\ composed'[n + 1].sums = sums /\ composed'[n + 1].columns = got[recorder]
    BY <1>0, <1>4, LineFacts, LineMade
  <2>2. /\ carried' = carried /\ step = "writing" /\ unsummed = {} /\ unread[recorder] = {}
        /\ last_seen[recorder] > 0
    BY <1>0, <1>4, Recorder DEF EndLine, InStep, Informed, vars, publisherVars
  <2> HIDE DEF n
  <2>3. ASSUME NEW f \in Summed
        PROVE  /\ carried["fod"][last_seen[recorder]] <= sums[f] /\ sums[f] <= got[recorder][f]
               /\ \A i \in 1..n : /\ composed[i].number < last_seen[recorder]
                                  /\ composed[i].columns[f] <= sums[f]
    BY <2>1, <2>2 DEF LineAtHand
  <2>4. ASSUME NEW i \in DOMAIN composed', NEW f \in Summed
        PROVE  /\ carried'["fod"][composed'[i].number] <= composed'[i].sums[f]
               /\ composed'[i].sums[f] <= composed'[i].columns[f]
               /\ i < Len(composed') =>
                    /\ composed'[i].number < composed'[i + 1].number
                    /\ composed'[i].columns[f] <= composed'[i + 1].sums[f]
    <3>1. CASE i = n + 1
      BY <2>1, <2>2, <2>3, <3>1
    <3>2. CASE i = n /\ n > 0
      <4>1. i \in DOMAIN composed /\ composed'[i] = composed[i]
        BY <2>1, <3>2
      <4>2. /\ carried["fod"][composed[i].number] <= composed[i].sums[f]
            /\ composed[i].sums[f] <= composed[i].columns[f]
        BY <4>1 DEF LinesInOrder
      <4> QED BY <2>1, <2>2, <2>3, <3>2, <4>1, <4>2
    <3>3. CASE i < n
      <4>1. /\ i \in DOMAIN composed /\ composed'[i] = composed[i]
            /\ composed'[i + 1] = composed[i + 1] /\ i < Len(composed)
        BY <2>1, <3>3 DEF n
      <4> QED BY <2>2, <4>1 DEF LinesInOrder
    <3> QED BY <2>1, <3>1, <3>2, <3>3
  <2> QED BY <2>4 DEF LinesInOrder
<1>5. RecorderNext => \/ Connect \/ UNCHANGED composed
                      \/ \E ok \in BOOLEAN : EndLine(ok)
  BY DEF RecorderNext, RecorderRuns, OpenFile, WriteHeaders, CheckConsumer, RunPoll, AddUp,
         WriteColumn, Interrupt, recorderVars
<1> QED BY <1>2, <1>3, <1>4, <1>5 DEF recorderVars

\* Prefixes of a sequence that grows at its end.
LEMMA LongerPrefix ==
  ASSUME NEW S, NEW s \in Seq(S), NEW t \in Seq(S), NEW x \in S, s = t \/ IsStrictPrefix(s, t)
  PROVE  IsStrictPrefix(s, Append(t, x))
<1> DEFINE u == Append(t, x)
<1>1. /\ u \in Seq(S) /\ Len(u) = Len(t) + 1 /\ Len(t) \in Nat /\ Len(s) \in Nat
      /\ \A i \in 1..Len(t) : u[i] = t[i]
  BY AppendProperties, LenProperties
<1> HIDE DEF u
<1>2. Len(s) <= Len(t) /\ SubSeq(s, 1, Len(s)) = SubSeq(t, 1, Len(s))
  BY <1>1 DEF IsStrictPrefix, IsPrefix
<1>3. SubSeq(t, 1, Len(s)) = SubSeq(u, 1, Len(s))
  <2>1. \A i \in 1..Len(s) : t[i] \in S /\ u[i] = t[i]
    BY <1>1, <1>2, ElementOfSeq
  <2>2. \A i \in 1..Len(s) : u[i] \in S
    BY <2>1
  <2>3. /\ SubSeq(t, 1, Len(s)) \in Seq(S) /\ SubSeq(u, 1, Len(s)) \in Seq(S)
        /\ Len(SubSeq(t, 1, Len(s))) = Len(SubSeq(u, 1, Len(s)))
        /\ Len(SubSeq(t, 1, Len(s))) = Len(s)
        /\ \A i \in 1..Len(s) - 1 + 1 : /\ SubSeq(t, 1, Len(s))[i] = t[1 + i - 1]
                                        /\ SubSeq(u, 1, Len(s))[i] = u[1 + i - 1]
    BY <1>1, <2>1, <2>2, SubSeqProperties, 1 \in Int, Len(s) \in Int
  <2>4. \A i \in 1..Len(s) : SubSeq(t, 1, Len(s))[i] = SubSeq(u, 1, Len(s))[i]
    BY <1>1, <2>1, <2>3
  <2> QED BY <2>3, <2>4, SeqEqual
<1>4. s # u
  BY <1>1, <1>2
<1> QED BY <1>1, <1>2, <1>3, <1>4 DEF IsStrictPrefix, IsPrefix, u

\* A sequence without what was just put at its end.
LEMMA WithoutLast ==
  ASSUME NEW S, NEW s \in Seq(S), NEW x \in S
  PROVE  Last(Append(s, x)) = x /\ Front(Append(s, x)) = s
<1>1. /\ Append(s, x) \in Seq(S) /\ Len(Append(s, x)) = Len(s) + 1 /\ Len(s) \in Nat
      /\ \A i \in 1..Len(s) : Append(s, x)[i] = s[i]
      /\ Append(s, x)[Len(s) + 1] = x
  BY AppendProperties, LenProperties
<1> DEFINE u == Append(s, x)
<1> HIDE DEF u
<1>2. \A i \in 1..Len(s) : u[i] = s[i] /\ u[i] \in S
  BY <1>1, ElementOfSeq DEF u
<1>3. /\ SubSeq(u, 1, Len(s)) \in Seq(S) /\ Len(SubSeq(u, 1, Len(s))) = Len(s)
      /\ \A i \in 1..Len(s) - 1 + 1 : SubSeq(u, 1, Len(s))[i] = u[1 + i - 1]
  <2>1. /\ SubSeq(u, 1, Len(s)) \in Seq(S)
        /\ Len(SubSeq(u, 1, Len(s))) = IF 1 <= Len(s) THEN Len(s) - 1 + 1 ELSE 0
        /\ \A i \in 1..Len(s) - 1 + 1 : SubSeq(u, 1, Len(s))[i] = u[1 + i - 1]
    BY <1>1, <1>2, SubSeqProperties, 1 \in Int, Len(s) \in Int
  <2> QED BY <1>1, <2>1
<1>4. SubSeq(u, 1, Len(s)) = s
  BY <1>1, <1>2, <1>3, SeqEqual
<1> QED BY <1>1, <1>4 DEF Front, Last, u

LEMMA FileStep ==
  ASSUME ConsumerTypeOK, RecorderTypeOK, InStep, FileHoldsLines,
         RecorderNext \/ UNCHANGED recorderVars
  PROVE  FileHoldsLines'
<1> USE DEF FileHoldsLines
<1>1. CASE Connect
  BY <1>1, RecorderAssumption DEF Connect
<1>2. CASE WriteHeaders
  <2>1. /\ file = <<>> /\ composed = <<>> /\ UNCHANGED <<file, composed, current_batch_>>
    BY <1>2 DEF WriteHeaders, InStep
  <2> QED BY <2>1
<1>3. CASE UNCHANGED <<file, good, composed, current_batch_>>
  BY <1>3
<1>4. ASSUME NEW ok \in BOOLEAN, EndLine(ok) PROVE FileHoldsLines'
  <2>1. Line \in LineType /\ Cut \in LineType /\ composed \in Seq(LineType) /\ file \in Seq(LineType)
    BY LineTyped DEF RecorderTypeOK
  <2>2. composed' = Append(composed, Line) /\ Written(ok)
    BY <1>4 DEF EndLine
  <2>3. current_batch_' < BatchSize
    <3>1. current_batch_ \in Nat /\ BatchSize \in Nat \ {0}
      BY RecorderAssumption DEF RecorderTypeOK
    <3> QED BY <1>4, <3>1 DEF EndLine
  <2>4. CASE good
    <3>1. file = composed
      BY <2>4
    <3>2. CASE ok
      BY <2>2, <2>3, <2>4, <3>1, <3>2 DEF Written
    <3>3. CASE ~ok
      <4>1. file' = Append(file, Cut) /\ good' = FALSE
        BY <2>2, <2>4, <3>3 DEF Written
      <4>2. Last(file') = Cut /\ Front(file') = composed
        BY <2>1, <3>1, <4>1, WithoutLast
      <4>3. IsStrictPrefix(composed, composed')
        BY <2>1, <2>2, LongerPrefix
      <4> QED BY <2>3, <4>1, <4>2, <4>3
    <3> QED BY <3>2, <3>3
  <2>5. CASE ~good
    <3>1. file' = file /\ good' = FALSE
      BY <2>2, <2>5 DEF Written, RecorderTypeOK
    <3>2. CASE file = <<>>
      BY <2>3, <3>1, <3>2
    <3>3. CASE file # <<>> /\ Last(file) = Cut /\ IsStrictPrefix(Front(file), composed)
      <4>1. Front(file) \in Seq(LineType)
        <5>1. Len(file) \in Nat
          BY <2>1, LenProperties
        <5>2. \A i \in 1..Len(file) - 1 : file[i] \in LineType
          BY <2>1, <5>1, ElementOfSeq
        <5> QED BY <5>1, <5>2, SubSeqProperties, 1 \in Int, Len(file) - 1 \in Int DEF Front
      <4>2. IsStrictPrefix(Front(file), composed')
        BY <2>1, <2>2, <3>3, <4>1, LongerPrefix
      <4> QED BY <2>3, <3>1, <3>3, <4>2
    <3> QED BY <2>5, <3>2, <3>3
  <2> QED BY <2>4, <2>5 DEF RecorderTypeOK
<1>5. RecorderNext => \/ Connect \/ WriteHeaders \/ \E ok \in BOOLEAN : EndLine(ok)
                      \/ UNCHANGED <<file, good, composed, current_batch_>>
  BY DEF RecorderNext, RecorderRuns, OpenFile, CheckConsumer, RunPoll, AddUp,
         WriteColumn, Interrupt, recorderVars
<1> QED BY <1>1, <1>2, <1>3, <1>4, <1>5 DEF recorderVars

LEMMA RecorderInitially == AllInit => RecorderInv
<1> SUFFICES ASSUME AllInit PROVE RecorderInv
  OBVIOUS
<1>1. RecorderInit
  BY DEF AllInit
<1>2. RecorderTypeOK
  BY <1>1, EmptySeq DEF RecorderInit, RecorderTypeOK, NoSums
<1>3. InStep
  BY <1>1 DEF RecorderInit, InStep
<1>4. DOMAIN composed = {} /\ step = "off"
  BY <1>1 DEF RecorderInit
<1>5. LineAtHand /\ LinesInOrder
  BY <1>4 DEF LineAtHand, LinesInOrder
<1>6. FileHoldsLines
  BY <1>1, RecorderAssumption DEF RecorderInit, FileHoldsLines
<1> QED BY <1>2, <1>3, <1>5, <1>6 DEF RecorderInv

\* The CSV program and its consumer stay together, and the line it is making is newer than those
\* it has made.
THEOREM RecorderInvariance == AllSpec => []RecorderInv
<1>1. ChannelInv /\ ProgramTypeOK /\ RecorderInv /\ [AllNext]_allVars => RecorderInv'
  <2> SUFFICES ASSUME ChannelInv, ProgramTypeOK, RecorderInv, [AllNext]_allVars
               PROVE  RecorderInv'
    OBVIOUS
  <2>1. PublisherTypeOK /\ ConsumerTypeOK /\ Informed
    BY DEF ChannelInv
  <2>2. RecorderNext \/ (Still(recorder) /\ UNCHANGED recorderVars)
    BY OrQuiet
  <2>3. [ChannelNext]_vars
    BY ChannelSteps
  <2>4. RecorderTypeOK /\ InStep /\ LineAtHand /\ FileHoldsLines /\ LinesInOrder
    BY DEF RecorderInv
  <2>5. RecorderTypeOK'
    BY <2>1, <2>2, <2>4, RecorderTypeStep
  <2>6. InStep'
    BY <2>1, <2>2, <2>4, InStepStep
  <2>7. LineAtHand'
    BY <2>2, <2>3, <2>4, LineAtHandStep
  <2>8. FileHoldsLines'
    BY <2>1, <2>2, <2>4, FileStep
  <2>9. LinesInOrder'
    BY <2>2, <2>3, <2>4, InOrderStep
  <2> QED BY <2>5, <2>6, <2>7, <2>8, <2>9 DEF RecorderInv
<1> QED BY <1>1, RecorderInitially, ChannelInvariance, PTL DEF AllSpec

\* Whatever write fails and whenever the process dies, the file holds the lines the program has
\* counted, whole and in order, up to the first failure.
THEOREM LinesKept == AllSpec => []FileHoldsLines
<1>1. RecorderInv => FileHoldsLines
  BY DEF RecorderInv
<1> QED BY <1>1, RecorderInvariance, PTL

\* The CSV program mixes publications into a line only forwards.
THEOREM LinesMixForwards == AllSpec => []LinesInOrder
<1>1. RecorderInv => LinesInOrder
  BY DEF RecorderInv
<1> QED BY <1>1, RecorderInvariance, PTL
=============================================================================
