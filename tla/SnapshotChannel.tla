--------------------------- MODULE SnapshotChannel ---------------------------
(***************************************************************************)
(* How shm_reader hands snapshots to other processes: two shared-memory    *)
(* regions of src/example/snapshot_shm.h, one for the top of the book and  *)
(* one for its full depth.                                                 *)
(*                                                                         *)
(* A region holds one snapshot, a sequence number and a consumer count.    *)
(* The publisher (write_snapshots_to_shm and the end of a recovery) stores *)
(* a snapshot in place, field by field, and then increments the sequence   *)
(* number with a release.  A consumer polls the sequence number, and reads *)
(* the snapshot through a pointer into the region: no lock, no second look *)
(* at the number, and a new snapshot overwrites the one being read.        *)
(*                                                                         *)
(* Processes come and go: the publisher may be killed between any two      *)
(* stores and started again on the same regions, a consumer may leave by   *)
(* its destructor or without it.  A snapshot is named by the number of the *)
(* publication that stores it.                                             *)
(***************************************************************************)
EXTENDS Integers, FiniteSets, Sequences, SequencesExt

CONSTANTS
  Field,         \* the fields of a snapshot
  Consumer,      \* TOBConsumer and FODConsumer objects
  Source,        \* Source[c]: the channel consumer c was opened for
  Printing,      \* consumers whose program reads the snapshot, the others count
  MaxPublished,  \* bound: publications
  MaxDeaths,     \* bound: publisher processes killed
  MaxLeaks       \* bound: consumers that end without their destructor

Channel == {"tob", "fod"}

ASSUME ChannelAssumption ==
  /\ IsFiniteSet(Consumer)
  /\ Source \in [Consumer -> Channel]
  /\ Printing \subseteq Consumer
  /\ MaxPublished \in Nat /\ MaxDeaths \in Nat /\ MaxLeaks \in Nat

VARIABLES
  region,    \* region[ch]: "absent", "empty" (opened, not sized yet) or "ready"
  last_seq,  \* last_seq[ch]: snapshots announced
  active_consumers,
  latest,    \* latest[ch][f]: publication whose field f is in the region
  todo,      \* channels the publisher has still to publish to, in order
  unstored,  \* fields of the first of them it has still to store
  proc,      \* proc[c]: "off", "polling", "reading", or "dead" by a signal
  last_seen, \* last_seen[c]: the caller's last_seen_seq
  got,       \* got[c][f]: what c last read in field f
  unread     \* unread[c]: fields c has still to read of the current snapshot

\* History.
VARIABLES
  made,      \* publications begun
  tops,      \* those of events at the top of the book, meant for both channels
  carried,   \* carried[ch][n]: the publication announced as number n
  deaths,    \* publishers killed
  leaked     \* leaked[ch]: consumers gone without decrementing the count

publisherVars == <<region, last_seq, latest, todo, unstored, made, tops, carried, deaths>>
consumerVars == <<active_consumers, proc, last_seen, got, unread, leaked>>
vars == <<publisherVars, consumerVars>>

Attached(c) == proc[c] \in {"polling", "reading"}

\* Zero filled memory of fresh shared-memory objects.
Init ==
  /\ region = [ch \in Channel |-> "absent"]
  /\ last_seq = [ch \in Channel |-> 0]
  /\ active_consumers = [ch \in Channel |-> 0]
  /\ latest = [ch \in Channel |-> [f \in Field |-> 0]]
  /\ todo = <<>>
  /\ unstored = {}
  /\ proc = [c \in Consumer |-> "off"]
  /\ last_seen = [c \in Consumer |-> 0]
  /\ got = [c \in Consumer |-> [f \in Field |-> 0]]
  /\ unread = [c \in Consumer |-> {}]
  /\ made = 0
  /\ tops = {}
  /\ carried = [ch \in Channel |-> <<>>]
  /\ deaths = 0
  /\ leaked = [ch \in Channel |-> 0]
-----------------------------------------------------------------------------
\* create_tob_shm(), then create_fod_shm(): shm_open with O_CREAT, then ftruncate.
Create(ch) ==
  /\ ch = "fod" => region["tob"] = "ready"
  /\ region[ch] # "ready"
  /\ region' = [region EXCEPT ![ch] = IF @ = "absent" THEN "empty" ELSE "ready"]
  /\ UNCHANGED <<last_seq, latest, todo, unstored, made, tops, carried, deaths, consumerVars>>

\* An event of level <= 0 is published to both channels, the top first.
Targets_Faulty(atTop) == IF atTop THEN <<"fod", "tob">> ELSE <<"fod">>
Targets(atTop) == IF atTop THEN <<"tob", "fod">> ELSE <<"fod">>

\* write_snapshots_to_shm() for an event that modified the visible book, or
\* recover_from_beginning(), which publishes like an event at the top.
BeginPublish(atTop) ==
  /\ \A ch \in Channel : region[ch] = "ready"
  /\ todo = <<>>
  /\ made < MaxPublished
  /\ made' = made + 1
  /\ tops' = IF atTop THEN tops \cup {made'} ELSE tops
  /\ todo' = Targets(atTop)
  /\ unstored' = Field
  /\ UNCHANGED <<region, last_seq, latest, carried, deaths, consumerVars>>

\* snapshot_tob() and snapshot_fod() write through a reference into the region,
\* in an order the compiler may choose.
StoreField(f) ==
  /\ todo # <<>>
  /\ f \in unstored
  /\ latest' = [latest EXCEPT ![Head(todo)][f] = made]
  /\ unstored' = unstored \ {f}
  /\ UNCHANGED <<region, last_seq, todo, made, tops, carried, deaths, consumerVars>>

\* The number is incremented before the fields are all there.
Announce_Faulty ==
  /\ todo # <<>>
  /\ unstored # {}
  /\ last_seq' = [last_seq EXCEPT ![Head(todo)] = @ + 1]
  /\ carried' = [carried EXCEPT ![Head(todo)] = Append(@, made)]
  /\ todo' = Tail(todo)
  /\ unstored' = IF Tail(todo) = <<>> THEN {} ELSE Field
  /\ UNCHANGED <<region, latest, made, tops, deaths, consumerVars>>

\* last_seq.fetch_add(1, release)
Announce ==
  /\ todo # <<>>
  /\ unstored = {}
  /\ last_seq' = [last_seq EXCEPT ![Head(todo)] = @ + 1]
  /\ carried' = [carried EXCEPT ![Head(todo)] = Append(@, made)]
  /\ todo' = Tail(todo)
  /\ unstored' = IF Tail(todo) = <<>> THEN {} ELSE Field
  /\ UNCHANGED <<region, latest, made, tops, deaths, consumerVars>>

\* shm_reader is killed while it publishes, and started again: the regions are
\* opened with O_CREAT but not cleared.
PublisherDies ==
  /\ todo # <<>>
  /\ deaths < MaxDeaths
  /\ deaths' = deaths + 1
  /\ todo' = <<>>
  /\ unstored' = {}
  /\ UNCHANGED <<region, last_seq, latest, made, tops, carried, consumerVars>>
-----------------------------------------------------------------------------
\* The constructor; the main programs start with a last_seq of 0.  Opening an
\* absent region fails and the program ends, touching an empty one is a SIGBUS.
Open(c) ==
  /\ proc[c] = "off"
  /\ region[Source[c]] # "absent"
  /\ IF region[Source[c]] = "ready"
       THEN /\ proc' = [proc EXCEPT ![c] = "polling"]
            /\ active_consumers' = [active_consumers EXCEPT ![Source[c]] = @ + 1]
       ELSE /\ proc' = [proc EXCEPT ![c] = "dead"]
            /\ UNCHANGED active_consumers
  /\ last_seen' = [last_seen EXCEPT ![c] = 0]
  /\ got' = [got EXCEPT ![c] = [f \in Field |-> 0]]
  /\ unread' = [unread EXCEPT ![c] = {}]
  /\ UNCHANGED <<publisherVars, leaked>>

\* has_new_snapshot() returning TRUE; returning FALSE changes nothing.
HasNewSnapshot(c) ==
  /\ proc[c] = "polling"
  /\ last_seq[Source[c]] > last_seen[c]
  /\ last_seen' = [last_seen EXCEPT ![c] = last_seq[Source[c]]]
  /\ proc' = [proc EXCEPT ![c] = IF c \in Printing THEN "reading" ELSE @]
  /\ unread' = [unread EXCEPT ![c] = IF c \in Printing THEN Field ELSE {}]
  /\ UNCHANGED <<publisherVars, active_consumers, got, leaked>>

\* The program reads a field through get_latest_snapshot(), and polls again when
\* it has read them all.
ReadField(c, f) ==
  /\ proc[c] = "reading"
  /\ f \in unread[c]
  /\ got' = [got EXCEPT ![c][f] = latest[Source[c]][f]]
  /\ unread' = [unread EXCEPT ![c] = @ \ {f}]
  /\ proc' = [proc EXCEPT ![c] = IF unread[c] = {f} THEN "polling" ELSE @]
  /\ UNCHANGED <<publisherVars, active_consumers, last_seen, leaked>>

\* The program's loop ends because its running flag is down: the destructor runs.
Close(c) ==
  /\ proc[c] = "polling"
  /\ proc' = [proc EXCEPT ![c] = "off"]
  /\ active_consumers' = [active_consumers EXCEPT ![Source[c]] = @ - 1]
  /\ UNCHANGED <<publisherVars, last_seen, got, unread, leaked>>

\* A consumer that is killed, or fod_parquet_writer's exit(0) in its signal
\* handler, runs no destructor of main's locals.
Vanish(c) ==
  /\ Attached(c)
  /\ leaked[Source[c]] < MaxLeaks
  /\ proc' = [proc EXCEPT ![c] = "off"]
  /\ leaked' = [leaked EXCEPT ![Source[c]] = @ + 1]
  /\ UNCHANGED <<publisherVars, active_consumers, last_seen, got, unread>>
-----------------------------------------------------------------------------
\* The steps of shm_reader's process.  What consumers do, and in which order, is up
\* to the programs they are in: SnapshotConsumers puts them together.
PublisherNext ==
  \/ \E ch \in Channel : Create(ch)
  \/ \E atTop \in BOOLEAN : BeginPublish(atTop)
  \/ \E f \in Field : StoreField(f)
  \/ Announce
  \/ PublisherDies
-----------------------------------------------------------------------------
\* The publication a consumer was told of last.
Told(c) == carried[Source[c]][last_seen[c]]

\* A field read after has_new_snapshot() is of the publication announced or of a
\* later one, never of an earlier one: the increment of last_seq carries the
\* snapshot (release and acquire), across restarts of the publisher as well.
NotOlderThanTold ==
  \A c \in Consumer :
    Attached(c) /\ c \in Printing /\ last_seen[c] # 0 =>
      \A f \in Field \ unread[c] : got[c][f] >= Told(c)

\* Nothing but an overlapping publication tears a snapshot: while the publisher
\* has stored nothing after the publication a consumer was told of, all fields
\* the consumer has read are of that publication.
WholeUnlessOverwritten ==
  \A c \in Consumer :
    /\ Attached(c) /\ c \in Printing /\ last_seen[c] # 0
    /\ \A f \in Field : latest[Source[c]][f] <= Told(c)
    => \A f \in Field \ unread[c] : got[c][f] = Told(c)

\* The count in a region is exact: the consumers attached to it, and those that
\* went without their destructor.  Nothing ever takes the latter off again.
CountExact ==
  \A ch \in Channel :
    active_consumers[ch]
      = leaked[ch] + Cardinality({c \in Consumer : Attached(c) /\ Source[c] = ch})
-----------------------------------------------------------------------------
\* Where the regions, the fields on their way into them and the count are hidden,
\* the channel is a feed that hands out the latest publication or a later one.
Feed == INSTANCE LatestFeed WITH
  announced <- carried,
  attached <- {c \in Consumer : Attached(c)},
  seen <- last_seen

\* Publisher and consumers together behave as the abstract feed, whoever dies and
\* restarts: a program that relies on the feed alone may be run on the regions.
FeedSpec == Feed!Spec
=============================================================================
