------------------------------ MODULE LatestFeed ------------------------------
(***************************************************************************)
(* What a pair of snapshot regions promises the programs that poll them,   *)
(* without saying how: publications are numbered, each channel announces   *)
(* some of them in order, and a consumer is told of the newest number of   *)
(* its channel.  What it then reads in a field is the publication it was   *)
(* told of or any later one, never one older than it has read before.      *)
(* Numbers may be skipped; the last one is kept.                           *)
(***************************************************************************)
EXTENDS Naturals, Sequences

CONSTANTS
  Field, Consumer, Channel,
  Source         \* Source[c]: the channel of consumer c

VARIABLES
  made,       \* publications begun
  announced,  \* announced[ch]: the publications announced on a channel, in order
  attached,   \* the consumers that are polling
  seen,       \* seen[c]: how many announcements c was told of
  got         \* got[c][f]: the publication c last read field f of

vars == <<made, announced, attached, seen, got>>

Init ==
  /\ made = 0
  /\ announced = [ch \in Channel |-> <<>>]
  /\ attached = {}
  /\ seen = [c \in Consumer |-> 0]
  /\ got = [c \in Consumer |-> [f \in Field |-> 0]]

Make ==
  /\ made' = made + 1
  /\ UNCHANGED <<announced, attached, seen, got>>

\* The newest publication is announced, once on each channel.
Announce(ch) ==
  /\ made > 0
  /\ announced[ch] # <<>> => announced[ch][Len(announced[ch])] < made
  /\ announced' = [announced EXCEPT ![ch] = Append(@, made)]
  /\ UNCHANGED <<made, attached, seen, got>>

Attach(c) ==
  /\ c \notin attached
  /\ attached' = attached \cup {c}
  /\ seen' = [seen EXCEPT ![c] = 0]
  /\ got' = [got EXCEPT ![c] = [f \in Field |-> 0]]
  /\ UNCHANGED <<made, announced>>

\* Consumers leave, those of one program together.
Detach(D) ==
  /\ attached' = attached \ D
  /\ UNCHANGED <<made, announced, seen, got>>

\* One that could not attach starts afresh.
Forget(c) ==
  /\ c \notin attached
  /\ seen' = [seen EXCEPT ![c] = 0]
  /\ got' = [got EXCEPT ![c] = [f \in Field |-> 0]]
  /\ UNCHANGED <<made, announced, attached>>

Notice(c) ==
  /\ c \in attached
  /\ seen[c] < Len(announced[Source[c]])
  /\ seen' = [seen EXCEPT ![c] = Len(announced[Source[c]])]
  /\ UNCHANGED <<made, announced, attached, got>>

\* A field read after a notice.
ReadPart(c, f) ==
  /\ c \in attached
  /\ seen[c] > 0
  /\ \E n \in announced[Source[c]][seen[c]] .. made :
       /\ n >= got[c][f]
       /\ got' = [got EXCEPT ![c][f] = n]
  /\ UNCHANGED <<made, announced, attached, seen>>

Next ==
  \/ Make
  \/ \E ch \in Channel : Announce(ch)
  \/ \E c \in Consumer :
        Attach(c) \/ Forget(c) \/ Notice(c) \/ \E f \in Field : ReadPart(c, f)
  \/ \E D \in SUBSET attached : Detach(D)

Spec == Init /\ [][Next]_vars
=============================================================================
