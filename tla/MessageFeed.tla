----------------------------- MODULE MessageFeed -----------------------------
(***************************************************************************)
(* What the queue of SPMCQueue.h promises, without a ring, without 32-bit  *)
(* indices and without blocks.                                             *)
(*                                                                         *)
(* One writer numbers its messages 1, 2, 3, ...  A message is claimed when *)
(* write() is entered and published when write() returns; a writer that    *)
(* dies in between leaves its number unpublished for ever.  Every reader   *)
(* has a cursor of its own that only moves forward: it is handed published *)
(* messages in increasing order, it may be moved past messages only when   *)
(* it is a whole window behind the writer, and what it reads of a message  *)
(* is that message as long as the writer has not gone a whole window past  *)
(* it.  Nothing is promised about slow readers beyond that.                *)
(***************************************************************************)
EXTENDS Integers

CONSTANTS
  Reader,  \* the readers
  Word,    \* the parts a payload is read in
  Window,  \* how far the writer may run ahead before a reader loses messages
  Unread   \* mark of a part that has not been read yet

VARIABLES
  claimed,    \* how many messages the writer has started
  published,  \* the numbers of the messages whose write() completed
  cursor,     \* cursor[r]: the next number r expects, 0 when r is not attached
  got,        \* got[r]: the message r was handed last, 0 for none
  seen        \* seen[r][w]: the message part w of got[r] was read as

vars == <<claimed, published, cursor, got, seen>>

Nothing == [w \in Word |-> Unread]

Init ==
  /\ claimed = 0
  /\ published = {}
  /\ cursor = [r \in Reader |-> 0]
  /\ got = [r \in Reader |-> 0]
  /\ seen = [r \in Reader |-> Nothing]

\* The writer starts the next message.
Claim ==
  /\ claimed' = claimed + 1
  /\ UNCHANGED <<published, cursor, got, seen>>

\* The message being written becomes visible.
Publish ==
  /\ claimed > 0
  /\ claimed \notin published
  /\ published' = published \cup {claimed}
  /\ UNCHANGED <<claimed, cursor, got, seen>>

\* A new reader starts behind the last message, or at the one being written.
Attach(r) ==
  /\ cursor[r] = 0
  /\ \E n \in {claimed, claimed + 1} \ ({0} \cup published) :
        cursor' = [cursor EXCEPT ![r] = n]
  /\ UNCHANGED <<claimed, published, got, seen>>

\* r is handed message m: the one it expects, or a later one once it is a
\* whole window behind.
Deliver(r, m) ==
  /\ cursor[r] # 0
  /\ m \in published
  /\ m >= cursor[r]
  /\ m = cursor[r] \/ claimed >= cursor[r] + Window
  /\ cursor' = [cursor EXCEPT ![r] = m + 1]
  /\ got' = [got EXCEPT ![r] = m]
  /\ seen' = [seen EXCEPT ![r] = Nothing]
  /\ UNCHANGED <<claimed, published>>

\* r gives its message up without asking for another one yet.
Forget(r) ==
  /\ got' = [got EXCEPT ![r] = 0]
  /\ seen' = [seen EXCEPT ![r] = Nothing]
  /\ UNCHANGED <<claimed, published, cursor>>

\* r reads a part of its message; only after the writer went a whole window
\* past the message may it find a later one there.
ReadPart(r, w, v) ==
  /\ got[r] # 0
  /\ v = got[r] \/ (got[r] + Window <= v /\ v <= claimed)
  /\ seen' = [seen EXCEPT ![r][w] = v]
  /\ UNCHANGED <<claimed, published, cursor, got>>

Next ==
  \/ Claim
  \/ Publish
  \/ \E r \in Reader : Attach(r) \/ Forget(r)
  \/ \E r \in Reader : \E m \in published : Deliver(r, m)
  \/ \E r \in Reader : \E w \in Word : \E v \in 1..claimed : ReadPart(r, w, v)

Spec == Init /\ [][Next]_vars
=============================================================================
