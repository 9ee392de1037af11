----------------------------- MODULE OtlpOutbox -----------------------------
(***************************************************************************)
(* What the persistent queue promises when its lock works: a batch that    *)
(* was put in stays until the collector's answer to it was final or its    *)
(* retention is over, and never comes back after it has left; and a batch  *)
(* is put in only while those that the last look into the outbox could     *)
(* read leave room.  What it could not read does not count, so that the    *)
(* outbox is within its capacity only as long as every file can be read.   *)
(***************************************************************************)
EXTENDS FiniteSets, Naturals

CONSTANTS Batches, Capacity

VARIABLES
  outbox,    \* batches on disk
  put,       \* batches ever put in
  answered,  \* batches with a final answer
  expired,   \* batches whose retention is over
  unread     \* batches the last look could not read

outboxVars == <<outbox, put, answered, expired, unread>>

Init == outbox = {} /\ put = {} /\ answered = {} /\ expired = {} /\ unread = {}

Put(b) ==
  /\ b \notin put /\ Cardinality(outbox \ (expired \cup unread)) < Capacity
  /\ outbox' = outbox \cup {b} /\ put' = put \cup {b} /\ unread' = {}
  /\ UNCHANGED <<answered, expired>>

(* A final answer to a batch; its file may fail to be removed.             *)
Settle(b) ==
  /\ b \in put
  /\ answered' = answered \cup {b}
  /\ outbox' \in {outbox, outbox \ {b}}
  /\ UNCHANGED <<put, expired, unread>>

Expire(b) ==
  /\ b \in put
  /\ expired' = expired \cup {b}
  /\ UNCHANGED <<outbox, put, answered, unread>>

(* A look into the outbox, which may remove expired batches.               *)
Look ==
  /\ outbox \ outbox' \subseteq expired /\ outbox' \subseteq outbox
  /\ unread' \subseteq outbox'
  /\ UNCHANGED <<put, answered, expired>>

Next == Look \/ \E b \in Batches : Put(b) \/ Settle(b) \/ Expire(b)

Spec == Init /\ [][Next]_outboxVars
=============================================================================
