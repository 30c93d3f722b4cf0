------------------------------ MODULE JobStream ------------------------------
(***************************************************************************)
(* The download queue: a Redis stream with one consumer group, and the     *)
(* commands apps/api/app/workers/queue.py sends to it.                     *)
(*                                                                         *)
(* Redis numbers the entries; the group's cursor (lastDelivered) separates *)
(* those never handed out from the others; a delivered entry stays in the  *)
(* Pending Entries List (pel) until it is XACKed, with a delivery count    *)
(* (tries); XDEL takes it out of the stream.  Each definition is ONE Redis *)
(* command, so that a crash can fall between any two of them.              *)
(***************************************************************************)
EXTENDS Integers

CONSTANTS Requests,       \* rows of download_requests
          MaxDeliveries   \* QUEUE_MAX_DELIVERIES

ASSUME MaxDeliveriesAssumption == MaxDeliveries \in Nat \ {0}

VARIABLES
  lastId,         \* id of the newest entry
  log,            \* every entry ever added: its request, its delivery count
                  \* (a history once acknowledged), its dead-letter copies
  lastDelivered,  \* last-delivered-id of the group
  stream,         \* entries present in the stream
  pel             \* entries delivered and not acknowledged

streamVars == <<lastId, log, lastDelivered, stream, pel>>

Entry == [req : Requests, tries : Nat, dead : Nat]

StreamTypeOK ==
  /\ lastId \in Nat
  /\ log \in [1..lastId -> Entry]
  /\ lastDelivered \in 0..lastId
  /\ stream \subseteq 1..lastId
  /\ pel \subseteq 1..lastId

\* ensure_group creates the group at id 0: entries added before the first
\* worker came up are delivered too.
StreamInit ==
  /\ lastId = 0
  /\ log = [e \in 1..0 |-> [req |-> e, tries |-> 0, dead |-> 0]]
  /\ lastDelivered = 0
  /\ stream = {}
  /\ pel = {}

Undelivered == {e \in stream : e > lastDelivered}

\* enqueue: XADD.
XAdd(r) ==
  /\ lastId' = lastId + 1
  /\ log' = [e \in 1..lastId' |->
               IF e <= lastId THEN log[e] ELSE [req |-> r, tries |-> 0, dead |-> 0]]
  /\ stream' = stream \cup {lastId'}
  /\ UNCHANGED <<lastDelivered, pel>>

\* read_new: XREADGROUP ">" COUNT 1 hands out the oldest undelivered entry.
XReadGroup(e) ==
  /\ e \in Undelivered
  /\ \A q \in Undelivered : e <= q
  /\ lastDelivered' = e
  /\ pel' = pel \cup {e}
  /\ log' = [log EXCEPT ![e].tries = 1]
  /\ UNCHANGED <<lastId, stream>>

\* reclaim_stale: XAUTOCLAIM takes pending entries over, and counts one more
\* delivery for every entry of the batch.
XAutoClaim(S) ==
  /\ S \subseteq pel
  /\ log' = [e \in 1..lastId |->
               IF e \in S THEN [log[e] EXCEPT !.tries = @ + 1] ELSE log[e]]
  /\ UNCHANGED <<lastId, lastDelivered, stream, pel>>

\* _delivery_count: XPENDING; an entry acknowledged meanwhile counts as 0.
DeliveryCount(e) == IF e \in pel THEN log[e].tries ELSE 0

\* ack_and_remove: XACK, then XDEL.
XAck(e) ==
  /\ pel' = pel \ {e}
  /\ UNCHANGED <<lastId, log, lastDelivered, stream>>

XDel(e) ==
  /\ stream' = stream \ {e}
  /\ UNCHANGED <<lastId, log, lastDelivered, pel>>

\* dead_letter: XADD to the dead-letter stream, before the XACK.
XAddDead(e) ==
  /\ log' = [log EXCEPT ![e].dead = @ + 1]
  /\ UNCHANGED <<lastId, lastDelivered, stream, pel>>
=============================================================================
