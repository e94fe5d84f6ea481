------------------------- MODULE StorageRefinement --------------------------
(***************************************************************************)
(* MemoryStorage implements TaskService: each of its operations takes      *)
(* effect at one moment between its start and its answer, whatever other   *)
(* requests run at the same time and whichever appends to the log fail,    *)
(* with two exceptions, both about acknowledgements, which are named here. *)
(*                                                                         *)
(* Items that a dequeue has popped still wait, in front of their queue,    *)
(* until they are in flight; a task that an ack or a nack has removed is   *)
(* still leased, until the ack is answered or the item is in a queue.  So  *)
(* a failed append of a dequeue or a nack, after which items and task are  *)
(* put back, changes nothing.                                              *)
(***************************************************************************)
EXTENDS MemoryStorage

\* The items that the dequeue which holds the guard of q has popped.
PoppedFrom(q) ==
    LET D == {c \in Actors : h[c].op = "dequeue" /\ h[c].q = q}
    IN  IF D = {} THEN <<>> ELSE h[CHOOSE c \in D : TRUE].items

AbstractWaiting == [q \in DOMAIN queues |-> PoppedFrom(q) \o queues[q]]

\* The acks and nacks that have removed their task.
Takers == {c \in Actors : h[c].op \in {"ack", "nack"}}

AbstractLeases ==
    [t \in DOMAIN in_flight \cup {h[c].ids[1] : c \in Takers} |->
        IF t \in DOMAIN in_flight THEN in_flight[t]
        ELSE LET r == h[CHOOSE c \in Takers : h[c].ids[1] = t]
             IN  [msg |-> r.items[1].msg, attempts |-> r.items[1].attempts, queue |-> r.q]]

Service == INSTANCE TaskService
           WITH waiting <- AbstractWaiting, leases <- AbstractLeases, settled <- acked

\* The first exception: the append of an ack fails, or its client leaves while
\* it waits.  Nobody is told Ok and the task is gone all the same.
ForfeitedAck ==
    \E c \in Actors :
        /\ h[c].op = "ack" /\ (LogFail(c) \/ Disconnect(c))
        /\ AbstractLeases' = Without(AbstractLeases, {h[c].ids[1]})
        /\ AbstractWaiting' = AbstractWaiting /\ acked' = acked

\* The second: an ack_batch whose tasks are not all in flight any more removes
\* those that are, and is answered Ok for all of them.
RacedAckBatch ==
    \E c \in Actors :
        LET ids == Elements(h[c].ids)
        IN  /\ FinishAckBatch(c) /\ ~(ids \subseteq DOMAIN in_flight)
            /\ AbstractLeases' = Without(AbstractLeases, ids \cap DOMAIN in_flight)
            /\ AbstractWaiting' = AbstractWaiting

\* Linearizability but for those two: every step of the interleaved requests
\* shows either nothing or one operation of TaskService, carried out at once
\* and completely.  Items that go back after a failed append keep their place,
\* no queue is replaced, an ack answered Ok has settled a task that was leased
\* up to that moment, and an ack_batch that finds all its tasks has settled
\* every one of them.
Linearizable ==
    /\ Service!Init
    /\ [][Service!Next \/ ForfeitedAck \/ RacedAckBatch]_(Service!svars)
=============================================================================
