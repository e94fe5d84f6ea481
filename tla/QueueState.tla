----------------------------- MODULE QueueState -----------------------------
(***************************************************************************)
(* The data of InMemoryStorage: the map `queues` from queue names to       *)
(* deques of items, the map `in_flight` from task ids to tasks, and the    *)
(* elementary changes the storage makes to them.  The operators are shared *)
(* by the concurrent storage, by the replay of the write-ahead log and by  *)
(* the replicated state machine.                                           *)
(*                                                                         *)
(* A payload is represented by the identity of the message it belongs to   *)
(* (two requests with equal bytes are two messages), a task id (a version  *)
(* 4 UUID) by a number that is never drawn twice.                          *)
(***************************************************************************)
EXTENDS Naturals, Sequences

CONSTANTS
    Base,         \* queue names that do not end in "_dlq"
    MaxAttempts   \* deliveries after which a failed task goes to the DLQ: 5

ASSUME QueueStateAssumption == MaxAttempts \in Nat \ {0}

\* A queue name: a base name followed by n times "_dlq".
Name == Base \X Nat

\* format!("{}_dlq", name)
Dlq(q) == <<q[1], q[2] + 1>>

\* QueueItem and InFlightTask (the time of consumption is in Visibility).
Item == [msg : Nat, attempts : Nat]
Task == [msg : Nat, attempts : Nat, queue : Name]

\* The contents of a storage: maps, as functions on their keys.
IsMap(f, K, V)  == DOMAIN f \subseteq K /\ f \in [DOMAIN f -> V]
IsQueueMap(f)   == IsMap(f, Name, Seq(Item))
IsFlightMap(f)  == IsMap(f, Nat, Task)
IsState(st)     == /\ st = [queues |-> st.queues, in_flight |-> st.in_flight]
                   /\ IsQueueMap(st.queues) /\ IsFlightMap(st.in_flight)

Empty == [queues |-> [q \in {} |-> <<>>], in_flight |-> [t \in {} |-> <<>>]]
-----------------------------------------------------------------------------
(***************************************************************************)
(* Maps and deques.                                                        *)
(***************************************************************************)
Insert(f, k, v) == [x \in DOMAIN f \cup {k} |-> IF x = k THEN v ELSE f[x]]
Without(f, S)   == [x \in DOMAIN f \ S |-> f[x]]

Elements(s) == {s[i] : i \in DOMAIN s}
Messages(s) == {s[i].msg : i \in DOMAIN s}

Least(m, n)   == IF m <= n THEN m ELSE n
FirstOf(s, n) == SubSeq(s, 1, Least(n, Len(s)))
RestOf(s, n)  == SubSeq(s, Least(n, Len(s)) + 1, Len(s))

Position(s, e) == CHOOSE i \in DOMAIN s : s[i] = e

Fresh(m) == [msg |-> m, attempts |-> 0]

PushBack(queues, q, items)  == [queues EXCEPT ![q] = @ \o items]
PushFront(queues, q, items) == [queues EXCEPT ![q] = items \o @]
PopFront(queues, q, n)      == [queues EXCEPT ![q] = RestOf(@, n)]

\* The tasks made of the items a dequeue has taken from q, under their new
\* ids: one more delivery is counted.
Deliver(in_flight, q, items, ids) ==
    [t \in DOMAIN in_flight \cup Elements(ids) |->
        IF t \in Elements(ids)
        THEN LET item == items[Position(ids, t)]
             IN  [msg |-> item.msg, attempts |-> item.attempts + 1, queue |-> q]
        ELSE in_flight[t]]

\* Items added at the end of a queue that exists; get_mut(..).ok_or_else.
Enqueue(queues, q, items) ==
    IF q \in DOMAIN queues THEN PushBack(queues, q, items) ELSE queues

\* Fault: one delivery too many.
RequeueLate(queues, q, item) ==
    IF item.attempts > MaxAttempts
    THEN Insert(queues, Dlq(q),
                Append(IF Dlq(q) \in DOMAIN queues THEN queues[Dlq(q)] ELSE <<>>, item))
    ELSE IF q \in DOMAIN queues THEN PushFront(queues, q, <<item>>) ELSE queues

\* Where a nack puts the item of a failed task of queue q: at the end of the
\* dead letter queue, which is created when it is missing, or at the front
\* of q.  A task of a queue that does not exist is dropped.
Requeue(queues, q, item) ==
    IF item.attempts >= MaxAttempts
    THEN LET d   == Dlq(q)
             old == IF d \in DOMAIN queues THEN queues[d] ELSE <<>>
         IN  Insert(queues, d, Append(old, item))
    ELSE IF q \in DOMAIN queues THEN PushFront(queues, q, <<item>>)
         ELSE queues
-----------------------------------------------------------------------------
\* The messages a state holds.
Pending(queues)   == UNION {Messages(queues[q]) : q \in DOMAIN queues}
Flying(in_flight) == {in_flight[t].msg : t \in DOMAIN in_flight}
Live(st)          == Pending(st.queues) \cup Flying(st.in_flight)
=============================================================================
