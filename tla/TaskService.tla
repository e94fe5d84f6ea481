---------------------------- MODULE TaskService -----------------------------
(***************************************************************************)
(* What OxideQ promises to its clients: named queues in which messages     *)
(* wait in order, and leases under which consumers hold them.  Every       *)
(* operation is one step; there are no requests in progress, no log and no *)
(* failures.  MemoryStorage and ClusterNode are shown to implement it, but *)
(* for the steps that StorageRefinement!Linearizable and a restart name.   *)
(***************************************************************************)
EXTENDS QueueState

VARIABLES
    waiting,   \* per queue, the items that wait for a consumer
    leases,    \* per task id, the task its consumer holds
    settled    \* the ids for which an ack was answered Ok

svars == <<waiting, leases, settled>>

Init == waiting = Empty.queues /\ leases = Empty.in_flight /\ settled = {}

\* A new, empty queue; none is ever replaced.
Create ==
    /\ \E q \in DOMAIN waiting' \ DOMAIN waiting : waiting' = Insert(waiting, q, <<>>)
    /\ UNCHANGED <<leases, settled>>

\* Messages that the service does not hold join the end of a queue together.
Accept ==
    /\ \E q \in DOMAIN waiting :
          LET items == SubSeq(waiting'[q], Len(waiting[q]) + 1, Len(waiting'[q]))
          IN  /\ waiting' = PushBack(waiting, q, items)
              /\ \A i \in DOMAIN items : items[i].attempts = 0
              /\ Messages(items) \cap (Pending(waiting) \cup Flying(leases)) = {}
    /\ UNCHANGED <<leases, settled>>

\* A consumer gets the messages that have waited longest, each under an id of
\* its own that has never been settled.
Lease ==
    LET new == DOMAIN leases' \ (DOMAIN leases \cup settled)
    IN  \E q \in DOMAIN waiting : \E n \in 1..Len(waiting[q]) : \E ids \in [1..n -> new] :
           /\ \A i, j \in 1..n : ids[i] = ids[j] => i = j
           /\ waiting' = PopFront(waiting, q, n)
           /\ leases' = Deliver(leases, q, FirstOf(waiting[q], n), ids)
           /\ UNCHANGED settled

\* A consumer is done with tasks and is told Ok: it holds every one of them, and
\* all of them are gone.  With an id that is not leased nothing happens.
Settle ==
    \E S \in (SUBSET DOMAIN leases) \ {{}} :
        /\ leases' = Without(leases, S)
        /\ settled' = settled \cup S
        /\ UNCHANGED waiting

\* A task has failed: its message is the next one of its queue, or the last
\* of the dead letter queue.
Return ==
    \E t \in DOMAIN leases :
        /\ leases' = Without(leases, {t})
        /\ leases[t].attempts < MaxAttempts => leases[t].queue \in DOMAIN waiting
        /\ waiting' = Requeue(waiting, leases[t].queue,
                              [msg |-> leases[t].msg, attempts |-> leases[t].attempts])
        /\ UNCHANGED settled

Next == Create \/ Accept \/ Lease \/ Settle \/ Return

Spec == Init /\ [][Next]_svars
=============================================================================
