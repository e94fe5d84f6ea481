--------------------------- MODULE MemoryStorage ----------------------------
(***************************************************************************)
(* InMemoryStorage of a standalone server under concurrent requests, with  *)
(* or without a write-ahead log.                                           *)
(*                                                                         *)
(* A request runs in three stages.  The first action of an operation does  *)
(* what the code does before the log is written: its checks, and for       *)
(* dequeue, ack and nack the change to the maps that comes first.  Log or  *)
(* LogFail is the append to the log under the WAL mutex, and the action    *)
(* Finish... the rest of the operation up to its Ok.  Requests of other    *)
(* actors run between the stages.  A request that returns an error before  *)
(* it changes anything is not a step.                                      *)
(*                                                                         *)
(* The DashMap guards that are held across the append are the locks        *)
(* QueueLocked and TaskLocked.  DashMap locks a whole shard, which may     *)
(* make more requests wait than the model does, never fewer.               *)
(***************************************************************************)
EXTENDS Wal, FiniteSets

CONSTANTS
    Clients,      \* requests that the HTTP server runs at the same time
    Sweepers,     \* cleanup loops (one in the program)
    Creators,     \* the clients that create queues
    CreateNames,  \* the names they ask for
    ReqNames,     \* the names that enqueues and dequeues ask for
    HasWal,       \* OXIDEQ_WAL_PATH is set
    Faults,       \* what may go wrong with the log, of FaultKinds
    DropOps,      \* the operations during which a client may disconnect
    MaxMsgs, MaxIds, MaxBatch, MaxCrashes   \* bounds

\* "walfail": an append returns an error and leaves nothing in the file;
\* "tear": a failing append leaves a part of its line, or all of it;
\* "cut": a crash during an append does.
FaultKinds == {"walfail", "tear", "cut"}

Operations == {"create_queue", "queue", "dequeue", "ack", "nack", "extend", "ack_batch"}

Actors == Clients \cup Sweepers

ASSUME MemoryStorageAssumption ==
    /\ Creators \subseteq Clients
    /\ CreateNames \subseteq Name
    /\ ReqNames \subseteq Name
    /\ HasWal \in BOOLEAN
    /\ Faults \subseteq FaultKinds
    /\ DropOps \subseteq Operations
    /\ MaxMsgs \in Nat /\ MaxIds \in Nat /\ MaxBatch \in Nat /\ MaxCrashes \in Nat

VARIABLES
    queues,      \* DashMap<String, VecDeque<QueueItem>>
    in_flight,   \* DashMap<String, InFlightTask>
    disk,        \* the WAL file
    h,           \* per actor, its request in progress
    todo,        \* per sweeper, the expired ids it has still to nack
    nextMsg, nextId, crashes,
    delivered,   \* per id returned to a client, the message and its queue
    (* History variables, read by no action. *)
    due,         \* accepted messages that no ack has removed
    acked,       \* the ids for which ack or ack_batch returned Ok
    removed      \* messages whose task such an ack or ack_batch took out of in_flight

mem     == <<queues, in_flight>>
history == <<due, acked, removed, delivered>>
vars    == <<mem, disk, h, todo, nextMsg, nextId, crashes, history>>

Ops    == {"create_queue", "queue", "dequeue", "ack", "nack", "extend", "ack_batch"}
NoName == <<>>

\* A request in progress: the operation, its next stage, its queue, the items
\* it has taken out of the maps or will put into them, and its task ids.
Handler == [op    : Ops \cup {"idle"},
            at    : {"none", "log", "apply"},
            q     : Name \cup {NoName},
            items : Seq(Item),
            ids   : Seq(Nat)]

Idle == [op |-> "idle", at |-> "none", q |-> NoName, items |-> <<>>, ids |-> <<>>]

Init ==
    /\ queues = Empty.queues /\ in_flight = Empty.in_flight
    /\ disk = NoWal
    /\ h = [c \in Actors |-> Idle]
    /\ todo = [c \in Actors |-> {}]
    /\ nextMsg = 0 /\ nextId = 0 /\ crashes = 0
    /\ due = {} /\ acked = {} /\ removed = {}
    /\ delivered = [t \in {} |-> <<>>]
-----------------------------------------------------------------------------
(***************************************************************************)
(* Locks and stages.                                                       *)
(***************************************************************************)
\* Fault: the guard is dropped before the append.
NeverLocked(q) == FALSE

\* dequeue and dequeue_batch keep the guard of their queue until they return.
QueueLocked(q) == \E c \in Actors : h[c].op = "dequeue" /\ h[c].q = q

\* extend_visibility keeps the guard of its task.
TaskLocked(t) == \E c \in Actors : h[c].op = "extend" /\ h[c].ids[1] = t

Begin(c, op, q, items, ids) ==
    /\ h[c] = Idle
    /\ h' = [h EXCEPT ![c] =
                [op |-> op, at |-> "log", q |-> q, items |-> items, ids |-> ids]]

\* The last stage of an operation: its answer goes out.
End(c, op) ==
    /\ h[c].op = op /\ h[c].at = "apply"
    /\ h' = [h EXCEPT ![c] = Idle]

NewItems(n) == [i \in 1..n |-> Fresh(nextMsg + i - 1)]
NewIds(n)   == [i \in 1..n |-> nextId + i - 1]

\* The entry a request appends.
Entry(r) == WalOp(r.op, r.q, r.items, r.ids)

\* The messages a client has received under the ids, and the messages in
\* flight under them.
ReceivedAs(ids) == {delivered[t].msg : t \in Elements(ids)}
MessagesOf(ids) == {in_flight[t].msg : t \in Elements(ids) \cap DOMAIN in_flight}
-----------------------------------------------------------------------------
(***************************************************************************)
(* First stages.                                                           *)
(***************************************************************************)
CreateQueue(c, q) ==
    /\ ~QueueLocked(q) /\ q \notin DOMAIN queues
    /\ Begin(c, "create_queue", q, <<>>, <<>>)
    /\ UNCHANGED <<mem, disk, todo, nextMsg, nextId, crashes, history>>

\* queue and queue_batch.
Queue(c, q, n) ==
    /\ ~QueueLocked(q) /\ q \in DOMAIN queues
    /\ nextMsg + n <= MaxMsgs
    /\ Begin(c, "queue", q, NewItems(n), <<>>)
    /\ nextMsg' = nextMsg + n
    /\ UNCHANGED <<mem, disk, todo, nextId, crashes, history>>

\* dequeue and dequeue_batch with n as the wanted count, on a queue that is
\* not empty.
Dequeue(c, q, n) ==
    /\ ~QueueLocked(q) /\ q \in DOMAIN queues
    /\ LET items == FirstOf(queues[q], n)
       IN  /\ items # <<>>
           /\ nextId + Len(items) <= MaxIds
           /\ Begin(c, "dequeue", q, items, NewIds(Len(items)))
           /\ nextId' = nextId + Len(items)
    /\ queues' = PopFront(queues, q, n)
    /\ UNCHANGED <<in_flight, disk, todo, nextMsg, crashes, history>>

\* Fault: the task is only looked up before the append.
LookUpTask(c, op, t) ==
    /\ t \in DOMAIN in_flight /\ ~TaskLocked(t)
    /\ LET task == in_flight[t]
       IN  Begin(c, op, task.queue,
                 <<[msg |-> task.msg, attempts |-> task.attempts]>>, <<t>>)
    /\ UNCHANGED <<mem, disk, nextMsg, nextId, crashes, acked, removed, delivered>>

\* The task leaves the map, and the request op holds its item.
TakeTask(c, op, t) ==
    /\ t \in DOMAIN in_flight /\ ~TaskLocked(t)
    /\ LET task == in_flight[t]
       IN  Begin(c, op, task.queue,
                 <<[msg |-> task.msg, attempts |-> task.attempts]>>, <<t>>)
    /\ in_flight' = Without(in_flight, {t})
    /\ UNCHANGED <<queues, disk, nextMsg, nextId, crashes, acked, removed, delivered>>

Ack(c, t) ==
    /\ TakeTask(c, "ack", t)
    /\ due' = due \ {in_flight[t].msg}
    /\ UNCHANGED todo

Nack(c, t) == TakeTask(c, "nack", t) /\ UNCHANGED <<due, todo>>

ExtendVisibility(c, t) ==
    /\ t \in DOMAIN in_flight /\ ~TaskLocked(t)
    /\ Begin(c, "extend", in_flight[t].queue, <<>>, <<t>>)
    /\ UNCHANGED <<mem, disk, todo, nextMsg, nextId, crashes, history>>

AckBatch(c, ids) ==
    /\ \A t \in Elements(ids) : t \in DOMAIN in_flight /\ ~TaskLocked(t)
    /\ Begin(c, "ack_batch", NoName, <<>>, ids)
    /\ UNCHANGED <<mem, disk, todo, nextMsg, nextId, crashes, history>>

(***************************************************************************)
(* cleanup_expired_tasks: a scan, then a nack for every id it found.  Time *)
(* is left out here, so the scan may find any tasks.                       *)
(***************************************************************************)
Scan(c, S) ==
    /\ h[c] = Idle /\ todo[c] = {}
    /\ \A t \in S : ~TaskLocked(t)
    /\ todo' = [todo EXCEPT ![c] = S]
    /\ UNCHANGED <<mem, disk, h, nextMsg, nextId, crashes, history>>

CleanupNack(c, t) ==
    /\ h[c] = Idle
    /\ todo' = [todo EXCEPT ![c] = @ \ {t}]
    /\ \/ TakeTask(c, "nack", t) /\ UNCHANGED due
       \/ /\ t \notin DOMAIN in_flight
          /\ UNCHANGED <<mem, disk, h, nextMsg, nextId, crashes, history>>
-----------------------------------------------------------------------------
(***************************************************************************)
(* The append to the log.                                                  *)
(***************************************************************************)
\* Once an ack_batch is in the log its messages are no longer due.
Log(c) ==
    /\ h[c].at = "log"
    /\ disk' = IF HasWal THEN WalAppend(disk, Entry(h[c])) ELSE disk
    /\ h' = [h EXCEPT ![c].at = "apply"]
    /\ due' = IF h[c].op = "ack_batch" THEN due \ ReceivedAs(h[c].ids) ELSE due
    /\ UNCHANGED <<mem, todo, nextMsg, nextId, crashes, acked, removed, delivered>>

\* Faults: a dequeue does not restore its items; restores them one by one from
\* the first; restores them with the attempt counted; a restored task has lost
\* the name of its queue.
NoCompensation(r) ==
    /\ UNCHANGED queues
    /\ in_flight' = IF r.op = "nack"
                    THEN Insert(in_flight, r.ids[1],
                                [msg |-> r.items[1].msg, attempts |-> r.items[1].attempts,
                                 queue |-> r.q])
                    ELSE in_flight

CompensateInReverse(r) ==
    /\ queues' = IF r.op = "dequeue"
                 THEN PushFront(queues, r.q,
                                [i \in DOMAIN r.items |-> r.items[Len(r.items) + 1 - i]])
                 ELSE queues
    /\ UNCHANGED in_flight

CompensateCounted(r) ==
    /\ queues' = IF r.op = "dequeue"
                 THEN PushFront(queues, r.q,
                                [i \in DOMAIN r.items |->
                                    [r.items[i] EXCEPT !.attempts = @ + 1]])
                 ELSE queues
    /\ UNCHANGED in_flight

CompensateNoQueue(r) ==
    /\ queues' = IF r.op = "dequeue" THEN PushFront(queues, r.q, r.items) ELSE queues
    /\ in_flight' = IF r.op = "nack"
                    THEN Insert(in_flight, r.ids[1],
                                [msg |-> r.items[1].msg, attempts |-> r.items[1].attempts,
                                 queue |-> NoName])
                    ELSE in_flight

\* What an operation does to the maps when its append has failed.
Compensate(r) ==
    /\ queues' = IF r.op = "dequeue" THEN PushFront(queues, r.q, r.items) ELSE queues
    /\ in_flight' = IF r.op = "nack"
                    THEN Insert(in_flight, r.ids[1],
                                [msg |-> r.items[1].msg, attempts |-> r.items[1].attempts,
                                 queue |-> r.q])
                    ELSE in_flight

LogFail(c) ==
    /\ HasWal /\ "walfail" \in Faults
    /\ h[c].at = "log"
    /\ disk' \in IF "tear" \in Faults THEN TornAppends(disk, Entry(h[c])) ELSE {disk}
    /\ Compensate(h[c])
    /\ h' = [h EXCEPT ![c] = Idle]
    /\ UNCHANGED <<todo, nextMsg, nextId, crashes, history>>
-----------------------------------------------------------------------------
(***************************************************************************)
(* Last stages.                                                            *)
(***************************************************************************)
\* insert replaces what the map holds under the name.
FinishCreate(c) ==
    /\ End(c, "create_queue")
    /\ ~QueueLocked(h[c].q)
    /\ queues' = Insert(queues, h[c].q, <<>>)
    /\ UNCHANGED <<in_flight, disk, todo, nextMsg, nextId, crashes, history>>

FinishQueue(c) ==
    /\ End(c, "queue")
    /\ ~QueueLocked(h[c].q)
    /\ queues' = Enqueue(queues, h[c].q, h[c].items)
    /\ due' = due \cup Messages(h[c].items)
    /\ UNCHANGED <<in_flight, disk, todo, nextMsg, nextId, crashes,
                   acked, removed, delivered>>

FinishDequeue(c) ==
    /\ End(c, "dequeue")
    /\ in_flight' = Deliver(in_flight, h[c].q, h[c].items, h[c].ids)
    /\ delivered' = [t \in DOMAIN delivered \cup Elements(h[c].ids) |->
                        IF t \in Elements(h[c].ids)
                        THEN [msg   |-> h[c].items[Position(h[c].ids, t)].msg,
                              queue |-> h[c].q]
                        ELSE delivered[t]]
    /\ UNCHANGED <<queues, disk, todo, nextMsg, nextId, crashes, due, acked, removed>>

FinishAck(c) ==
    /\ End(c, "ack")
    /\ acked' = acked \cup Elements(h[c].ids)
    /\ removed' = removed \cup Messages(h[c].items)
    /\ UNCHANGED <<mem, disk, todo, nextMsg, nextId, crashes, due, delivered>>

FinishNack(c) ==
    LET item == h[c].items[1]
        q    == h[c].q
    IN  /\ End(c, "nack")
        /\ ~QueueLocked(IF item.attempts >= MaxAttempts THEN Dlq(q) ELSE q)
        /\ queues' = Requeue(queues, q, item)
        /\ UNCHANGED <<in_flight, disk, todo, nextMsg, nextId, crashes, history>>

FinishExtend(c) ==
    /\ End(c, "extend")
    /\ UNCHANGED <<mem, disk, todo, nextMsg, nextId, crashes, history>>

\* Ids that have gone since the check are passed over, and the answer is Ok for
\* all of them.
FinishAckBatch(c) ==
    /\ End(c, "ack_batch")
    /\ \A t \in Elements(h[c].ids) : ~TaskLocked(t)
    /\ in_flight' = Without(in_flight, Elements(h[c].ids))
    /\ due' = due \ MessagesOf(h[c].ids)
    /\ acked' = acked \cup Elements(h[c].ids)
    /\ removed' = removed \cup MessagesOf(h[c].ids)
    /\ UNCHANGED <<queues, disk, todo, nextMsg, nextId, crashes, delivered>>
-----------------------------------------------------------------------------
(***************************************************************************)
(* Dropped handlers and crashes.                                           *)
(***************************************************************************)
\* A client closes its connection, which drops the handler where it waits for
\* the log.  The append is cancelled while it waits for the mutex, or goes on
\* without its handler.
Disconnect(c) ==
    /\ HasWal /\ h[c].op \in DropOps
    /\ h[c].at = "log"
    /\ disk' \in {disk, WalAppend(disk, Entry(h[c]))}
    /\ h' = [h EXCEPT ![c] = Idle]
    /\ UNCHANGED <<mem, todo, nextMsg, nextId, crashes, history>>

\* The messages of ack_batch requests whose answer is open: once their entry is
\* in the log the messages are no longer due.
Unanswered == UNION {ReceivedAs(h[c].ids) : c \in {d \in Actors : h[d].op = "ack_batch"}}

\* The process ends at any point and new_persistent runs.
Restart ==
    /\ crashes < MaxCrashes
    /\ crashes' = crashes + 1
    /\ disk' \in {disk} \cup IF "cut" \in Faults
                             THEN UNION {TornAppends(disk, Entry(h[c])) :
                                            c \in {d \in Actors : h[d].at = "log"}}
                             ELSE {}
    /\ queues' = Recover(disk').queues
    /\ in_flight' = Recover(disk').in_flight
    /\ h' = [c \in Actors |-> Idle]
    /\ todo' = [c \in Actors |-> {}]
    /\ due' = IF disk' = disk THEN due ELSE due \ Unanswered
    /\ UNCHANGED <<nextMsg, nextId, acked, removed, delivered>>
-----------------------------------------------------------------------------
\* The ids clients have been given, of tasks that are still in flight (any
\* other id is answered with an error), and the lists they may send.
KnownIds == DOMAIN delivered \cap DOMAIN in_flight
IdLists  == UNION {[1..n -> KnownIds] : n \in 1..MaxBatch}

Request(c) ==
    \/ \E q \in CreateNames : c \in Creators /\ CreateQueue(c, q)
    \/ \E q \in ReqNames, n \in 1..MaxBatch : Queue(c, q, n) \/ Dequeue(c, q, n)
    \/ \E t \in KnownIds : Ack(c, t) \/ Nack(c, t) \/ ExtendVisibility(c, t)
    \/ \E ids \in IdLists : AckBatch(c, ids)
    \/ Disconnect(c)

Cleanup(c) ==
    \/ \E S \in SUBSET DOMAIN in_flight : Scan(c, S)
    \/ \E t \in todo[c] : CleanupNack(c, t)

Proceed(c) ==
    \/ Log(c) \/ LogFail(c)
    \/ FinishCreate(c) \/ FinishQueue(c) \/ FinishDequeue(c)
    \/ FinishAck(c) \/ FinishNack(c) \/ FinishExtend(c) \/ FinishAckBatch(c)

Next ==
    \/ \E c \in Clients : Request(c)
    \/ \E c \in Sweepers : Cleanup(c)
    \/ \E c \in Actors : Proceed(c)
    \/ Restart

Spec == Init /\ [][Next]_vars
-----------------------------------------------------------------------------
(***************************************************************************)
(* Properties.                                                             *)
(***************************************************************************)
Delivery == [msg : Nat, queue : Name]

\* What a request holds, by its operation, when the ids in known have been
\* given to clients.
HandlerOK(r, known) ==
    /\ r.op \in {"create_queue", "queue", "dequeue", "ack", "nack", "extend"} => r.q \in Name
    /\ r.op = "dequeue" => Len(r.items) = Len(r.ids)
    /\ r.op \in {"ack", "nack"} => Len(r.items) = 1
    /\ r.op \in {"ack", "nack", "extend"} => Len(r.ids) = 1
    /\ r.op \in {"ack", "ack_batch"} => Elements(r.ids) \subseteq known
    /\ r.op = "idle" => r = Idle

\* The values of the variables; a request in progress holds one id for every
\* item it delivers or takes back.
TypeOK ==
    /\ IsQueueMap(queues) /\ IsFlightMap(in_flight) /\ IsWalFile(disk)
    /\ h \in [Actors -> Handler] /\ \A c \in Actors : HandlerOK(h[c], DOMAIN delivered)
    /\ todo \in [Actors -> SUBSET Nat]
    /\ nextMsg \in Nat /\ nextId \in Nat /\ crashes \in Nat
    /\ due \subseteq Nat /\ removed \subseteq Nat /\ acked \subseteq DOMAIN delivered
    /\ IsMap(delivered, Nat, Delivery)

\* The messages that requests have taken out of the maps and will put back.
HeldBy(r) == IF r.op \in {"dequeue", "nack"} THEN Messages(r.items) ELSE {}
Held      == UNION {HeldBy(h[c]) : c \in Actors}

\* At-least-once: a message whose enqueue was answered Ok and that no ack has
\* removed is in a queue, in flight, or in the hands of a dequeue or nack that
\* runs.  No interleaving of the check-then-act operations drops it.
NoLoss == due \subseteq Pending(queues) \cup Flying(in_flight) \cup Held

\* The places where a message may be, and the message there.
Places ==
    (UNION {{<<"queue", q, i>> : i \in DOMAIN queues[q]} : q \in DOMAIN queues})
    \cup {<<"flight", t, 0>> : t \in DOMAIN in_flight}
    \cup (UNION {{<<"held", c, i>> : i \in DOMAIN h[c].items} : c \in Actors})

MessageAt(p) ==
    CASE p[1] = "queue"  -> queues[p[2]][p[3]].msg
      [] p[1] = "flight" -> in_flight[p[2]].msg
      [] p[1] = "held"   -> h[p[2]].items[p[3]].msg

\* A message is never in two places: an ack, a nack by a client and a nack by
\* the cleanup loop that race for one task cannot all succeed.
SingleCopy == \A p, r \in Places : MessageAt(p) = MessageAt(r) => p = r

\* A message whose task an ack or ack_batch answered Ok has taken out of flight
\* is in no queue, not in flight, and no request that runs can bring it back,
\* neither a nack that has lost its race nor an append that fails.  (An
\* ack_batch is also answered Ok for ids it did not find: AckedGone.)
RemovedGone == \A p \in Places : MessageAt(p) \notin removed

\* The messages a client has received under ids whose ack was answered Ok.
AckedMessages == {delivered[t].msg : t \in acked}

\* "Once acknowledged, the task cannot be re-queued or seen again": a message
\* received under an id for which ack or ack_batch returned Ok is in no queue
\* and not in flight.
AckedGone == AckedMessages \cap (Pending(queues) \cup Flying(in_flight)) = {}

\* A nacked task is retried before the tasks that were never delivered: in a
\* queue that is not a DLQ no fresh item stands before a retried one, also
\* when a dequeue puts items back because its append failed.
RetriesFirst ==
    \A q \in DOMAIN queues : q[2] = 0 =>
        \A i, j \in DOMAIN queues[q] :
            i < j /\ queues[q][i].attempts = 0 => queues[q][j].attempts = 0

AttemptsAt(p) ==
    CASE p[1] = "queue"  -> queues[p[2]][p[3]].attempts
      [] p[1] = "flight" -> in_flight[p[2]].attempts
      [] p[1] = "held"   -> h[p[2]].items[p[3]].attempts

DeliveriesOf(m) == {t \in DOMAIN delivered : delivered[t].msg = m}

\* delivery_attempts counts the deliveries that clients were answered, neither
\* more nor fewer, wherever the message is: a dequeue or a nack whose append
\* failed, and a nack that lost its race, leave no trace in the count.
AttemptsCounted ==
    \A p \in Places : AttemptsAt(p) = Cardinality(DeliveriesOf(MessageAt(p)))

\* A message is handed out at most MaxAttempts times from the queue it was
\* sent to, whoever nacks it, and however often the log is replayed in between.
DeliveryBound ==
    \A m \in 0..MaxMsgs - 1 :
        Cardinality({t \in DeliveriesOf(m) : delivered[t].queue[2] = 0}) <= MaxAttempts
-----------------------------------------------------------------------------
(***************************************************************************)
(* Properties of the log.                                                  *)
(***************************************************************************)
\* While every line of the log parses, a restart now would lose no message
\* whose enqueue was answered Ok and that no ack has removed.
DurableLive == disk.tail # "corrupt" => due \subseteq Live(Recover(disk))

\* A restart now would bring back no message that was received under an id whose
\* ack or ack_batch was answered Ok.
DurableAck == AckedMessages \cap Live(Recover(disk)) = {}

\* Between requests, while every line of the log parses, the replay gives the
\* same queues, item by item and in order, and every task in flight under its
\* own id and with its own number of attempts: the ids a Dequeued entry carries
\* are bound again to the messages they were given for.
RecoveryExact ==
    disk.tail # "corrupt" /\ (\A c \in Actors : h[c] = Idle) =>
        /\ Recover(disk).queues = queues
        /\ \A t \in DOMAIN in_flight :
              t \in DOMAIN Recover(disk).in_flight
              /\ Recover(disk).in_flight[t] = in_flight[t]

\* Messages sent one after the other wait in the order of their enqueues, also
\* after a failed dequeue_batch has put several back and after a restart.
FreshInOrder ==
    \A q \in DOMAIN queues : \A i, j \in DOMAIN queues[q] :
        i < j /\ queues[q][i].attempts = 0 /\ queues[q][j].attempts = 0
            => queues[q][i].msg < queues[q][j].msg
-----------------------------------------------------------------------------
(***************************************************************************)
(* The inductive invariant behind NoLoss, for servers on which one client  *)
(* at a time creates queues, none of them named like a dead letter queue,  *)
(* no client disconnects during a dequeue or a nack, and the process does  *)
(* not end.                                                                *)
(***************************************************************************)
CalmConfig ==
    /\ \A c, d \in Creators : c = d
    /\ \A q \in CreateNames : q[2] = 0
    /\ DropOps \cap {"dequeue", "nack"} = {}
    /\ MaxCrashes = 0

\* The queue a create_queue is about to insert does not exist yet, although it
\* was looked up before the append.
CreateFresh ==
    \A c \in Actors : h[c].op = "create_queue" =>
        c \in Creators /\ h[c].q[2] = 0 /\ h[c].q \notin DOMAIN queues

\* The operations that hold what they have taken out of the maps.
Holding == {"dequeue", "ack", "nack"}

\* An id is in flight or held by one request, never both and never by two; no
\* id is drawn again.
IdsApart ==
    /\ \A t \in DOMAIN in_flight : t < nextId
    /\ \A c \in Actors : h[c].op \in Holding =>
          /\ \A t \in Elements(h[c].ids) : t < nextId /\ t \notin DOMAIN in_flight
          /\ \A i, j \in DOMAIN h[c].ids : h[c].ids[i] = h[c].ids[j] => i = j
          /\ \A d \in Actors \ {c} : h[d].op \in Holding =>
                Elements(h[c].ids) \cap Elements(h[d].ids) = {}

\* The queue a task or an item goes back to exists.
QueuesExist ==
    /\ \A t \in DOMAIN in_flight : in_flight[t].queue \in DOMAIN queues
    /\ \A c \in Actors : h[c].op \in Holding \cup {"queue"} => h[c].q \in DOMAIN queues

NoLossInv == TypeOK /\ CreateFresh /\ IdsApart /\ QueuesExist /\ NoLoss
=============================================================================
