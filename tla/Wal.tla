-------------------------------- MODULE Wal ---------------------------------
(***************************************************************************)
(* The write-ahead log of a standalone server: WalEntry, WalManager and    *)
(* the replay of InMemoryStorage::new_persistent.                          *)
(*                                                                         *)
(* Replaying is a left fold of ReplayOp over the entries, so a file is     *)
(* represented by the state its complete entries replay to together with   *)
(* how its last line ends:                                                 *)
(*   "clean"    every line is complete and ends in a newline;              *)
(*   "open"     the last line is complete but its newline is missing;      *)
(*   "corrupt"  some line is not a JSON entry.                             *)
(***************************************************************************)
EXTENDS QueueState

Tails == {"clean", "open", "corrupt"}

IsWalFile(f) == /\ f = [state |-> f.state, tail |-> f.tail]
                /\ IsState(f.state) /\ f.tail \in Tails

NoWal == [state |-> Empty, tail |-> "clean"]

(***************************************************************************)
(* WalOp.  Only an enqueue carries payloads: a Dequeued entry names the    *)
(* queue and the ids, an Ack or a Nack only the id.                        *)
(***************************************************************************)
WalOp(op, q, items, ids) ==
    CASE op = "create_queue" -> [op |-> op, queue |-> q]
      [] op = "queue"        -> [op |-> op, queue |-> q,
                                 data |-> [i \in DOMAIN items |-> items[i].msg]]
      [] op = "dequeue"      -> [op |-> op, queue |-> q, ids |-> ids]
      [] OTHER               -> [op |-> op, ids |-> ids]

ReplayEnqueue(st, e) ==
    [st EXCEPT !.queues =
        Enqueue(@, e.queue, [i \in DOMAIN e.data |-> Fresh(e.data[i])])]

\* Fault: of a batch only the first task is put in flight.
ReplayDequeuedFirst(st, e) ==
    IF e.queue \in DOMAIN st.queues
    THEN [queues    |-> PopFront(st.queues, e.queue, Len(e.ids)),
          in_flight |-> Deliver(st.in_flight, e.queue, st.queues[e.queue],
                                FirstOf(e.ids, Least(1, Len(st.queues[e.queue]))))]
    ELSE st

\* The ids are given to the items now at the front of the queue; ids left
\* over when the queue runs out are dropped.
ReplayDequeued(st, e) ==
    IF e.queue \in DOMAIN st.queues
    THEN LET items == FirstOf(st.queues[e.queue], Len(e.ids))
         IN  [queues    |-> PopFront(st.queues, e.queue, Len(e.ids)),
              in_flight |-> Deliver(st.in_flight, e.queue, items,
                                    FirstOf(e.ids, Len(items)))]
    ELSE st

\* Fault: the replay does not create the dead letter queue.
ReplayNackNoDlq(st, t) ==
    IF t \in DOMAIN st.in_flight
    THEN LET task == st.in_flight[t]
             item == [msg |-> task.msg, attempts |-> task.attempts]
             to   == IF task.attempts >= MaxAttempts THEN Dlq(task.queue) ELSE task.queue
         IN  [queues    |-> IF to \in DOMAIN st.queues
                            THEN Requeue(st.queues, task.queue, item) ELSE st.queues,
              in_flight |-> Without(st.in_flight, {t})]
    ELSE st

\* Fault: the replay puts the item at the end of its queue.
ReplayNackBack(st, t) ==
    IF t \in DOMAIN st.in_flight
    THEN LET task == st.in_flight[t]
         IN  [queues    |-> Enqueue(st.queues, task.queue,
                                    <<[msg |-> task.msg, attempts |-> task.attempts]>>),
              in_flight |-> Without(st.in_flight, {t})]
    ELSE st

ReplayNack(st, t) ==
    IF t \in DOMAIN st.in_flight
    THEN LET task == st.in_flight[t]
         IN  [queues    |-> Requeue(st.queues, task.queue,
                                    [msg |-> task.msg, attempts |-> task.attempts]),
              in_flight |-> Without(st.in_flight, {t})]
    ELSE st

\* Fault: of a batch only the first task is acknowledged.
ReplayAckFirst(st, ids) ==
    IF Elements(ids) \subseteq DOMAIN st.in_flight
    THEN [st EXCEPT !.in_flight = Without(@, {ids[1]})]
    ELSE st

\* An ack or ack_batch entry takes effect only if all its tasks are found.
ReplayAck(st, ids) ==
    IF Elements(ids) \subseteq DOMAIN st.in_flight
    THEN [st EXCEPT !.in_flight = Without(@, Elements(ids))]
    ELSE st

\* One turn of the replay loop.
ReplayOp(st, e) ==
    CASE e.op = "create_queue" ->
            IF e.queue \in DOMAIN st.queues THEN st
            ELSE [st EXCEPT !.queues = Insert(@, e.queue, <<>>)]
      [] e.op = "queue"              -> ReplayEnqueue(st, e)
      [] e.op = "dequeue"            -> ReplayDequeued(st, e)
      [] e.op \in {"ack", "ack_batch"} -> ReplayAck(st, e.ids)
      [] e.op = "nack"               -> ReplayNack(st, e.ids[1])
      [] OTHER                       -> st     \* ExtendVisibility

\* WalManager::append of a whole line.  After a line without a newline the
\* new entry lands on that same line, which no longer parses.
WalAppend(file, e) ==
    IF file.tail = "clean"
    THEN [file EXCEPT !.state = ReplayOp(@, e)]
    ELSE [file EXCEPT !.tail = "corrupt"]

\* What an append that is cut short may leave behind: nothing, a fragment,
\* the line without its newline, or the whole line.
TornAppends(file, e) ==
    {file, WalAppend(file, e), [file EXCEPT !.tail = "corrupt"],
     [WalAppend(file, e) EXCEPT !.tail = IF @ = "clean" THEN "open" ELSE @]}

\* WalManager::replay(path).unwrap_or_default() and the loop over its
\* entries: one line that does not parse makes the whole log empty.
Recover(file) == IF file.tail = "corrupt" THEN Empty ELSE file.state
=============================================================================
