----------------------------- MODULE ClusterNode ----------------------------
(***************************************************************************)
(* A server in cluster mode: the HTTP handlers hand every request to Raft, *)
(* Raft appends it to the log that CombinedStorage keeps on disk, and      *)
(* apply_to_state_machine carries it out on an InMemoryStorage that has no *)
(* log of its own.  After a restart the storage is empty, last_applied_log *)
(* is None and Raft applies the whole log again; the ids of the tasks are  *)
(* drawn anew.                                                             *)
(*                                                                         *)
(* This is a cluster of one voter, the one /raft/init makes.  Raft itself  *)
(* (openraft) is external: an entry is committed as soon as the single     *)
(* voter has it on disk, and entries are applied in the order of the log.  *)
(***************************************************************************)
EXTENDS QueueState, FiniteSets

CONSTANTS
    Clients,      \* HTTP requests that run at the same time
    Sweeper,      \* the cleanup loop
    ReqNames,     \* the queue names that requests use
    MaxMsgs, MaxLog, MaxBatch, MaxCrashes   \* bounds

ASSUME ClusterNodeAssumption ==
    /\ Sweeper \notin Clients
    /\ ReqNames \subseteq Name
    /\ MaxMsgs \in Nat /\ MaxLog \in Nat /\ MaxBatch \in Nat /\ MaxCrashes \in Nat

Actors == Clients \cup {Sweeper}

VARIABLES
    logs,       \* the tree "logs" on disk: index -> entry
    sm,         \* state_machine
    applied,    \* last_applied_log, 0 for None
    waiting,    \* per actor, the index its client_write waits for, or 0
    todo,       \* the expired ids the cleanup loop has still to submit
    nextMsg, nextId, crashes,
    delivered,  \* per id returned to a client, the message and its queue
    (* History variables, read by no action. *)
    due,        \* messages answered Ok that no ack has removed
    acked,      \* messages whose ack was answered Ok
    settled     \* the ids that ack entries have removed

history == <<delivered, due, acked, settled>>
vars    == <<logs, sm, applied, waiting, todo, nextMsg, nextId, crashes, history>>

\* EntryPayload::Blank, which a new leader appends; ClientRequest.
Blank             == [op |-> "blank"]
CreateQueueReq(q) == [op |-> "create_queue", queue |-> q]
EnqueueReq(q, ms) == [op |-> "enqueue", queue |-> q, data |-> ms]
DequeueReq(q, n)  == [op |-> "dequeue", queue |-> q, count |-> n]
AckReq(ids)       == [op |-> "ack", ids |-> ids]
NackReq(t)        == [op |-> "nack", id |-> t]
ExtendReq(t)      == [op |-> "extend", id |-> t]

Init ==
    /\ logs = [i \in {1} |-> Blank]
    /\ sm = Empty /\ applied = 0
    /\ waiting = [c \in Actors |-> 0] /\ todo = {}
    /\ nextMsg = 0 /\ nextId = 0 /\ crashes = 0
    /\ delivered = [t \in {} |-> <<>>] /\ due = {} /\ acked = {} /\ settled = {}
-----------------------------------------------------------------------------
(***************************************************************************)
(* The log on disk.                                                        *)
(***************************************************************************)
\* get_log_state
LastIndex == CHOOSE i \in DOMAIN logs : \A j \in DOMAIN logs : j <= i

\* Fault: the entry lands on the index of the last one.
AppendToLastIndex(e) == logs' = Insert(logs, LastIndex, e)

\* append_to_log of one entry.
AppendToLog(e) == logs' = Insert(logs, LastIndex + 1, e)

\* raft.client_write: the entry is on disk, the handler waits for its answer.
ClientWrite(c, e) ==
    /\ waiting[c] = 0 /\ LastIndex < MaxLog
    /\ AppendToLog(e)
    /\ waiting' = [waiting EXCEPT ![c] = LastIndex + 1]

\* purge_logs_upto, for entries that have been applied; Raft keeps the last.
\* The snapshot that comes before it is read by nothing (get_current_snapshot
\* returns None) and is left out.
Purge ==
    /\ \E i \in DOMAIN logs :
        /\ i <= applied /\ i < LastIndex
        /\ logs' = Without(logs, 1..i)
    /\ UNCHANGED <<sm, applied, waiting, todo, nextMsg, nextId, crashes, history>>
-----------------------------------------------------------------------------
(***************************************************************************)
(* The HTTP handlers and the cleanup loop.                                 *)
(***************************************************************************)
CreateQueue(c, q) ==
    /\ ClientWrite(c, CreateQueueReq(q))
    /\ UNCHANGED <<sm, applied, todo, nextMsg, nextId, crashes, history>>

Send(c, q, n) ==
    /\ nextMsg + n <= MaxMsgs
    /\ ClientWrite(c, EnqueueReq(q, [i \in 1..n |-> nextMsg + i - 1]))
    /\ nextMsg' = nextMsg + n
    /\ UNCHANGED <<sm, applied, todo, nextId, crashes, history>>

EnqueueTask(c, q)   == Send(c, q, 1)
QueueBatch(c, q, n) == Send(c, q, n)

DequeueTask(c, q) ==
    /\ ClientWrite(c, DequeueReq(q, 1))
    /\ UNCHANGED <<sm, applied, todo, nextMsg, nextId, crashes, history>>

DequeueBatch(c, q, n) ==
    /\ ClientWrite(c, DequeueReq(q, n))
    /\ UNCHANGED <<sm, applied, todo, nextMsg, nextId, crashes, history>>

AckTask(c, t) ==
    /\ ClientWrite(c, AckReq(<<t>>))
    /\ UNCHANGED <<sm, applied, todo, nextMsg, nextId, crashes, history>>

AckBatch(c, ids) ==
    /\ ClientWrite(c, AckReq(ids))
    /\ UNCHANGED <<sm, applied, todo, nextMsg, nextId, crashes, history>>

NackTask(c, t) ==
    /\ ClientWrite(c, NackReq(t))
    /\ UNCHANGED <<sm, applied, todo, nextMsg, nextId, crashes, history>>

HeartbeatTask(c, t) ==
    /\ ClientWrite(c, ExtendReq(t))
    /\ UNCHANGED <<sm, applied, todo, nextMsg, nextId, crashes, history>>

\* The client goes away; its entry stays in the log.
Disconnect(c) ==
    /\ waiting[c] # 0
    /\ waiting' = [waiting EXCEPT ![c] = 0]
    /\ UNCHANGED <<logs, sm, applied, todo, nextMsg, nextId, crashes, history>>

\* The leader's cleanup: scan_expired_tasks, then one Nack at a time.  Time is
\* left out, so the scan may find any tasks.
Scan(S) ==
    /\ waiting[Sweeper] = 0 /\ todo = {}
    /\ todo' = S
    /\ UNCHANGED <<logs, sm, applied, waiting, nextMsg, nextId, crashes, history>>

\* An error of client_write is logged and the loop goes on.
CleanupNack(t) ==
    /\ waiting[Sweeper] = 0
    /\ todo' = todo \ {t}
    /\ ClientWrite(Sweeper, NackReq(t)) \/ UNCHANGED <<logs, waiting>>
    /\ UNCHANGED <<sm, applied, nextMsg, nextId, crashes, history>>
-----------------------------------------------------------------------------
(***************************************************************************)
(* The state machine.                                                      *)
(***************************************************************************)
\* The items a dequeue entry takes.
Taken(st, e) ==
    IF e.op = "dequeue" /\ e.queue \in DOMAIN st.queues
    THEN FirstOf(st.queues[e.queue], e.count) ELSE <<>>

\* The messages an enqueue entry adds and an ack entry removes.
Accepted(st, e) ==
    IF e.op = "enqueue" /\ e.queue \in DOMAIN st.queues THEN Elements(e.data) ELSE {}

RemovedIds(st, e) ==
    IF e.op = "ack" /\ Elements(e.ids) \subseteq DOMAIN st.in_flight THEN Elements(e.ids) ELSE {}

Removed(st, e) == {st.in_flight[t].msg : t \in RemovedIds(st, e)}

\* Fault: the item goes to the end of its queue.
ApplyNackBack(st, t) ==
    IF t \in DOMAIN st.in_flight
    THEN LET task == st.in_flight[t]
         IN  [queues    |-> Enqueue(st.queues, task.queue,
                                    <<[msg |-> task.msg, attempts |-> task.attempts]>>),
              in_flight |-> Without(st.in_flight, {t})]
    ELSE st

ApplyNack(st, t) ==
    IF t \in DOMAIN st.in_flight
    THEN LET task == st.in_flight[t]
         IN  [queues    |-> Requeue(st.queues, task.queue,
                                    [msg |-> task.msg, attempts |-> task.attempts]),
              in_flight |-> Without(st.in_flight, {t})]
    ELSE st

\* Fault: only the first task of an ack_batch is removed.
ApplyAckFirst(st, ids) ==
    IF Elements(ids) \subseteq DOMAIN st.in_flight
    THEN [st EXCEPT !.in_flight = Without(@, {ids[1]})]
    ELSE st

\* An ack of several tasks removes all of them or fails.
ApplyAck(st, ids) ==
    IF Elements(ids) \subseteq DOMAIN st.in_flight
    THEN [st EXCEPT !.in_flight = Without(@, Elements(ids))]
    ELSE st

\* One entry of apply_to_state_machine; ids are the ids a dequeue draws.
ApplyEntry(st, e, ids) ==
    CASE e.op = "create_queue" ->
            IF e.queue \in DOMAIN st.queues THEN st
            ELSE [st EXCEPT !.queues = Insert(@, e.queue, <<>>)]
      [] e.op = "enqueue" ->
            [st EXCEPT !.queues =
                Enqueue(@, e.queue, [i \in DOMAIN e.data |-> Fresh(e.data[i])])]
      [] e.op = "dequeue" /\ ids # <<>> ->
            [queues    |-> PopFront(st.queues, e.queue, e.count),
             in_flight |-> Deliver(st.in_flight, e.queue, Taken(st, e), ids)]
      [] e.op = "ack"  -> ApplyAck(st, e.ids)
      [] e.op = "nack" -> ApplyNack(st, e.id)
      [] OTHER         -> st

\* The next entry of the log; the client that waits for it gets its answer.
Apply ==
    LET i        == applied + 1
        e        == logs[i]
        items    == Taken(sm, e)
        ids      == [k \in DOMAIN items |-> nextId + k - 1]
        answered == \E c \in Clients : waiting[c] = i
    IN  /\ i \in DOMAIN logs
        /\ sm' = ApplyEntry(sm, e, ids)
        /\ applied' = i
        /\ nextId' = nextId + Len(ids)
        /\ waiting' = [c \in Actors |-> IF waiting[c] = i THEN 0 ELSE waiting[c]]
        /\ due' = (IF answered THEN due \cup Accepted(sm, e) ELSE due) \ Removed(sm, e)
        /\ acked' = IF answered THEN acked \cup Removed(sm, e) ELSE acked
        /\ settled' = settled \cup RemovedIds(sm, e)
        /\ delivered' =
              IF answered
              THEN [t \in DOMAIN delivered \cup Elements(ids) |->
                       IF t \in Elements(ids)
                       THEN [msg |-> items[Position(ids, t)].msg, queue |-> e.queue]
                       ELSE delivered[t]]
              ELSE delivered
        /\ UNCHANGED <<logs, todo, nextMsg, crashes>>

\* Faults: last_applied_log is kept and the state machine is not, or the state
\* machine is kept and last_applied_log is not.
RestartApplied ==
    /\ crashes < MaxCrashes
    /\ crashes' = crashes + 1
    /\ sm' = Empty /\ UNCHANGED applied
    /\ waiting' = [c \in Actors |-> 0] /\ todo' = {}
    /\ AppendToLog(Blank)
    /\ UNCHANGED <<nextMsg, nextId, history>>

RestartState ==
    /\ crashes < MaxCrashes
    /\ crashes' = crashes + 1
    /\ applied' = 0 /\ UNCHANGED sm
    /\ waiting' = [c \in Actors |-> 0] /\ todo' = {}
    /\ AppendToLog(Blank)
    /\ UNCHANGED <<nextMsg, nextId, history>>

\* The process ends and starts again on the same directory: CombinedStorage::new
\* with a new InMemoryStorage; the node is elected and appends a blank entry.
Restart ==
    /\ crashes < MaxCrashes
    /\ crashes' = crashes + 1
    /\ sm' = Empty /\ applied' = 0
    /\ waiting' = [c \in Actors |-> 0] /\ todo' = {}
    /\ AppendToLog(Blank)
    /\ UNCHANGED <<nextMsg, nextId, history>>
-----------------------------------------------------------------------------
\* The lists of ids a client may send to ack_batch.
IdLists == UNION {[1..n -> DOMAIN delivered] : n \in 2..MaxBatch}

Request(c) ==
    \/ \E q \in ReqNames : CreateQueue(c, q) \/ EnqueueTask(c, q) \/ DequeueTask(c, q)
    \/ \E q \in ReqNames, n \in 2..MaxBatch : QueueBatch(c, q, n) \/ DequeueBatch(c, q, n)
    \/ \E t \in DOMAIN delivered : AckTask(c, t) \/ NackTask(c, t) \/ HeartbeatTask(c, t)
    \/ \E ids \in IdLists : AckBatch(c, ids)
    \/ Disconnect(c)

Cleanup ==
    \/ \E S \in SUBSET DOMAIN sm.in_flight : Scan(S)
    \/ \E t \in todo : CleanupNack(t)

Next == (\E c \in Clients : Request(c)) \/ Cleanup \/ Apply \/ Purge \/ Restart

Spec == Init /\ [][Next]_vars
-----------------------------------------------------------------------------
\* The values of the variables; what a client waits for is in the log and has
\* not been applied, and everything applied was in the log.
TypeOK ==
    /\ DOMAIN logs \subseteq Nat \ {0} /\ IsState(sm)
    /\ applied \in 0..LastIndex
    /\ waiting \in [Actors -> {0} \cup applied + 1..LastIndex]
    /\ todo \subseteq Nat
    /\ nextMsg \in Nat /\ nextId \in Nat /\ crashes \in Nat
    /\ IsMap(delivered, Nat, [msg : Nat, queue : Name])
    /\ due \subseteq Nat /\ acked \subseteq Nat /\ settled \subseteq Nat

\* The messages of the enqueue entries Raft has still to apply.
ToApply ==
    UNION {Elements(logs[i].data) :
              i \in {j \in DOMAIN logs : j > applied /\ logs[j].op = "enqueue"}}

\* The log still holds every entry that the state machine has to apply: false
\* once the node has restarted on a log that was purged.
LogReaches == applied + 1..LastIndex \subseteq DOMAIN logs

\* At-least-once: a message whose enqueue was answered Ok and that no ack has
\* removed is in the state machine, or will be once Raft has applied the log
\* again.  The acks and nacks in the log name ids that the restarted state
\* machine has never drawn, and must not remove anything else.
NoLoss == LogReaches => due \subseteq Live(sm) \cup ToApply

Places ==
    (UNION {{<<"queue", q, i>> : i \in DOMAIN sm.queues[q]} : q \in DOMAIN sm.queues})
    \cup {<<"flight", t, 0>> : t \in DOMAIN sm.in_flight}

MessageAt(p) == IF p[1] = "queue" THEN sm.queues[p[2]][p[3]].msg ELSE sm.in_flight[p[2]].msg

\* A message is in one place of the state machine, however often the log has
\* been applied.
SingleCopy == \A p, r \in Places : MessageAt(p) = MessageAt(r) => p = r

\* A message whose ack was answered Ok is not in the state machine when the
\* whole log has been applied, also not after a restart: its Enqueue, Dequeue
\* and Ack entries have all been applied again by then.
AckedGone == applied = LastIndex => acked \cap Live(sm) = {}

\* Until the node restarts no acknowledged message comes back, although the
\* cleanup loop submits nacks from a list that is older than the ack.
AckedGoneTillRestart == crashes = 0 => acked \cap Live(sm) = {}

Service == INSTANCE TaskService WITH waiting <- sm.queues, leases <- sm.in_flight

\* Whatever entry is applied, for the first time or after a restart, when the
\* ids in the log are those of another life of the node, changes the state
\* machine like one operation of the abstract service: an ack entry removes all
\* of its tasks or none, no message enters twice, and no id is given out that
\* an earlier life has settled.
AppliesOperations == [][crashes' = crashes => Service!Next]_<<sm, settled>>
=============================================================================
