---------------------------- MODULE ClusterProofs ---------------------------
(***************************************************************************)
(* Proofs about a node in cluster mode, for any clients, queues, messages, *)
(* batches and lengths of the log, and for any number of restarts and of   *)
(* purges of the log.                                                      *)
(***************************************************************************)
EXTENDS ClusterNode, StorageLemmas

USE QueueStateAssumption, ClusterNodeAssumption
-----------------------------------------------------------------------------
(***************************************************************************)
(* The invariant.                                                          *)
(***************************************************************************)
\* The fields of an entry of the log.
IsEntry(e) ==
    /\ e.op \in {"create_queue", "enqueue", "dequeue"} => e.queue \in Name
    /\ e.op = "enqueue" => e.data \in Seq(Nat)
    /\ e.op = "dequeue" => e.count \in Nat
    /\ e.op = "ack" => e.ids \in Seq(Nat)

\* The log has no gaps: what a purge removes is its beginning.
LogOK ==
    /\ \E a, b \in Nat \ {0} : a <= b /\ DOMAIN logs = a..b
    /\ \A i \in DOMAIN logs : IsEntry(logs[i])

IsSend(i) == i \in DOMAIN logs /\ logs[i].op = "enqueue"

\* Every message is in one enqueue entry and there once; as long as the entry
\* has not been applied, or after a restart not applied again, the message is
\* not in the state machine.
SentOnce ==
    \A i \in DOMAIN logs : IsSend(i) =>
       /\ Injective(logs[i].data)
       /\ \A m \in Elements(logs[i].data) : m < nextMsg
       /\ \A j \in DOMAIN logs \ {i} :
             IsSend(j) => Elements(logs[i].data) \cap Elements(logs[j].data) = {}
       /\ i > applied => Elements(logs[i].data) \cap Live(sm) = {}

\* Every message in the node or acknowledged has been sent.
Sent == \A m \in Live(sm) \cup acked : m < nextMsg

\* In the first life of the node an acknowledged message is nowhere.
AckedOut == crashes = 0 => acked \cap (Live(sm) \cup ToApply) = {}

\* No settled id will be drawn again.
SettledDrawn == \A t \in settled : t < nextId

NodeInv ==
    /\ LogOK /\ TypeOK /\ Sound(sm, nextId) /\ Once(sm)
    /\ SentOnce /\ Sent /\ AckedOut /\ SettledDrawn

(***************************************************************************)
(* What an application from the beginning needs.                           *)
(***************************************************************************)
\* No request sends a message to a dead letter queue.  (The nack that created
\* the queue names an id that a restarted node does not know, so that the
\* queue is missing when the log is applied again.)
PlainSends == \A i \in DOMAIN logs : IsSend(i) => logs[i].queue[2] = 0

IsCreate(i, q) == i \in DOMAIN logs /\ logs[i].op = "create_queue" /\ logs[i].queue = q

\* The enqueue entry i will find its queue.
Ready(i) ==
    \/ logs[i].queue \in DOMAIN sm.queues
    \/ \E j \in DOMAIN logs : applied < j /\ j < i /\ IsCreate(j, logs[i].queue)

\* Every queue but the dead letter queues has its create entry in the log.
CreatesKept ==
    1 \in DOMAIN logs => \A q \in DOMAIN sm.queues : q[2] = 0 =>
        \E j \in DOMAIN logs : j <= applied /\ IsCreate(j, q)

\* What is due is in the log, after the entry that creates its queue.
DueKept ==
    1 \in DOMAIN logs => \A m \in due : \E i \in DOMAIN logs :
        /\ IsSend(i) /\ m \in Elements(logs[i].data)
        /\ \E j \in DOMAIN logs : j < i /\ IsCreate(j, logs[i].queue)

\* What is due is in the state machine, or in an entry that will be carried out.
DueHeld ==
    LogReaches => \A m \in due :
        \/ m \in Live(sm)
        \/ \E i \in DOMAIN logs : /\ i > applied /\ IsSend(i)
                                  /\ m \in Elements(logs[i].data) /\ Ready(i)

ReplayInv == CreatesKept /\ DueKept /\ DueHeld
-----------------------------------------------------------------------------
(***************************************************************************)
(* What the entries do to a state.                                         *)
(***************************************************************************)
\* What the application of entry e to st achieves: nothing that the entry does
\* not remove is lost, what it accepts is there, and every message is in the
\* new state, whose ids are below n, once.
Outcome(st, e, nt, n) ==
    /\ Sound(nt, n) /\ Once(nt)
    /\ DOMAIN st.queues \subseteq DOMAIN nt.queues
    /\ \A q \in DOMAIN nt.queues :
          q \in DOMAIN st.queues \/ q[2] # 0 \/ (e.op = "create_queue" /\ e.queue = q)
    /\ e.op = "create_queue" => e.queue \in DOMAIN nt.queues
    /\ Live(st) \subseteq Live(nt) \cup Removed(st, e)
    /\ Accepted(st, e) \subseteq Live(nt)
    /\ Live(nt) \subseteq (Live(st) \ Removed(st, e)) \cup Accepted(st, e)

\* The states in which an entry is applied.
Before(st, e, n) ==
    /\ Sound(st, n) /\ Once(st) /\ IsEntry(e) /\ n \in Nat
    /\ e.op = "enqueue" => Injective(e.data) /\ Elements(e.data) \cap Live(st) = {}

\* An entry without effect.
LEMMA OutcomeSame ==
    ASSUME NEW st, NEW e, NEW n, Before(st, e, n), Removed(st, e) = {}, Accepted(st, e) = {},
           e.op = "create_queue" => e.queue \in DOMAIN st.queues
    PROVE  Outcome(st, e, st, n)
BY DEF Outcome, Before

\* A state with changed maps.
LEMMA StateParts ==
    ASSUME NEW st, NEW e, NEW n, Before(st, e, n)
    PROVE  /\ st = [queues |-> st.queues, in_flight |-> st.in_flight]
           /\ Sound(st, n) /\ Once(st) /\ n \in Nat
           /\ IsQueueMap(st.queues) /\ IsFlightMap(st.in_flight)
BY DEF Before, Sound, IsState

\* An entry that keeps the queues, or adds a dead letter queue.
LEMMA OutcomeKeeps ==
    ASSUME NEW st, NEW e, NEW nt, NEW n, Keeps(st, nt, n, Accepted(st, e), Removed(st, e)),
           e.op # "create_queue",
           \A x \in DOMAIN nt.queues : x \in DOMAIN st.queues \/ x[2] # 0
    PROVE  Outcome(st, e, nt, n)
BY DEF Keeps, Outcome

\* A create entry for a new name.
LEMMA OutcomeCreate ==
    ASSUME NEW st, NEW e, NEW n, Before(st, e, n),
           e.op = "create_queue", e.queue \notin DOMAIN st.queues
    PROVE  Outcome(st, e, [st EXCEPT !.queues = Insert(@, e.queue, <<>>)], n)
<1> DEFINE nt == [queues |-> Insert(st.queues, e.queue, <<>>), in_flight |-> st.in_flight]
<1>1. [st EXCEPT !.queues = Insert(@, e.queue, <<>>)] = nt
  BY StateParts
<1>2. e.queue \in Name
  BY DEF Before, IsEntry
<1>3. Keeps(st, nt, n, {}, {})
  BY <1>2, StateParts, KeepsCreate
<1>4. DOMAIN nt.queues = DOMAIN st.queues \cup {e.queue}
  BY DEF Insert
<1>5. Removed(st, e) = {} /\ Accepted(st, e) = {}
  BY DEF Removed, RemovedIds, Accepted
<1> HIDE DEF nt
<1> QED BY <1>1, <1>3, <1>4, <1>5 DEF Outcome, Keeps

\* An enqueue entry for a queue that exists.
LEMMA OutcomeEnqueue ==
    ASSUME NEW st, NEW e, NEW n, Before(st, e, n), e.op = "enqueue", e.queue \in DOMAIN st.queues,
           NEW items, items = [i \in DOMAIN e.data |-> Fresh(e.data[i])]
    PROVE  /\ Outcome(st, e, [st EXCEPT !.queues = Enqueue(@, e.queue, items)], n)
           /\ items \in Seq(Item) /\ Messages(items) = Elements(e.data)
<1> DEFINE q  == e.queue
           nt == [queues |-> PushBack(st.queues, q, items), in_flight |-> st.in_flight]
<1>1. Enqueue(st.queues, q, items) = PushBack(st.queues, q, items)
  BY DEF Enqueue
<1>2. [st EXCEPT !.queues = Enqueue(@, e.queue, items)] = nt
  BY <1>1, StateParts
<1>3. e.data \in Seq(Nat) /\ Injective(e.data) /\ Elements(e.data) \cap Live(st) = {}
  BY DEF Before, IsEntry
<1>4. items \in Seq(Item)
  BY <1>3, FreshItems
<1>5. Messages(items) = Elements(e.data) /\ Distinct(items)
  BY <1>3, FreshItems
<1>6. Messages(items) \cap Live(st) = {}
  BY <1>3, <1>5
<1>7. Keeps(st, nt, n, Messages(items), {})
  BY <1>4, <1>5, <1>6, StateParts, KeepsEnqueue
<1>8. DOMAIN nt.queues = DOMAIN st.queues
  BY DEF PushBack
<1>9. Removed(st, e) = {} /\ Accepted(st, e) = Messages(items)
  BY <1>5 DEF Removed, RemovedIds, Accepted
<1> HIDE DEF nt
<1>10. Outcome(st, e, nt, n)
  BY <1>7, <1>8, <1>9, OutcomeKeeps
<1> QED BY <1>2, <1>4, <1>5, <1>10

\* A dequeue entry for a queue that exists.
LEMMA OutcomeDequeue ==
    ASSUME NEW st, NEW e, NEW n, Before(st, e, n), e.op = "dequeue", e.queue \in DOMAIN st.queues,
           NEW items, items = FirstOf(st.queues[e.queue], e.count),
           NEW ids, ids = [k \in DOMAIN items |-> n + k - 1]
    PROVE  Outcome(st, e, [queues    |-> PopFront(st.queues, e.queue, e.count),
                           in_flight |-> Deliver(st.in_flight, e.queue, items, ids)],
                   n + Len(ids))
<1> DEFINE q  == e.queue
           m  == n + Len(ids)
           nt == [queues    |-> PopFront(st.queues, q, e.count),
                  in_flight |-> Deliver(st.in_flight, q, items, ids)]
<1>1. e.count \in Nat /\ n \in Nat /\ st.queues[q] \in Seq(Item) /\ IsFlightMap(st.in_flight)
  BY StateParts DEF Before, IsEntry, IsQueueMap, IsMap
<1>2. items \in Seq(Item)
  BY <1>1, SplitType
<1>3. /\ ids \in Seq(Nat) /\ Len(ids) = Len(items) /\ Len(ids) \in Nat
      /\ \A i, j \in DOMAIN ids : ids[i] = ids[j] => i = j
      /\ \A t \in Elements(ids) : n <= t /\ t < m
  BY <1>1, <1>2, DrawnIds DEF Injective
<1>4. \A t \in DOMAIN st.in_flight : t \in Nat /\ t < n
  BY <1>1 DEF Before, Sound, IsFlightMap, IsMap
<1>5. \A t \in Elements(ids) : t < m /\ t \notin DOMAIN st.in_flight
  BY <1>1, <1>3, <1>4
<1>6. m \in Nat /\ n <= m
  BY <1>1, <1>3
<1> HIDE DEF m
<1>7. Keeps(st, nt, m, {}, {})
  BY <1>1, <1>3, <1>5, <1>6, StateParts, KeepsDequeue DEF Injective
<1>8. DOMAIN nt.queues = DOMAIN st.queues
  BY DEF PopFront
<1>9. Removed(st, e) = {} /\ Accepted(st, e) = {}
  BY DEF Removed, RemovedIds, Accepted
<1>10. Outcome(st, e, nt, m)
  <2> HIDE DEF nt
  <2> QED BY <1>7, <1>8, <1>9, OutcomeKeeps
<1> QED BY <1>10 DEF m

\* An ack entry whose tasks are all in flight.
LEMMA OutcomeAck ==
    ASSUME NEW st, NEW e, NEW n, Before(st, e, n), e.op = "ack",
           Elements(e.ids) \subseteq DOMAIN st.in_flight
    PROVE  Outcome(st, e, ApplyAck(st, e.ids), n)
<1> DEFINE nt == [queues |-> st.queues, in_flight |-> Without(st.in_flight, Elements(e.ids))]
<1>1. ApplyAck(st, e.ids) = nt
  BY StateParts DEF ApplyAck
<1>2. Removed(st, e) = {st.in_flight[t].msg : t \in Elements(e.ids)} /\ Accepted(st, e) = {}
  BY DEF Removed, RemovedIds, Accepted
<1>3. Keeps(st, nt, n, {}, {st.in_flight[t].msg : t \in Elements(e.ids)})
  BY StateParts, KeepsAck
<1>4. nt.queues = st.queues
  OBVIOUS
<1> HIDE DEF nt
<1> QED BY <1>1, <1>2, <1>3, <1>4, OutcomeKeeps

\* A nack entry for a task that is in flight.
LEMMA OutcomeNack ==
    ASSUME NEW st, NEW e, NEW n, Before(st, e, n), e.op = "nack", e.id \in DOMAIN st.in_flight
    PROVE  Outcome(st, e, ApplyNack(st, e.id), n)
<1> DEFINE t    == e.id
           q    == st.in_flight[t].queue
           item == [msg |-> st.in_flight[t].msg, attempts |-> st.in_flight[t].attempts]
           f    == Requeue(st.queues, q, item)
           nt   == [queues |-> f, in_flight |-> Without(st.in_flight, {t})]
<1>1. ApplyNack(st, e.id) = nt
  BY DEF ApplyNack
<1>2. Keeps(st, nt, n, {}, {}) /\ \A x \in DOMAIN f : x \in DOMAIN st.queues \/ x[2] # 0
  BY StateParts, KeepsNack
<1>3. Removed(st, e) = {} /\ Accepted(st, e) = {}
  BY DEF Removed, RemovedIds, Accepted
<1>4. nt.queues = f
  OBVIOUS
<1> HIDE DEF nt
<1> QED BY <1>1, <1>2, <1>3, <1>4, OutcomeKeeps

\* Whatever the entry, and whether it is applied for the first time or again,
\* the outcome is as above; the ids are those a dequeue draws.
LEMMA ApplyOutcome ==
    ASSUME NEW st, NEW e, NEW n, Before(st, e, n), NEW items, items = Taken(st, e),
           NEW ids, ids = [k \in DOMAIN items |-> n + k - 1]
    PROVE  /\ items \in Seq(Item) /\ ids \in Seq(Nat) /\ Len(ids) = Len(items)
           /\ n + Len(ids) \in Nat
           /\ Outcome(st, e, ApplyEntry(st, e, ids), n + Len(ids))
<1>1. /\ st = [queues |-> st.queues, in_flight |-> st.in_flight]
      /\ IsQueueMap(st.queues) /\ IsFlightMap(st.in_flight) /\ n \in Nat
  BY DEF Before, Sound, IsState
<1>2. items \in Seq(Item)
  <2>1. CASE e.op = "dequeue" /\ e.queue \in DOMAIN st.queues
    <3>1. st.queues[e.queue] \in Seq(Item) /\ e.count \in Nat
      BY <1>1, <2>1 DEF IsQueueMap, IsMap, Before, IsEntry
    <3>2. items = FirstOf(st.queues[e.queue], e.count)
      BY <2>1 DEF Taken
    <3> QED BY <3>1, <3>2, SplitType
  <2>2. CASE ~(e.op = "dequeue" /\ e.queue \in DOMAIN st.queues)
    <3>1. items = <<>>
      BY <2>2 DEF Taken
    <3> QED BY <3>1
  <2> QED BY <2>1, <2>2
<1>3. ids \in Seq(Nat) /\ Len(ids) = Len(items) /\ n + Len(ids) \in Nat
  BY <1>1, <1>2, DrawnIds
<1>4. items = <<>> => ids = <<>> /\ n + Len(ids) = n
  BY <1>1, <1>2, <1>3
<1>5. e.op # "dequeue" => items = <<>>
  BY DEF Taken
<1> DEFINE nt == ApplyEntry(st, e, ids)
<1>6. nt = st /\ n + Len(ids) = n /\ Removed(st, e) = {} /\ Accepted(st, e) = {}
         /\ (e.op = "create_queue" => e.queue \in DOMAIN st.queues)
      => Outcome(st, e, nt, n + Len(ids))
  BY OutcomeSame
<1>7. CASE e.op = "create_queue"
  <2>1. Removed(st, e) = {} /\ Accepted(st, e) = {}
    BY <1>7 DEF Removed, RemovedIds, Accepted
  <2>2. CASE e.queue \in DOMAIN st.queues
    <3>1. nt = st
      BY <1>7, <2>2 DEF ApplyEntry
    <3> QED BY <1>2, <1>3, <1>4, <1>5, <1>6, <1>7, <2>1, <2>2, <3>1
  <2>3. CASE e.queue \notin DOMAIN st.queues
    <3>1. nt = [st EXCEPT !.queues = Insert(@, e.queue, <<>>)]
      BY <1>7, <2>3 DEF ApplyEntry
    <3>2. Outcome(st, e, nt, n)
      BY <1>7, <2>3, <3>1, OutcomeCreate
    <3> QED BY <1>2, <1>3, <1>4, <1>5, <1>7, <3>2
  <2> QED BY <2>2, <2>3
<1>8. CASE e.op = "enqueue"
  <2> DEFINE new == [i \in DOMAIN e.data |-> Fresh(e.data[i])]
  <2>1. nt = [st EXCEPT !.queues = Enqueue(@, e.queue, new)]
    BY <1>8 DEF ApplyEntry
  <2>2. CASE e.queue \in DOMAIN st.queues
    <3> HIDE DEF nt
    <3>1. Outcome(st, e, nt, n)
      BY <1>8, <2>1, <2>2, OutcomeEnqueue
    <3> QED BY <1>2, <1>3, <1>4, <1>5, <1>8, <3>1 DEF nt
  <2>3. CASE e.queue \notin DOMAIN st.queues
    <3>1. Removed(st, e) = {} /\ Accepted(st, e) = {}
      BY <1>8, <2>3 DEF Removed, RemovedIds, Accepted
    <3>2. Enqueue(st.queues, e.queue, new) = st.queues
      BY <2>3 DEF Enqueue
    <3>3. nt = st
      BY <1>1, <2>1, <3>2
    <3> QED BY <1>2, <1>3, <1>4, <1>5, <1>6, <1>8, <3>1, <3>3
  <2> QED BY <2>2, <2>3
<1>9. CASE e.op = "dequeue"
  <2>1. Removed(st, e) = {} /\ Accepted(st, e) = {}
    BY <1>9 DEF Removed, RemovedIds, Accepted
  <2>2. CASE ids # <<>>
    <3>1. e.queue \in DOMAIN st.queues /\ items = FirstOf(st.queues[e.queue], e.count)
      BY <1>4, <2>2 DEF Taken
    <3>2. nt = [queues    |-> PopFront(st.queues, e.queue, e.count),
                in_flight |-> Deliver(st.in_flight, e.queue, items, ids)]
      BY <1>9, <2>2 DEF ApplyEntry
    <3> HIDE DEF nt
    <3>3. Outcome(st, e, nt, n + Len(ids))
      BY <1>9, <3>1, <3>2, OutcomeDequeue
    <3> QED BY <1>2, <1>3, <3>3 DEF nt
  <2>3. CASE ids = <<>>
    <3>1. nt = st
      BY <1>9, <2>3 DEF ApplyEntry
    <3>2. n + Len(ids) = n
      BY <1>1, <2>3
    <3> QED BY <1>2, <1>3, <1>6, <1>9, <2>1, <3>1, <3>2
  <2> QED BY <2>2, <2>3
<1>10. CASE e.op = "ack"
  <2>1. nt = ApplyAck(st, e.ids)
    BY <1>10 DEF ApplyEntry
  <2>2. CASE Elements(e.ids) \subseteq DOMAIN st.in_flight
    BY <1>2, <1>3, <1>4, <1>5, <1>10, <2>1, <2>2, OutcomeAck
  <2>3. CASE ~(Elements(e.ids) \subseteq DOMAIN st.in_flight)
    <3>1. nt = st /\ Removed(st, e) = {} /\ Accepted(st, e) = {}
      BY <1>10, <2>1, <2>3 DEF ApplyAck, Removed, RemovedIds, Accepted
    <3> QED BY <1>2, <1>3, <1>4, <1>5, <1>6, <1>10, <3>1
  <2> QED BY <2>2, <2>3
<1>11. CASE e.op = "nack"
  <2>1. nt = ApplyNack(st, e.id)
    BY <1>11 DEF ApplyEntry
  <2>2. CASE e.id \in DOMAIN st.in_flight
    BY <1>2, <1>3, <1>4, <1>5, <1>11, <2>1, <2>2, OutcomeNack
  <2>3. CASE e.id \notin DOMAIN st.in_flight
    <3>1. nt = st /\ Removed(st, e) = {} /\ Accepted(st, e) = {}
      BY <1>11, <2>1, <2>3 DEF ApplyNack, Removed, RemovedIds, Accepted
    <3> QED BY <1>2, <1>3, <1>4, <1>5, <1>6, <1>11, <3>1
  <2> QED BY <2>2, <2>3
<1>12. CASE e.op \notin {"create_queue", "enqueue", "dequeue", "ack", "nack"}
  <2>1. nt = st /\ Removed(st, e) = {} /\ Accepted(st, e) = {}
    BY <1>12 DEF ApplyEntry, Removed, RemovedIds, Accepted
  <2> QED BY <1>2, <1>3, <1>4, <1>5, <1>6, <1>12, <2>1
<1> QED BY <1>7, <1>8, <1>9, <1>10, <1>11, <1>12
-----------------------------------------------------------------------------
(***************************************************************************)
(* The log.                                                                *)
(***************************************************************************)
\* The last index of a log without gaps is the end of its range.
LEMMA LastOf ==
    ASSUME NEW f, NEW a \in Nat, NEW b \in Nat, a <= b, DOMAIN f = a..b
    PROVE  (CHOOSE i \in DOMAIN f : \A j \in DOMAIN f : j <= i) = b
<1>1. b \in DOMAIN f /\ \A j \in DOMAIN f : j <= b
  OBVIOUS
<1> QED BY <1>1

\* The last index of the log is a number and the largest.
LEMMA LastIs ==
    ASSUME LogOK
    PROVE  /\ LastIndex \in Nat \ {0} /\ LastIndex \in DOMAIN logs
           /\ \E a \in 1..LastIndex : DOMAIN logs = a..LastIndex
<1>1. PICK a, b \in Nat \ {0} : a <= b /\ DOMAIN logs = a..b
  BY DEF LogOK
<1>2. LastIndex = b
  BY <1>1, LastOf DEF LastIndex
<1> QED BY <1>1, <1>2

\* An entry is added behind the last.
LEMMA AppendAtEnd ==
    ASSUME LogOK, NEW e, AppendToLog(e)
    PROVE  /\ LastIndex' = LastIndex + 1
           /\ \E a \in Nat \ {0} : a <= LastIndex + 1 /\ DOMAIN logs' = a..(LastIndex + 1)
           /\ DOMAIN logs' = DOMAIN logs \cup {LastIndex + 1}
           /\ LastIndex + 1 \notin DOMAIN logs /\ logs'[LastIndex + 1] = e
           /\ \A i \in DOMAIN logs : logs'[i] = logs[i]
<1>1. /\ LastIndex \in Nat \ {0}
      /\ \E a \in 1..LastIndex : DOMAIN logs = a..LastIndex
  BY LastIs
<1>2. PICK a \in 1..LastIndex : DOMAIN logs = a..LastIndex
  BY <1>1
<1> DEFINE b == LastIndex
<1>3. b \in Nat \ {0} /\ a \in 1..b /\ DOMAIN logs = a..b /\ logs' = Insert(logs, b + 1, e)
  BY <1>1, <1>2 DEF AppendToLog
<1> HIDE DEF b
<1>4. /\ DOMAIN logs' = DOMAIN logs \cup {b + 1} /\ logs'[b + 1] = e
      /\ \A i \in DOMAIN logs : i # b + 1 => logs'[i] = logs[i]
  BY <1>3 DEF Insert
<1>5. b + 1 \notin DOMAIN logs /\ a \in Nat \ {0} /\ b + 1 \in Nat \ {0} /\ a <= b + 1
      /\ DOMAIN logs \cup {b + 1} = a..(b + 1)
  BY <1>3
<1>6. DOMAIN logs' = a..(b + 1)
  BY <1>4, <1>5
<1>7. LastIndex' = b + 1
  BY <1>5, <1>6, LastOf DEF LastIndex
<1> QED BY <1>4, <1>5, <1>6, <1>7 DEF b

\* The log stays one.
LEMMA AppendLog ==
    ASSUME LogOK, NEW e, IsEntry(e), AppendToLog(e)
    PROVE  /\ LogOK' /\ LastIndex' = LastIndex + 1
           /\ DOMAIN logs' = DOMAIN logs \cup {LastIndex + 1}
           /\ LastIndex + 1 \notin DOMAIN logs /\ logs'[LastIndex + 1] = e
           /\ \A i \in DOMAIN logs : logs'[i] = logs[i]
<1> DEFINE b == LastIndex + 1
<1>1. /\ LastIndex' = b /\ \E a \in Nat \ {0} : a <= b /\ DOMAIN logs' = a..b
      /\ DOMAIN logs' = DOMAIN logs \cup {b} /\ b \notin DOMAIN logs /\ logs'[b] = e
      /\ \A i \in DOMAIN logs : logs'[i] = logs[i]
  BY AppendAtEnd
<1>2. b \in Nat \ {0}
  BY LastIs
<1> HIDE DEF b
<1>3. \A i \in DOMAIN logs' : IsEntry(logs'[i])
  BY <1>1 DEF LogOK
<1>4. LogOK'
  BY <1>1, <1>2, <1>3 DEF LogOK, IsEntry
<1> QED BY <1>1, <1>4 DEF b

\* A purge removes the beginning of the log and keeps its end.
LEMMA PurgeLog ==
    ASSUME LogOK, NEW i \in DOMAIN logs, i < LastIndex, logs' = Without(logs, 1..i)
    PROVE  /\ LogOK' /\ LastIndex' = LastIndex /\ 1 \notin DOMAIN logs'
           /\ DOMAIN logs' = {j \in DOMAIN logs : j > i}
           /\ \A j \in DOMAIN logs' : logs'[j] = logs[j]
<1>1. LastIndex \in Nat \ {0} /\ \E a \in 1..LastIndex : DOMAIN logs = a..LastIndex
  BY LastIs
<1>2. PICK a \in 1..LastIndex : DOMAIN logs = a..LastIndex
  BY <1>1
<1> DEFINE b == LastIndex
<1>3. b \in Nat \ {0} /\ a \in 1..b /\ DOMAIN logs = a..b /\ i < b
  BY <1>1, <1>2
<1> HIDE DEF b
<1>4. DOMAIN logs' = DOMAIN logs \ (1..i) /\ \A j \in DOMAIN logs' : logs'[j] = logs[j]
  BY DEF Without
<1>5. i + 1 \in Nat \ {0} /\ i + 1 <= b /\ i \in Nat \ {0} /\ a <= i
  BY <1>3
<1>6. DOMAIN logs' = (i + 1)..b /\ DOMAIN logs' = {j \in DOMAIN logs : j > i}
  <2>1. \A j \in a..b : j \in Nat \ {0} /\ (j \notin 1..i <=> j > i)
    BY <1>3, <1>5
  <2>2. (a..b) \ (1..i) = {j \in a..b : j > i}
    BY <2>1
  <2>3. (i + 1)..b = {j \in a..b : j > i}
    BY <1>3, <1>5
  <2> QED BY <1>3, <1>4, <2>2, <2>3
<1>7. LastIndex' = b
  BY <1>3, <1>5, <1>6, LastOf DEF LastIndex
<1>8. \A j \in DOMAIN logs' : IsEntry(logs'[j])
  BY <1>4 DEF LogOK
<1>9. LogOK'
  BY <1>3, <1>5, <1>6, <1>8 DEF LogOK, IsEntry
<1>10. 1 \notin DOMAIN logs'
  BY <1>5, <1>6
<1> QED BY <1>4, <1>6, <1>7, <1>9, <1>10 DEF b
-----------------------------------------------------------------------------
(***************************************************************************)
(* The steps.                                                              *)
(***************************************************************************)
\* The types of what the node holds.
LEMMA LiveType ==
    ASSUME NEW st, IsState(st)
    PROVE  Live(st) \subseteq Nat
<1>1. IsQueueMap(st.queues) /\ IsFlightMap(st.in_flight)
  BY DEF IsState
<1>2. \A q \in DOMAIN st.queues : Messages(st.queues[q]) \subseteq Nat
  BY <1>1, MessagesType DEF IsQueueMap, IsMap
<1>3. Flying(st.in_flight) \subseteq Nat
  BY <1>1 DEF IsFlightMap, IsMap, Flying, Task
<1> QED BY <1>2, <1>3 DEF Live, Pending

\* Only the history and the numbers of an actor change in a step that neither
\* writes nor applies an entry.
LEMMA QuietStep ==
    ASSUME NodeInv, UNCHANGED <<logs, sm, applied, nextMsg, nextId, crashes, history>>,
           todo' \subseteq Nat, waiting' \in [Actors -> {0} \cup applied + 1..LastIndex]
    PROVE  NodeInv'
<1>1. /\ LogOK' /\ Sound(sm, nextId)' /\ Once(sm)' /\ SentOnce' /\ Sent' /\ AckedOut'
      /\ SettledDrawn' /\ LastIndex' = LastIndex
  <2>1. LogOK' /\ LastIndex' = LastIndex
    BY DEF NodeInv, LogOK, LastIndex, IsEntry
  <2>2. Sound(sm, nextId)' /\ Once(sm)'
    BY DEF NodeInv, Sound, Once
  <2>3. SentOnce'
    BY DEF NodeInv, SentOnce, IsSend
  <2>4. Sent' /\ AckedOut' /\ SettledDrawn'
    BY DEF NodeInv, Sent, AckedOut, ToApply, SettledDrawn, history
  <2> QED BY <2>1, <2>2, <2>3, <2>4
<1>2. TypeOK'
  BY <1>1 DEF NodeInv, TypeOK, history
<1> QED BY <1>1, <1>2 DEF NodeInv

\* An entry is written; the messages of an enqueue entry are new.
WriteStep(e) ==
    /\ IsEntry(e) /\ AppendToLog(e)
    /\ UNCHANGED <<sm, applied, nextId, crashes, history>>
    /\ todo' \subseteq Nat /\ nextMsg' \in Nat /\ nextMsg <= nextMsg'
    /\ waiting' \in [Actors -> {0} \cup applied + 1..LastIndex + 1]
    /\ e.op = "enqueue" => /\ Injective(e.data)
                           /\ \A m \in Elements(e.data) : nextMsg <= m /\ m < nextMsg'

\* A message of the new entry is in no other entry.
LEMMA SentOnceWrite ==
    ASSUME NodeInv, NEW e, WriteStep(e)
    PROVE  SentOnce'
<1>1. /\ LastIndex' = LastIndex + 1 /\ DOMAIN logs' = DOMAIN logs \cup {LastIndex + 1}
      /\ LastIndex + 1 \notin DOMAIN logs /\ logs'[LastIndex + 1] = e
      /\ \A i \in DOMAIN logs : logs'[i] = logs[i]
  BY AppendLog DEF NodeInv, WriteStep
<1> DEFINE b == LastIndex + 1
<1> HIDE DEF b
<1>2. /\ DOMAIN logs' = DOMAIN logs \cup {b} /\ b \notin DOMAIN logs /\ logs'[b] = e
      /\ \A i \in DOMAIN logs : logs'[i] = logs[i]
  BY <1>1 DEF b
<1>3. /\ nextMsg \in Nat /\ nextMsg' \in Nat /\ nextMsg <= nextMsg' /\ sm' = sm /\ applied' = applied
      /\ IsState(sm)
  BY DEF NodeInv, TypeOK, WriteStep
<1>4. ASSUME NEW i \in DOMAIN logs, IsSend(i)
      PROVE  \A m \in Elements(logs[i].data) : m \in Nat /\ m < nextMsg
  <2>1. logs[i].data \in Seq(Nat)
    BY <1>4 DEF NodeInv, LogOK, IsEntry, IsSend
  <2> QED BY <1>4, <2>1, ElementsType DEF NodeInv, SentOnce
<1>5. \A m \in Live(sm) : m \in Nat /\ m < nextMsg
  BY <1>3, LiveType DEF NodeInv, Sent
<1>6. ASSUME e.op = "enqueue"
      PROVE  /\ \A m \in Elements(e.data) : m \in Nat /\ nextMsg <= m /\ m < nextMsg'
             /\ Injective(e.data)
  <2>1. e.data \in Seq(Nat)
    BY <1>6 DEF WriteStep, IsEntry
  <2> QED BY <1>6, <2>1, ElementsType DEF WriteStep
<1> SUFFICES ASSUME NEW i \in DOMAIN logs', IsSend(i)'
             PROVE  /\ Injective(logs'[i].data)
                    /\ \A m \in Elements(logs'[i].data) : m < nextMsg'
                    /\ \A j \in DOMAIN logs' \ {i} :
                          IsSend(j)' => Elements(logs'[i].data) \cap Elements(logs'[j].data) = {}
                    /\ i > applied => Elements(logs'[i].data) \cap Live(sm) = {}
  BY <1>3 DEF SentOnce
<1>7. CASE i = b
  <2>1. e.op = "enqueue" /\ logs'[i] = e
    BY <1>2, <1>7 DEF IsSend
  <2>2. \A j \in DOMAIN logs' \ {i} : IsSend(j)' => IsSend(j) /\ logs'[j] = logs[j] /\ j \in DOMAIN logs
    BY <1>2, <1>7 DEF IsSend
  <2>3. ASSUME NEW j \in DOMAIN logs' \ {i}, IsSend(j)'
        PROVE  Elements(logs'[i].data) \cap Elements(logs'[j].data) = {}
    BY <1>3, <1>4, <1>6, <2>1, <2>2, <2>3
  <2>4. Elements(e.data) \cap Live(sm) = {}
    BY <1>3, <1>5, <1>6, <2>1
  <2> QED BY <1>6, <2>1, <2>3, <2>4
<1>8. CASE i # b
  <2>1. i \in DOMAIN logs /\ logs'[i] = logs[i] /\ IsSend(i)
    BY <1>2, <1>8 DEF IsSend
  <2>2. /\ Injective(logs[i].data)
        /\ i > applied => Elements(logs[i].data) \cap Live(sm) = {}
    BY <2>1 DEF NodeInv, SentOnce
  <2>3. \A m \in Elements(logs[i].data) : m < nextMsg'
    BY <1>3, <1>4, <2>1
  <2>4. ASSUME NEW j \in DOMAIN logs' \ {i}, IsSend(j)'
        PROVE  Elements(logs'[i].data) \cap Elements(logs'[j].data) = {}
    <3>1. CASE j = b
      <4>1. e.op = "enqueue" /\ logs'[j] = e
        BY <1>2, <2>4, <3>1 DEF IsSend
      <4> QED BY <1>3, <1>4, <1>6, <2>1, <4>1
    <3>2. CASE j # b
      <4>1. j \in DOMAIN logs \ {i} /\ logs'[j] = logs[j] /\ IsSend(j)
        BY <1>2, <2>4, <3>2 DEF IsSend
      <4> QED BY <2>1, <4>1 DEF NodeInv, SentOnce
    <3> QED BY <3>1, <3>2
  <2> QED BY <2>1, <2>2, <2>3, <2>4
<1> QED BY <1>7, <1>8

\* The rest of the invariant.
LEMMA WriteOK ==
    ASSUME NodeInv, NEW e, WriteStep(e)
    PROVE  NodeInv'
<1>1. /\ LogOK' /\ LastIndex' = LastIndex + 1 /\ DOMAIN logs' = DOMAIN logs \cup {LastIndex + 1}
      /\ LastIndex + 1 \notin DOMAIN logs /\ logs'[LastIndex + 1] = e
      /\ \A i \in DOMAIN logs : logs'[i] = logs[i]
  BY AppendLog DEF NodeInv, WriteStep
<1>2. LastIndex \in Nat \ {0}
  BY LastIs DEF NodeInv
<1>3. /\ UNCHANGED <<sm, applied, nextId, crashes, delivered, due, acked, settled>>
      /\ nextMsg \in Nat /\ nextMsg' \in Nat /\ nextMsg <= nextMsg'
  BY DEF WriteStep, history, NodeInv, TypeOK
<1>4. TypeOK'
  <2>1. applied \in 0..LastIndex + 1
    BY <1>2 DEF NodeInv, TypeOK
  <2>2. DOMAIN logs' \subseteq Nat \ {0}
    BY <1>1, <1>2 DEF NodeInv, TypeOK
  <2> QED BY <1>1, <1>3, <2>1, <2>2 DEF NodeInv, TypeOK, WriteStep
<1>5. Sound(sm, nextId)' /\ Once(sm)'
  BY <1>3 DEF NodeInv, Sound, Once
<1>6. \A m \in Live(sm) \cup acked : m \in Nat /\ m < nextMsg
  BY LiveType DEF NodeInv, Sent, TypeOK
<1>7. Sent'
  BY <1>3, <1>6 DEF Sent
<1>8. AckedOut'
  <2> SUFFICES ASSUME crashes = 0, NEW m \in acked PROVE m \notin Live(sm) /\ m \notin ToApply'
    BY <1>3 DEF AckedOut
  <2>1. m \notin Live(sm) /\ m \notin ToApply
    BY DEF NodeInv, AckedOut
  <2>2. ASSUME NEW i \in DOMAIN logs', i > applied, logs'[i].op = "enqueue"
        PROVE  m \notin Elements(logs'[i].data)
    <3>1. CASE i \in DOMAIN logs
      BY <1>1, <2>1, <2>2, <3>1 DEF ToApply
    <3>2. CASE i \notin DOMAIN logs
      <4>1. logs'[i] = e /\ e.op = "enqueue"
        BY <1>1, <2>2, <3>2
      <4>2. \A k \in Elements(e.data) : nextMsg <= k
        BY <4>1 DEF WriteStep
      <4>3. m \in Nat /\ m < nextMsg
        BY <1>6
      <4>4. e.data \in Seq(Nat)
        BY <4>1 DEF WriteStep, IsEntry
      <4>5. \A k \in Elements(e.data) : k \in Nat
        BY <4>4, ElementsType
      <4> QED BY <1>3, <4>1, <4>2, <4>3, <4>5
    <3> QED BY <3>1, <3>2
  <2> QED BY <1>3, <2>1, <2>2 DEF ToApply
<1>9. SettledDrawn'
  BY <1>3 DEF NodeInv, SettledDrawn
<1> QED BY <1>1, <1>4, <1>5, <1>7, <1>8, <1>9, SentOnceWrite DEF NodeInv

\* What an entry accepts and removes.
LEMMA Flows ==
    ASSUME NEW st, NEW e
    PROVE  /\ Removed(st, e) \subseteq Live(st)
           /\ \A m \in Accepted(st, e) : e.op = "enqueue" /\ m \in Elements(e.data)
           /\ Removed(st, e) = {} \/ Accepted(st, e) = {}
<1>1. Removed(st, e) \subseteq Flying(st.in_flight)
  BY DEF Removed, RemovedIds, Flying
<1>2. Removed(st, e) = {} \/ Accepted(st, e) = {}
  BY DEF Removed, RemovedIds, Accepted
<1> QED BY <1>1, <1>2 DEF Accepted, Live

\* What Apply does, in terms of the entry.
Applied(e, nt, n) ==
    /\ UNCHANGED <<logs, todo, nextMsg, crashes>>
    /\ applied + 1 \in DOMAIN logs /\ e = logs[applied + 1]
    /\ applied' = applied + 1 /\ sm' = nt /\ nextId' = n /\ n \in Nat
    /\ waiting' = [c \in Actors |-> IF waiting[c] = applied + 1 THEN 0 ELSE waiting[c]]
    /\ due' \subseteq (due \cup Accepted(sm, e)) \ Removed(sm, e)
    /\ acked' \subseteq acked \cup Removed(sm, e)
    /\ settled' = settled \cup RemovedIds(sm, e) /\ nextId <= n
    /\ Outcome(sm, e, nt, n)

\* The state machine is ready for the next entry of the log.
LEMMA NextEntry ==
    ASSUME NodeInv, applied + 1 \in DOMAIN logs
    PROVE  Before(sm, logs[applied + 1], nextId)
<1> DEFINE e == logs[applied + 1]
<1>1. IsEntry(e) /\ nextId \in Nat /\ Sound(sm, nextId) /\ Once(sm)
  BY DEF NodeInv, LogOK, TypeOK
<1>2. applied + 1 > applied
  BY DEF NodeInv, TypeOK
<1>3. e.op = "enqueue" => Injective(e.data) /\ Elements(e.data) \cap Live(sm) = {}
  BY <1>2 DEF NodeInv, SentOnce, IsSend
<1> QED BY <1>1, <1>3 DEF Before

\* Apply is such a step, whoever waits for the answer.
LEMMA ApplyStep ==
    ASSUME NodeInv, Apply
    PROVE  /\ Applied(logs[applied + 1], sm', nextId')
           /\ IsMap(delivered', Nat, [msg : Nat, queue : Name])
<1> DEFINE i        == applied + 1
           e        == logs[i]
           items    == Taken(sm, e)
           ids      == [k \in DOMAIN items |-> nextId + k - 1]
           answered == \E c \in Clients : waiting[c] = i
<1>1. /\ UNCHANGED <<logs, todo, nextMsg, crashes>>
      /\ i \in DOMAIN logs
      /\ sm' = ApplyEntry(sm, e, ids)
      /\ applied' = i
      /\ nextId' = nextId + Len(ids)
      /\ waiting' = [c \in Actors |-> IF waiting[c] = i THEN 0 ELSE waiting[c]]
      /\ due' = (IF answered THEN due \cup Accepted(sm, e) ELSE due) \ Removed(sm, e)
      /\ acked' = IF answered THEN acked \cup Removed(sm, e) ELSE acked
      /\ settled' = settled \cup RemovedIds(sm, e)
      /\ delivered' = IF answered
                      THEN [t \in DOMAIN delivered \cup Elements(ids) |->
                              IF t \in Elements(ids)
                              THEN [msg |-> items[Position(ids, t)].msg, queue |-> e.queue]
                              ELSE delivered[t]]
                      ELSE delivered
  BY DEF Apply
<1> HIDE DEF answered
<1>2. Before(sm, e, nextId)
  BY <1>1, NextEntry
<1> HIDE DEF e
<1>3. /\ items \in Seq(Item) /\ ids \in Seq(Nat) /\ Len(ids) = Len(items)
      /\ nextId + Len(ids) \in Nat
      /\ Outcome(sm, e, ApplyEntry(sm, e, ids), nextId + Len(ids))
  BY <1>2, ApplyOutcome
<1>4. Applied(e, sm', nextId')
  <2>1. nextId <= nextId + Len(ids)
    BY <1>2, <1>3 DEF Before
  <2> QED BY <1>1, <1>3, <2>1 DEF Applied, e
<1>5. ASSUME NEW t \in Elements(ids)
      PROVE  items[Position(ids, t)].msg \in Nat /\ e.queue \in Name /\ t \in Nat
  <2>1. Position(ids, t) \in DOMAIN ids /\ t \in Nat
    BY <1>3, PositionType, ElementsType
  <2>2. items[Position(ids, t)] \in Item /\ items # <<>>
    BY <1>3, <2>1
  <2>3. e.op = "dequeue"
    BY <2>2 DEF Taken
  <2> QED BY <1>2, <2>1, <2>2, <2>3 DEF Item, Before, IsEntry
<1>6. IsMap(delivered', Nat, [msg : Nat, queue : Name])
  <2>1. IsMap(delivered, Nat, [msg : Nat, queue : Name])
    BY DEF NodeInv, TypeOK
  <2> HIDE DEF ids, items
  <2> QED BY <1>1, <1>5, <2>1 DEF IsMap
<1> QED BY <1>4, <1>6 DEF e

\* Applying an entry keeps the invariant.
LEMMA ApplyOK ==
    ASSUME NodeInv, Apply
    PROVE  NodeInv'
<1> DEFINE e == logs[applied + 1]
<1>1. Applied(e, sm', nextId') /\ IsMap(delivered', Nat, [msg : Nat, queue : Name])
  BY ApplyStep
<1>2. /\ UNCHANGED <<logs, todo, nextMsg, crashes>> /\ applied + 1 \in DOMAIN logs
      /\ applied' = applied + 1 /\ nextId' \in Nat
      /\ waiting' = [c \in Actors |-> IF waiting[c] = applied + 1 THEN 0 ELSE waiting[c]]
      /\ due' \subseteq (due \cup Accepted(sm, e)) \ Removed(sm, e)
      /\ acked' \subseteq acked \cup Removed(sm, e)
      /\ settled' = settled \cup RemovedIds(sm, e) /\ nextId <= nextId'
      /\ Outcome(sm, e, sm', nextId')
  BY <1>1 DEF Applied
<1>3. LogOK' /\ LastIndex' = LastIndex
  BY <1>2 DEF NodeInv, LogOK, LastIndex, IsEntry
<1>4. Sound(sm, nextId)' /\ Once(sm)'
  BY <1>2 DEF Outcome
<1>5. applied \in Nat /\ IsState(sm) /\ IsState(sm')
  BY <1>4 DEF NodeInv, TypeOK, Sound
<1>6. /\ Live(sm') \subseteq (Live(sm) \ Removed(sm, e)) \cup Accepted(sm, e)
      /\ Removed(sm, e) \subseteq Live(sm)
      /\ \A m \in Accepted(sm, e) : IsSend(applied + 1) /\ m \in Elements(e.data)
      /\ Removed(sm, e) = {} \/ Accepted(sm, e) = {}
  BY <1>2, Flows DEF Outcome, IsSend
<1>7. \A m \in Accepted(sm, e) : m < nextMsg /\ m \in Nat /\ m \in ToApply
  <2>1. ASSUME NEW m \in Accepted(sm, e) PROVE m < nextMsg
    BY <1>2, <1>6 DEF NodeInv, SentOnce
  <2>2. ASSUME NEW m \in Accepted(sm, e) PROVE m \in Nat
    <3>1. e.data \in Seq(Nat)
      BY <1>2, <1>6 DEF NodeInv, LogOK, IsEntry, IsSend
    <3> QED BY <1>6, <3>1, ElementsType
  <2>3. ASSUME NEW m \in Accepted(sm, e) PROVE m \in ToApply
    BY <1>2, <1>5, <1>6 DEF ToApply, IsSend
  <2> QED BY <2>1, <2>2, <2>3
<1>12. SettledDrawn' /\ settled' \subseteq Nat
  <2>1. \A t \in DOMAIN sm.in_flight : t \in Nat /\ t < nextId
    BY DEF NodeInv, Sound, IsState, IsFlightMap, IsMap
  <2>2. RemovedIds(sm, e) \subseteq DOMAIN sm.in_flight
    BY DEF RemovedIds
  <2>3. \A t \in settled : t \in Nat /\ t < nextId
    BY DEF NodeInv, TypeOK, SettledDrawn
  <2>4. nextId \in Nat
    BY DEF NodeInv, TypeOK
  <2> QED BY <1>2, <2>1, <2>2, <2>3, <2>4 DEF SettledDrawn
<1>8. TypeOK'
  <2>1. applied + 1 \in 0..LastIndex
    BY <1>2, <1>5, LastIs DEF NodeInv, TypeOK
  <2>2. waiting' \in [Actors -> {0} \cup (applied + 1) + 1..LastIndex]
    <3>1. ASSUME NEW c \in Actors
          PROVE  (IF waiting[c] = applied + 1 THEN 0 ELSE waiting[c])
                    \in {0} \cup (applied + 1) + 1..LastIndex
      <4>1. waiting[c] \in {0} \cup applied + 1..LastIndex
        BY DEF NodeInv, TypeOK
      <4>2. LastIndex \in Nat
        BY LastIs DEF NodeInv
      <4> QED BY <1>5, <4>1, <4>2
    <3> QED BY <1>2, <3>1
  <2>3. due' \subseteq Nat /\ acked' \subseteq Nat
    BY <1>2, <1>5, <1>6, <1>7, LiveType DEF NodeInv, TypeOK
  <2> QED BY <1>1, <1>2, <1>3, <1>5, <1>12, <2>1, <2>2, <2>3 DEF NodeInv, TypeOK
<1>9. SentOnce'
  <2> SUFFICES ASSUME NEW j \in DOMAIN logs, IsSend(j)
               PROVE  /\ Injective(logs[j].data)
                      /\ \A m \in Elements(logs[j].data) : m < nextMsg
                      /\ \A k \in DOMAIN logs \ {j} :
                            IsSend(k) => Elements(logs[j].data) \cap Elements(logs[k].data) = {}
                      /\ j > applied + 1 => Elements(logs[j].data) \cap Live(sm') = {}
    BY <1>2 DEF SentOnce, IsSend
  <2>1. ASSUME j > applied + 1 PROVE Elements(logs[j].data) \cap Live(sm') = {}
    <3>1. j \in Nat /\ j > applied /\ j # applied + 1
      BY <1>5, <2>1 DEF NodeInv, TypeOK
    <3>2. Elements(logs[j].data) \cap Live(sm) = {}
      BY <3>1 DEF NodeInv, SentOnce
    <3>3. IsSend(applied + 1) => Elements(logs[j].data) \cap Elements(e.data) = {}
      BY <1>2, <3>1 DEF NodeInv, SentOnce
    <3> QED BY <1>6, <3>2, <3>3
  <2> QED BY <2>1 DEF NodeInv, SentOnce
<1>10. Sent'
  BY <1>2, <1>6, <1>7 DEF NodeInv, Sent
<1>11. AckedOut'
  <2> SUFFICES ASSUME crashes = 0, NEW m \in acked' PROVE m \notin Live(sm') /\ m \notin ToApply'
    BY <1>2 DEF AckedOut
  <2>1. m \in ToApply' => m \in ToApply
    BY <1>2, <1>5 DEF ToApply, NodeInv, TypeOK
  <2>2. CASE m \in acked
    BY <1>6, <1>7, <2>1, <2>2 DEF NodeInv, AckedOut
  <2>3. CASE m \in Removed(sm, e)
    <3>1. m \in Live(sm) /\ m \notin Live(sm')
      BY <1>6, <2>3
    <3>2. m \notin ToApply
      BY <3>1 DEF ToApply, NodeInv, SentOnce, IsSend
    <3> QED BY <2>1, <3>1, <3>2
  <2> QED BY <1>2, <2>2, <2>3
<1> QED BY <1>3, <1>4, <1>8, <1>9, <1>10, <1>11, <1>12 DEF NodeInv

\* A purge keeps it.
LEMMA PurgeOK ==
    ASSUME NodeInv, Purge
    PROVE  NodeInv'
<1>1. /\ UNCHANGED <<sm, applied, waiting, todo, nextMsg, nextId, crashes, delivered, due, acked, settled>>
      /\ \E i \in DOMAIN logs : i <= applied /\ i < LastIndex /\ logs' = Without(logs, 1..i)
  BY DEF Purge, history
<1>2. PICK i \in DOMAIN logs : i <= applied /\ i < LastIndex /\ logs' = Without(logs, 1..i)
  BY <1>1
<1>3. /\ LogOK' /\ LastIndex' = LastIndex /\ DOMAIN logs' = {j \in DOMAIN logs : j > i}
      /\ \A j \in DOMAIN logs' : logs'[j] = logs[j]
  BY <1>2, PurgeLog DEF NodeInv
<1>4. \A j \in DOMAIN logs' : j \in DOMAIN logs /\ (IsSend(j)' <=> IsSend(j))
  BY <1>3 DEF IsSend
<1>5. TypeOK'
  BY <1>1, <1>3, <1>4 DEF NodeInv, TypeOK
<1>6. Sound(sm, nextId)' /\ Once(sm)' /\ Sent' /\ SettledDrawn'
  BY <1>1 DEF NodeInv, Sound, Once, Sent, SettledDrawn
<1>7. SentOnce'
  BY <1>1, <1>3, <1>4 DEF NodeInv, SentOnce
<1>8. AckedOut'
  <2>1. ToApply' \subseteq ToApply
    BY <1>1, <1>3, <1>4 DEF ToApply
  <2> QED BY <1>1, <2>1 DEF NodeInv, AckedOut
<1> QED BY <1>3, <1>5, <1>6, <1>7, <1>8 DEF NodeInv

\* The empty state.
LEMMA EmptyState ==
    ASSUME NEW n
    PROVE  Sound(Empty, n) /\ Once(Empty) /\ Live(Empty) = {} /\ IsState(Empty)
<1>1. Empty.queues = [q \in {} |-> <<>>] /\ Empty.in_flight = [t \in {} |-> <<>>]
  BY DEF Empty
<1>2. DOMAIN Empty.queues = {} /\ DOMAIN Empty.in_flight = {}
  BY <1>1
<1>3. IsState(Empty)
  BY DEF IsState, Empty, IsQueueMap, IsFlightMap, IsMap
<1>4. Live(Empty) = {}
  BY <1>2 DEF Live, Pending, Flying
<1> QED BY <1>2, <1>3, <1>4 DEF Sound, Once, DistinctFlight

\* A restart keeps it: the log is applied again to the empty state.
LEMMA RestartOK ==
    ASSUME NodeInv, Restart
    PROVE  NodeInv'
<1>1. /\ crashes' = crashes + 1 /\ sm' = Empty /\ applied' = 0
      /\ waiting' = [c \in Actors |-> 0] /\ todo' = {} /\ AppendToLog(Blank)
      /\ UNCHANGED <<nextMsg, nextId, delivered, due, acked, settled>>
  BY DEF Restart, history
<1>2. IsEntry(Blank) /\ Blank.op = "blank"
  BY DEF IsEntry, Blank
<1>3. /\ LogOK' /\ LastIndex' = LastIndex + 1 /\ DOMAIN logs' = DOMAIN logs \cup {LastIndex + 1}
      /\ LastIndex + 1 \notin DOMAIN logs /\ logs'[LastIndex + 1] = Blank
      /\ \A i \in DOMAIN logs : logs'[i] = logs[i]
  BY <1>1, <1>2, AppendLog DEF NodeInv
<1>4. LastIndex \in Nat \ {0}
  BY LastIs DEF NodeInv
<1>5. Sound(sm, nextId)' /\ Once(sm)' /\ Live(sm') = {} /\ IsState(sm')
  BY <1>1, EmptyState
<1>6. TypeOK'
  <2>1. DOMAIN logs' \subseteq Nat \ {0} /\ 0 \in 0..(LastIndex + 1)
    BY <1>3, <1>4 DEF NodeInv, TypeOK
  <2> QED BY <1>1, <1>3, <1>5, <2>1 DEF NodeInv, TypeOK
<1>7. \A j \in DOMAIN logs' : IsSend(j)' => j \in DOMAIN logs /\ IsSend(j) /\ logs'[j] = logs[j]
  BY <1>2, <1>3 DEF IsSend
<1>8. SentOnce'
  BY <1>1, <1>5, <1>7 DEF NodeInv, SentOnce
<1>9. Sent' /\ SettledDrawn'
  BY <1>1, <1>5 DEF NodeInv, Sent, SettledDrawn
<1>10. AckedOut'
  BY <1>1 DEF NodeInv, TypeOK, AckedOut
<1> QED BY <1>3, <1>5, <1>6, <1>8, <1>9, <1>10 DEF NodeInv

\* The requests of clients, and the nacks of the cleanup loop.
LEMMA ClientWriteOK ==
    ASSUME NodeInv, NEW c \in Actors, NEW e, IsEntry(e), ClientWrite(c, e),
           UNCHANGED <<sm, applied, nextId, crashes, history>>,
           todo' \subseteq Nat, nextMsg' \in Nat, nextMsg <= nextMsg',
           e.op = "enqueue" => /\ Injective(e.data)
                               /\ \A m \in Elements(e.data) : nextMsg <= m /\ m < nextMsg'
    PROVE  NodeInv'
<1>1. waiting' \in [Actors -> {0} \cup applied + 1..LastIndex + 1]
  <2>1. LastIndex \in Nat /\ applied \in Nat /\ applied <= LastIndex
    BY LastIs DEF NodeInv, TypeOK
  <2>2. LastIndex + 1 \in applied + 1..LastIndex + 1
    BY <2>1
  <2>3. \A x \in {0} \cup applied + 1..LastIndex : x \in {0} \cup applied + 1..LastIndex + 1
    BY <2>1
  <2>4. waiting \in [Actors -> {0} \cup applied + 1..LastIndex]
    BY DEF NodeInv, TypeOK
  <2>5. waiting' = [waiting EXCEPT ![c] = LastIndex + 1]
    BY DEF ClientWrite
  <2> QED BY <2>2, <2>3, <2>4, <2>5
<1>2. WriteStep(e)
  BY <1>1 DEF WriteStep, ClientWrite
<1> QED BY <1>2, WriteOK

\* The messages of a send are new.
LEMMA SendOK ==
    ASSUME NodeInv, NEW c \in Actors, NEW q \in Name, NEW n \in Nat, Send(c, q, n)
    PROVE  NodeInv'
<1> DEFINE d == [i \in 1..n |-> nextMsg + i - 1]
           e == EnqueueReq(q, d)
<1>1. nextMsg \in Nat
  BY DEF NodeInv, TypeOK
<1>2. d \in Seq(Nat) /\ Injective(d) /\ \A m \in Elements(d) : nextMsg <= m /\ m < nextMsg + n
  <2>1. \A i \in 1..n : d[i] = nextMsg + i - 1 /\ d[i] \in Nat
    BY <1>1
  <2>2. DOMAIN d = 1..n /\ d \in Seq(Nat)
    BY <2>1
  <2>3. Injective(d)
    BY <1>1, <2>1, <2>2 DEF Injective
  <2>4. \A i \in 1..n : nextMsg <= d[i] /\ d[i] < nextMsg + n
    BY <1>1, <2>1
  <2> QED BY <2>2, <2>3, <2>4 DEF Elements
<1>3. ClientWrite(c, e) /\ nextMsg' = nextMsg + n /\ UNCHANGED <<sm, applied, todo, nextId, crashes, history>>
  BY DEF Send
<1> HIDE DEF d
<1>4. IsEntry(e) /\ e.data = d
  BY <1>2 DEF IsEntry, EnqueueReq
<1>5. nextMsg' \in Nat /\ nextMsg <= nextMsg' /\ todo' \subseteq Nat
  BY <1>1, <1>3 DEF NodeInv, TypeOK
<1> HIDE DEF e
<1> QED BY <1>2, <1>3, <1>4, <1>5, ClientWriteOK

\* It holds at the start.
LEMMA NodeInit == Init => NodeInv
<1> SUFFICES ASSUME Init PROVE NodeInv
  OBVIOUS
<1>1. /\ logs = [i \in {1} |-> Blank] /\ sm = Empty /\ applied = 0
      /\ waiting = [c \in Actors |-> 0] /\ todo = {} /\ nextMsg = 0 /\ nextId = 0 /\ crashes = 0
      /\ delivered = [t \in {} |-> <<>>] /\ due = {} /\ acked = {} /\ settled = {}
  BY DEF Init
<1>2. DOMAIN logs = 1..1 /\ logs[1] = Blank /\ Blank.op = "blank"
  BY <1>1 DEF Blank
<1>3. LogOK
  <2>1. \A i \in DOMAIN logs : IsEntry(logs[i])
    BY <1>2 DEF IsEntry
  <2>2. 1 \in Nat \ {0} /\ 1 <= 1
    OBVIOUS
  <2> QED BY <1>2, <2>1, <2>2 DEF LogOK
<1>4. LastIndex = 1
  BY <1>2, LastOf DEF LastIndex
<1>5. Sound(sm, nextId) /\ Once(sm) /\ Live(sm) = {} /\ IsState(sm)
  BY <1>1, EmptyState
<1>6. IsMap(delivered, Nat, [msg : Nat, queue : Name])
  BY <1>1 DEF IsMap
<1>7. TypeOK
  BY <1>1, <1>2, <1>4, <1>5, <1>6 DEF TypeOK
<1>8. SentOnce /\ Sent /\ AckedOut /\ SettledDrawn
  BY <1>1, <1>2, <1>5 DEF SentOnce, Sent, AckedOut, IsSend, SettledDrawn
<1> QED BY <1>3, <1>5, <1>7, <1>8 DEF NodeInv

\* The steps of a client.
LEMMA RequestOK ==
    ASSUME NodeInv, NEW c \in Clients, Request(c)
    PROVE  NodeInv'
<1>0. c \in Actors /\ nextMsg \in Nat /\ nextMsg <= nextMsg /\ todo \subseteq Nat /\ DOMAIN delivered \subseteq Nat
  BY DEF Actors, NodeInv, TypeOK, IsMap
<1>1. ASSUME NEW e, IsEntry(e), e.op # "enqueue", ClientWrite(c, e),
             UNCHANGED <<sm, applied, todo, nextMsg, nextId, crashes, history>>
      PROVE  NodeInv'
  <2>1. todo' \subseteq Nat /\ nextMsg' \in Nat /\ nextMsg <= nextMsg'
    BY <1>0, <1>1
  <2> QED BY <1>0, <1>1, <2>1, ClientWriteOK
<1>2. ASSUME NEW q \in ReqNames, CreateQueue(c, q) PROVE NodeInv'
  <2>1. IsEntry(CreateQueueReq(q)) /\ CreateQueueReq(q).op # "enqueue"
    BY DEF IsEntry, CreateQueueReq
  <2> QED BY <1>1, <1>2, <2>1 DEF CreateQueue
<1>3. ASSUME NEW q \in ReqNames, EnqueueTask(c, q) PROVE NodeInv'
  BY <1>0, <1>3, SendOK DEF EnqueueTask
<1>4. ASSUME NEW q \in ReqNames, NEW n \in 2..MaxBatch, QueueBatch(c, q, n) PROVE NodeInv'
  BY <1>0, <1>4, SendOK DEF QueueBatch
<1>5. ASSUME NEW q \in ReqNames, NEW n \in Nat, ClientWrite(c, DequeueReq(q, n)),
             UNCHANGED <<sm, applied, todo, nextMsg, nextId, crashes, history>>
      PROVE  NodeInv'
  <2>1. IsEntry(DequeueReq(q, n)) /\ DequeueReq(q, n).op # "enqueue"
    BY DEF IsEntry, DequeueReq
  <2> QED BY <1>1, <1>5, <2>1
<1>6. ASSUME NEW ids \in Seq(Nat), ClientWrite(c, AckReq(ids)),
             UNCHANGED <<sm, applied, todo, nextMsg, nextId, crashes, history>>
      PROVE  NodeInv'
  <2>1. IsEntry(AckReq(ids)) /\ AckReq(ids).op # "enqueue"
    BY DEF IsEntry, AckReq
  <2> QED BY <1>1, <1>6, <2>1
<1>7. ASSUME NEW t \in DOMAIN delivered, AckTask(c, t) \/ NackTask(c, t) \/ HeartbeatTask(c, t)
      PROVE  NodeInv'
  <2>1. <<t>> \in Seq(Nat)
    BY <1>0
  <2>2. CASE AckTask(c, t)
    BY <1>6, <2>1, <2>2 DEF AckTask
  <2>3. /\ IsEntry(NackReq(t)) /\ NackReq(t).op # "enqueue"
        /\ IsEntry(ExtendReq(t)) /\ ExtendReq(t).op # "enqueue"
    BY DEF IsEntry, NackReq, ExtendReq
  <2>4. CASE NackTask(c, t)
    BY <1>1, <2>3, <2>4 DEF NackTask
  <2>5. CASE HeartbeatTask(c, t)
    BY <1>1, <2>3, <2>5 DEF HeartbeatTask
  <2> QED BY <1>7, <2>2, <2>4, <2>5
<1>8. ASSUME NEW ids \in IdLists, AckBatch(c, ids) PROVE NodeInv'
  <2>1. PICK n \in 2..MaxBatch : ids \in [1..n -> DOMAIN delivered]
    BY <1>8 DEF IdLists
  <2>2. ids \in Seq(Nat)
    BY <1>0, <2>1
  <2> QED BY <1>6, <1>8, <2>2 DEF AckBatch
<1>9. CASE Disconnect(c)
  <2>1. waiting' \in [Actors -> {0} \cup applied + 1..LastIndex]
    BY <1>0, <1>9 DEF Disconnect, NodeInv, TypeOK
  <2> QED BY <1>0, <1>9, <2>1, QuietStep DEF Disconnect
<1>10. ASSUME NEW q \in ReqNames, DequeueTask(c, q) PROVE NodeInv'
  BY <1>5, <1>10 DEF DequeueTask
<1>11. ASSUME NEW q \in ReqNames, NEW n \in 2..MaxBatch, DequeueBatch(c, q, n) PROVE NodeInv'
  BY <1>5, <1>11 DEF DequeueBatch
<1> QED BY <1>2, <1>3, <1>4, <1>7, <1>8, <1>9, <1>10, <1>11 DEF Request

\* Every step keeps the invariant.
LEMMA NodeStep == NodeInv /\ [Next]_vars => NodeInv'
<1> SUFFICES ASSUME NodeInv, [Next]_vars PROVE NodeInv'
  OBVIOUS
<1>0. /\ Sweeper \in Actors /\ todo \subseteq Nat /\ nextMsg \in Nat /\ nextMsg <= nextMsg
      /\ waiting \in [Actors -> {0} \cup applied + 1..LastIndex]
  BY DEF Actors, NodeInv, TypeOK
<1>1. ASSUME NEW S \in SUBSET DOMAIN sm.in_flight, Scan(S) PROVE NodeInv'
  <2>1. DOMAIN sm.in_flight \subseteq Nat
    BY DEF NodeInv, TypeOK, IsState, IsFlightMap, IsMap
  <2>2. UNCHANGED <<logs, sm, applied, waiting, nextMsg, nextId, crashes, history>> /\ todo' = S
    BY <1>1 DEF Scan
  <2> QED BY <1>0, <2>1, <2>2, QuietStep
<1>2. ASSUME NEW t \in todo, CleanupNack(t) PROVE NodeInv'
  <2>1. /\ UNCHANGED <<sm, applied, nextMsg, nextId, crashes, history>> /\ todo' = todo \ {t}
        /\ ClientWrite(Sweeper, NackReq(t)) \/ UNCHANGED <<logs, waiting>>
    BY <1>2 DEF CleanupNack
  <2>2. IsEntry(NackReq(t)) /\ NackReq(t).op # "enqueue"
    BY DEF IsEntry, NackReq
  <2>3. todo' \subseteq Nat /\ nextMsg' \in Nat /\ nextMsg <= nextMsg'
    BY <1>0, <2>1
  <2>4. CASE ClientWrite(Sweeper, NackReq(t))
    BY <1>0, <2>1, <2>2, <2>3, <2>4, ClientWriteOK
  <2>5. CASE UNCHANGED <<logs, waiting>>
    BY <1>0, <2>1, <2>3, <2>5, QuietStep
  <2> QED BY <2>1, <2>4, <2>5
<1>3. CASE UNCHANGED vars
  BY <1>0, <1>3, QuietStep DEF vars
<1>4. CASE Next
  BY <1>1, <1>2, <1>4, RequestOK, ApplyOK, PurgeOK, RestartOK DEF Next, Cleanup
<1> QED BY <1>3, <1>4

\* The invariant holds throughout.
LEMMA NodeAlways == Spec => []NodeInv
BY NodeInit, NodeStep, PTL DEF Spec
-----------------------------------------------------------------------------
(***************************************************************************)
(* The theorems.                                                           *)
(***************************************************************************)
\* Type correctness of the node, restarts and purges included: no client ever
\* waits for an entry that is not in the log or that has been applied.
THEOREM TypeCorrect == Spec => []TypeOK
<1>1. NodeInv => TypeOK
  BY DEF NodeInv
<1> QED BY <1>1, NodeAlways, PTL

\* However often the node restarts and applies its log again, with other ids
\* than before, no message is in two places of the state machine.
THEOREM OneCopy == Spec => []SingleCopy
<1>1. NodeInv => SingleCopy
  <2> SUFFICES ASSUME Once(sm), NEW p \in Places, NEW r \in Places, MessageAt(p) = MessageAt(r)
               PROVE  p = r
    BY DEF NodeInv, SingleCopy
  <2>1. ASSUME NEW x \in Places
        PROVE  \/ \E q \in DOMAIN sm.queues : \E i \in DOMAIN sm.queues[q] :
                     x = <<"queue", q, i>> /\ MessageAt(x) = sm.queues[q][i].msg
               \/ \E t \in DOMAIN sm.in_flight :
                     x = <<"flight", t, 0>> /\ MessageAt(x) = sm.in_flight[t].msg
    BY <2>1 DEF Places, MessageAt
  <2>2. ASSUME NEW q \in DOMAIN sm.queues, NEW i \in DOMAIN sm.queues[q],
               p = <<"queue", q, i>>, MessageAt(p) = sm.queues[q][i].msg
        PROVE  p = r
    <3>1. MessageAt(p) \in Messages(sm.queues[q])
      BY <2>2 DEF Messages
    <3>2. ASSUME NEW s \in DOMAIN sm.queues, NEW j \in DOMAIN sm.queues[s],
                 r = <<"queue", s, j>>, MessageAt(r) = sm.queues[s][j].msg
          PROVE  p = r
      <4>1. MessageAt(r) \in Messages(sm.queues[s])
        BY <3>2 DEF Messages
      <4>2. s = q
        BY <3>1, <4>1 DEF Once
      <4> QED BY <2>2, <3>2, <4>2 DEF Once, Distinct
    <3>3. ASSUME NEW t \in DOMAIN sm.in_flight, MessageAt(r) = sm.in_flight[t].msg PROVE FALSE
      BY <3>1, <3>3 DEF Once, Flying
    <3> QED BY <2>1, <3>2, <3>3
  <2>3. ASSUME NEW t \in DOMAIN sm.in_flight,
               p = <<"flight", t, 0>>, MessageAt(p) = sm.in_flight[t].msg
        PROVE  p = r
    <3>1. MessageAt(p) \in Flying(sm.in_flight)
      BY <2>3 DEF Flying
    <3>2. ASSUME NEW s \in DOMAIN sm.queues, NEW j \in DOMAIN sm.queues[s],
                 MessageAt(r) = sm.queues[s][j].msg
          PROVE  FALSE
      BY <3>1, <3>2 DEF Once, Messages
    <3>3. ASSUME NEW u \in DOMAIN sm.in_flight,
                 r = <<"flight", u, 0>>, MessageAt(r) = sm.in_flight[u].msg
          PROVE  p = r
      BY <2>3, <3>3 DEF Once, DistinctFlight
    <3> QED BY <2>1, <3>2, <3>3
  <2> QED BY <2>1, <2>2, <2>3
<1> QED BY <1>1, NodeAlways, PTL

\* Until the node restarts a message whose ack was answered Ok is not in the
\* state machine, although the cleanup loop submits nacks from an older list.
THEOREM AckedStaysGone == Spec => []AckedGoneTillRestart
<1>1. NodeInv => AckedGoneTillRestart
  BY DEF NodeInv, AckedOut, AckedGoneTillRestart
<1> QED BY <1>1, NodeAlways, PTL
-----------------------------------------------------------------------------
(***************************************************************************)
(* At-least-once: the second invariant.                                    *)
(***************************************************************************)
\* All other steps leave the state machine alone, and at most add an entry.
Aside ==
    /\ UNCHANGED <<sm, applied, due, settled, crashes>>
    /\ logs' = logs \/ \E e : AppendToLog(e)

\* The kinds of steps.
LEMMA StepKinds ==
    ASSUME [Next]_vars
    PROVE  Apply \/ Purge \/ Restart \/ Aside
<1>1. ASSUME NEW c \in Clients, Request(c) PROVE Aside
  <2>1. ASSUME NEW e, ClientWrite(c, e), UNCHANGED <<sm, applied, crashes, history>> PROVE Aside
    BY <2>1 DEF Aside, ClientWrite, history
  <2>2. ASSUME NEW q, CreateQueue(c, q) \/ EnqueueTask(c, q) \/ DequeueTask(c, q) PROVE Aside
    BY <2>1, <2>2 DEF CreateQueue, EnqueueTask, Send, DequeueTask
  <2>3. ASSUME NEW q, NEW n, QueueBatch(c, q, n) \/ DequeueBatch(c, q, n) PROVE Aside
    BY <2>1, <2>3 DEF QueueBatch, Send, DequeueBatch
  <2>4. ASSUME NEW t, AckTask(c, t) \/ NackTask(c, t) \/ HeartbeatTask(c, t) \/ AckBatch(c, t) PROVE Aside
    BY <2>1, <2>4 DEF AckTask, NackTask, HeartbeatTask, AckBatch
  <2>5. CASE Disconnect(c)
    BY <2>5 DEF Disconnect, Aside, history
  <2> QED BY <1>1, <2>2, <2>3, <2>4, <2>5 DEF Request
<1>2. ASSUME NEW S, Scan(S) PROVE Aside
  BY <1>2 DEF Scan, Aside, history
<1>3. ASSUME NEW t, CleanupNack(t) PROVE Aside
  BY <1>3 DEF CleanupNack, ClientWrite, Aside, history
<1>4. CASE UNCHANGED vars
  BY <1>4 DEF vars, Aside, history
<1> QED BY <1>1, <1>2, <1>3, <1>4 DEF Next, Cleanup

\* The last index is above every other one and above what has been applied.
LEMMA Above ==
    ASSUME NodeInv
    PROVE  /\ LastIndex \in Nat \ {0} /\ applied \in Nat /\ applied <= LastIndex
           /\ \A i \in DOMAIN logs : i \in Nat \ {0} /\ i <= LastIndex
           /\ LastIndex + 1 \notin DOMAIN logs
<1>1. LastIndex \in Nat \ {0} /\ applied \in Nat /\ applied <= LastIndex
  BY LastIs DEF NodeInv, TypeOK
<1>2. PICK a \in 1..LastIndex : DOMAIN logs = a..LastIndex
  BY LastIs DEF NodeInv
<1> QED BY <1>1, <1>2

\* Such a step keeps it.
LEMMA AsideOK ==
    ASSUME NodeInv, ReplayInv, Aside
    PROVE  ReplayInv'
<1>1. /\ sm' = sm /\ applied' = applied /\ due' = due
      /\ logs' = logs \/ \E e : AppendToLog(e)
  BY DEF Aside
<1>2. /\ LastIndex \in Nat \ {0} /\ applied \in Nat /\ applied <= LastIndex
      /\ LastIndex + 1 \notin DOMAIN logs
  BY Above
<1>3. /\ DOMAIN logs \subseteq DOMAIN logs' /\ DOMAIN logs' \subseteq DOMAIN logs \cup {LastIndex + 1}
      /\ \A i \in DOMAIN logs : logs'[i] = logs[i]
      /\ LastIndex' \in {LastIndex, LastIndex + 1}
  <2>1. CASE logs' = logs
    BY <2>1 DEF LastIndex
  <2>2. CASE \E e : AppendToLog(e)
    BY <2>2, AppendAtEnd DEF NodeInv
  <2> QED BY <1>1, <2>1, <2>2
<1>4. \A i \in DOMAIN logs : i \in DOMAIN logs' /\ logs'[i] = logs[i] /\ (IsSend(i) => IsSend(i)')
                             /\ \A q : IsCreate(i, q) => IsCreate(i, q)'
  BY <1>3 DEF IsSend, IsCreate
<1>5. 1 \in DOMAIN logs' => 1 \in DOMAIN logs
  BY <1>2, <1>3
<1>6. CreatesKept'
  BY <1>1, <1>4, <1>5 DEF ReplayInv, CreatesKept
<1>7. DueKept'
  BY <1>1, <1>4, <1>5 DEF ReplayInv, DueKept
<1>8. LogReaches' => LogReaches
  <2> SUFFICES ASSUME LogReaches', NEW i \in applied + 1..LastIndex PROVE i \in DOMAIN logs
    BY DEF LogReaches
  <2>1. i \in applied + 1..LastIndex' /\ i # LastIndex + 1
    BY <1>2, <1>3
  <2> QED BY <1>1, <1>3, <2>1 DEF LogReaches
<1>9. DueHeld'
  <2> SUFFICES ASSUME LogReaches, NEW m \in due, m \notin Live(sm)
               PROVE  \E i \in DOMAIN logs' : /\ i > applied /\ IsSend(i)'
                                              /\ m \in Elements(logs'[i].data) /\ Ready(i)'
    BY <1>1, <1>8 DEF DueHeld
  <2>1. PICK i \in DOMAIN logs : i > applied /\ IsSend(i) /\ m \in Elements(logs[i].data) /\ Ready(i)
    BY DEF ReplayInv, DueHeld
  <2>2. Ready(i)'
    BY <1>1, <1>4, <2>1 DEF Ready
  <2> QED BY <1>4, <2>1, <2>2
<1> QED BY <1>6, <1>7, <1>9 DEF ReplayInv

\* A purge keeps it: what it removes has been applied.
LEMMA PurgeKeeps ==
    ASSUME NodeInv, ReplayInv, Purge
    PROVE  ReplayInv'
<1>1. PICK k \in DOMAIN logs : k <= applied /\ k < LastIndex /\ logs' = Without(logs, 1..k)
  BY DEF Purge
<1>2. sm' = sm /\ applied' = applied /\ due' = due
  BY DEF Purge, history
<1>3. /\ LastIndex' = LastIndex /\ DOMAIN logs' = {j \in DOMAIN logs : j > k} /\ 1 \notin DOMAIN logs'
      /\ \A j \in DOMAIN logs' : logs'[j] = logs[j]
  BY <1>1, PurgeLog DEF NodeInv
<1>4. applied \in Nat /\ \A i \in DOMAIN logs : i \in Nat \ {0}
  BY Above
<1>5. \A i \in DOMAIN logs : i > applied =>
          /\ i \in DOMAIN logs' /\ logs'[i] = logs[i] /\ (IsSend(i) => IsSend(i)')
          /\ \A q : IsCreate(i, q) => IsCreate(i, q)'
  BY <1>1, <1>3, <1>4 DEF IsSend, IsCreate
<1>6. LogReaches' => LogReaches
  BY <1>2, <1>3 DEF LogReaches
<1>7. DueHeld'
  <2> SUFFICES ASSUME LogReaches, NEW m \in due, m \notin Live(sm)
               PROVE  \E i \in DOMAIN logs' : /\ i > applied /\ IsSend(i)'
                                              /\ m \in Elements(logs'[i].data) /\ Ready(i)'
    BY <1>2, <1>6 DEF DueHeld
  <2>1. PICK i \in DOMAIN logs : i > applied /\ IsSend(i) /\ m \in Elements(logs[i].data) /\ Ready(i)
    BY DEF ReplayInv, DueHeld
  <2>2. Ready(i)'
    BY <1>2, <1>5, <2>1 DEF Ready
  <2> QED BY <1>5, <2>1, <2>2
<1> QED BY <1>3, <1>7 DEF ReplayInv, CreatesKept, DueKept

\* A restart keeps it: what is due is in the log, behind the entry that
\* creates its queue.
LEMMA RestartKeeps ==
    ASSUME NodeInv, ReplayInv, Restart
    PROVE  ReplayInv'
<1>1. sm' = Empty /\ applied' = 0 /\ due' = due /\ AppendToLog(Blank)
  BY DEF Restart, history
<1>2. /\ LastIndex' = LastIndex + 1 /\ DOMAIN logs' = DOMAIN logs \cup {LastIndex + 1}
      /\ \A i \in DOMAIN logs : logs'[i] = logs[i]
  BY <1>1, AppendAtEnd DEF NodeInv
<1>3. LastIndex \in Nat \ {0} /\ \A i \in DOMAIN logs : i \in Nat \ {0}
  BY Above
<1>4. \A i \in DOMAIN logs : i \in DOMAIN logs' /\ logs'[i] = logs[i] /\ (IsSend(i) => IsSend(i)')
                             /\ \A q : IsCreate(i, q) => IsCreate(i, q)'
  BY <1>2 DEF IsSend, IsCreate
<1>5. 1 \in DOMAIN logs' => 1 \in DOMAIN logs
  BY <1>2, <1>3
<1>6. CreatesKept'
  <2>1. DOMAIN sm'.queues = {}
    BY <1>1 DEF Empty
  <2> QED BY <2>1 DEF CreatesKept
<1>7. DueKept'
  BY <1>1, <1>4, <1>5 DEF ReplayInv, DueKept
<1>8. LogReaches' => 1 \in DOMAIN logs
  BY <1>1, <1>2, <1>3, <1>5 DEF LogReaches
<1>9. DueHeld'
  <2> SUFFICES ASSUME 1 \in DOMAIN logs, NEW m \in due
               PROVE  \E i \in DOMAIN logs' : /\ i > 0 /\ IsSend(i)'
                                              /\ m \in Elements(logs'[i].data) /\ Ready(i)'
    BY <1>1, <1>8 DEF DueHeld
  <2>1. PICK i \in DOMAIN logs : /\ IsSend(i) /\ m \in Elements(logs[i].data)
                                 /\ \E j \in DOMAIN logs : j < i /\ IsCreate(j, logs[i].queue)
    BY DEF ReplayInv, DueKept
  <2>2. PICK j \in DOMAIN logs : j < i /\ IsCreate(j, logs[i].queue)
    BY <2>1
  <2>3. 0 < j /\ i > 0
    BY <1>3
  <2>4. j \in DOMAIN logs' /\ IsCreate(j, logs[i].queue)'
    BY <1>4, <2>2 DEF IsCreate
  <2>5. Ready(i)'
    BY <1>1, <2>2, <2>3, <2>4 DEF Ready
  <2> QED BY <1>4, <2>1, <2>3, <2>5
<1> QED BY <1>6, <1>7, <1>9 DEF ReplayInv

\* The application of an entry keeps it.
LEMMA ApplyKeeps ==
    ASSUME NodeInv, ReplayInv, PlainSends, Apply
    PROVE  ReplayInv'
<1> DEFINE k == applied + 1
           e == logs[k]
<1>1. /\ logs' = logs /\ k \in DOMAIN logs /\ applied' = k
      /\ due' \subseteq (due \cup Accepted(sm, e)) \ Removed(sm, e)
      /\ Outcome(sm, e, sm', nextId')
  BY ApplyStep DEF Applied
<1>2. /\ DOMAIN sm.queues \subseteq DOMAIN sm'.queues
      /\ \A q \in DOMAIN sm'.queues : q \in DOMAIN sm.queues \/ q[2] # 0 \/ IsCreate(k, q)
      /\ \A q : IsCreate(k, q) => q \in DOMAIN sm'.queues
      /\ Live(sm) \subseteq Live(sm') \cup Removed(sm, e)
      /\ Accepted(sm, e) \subseteq Live(sm')
  BY <1>1 DEF Outcome, IsCreate
<1>3. /\ applied \in Nat /\ \A i \in DOMAIN logs : i \in Nat \ {0}
      /\ LastIndex \in Nat /\ LastIndex' = LastIndex
  BY <1>1, Above DEF LastIndex
<1>4. \A i, q : (IsSend(i)' <=> IsSend(i)) /\ (IsCreate(i, q)' <=> IsCreate(i, q))
  BY <1>1 DEF IsSend, IsCreate
<1> HIDE DEF e
<1>5. CreatesKept'
  <2> SUFFICES ASSUME 1 \in DOMAIN logs, NEW q \in DOMAIN sm'.queues, q[2] = 0
               PROVE  \E j \in DOMAIN logs : j <= k /\ IsCreate(j, q)
    BY <1>1, <1>4 DEF CreatesKept
  <2>1. CASE q \in DOMAIN sm.queues
    <3>1. PICK j \in DOMAIN logs : j <= applied /\ IsCreate(j, q)
      BY <2>1 DEF ReplayInv, CreatesKept
    <3>2. j <= k
      BY <1>3, <3>1
    <3> QED BY <3>1, <3>2
  <2>2. CASE IsCreate(k, q)
    BY <1>1, <1>3, <2>2
  <2> QED BY <1>2, <2>1, <2>2
<1>6. ASSUME NEW m \in Accepted(sm, e)
      PROVE  IsSend(k) /\ m \in Elements(e.data) /\ e.queue \in DOMAIN sm.queues /\ e.queue[2] = 0
  <2>1. e.op = "enqueue" /\ e.queue \in DOMAIN sm.queues /\ m \in Elements(e.data)
    BY <1>6 DEF Accepted
  <2>2. IsSend(k)
    BY <1>1, <2>1 DEF IsSend, e
  <2> QED BY <1>1, <2>1, <2>2 DEF PlainSends, e
<1>7. DueKept'
  <2> SUFFICES ASSUME 1 \in DOMAIN logs, NEW m \in due'
               PROVE  \E i \in DOMAIN logs :
                        /\ IsSend(i) /\ m \in Elements(logs[i].data)
                        /\ \E j \in DOMAIN logs : j < i /\ IsCreate(j, logs[i].queue)
    BY <1>1, <1>4 DEF DueKept, IsCreate
  <2>1. CASE m \in due
    BY <2>1 DEF ReplayInv, DueKept
  <2>2. CASE m \in Accepted(sm, e)
    <3>1. IsSend(k) /\ m \in Elements(e.data) /\ e.queue \in DOMAIN sm.queues /\ e.queue[2] = 0
      BY <1>6, <2>2
    <3>2. PICK j \in DOMAIN logs : j <= applied /\ IsCreate(j, e.queue)
      BY <3>1 DEF ReplayInv, CreatesKept
    <3>3. j < k
      BY <1>3, <3>2
    <3> QED BY <1>1, <3>1, <3>2, <3>3 DEF e
  <2> QED BY <1>1, <2>1, <2>2
<1>8. LogReaches' => LogReaches
  <2> SUFFICES ASSUME LogReaches', NEW i \in applied + 1..LastIndex PROVE i \in DOMAIN logs
    BY DEF LogReaches
  <2>1. i = k \/ i \in k + 1..LastIndex
    BY <1>3
  <2> QED BY <1>1, <1>3, <2>1 DEF LogReaches
<1>9. DueHeld'
  <2> SUFFICES ASSUME LogReaches, NEW m \in due', m \notin Live(sm')
               PROVE  \E i \in DOMAIN logs : /\ i > k /\ IsSend(i)
                                             /\ m \in Elements(logs[i].data) /\ Ready(i)'
    BY <1>1, <1>4, <1>8 DEF DueHeld
  <2>1. m \in due /\ m \notin Live(sm)
    BY <1>1, <1>2
  <2>2. PICK i \in DOMAIN logs : i > applied /\ IsSend(i) /\ m \in Elements(logs[i].data) /\ Ready(i)
    BY <2>1 DEF ReplayInv, DueHeld
  <2>3. CASE i = k
    <3>1. logs[i].queue \in DOMAIN sm.queues
      BY <1>3, <2>2, <2>3 DEF Ready
    <3>2. m \in Accepted(sm, e)
      BY <2>2, <2>3, <3>1 DEF Accepted, IsSend, e
    <3> QED BY <1>2, <3>2
  <2>4. CASE i # k
    <3>1. i > k
      BY <1>3, <2>2, <2>4
    <3>2. CASE logs[i].queue \in DOMAIN sm.queues
      BY <1>1, <1>2, <2>2, <3>1, <3>2 DEF Ready
    <3>3. ASSUME NEW j \in DOMAIN logs, applied < j, j < i, IsCreate(j, logs[i].queue)
          PROVE  Ready(i)'
      <4>1. CASE j = k
        BY <1>1, <1>2, <3>3, <4>1 DEF Ready
      <4>2. CASE j # k
        <5>1. k < j
          BY <1>3, <3>3, <4>2
        <5>2. IsCreate(j, logs[i].queue)'
          BY <1>1, <3>3 DEF IsCreate
        <5> QED BY <1>1, <3>3, <5>1, <5>2 DEF Ready
      <4> QED BY <4>1, <4>2
    <3> QED BY <2>2, <3>1, <3>2, <3>3 DEF Ready
  <2> QED BY <2>3, <2>4
<1> QED BY <1>5, <1>7, <1>9 DEF ReplayInv

\* At-least-once for a node that restarts any number of times: what was
\* answered Ok and not removed by an ack is in the state machine or will be once
\* the log, as long as no restart has met a purged one, has been applied again;
\* in every behaviour in which no request sends to a dead letter queue.
THEOREM NothingLost == Spec /\ []PlainSends => []NoLoss
<1>1. Init => ReplayInv
  <2> SUFFICES ASSUME Init PROVE ReplayInv
    OBVIOUS
  <2>1. sm = Empty /\ due = {} /\ DOMAIN Empty.queues = {}
    BY DEF Init, Empty
  <2> QED BY <2>1 DEF ReplayInv, CreatesKept, DueKept, DueHeld
<1>2. NodeInv /\ ReplayInv /\ PlainSends /\ [Next]_vars => ReplayInv'
  BY StepKinds, ApplyKeeps, PurgeKeeps, RestartKeeps, AsideOK
<1>3. ReplayInv => NoLoss
  <2> SUFFICES ASSUME ReplayInv, LogReaches, NEW m \in due, m \notin Live(sm) PROVE m \in ToApply
    BY DEF NoLoss
  <2>1. PICK i \in DOMAIN logs : i > applied /\ IsSend(i) /\ m \in Elements(logs[i].data)
    BY DEF ReplayInv, DueHeld
  <2> QED BY <2>1 DEF ToApply, IsSend
<1> QED BY <1>1, <1>2, <1>3, NodeAlways, PTL DEF Spec
-----------------------------------------------------------------------------
(***************************************************************************)
(* Every application of an entry is an operation of TaskService.           *)
(***************************************************************************)
\* A create entry of a new name is Create.
LEMMA CreateOp ==
    ASSUME NEW q, q \notin DOMAIN sm.queues,
           sm'.queues = Insert(sm.queues, q, <<>>), sm'.in_flight = sm.in_flight, settled' = settled
    PROVE  Service!Next
<1>1. q \in DOMAIN sm'.queues \ DOMAIN sm.queues
  BY DEF Insert
<1>2. Service!Create
  BY <1>1 DEF Service!Create, Service!Insert, Insert
<1> QED BY <1>2 DEF Service!Next

\* An ack entry is Settle.
LEMMA SettleOp ==
    ASSUME NEW S \in (SUBSET DOMAIN sm.in_flight) \ {{}},
           sm'.queues = sm.queues, sm'.in_flight = Without(sm.in_flight, S),
           settled' = settled \cup S
    PROVE  Service!Next
<1>2. Service!Settle
  BY DEF Service!Settle, Service!Without, Without
<1> QED BY <1>2 DEF Service!Next

\* An enqueue entry whose messages are new is Accept.
LEMMA AcceptOp ==
    ASSUME NEW q \in DOMAIN sm.queues, sm.queues[q] \in Seq(Item), NEW items \in Seq(Item),
           \A i \in DOMAIN items : items[i].attempts = 0, Messages(items) \cap Live(sm) = {},
           sm'.queues = PushBack(sm.queues, q, items), sm'.in_flight = sm.in_flight, settled' = settled
    PROVE  Service!Next
<1>1. sm'.queues[q] = sm.queues[q] \o items
  BY DEF PushBack
<1>2. SubSeq(sm'.queues[q], Len(sm.queues[q]) + 1, Len(sm'.queues[q])) = items
  BY <1>1, SuffixOf
<1>3. sm'.queues = Service!PushBack(sm.queues, q, items)
  BY DEF PushBack, Service!PushBack
<1>4. Service!Messages(items) \cap (Service!Pending(sm.queues) \cup Service!Flying(sm.in_flight)) = {}
  BY DEF Live, Pending, Flying, Messages, Service!Pending, Service!Flying, Service!Messages
<1>5. Service!Accept
  BY <1>2, <1>3, <1>4 DEF Service!Accept
<1> QED BY <1>5 DEF Service!Next

\* A nack entry is Return.
LEMMA ReturnOp ==
    ASSUME NEW t \in DOMAIN sm.in_flight, sm.in_flight[t].queue \in DOMAIN sm.queues,
           sm'.in_flight = Without(sm.in_flight, {t}), settled' = settled,
           sm'.queues = Requeue(sm.queues, sm.in_flight[t].queue,
                          [msg |-> sm.in_flight[t].msg, attempts |-> sm.in_flight[t].attempts])
    PROVE  Service!Next
<1>1. sm'.in_flight = Service!Without(sm.in_flight, {t})
  BY DEF Without, Service!Without
<1>2. \A f, q, item : Requeue(f, q, item) = Service!Requeue(f, q, item)
  BY DEF Requeue, Service!Requeue, Insert, Service!Insert, PushFront, Service!PushFront, Dlq, Service!Dlq
<1>3. sm'.queues = Service!Requeue(sm.queues, sm.in_flight[t].queue,
                          [msg |-> sm.in_flight[t].msg, attempts |-> sm.in_flight[t].attempts])
  BY <1>2
<1>4. Service!Return
  BY <1>1, <1>3 DEF Service!Return
<1> QED BY <1>4 DEF Service!Next

\* A dequeue entry is Lease, of as many items as the queue has or it asks for.
LEMMA LeaseOp ==
    ASSUME NEW q \in DOMAIN sm.queues, sm.queues[q] \in Seq(Item), NEW k \in Nat,
           NEW items, items = FirstOf(sm.queues[q], k), items # <<>>,
           NEW ids \in Seq(Nat), Len(ids) = Len(items), Injective(ids),
           \A t \in Elements(ids) : t \notin DOMAIN sm.in_flight \cup settled, settled' = settled,
           sm'.queues = PopFront(sm.queues, q, k),
           sm'.in_flight = Deliver(sm.in_flight, q, items, ids)
    PROVE  Service!Next
<1> DEFINE s   == sm.queues[q]
           n   == Len(items)
           new == DOMAIN sm'.in_flight \ (DOMAIN sm.in_flight \cup settled)
<1>1. n = Least(k, Len(s)) /\ items \in Seq(Item) /\ n \in Nat /\ Len(s) \in Nat
  BY SplitType
<1>2. n \in 1..Len(s)
  BY <1>1 DEF Least
<1>3. Least(n, Len(s)) = n
  BY <1>2 DEF Least
<1>4. FirstOf(s, n) = items /\ RestOf(s, n) = RestOf(s, k)
  BY <1>1, <1>3 DEF FirstOf, RestOf
<1>5. PopFront(sm.queues, q, n) = PopFront(sm.queues, q, k)
  BY <1>4 DEF PopFront
<1>6. Elements(ids) \subseteq new
  BY DEF Deliver
<1>7. ids \in [1..n -> new]
  BY <1>6 DEF Elements
<1>8. \A i, j \in 1..n : ids[i] = ids[j] => i = j
  BY DEF Injective
<1> HIDE DEF new, n, s
<1>9. Service!PopFront(sm.queues, q, n) = PopFront(sm.queues, q, n)
  BY DEF Service!PopFront, PopFront, Service!RestOf, RestOf, Service!Least, Least
<1>10. Service!FirstOf(s, n) = FirstOf(s, n)
  BY DEF Service!FirstOf, FirstOf, Service!Least, Least
<1>11. Service!Deliver(sm.in_flight, q, items, ids) = Deliver(sm.in_flight, q, items, ids)
  BY DEF Service!Deliver, Deliver, Service!Elements, Elements, Service!Position, Position
<1>12. /\ sm'.queues = Service!PopFront(sm.queues, q, n)
       /\ sm'.in_flight = Service!Deliver(sm.in_flight, q, Service!FirstOf(s, n), ids)
  BY <1>4, <1>5, <1>9, <1>10, <1>11
<1>13. Service!Lease
  BY <1>2, <1>7, <1>8, <1>12 DEF Service!Lease, new, s
<1> QED BY <1>13 DEF Service!Next

\* Whatever entry is applied, for the first time or again after a restart, is
\* one complete operation of the abstract service TaskService: a dequeue leases
\* what has waited longest under ids that nobody holds or has settled, an ack
\* removes all of its tasks or none, a nack whose id is from another life of the
\* node changes nothing, and no message enters twice.
THEOREM AtomicOperations == Spec => AppliesOperations
<1>1. NodeInv /\ [Next]_vars => [crashes' = crashes => Service!Next]_<<sm, settled>>
  <2> SUFFICES ASSUME NodeInv, [Next]_vars, crashes' = crashes, <<sm, settled>>' # <<sm, settled>>
               PROVE  Service!Next
    OBVIOUS
  <2>1. Apply
    BY StepKinds DEF NodeInv, TypeOK, Purge, Restart, Aside, history
  <2> DEFINE e     == logs[applied + 1]
             items == Taken(sm, e)
             ids   == [k \in DOMAIN items |-> nextId + k - 1]
  <2>2. /\ applied + 1 \in DOMAIN logs /\ sm' = ApplyEntry(sm, e, ids)
        /\ settled' = settled \cup RemovedIds(sm, e)
    BY <2>1 DEF Apply
  <2>3. Before(sm, e, nextId)
    BY <2>2, NextEntry
  <2> HIDE DEF e
  <2>4. /\ sm = [queues |-> sm.queues, in_flight |-> sm.in_flight]
        /\ IsQueueMap(sm.queues) /\ nextId \in Nat
        /\ \A t \in DOMAIN sm.in_flight : t \in Nat /\ t < nextId /\ sm.in_flight[t].queue \in DOMAIN sm.queues
    BY <2>3 DEF Before, Sound, IsState, IsFlightMap, IsMap
  <2>5. \A q \in DOMAIN sm.queues : sm.queues[q] \in Seq(Item)
    BY <2>4 DEF IsQueueMap, IsMap
  <2>0. e.op # "ack" => settled' = settled /\ sm' # sm
    BY <2>2 DEF RemovedIds
  <2>6. CASE e.op = "create_queue"
    <3>1. e.queue \notin DOMAIN sm.queues /\ sm' = [sm EXCEPT !.queues = Insert(@, e.queue, <<>>)]
      BY <2>0, <2>2, <2>6 DEF ApplyEntry
    <3>2. sm'.queues = Insert(sm.queues, e.queue, <<>>) /\ sm'.in_flight = sm.in_flight
      BY <2>4, <3>1
    <3> QED BY <2>0, <2>6, <3>1, <3>2, CreateOp
  <2>7. CASE e.op = "enqueue"
    <3> DEFINE new == [i \in DOMAIN e.data |-> Fresh(e.data[i])]
    <3>1. sm' = [sm EXCEPT !.queues = Enqueue(@, e.queue, new)]
      BY <2>2, <2>7 DEF ApplyEntry
    <3>2. e.data \in Seq(Nat) /\ Elements(e.data) \cap Live(sm) = {}
      BY <2>3, <2>7 DEF Before, IsEntry
    <3>3. /\ new \in Seq(Item) /\ Messages(new) \cap Live(sm) = {}
          /\ \A i \in DOMAIN new : new[i].attempts = 0
      BY <3>2, FreshItems
    <3> HIDE DEF new
    <3>4. sm'.queues = Enqueue(sm.queues, e.queue, new) /\ sm'.in_flight = sm.in_flight
      BY <2>4, <3>1
    <3>5. e.queue \in DOMAIN sm.queues
      BY <2>0, <2>4, <2>7, <3>1 DEF Enqueue
    <3>6. sm'.queues = PushBack(sm.queues, e.queue, new)
      BY <3>4, <3>5 DEF Enqueue
    <3> QED BY <2>5, <3>3, <3>4, <3>5, <3>6, <2>0, <2>7, AcceptOp
  <2>8. CASE e.op = "dequeue"
    <3>1. ids # <<>>
      BY <2>0, <2>2, <2>8 DEF ApplyEntry
    <3>2. sm' = [queues    |-> PopFront(sm.queues, e.queue, e.count),
                 in_flight |-> Deliver(sm.in_flight, e.queue, items, ids)]
      BY <2>2, <2>8, <3>1 DEF ApplyEntry
    <3>3. items \in Seq(Item) /\ ids \in Seq(Nat) /\ Len(ids) = Len(items)
      BY <2>3, ApplyOutcome
    <3>4. Injective(ids) /\ \A t \in Elements(ids) : t \in Nat /\ nextId <= t
      BY <2>4, <3>3, DrawnIds, ElementsType
    <3> HIDE DEF ids
    <3>5. items # <<>> /\ e.queue \in DOMAIN sm.queues /\ items = FirstOf(sm.queues[e.queue], e.count)
      BY <3>1, <3>3 DEF Taken
    <3> HIDE DEF items
    <3>6. sm'.queues = PopFront(sm.queues, e.queue, e.count)
          /\ sm'.in_flight = Deliver(sm.in_flight, e.queue, items, ids)
      BY <3>2
    <3>7. e.count \in Nat /\ \A t \in Elements(ids) : t \notin DOMAIN sm.in_flight \cup settled
      <4>1. \A t \in settled : t \in Nat /\ t < nextId
        BY DEF NodeInv, TypeOK, SettledDrawn
      <4> QED BY <2>3, <2>4, <2>8, <3>4, <4>1 DEF Before, IsEntry
    <3> QED BY <2>5, <3>3, <3>4, <3>5, <3>6, <3>7, <2>0, <2>8, LeaseOp
  <2>9. CASE e.op = "ack"
    <3>1. sm' = ApplyAck(sm, e.ids)
      BY <2>2, <2>9 DEF ApplyEntry
    <3>2. /\ Elements(e.ids) \in SUBSET DOMAIN sm.in_flight
          /\ sm' = [sm EXCEPT !.in_flight = Without(@, Elements(e.ids))]
          /\ settled' = settled \cup Elements(e.ids)
      BY <2>2, <2>9, <3>1 DEF ApplyAck, RemovedIds
    <3>3. sm'.queues = sm.queues /\ sm'.in_flight = Without(sm.in_flight, Elements(e.ids))
      BY <2>4, <3>2
    <3>4. Elements(e.ids) # {}
      <4>1. sm.in_flight = [t \in DOMAIN sm.in_flight |-> sm.in_flight[t]]
        BY <2>3 DEF Before, Sound, IsState, IsFlightMap, IsMap
      <4>2. Elements(e.ids) = {} => Without(sm.in_flight, Elements(e.ids)) = sm.in_flight
        BY <4>1 DEF Without
      <4> QED BY <2>4, <3>2, <4>2
    <3> QED BY <3>2, <3>3, <3>4, SettleOp
  <2>10. CASE e.op = "nack"
    <3>1. sm' = ApplyNack(sm, e.id)
      BY <2>2, <2>10 DEF ApplyEntry
    <3>2. e.id \in DOMAIN sm.in_flight
      BY <2>0, <2>10, <3>1 DEF ApplyNack
    <3>3. /\ sm'.queues = Requeue(sm.queues, sm.in_flight[e.id].queue,
                            [msg |-> sm.in_flight[e.id].msg, attempts |-> sm.in_flight[e.id].attempts])
          /\ sm'.in_flight = Without(sm.in_flight, {e.id})
      BY <3>1, <3>2 DEF ApplyNack
    <3> QED BY <2>4, <3>2, <3>3, <2>0, <2>10, ReturnOp
  <2>11. CASE e.op \notin {"create_queue", "enqueue", "dequeue", "ack", "nack"}
    BY <2>0, <2>2, <2>11 DEF ApplyEntry
  <2> QED BY <2>6, <2>7, <2>8, <2>9, <2>10, <2>11
<1> QED BY <1>1, NodeAlways, PTL DEF Spec, AppliesOperations
=============================================================================
