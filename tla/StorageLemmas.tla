--------------------------- MODULE StorageLemmas ----------------------------
(***************************************************************************)
(* What the operators of QueueState and Wal return and preserve, for every *)
(* argument.  The proofs about the storage rest on these lemmas.           *)
(***************************************************************************)
EXTENDS Wal, TLAPS


(***************************************************************************)
(* Lemmas about the maps and deques of QueueState.                         *)
(***************************************************************************)
\* Inserting a key of K with a value of V keeps a map from K to V.
LEMMA InsertMap ==
    ASSUME NEW K, NEW V, NEW f, NEW k \in K, NEW v \in V, IsMap(f, K, V)
    PROVE  IsMap(Insert(f, k, v), K, V)
BY DEF IsMap, Insert

\* Under a key of the new map is the new value or the old one.
LEMMA InsertCases ==
    ASSUME NEW f, NEW k, NEW v, NEW x \in DOMAIN Insert(f, k, v)
    PROVE  \/ x \in DOMAIN f /\ Insert(f, k, v)[x] = f[x]
           \/ x = k /\ Insert(f, k, v)[x] = v
BY DEF Insert

\* Removing keys keeps a map a map.
LEMMA WithoutMap ==
    ASSUME NEW K, NEW V, NEW f, NEW S, IsMap(f, K, V)
    PROVE  IsMap(Without(f, S), K, V)
BY DEF IsMap, Without

\* The elements of a sequence are in its set of elements, and nowhere else.
LEMMA ElementsType ==
    ASSUME NEW S, NEW s \in Seq(S)
    PROVE  Elements(s) \subseteq S
BY DEF Elements

\* The messages of items are numbers.
LEMMA MessagesType ==
    ASSUME NEW s \in Seq(Item)
    PROVE  Messages(s) \subseteq Nat
<1>1. \A i \in DOMAIN s : s[i] \in Item
  OBVIOUS
<1>2. \A i \in DOMAIN s : s[i].msg \in Nat
  BY <1>1 DEF Item
<1> QED BY <1>2 DEF Messages

\* The first items of a deque and the rest are sequences of the same kind, and
\* the first part has the length that was asked for or that of the deque.
LEMMA SplitType ==
    ASSUME NEW S, NEW s \in Seq(S), NEW n \in Nat
    PROVE  /\ FirstOf(s, n) \in Seq(S)
           /\ RestOf(s, n) \in Seq(S)
           /\ Len(FirstOf(s, n)) = Least(n, Len(s))
           /\ Len(FirstOf(s, n)) \in Nat
BY DEF FirstOf, RestOf, Least

\* An element of a sequence stands at its position.
LEMMA PositionType ==
    ASSUME NEW S, NEW s \in Seq(S), NEW e \in Elements(s)
    PROVE  Position(s, e) \in DOMAIN s /\ s[Position(s, e)] = e
BY DEF Position, Elements

\* Pushing items to either end of a queue and popping keep the map of queues.
LEMMA PushMap ==
    ASSUME NEW f, IsQueueMap(f), NEW q \in Name, NEW items \in Seq(Item), NEW n \in Nat
    PROVE  /\ IsQueueMap(PushBack(f, q, items))
           /\ IsQueueMap(PushFront(f, q, items))
           /\ IsQueueMap(PopFront(f, q, n))
           /\ IsQueueMap(Enqueue(f, q, items))
<1>1. \A s \in Seq(Item) : s \o items \in Seq(Item) /\ items \o s \in Seq(Item)
  OBVIOUS
<1>2. \A s \in Seq(Item) : RestOf(s, n) \in Seq(Item)
  BY SplitType
<1>3. IsQueueMap(PushBack(f, q, items)) /\ IsQueueMap(PushFront(f, q, items))
  BY <1>1 DEF IsQueueMap, IsMap, PushBack, PushFront
<1>4. IsQueueMap(PopFront(f, q, n))
  BY <1>2 DEF IsQueueMap, IsMap, PopFront
<1> QED BY <1>3, <1>4 DEF Enqueue

\* Putting items in flight under as many ids keeps the map of tasks.
LEMMA DeliverMap ==
    ASSUME NEW f, IsFlightMap(f), NEW q \in Name,
           NEW items \in Seq(Item), NEW ids \in Seq(Nat), Len(items) = Len(ids)
    PROVE  IsFlightMap(Deliver(f, q, items, ids))
<1>1. \A t \in Elements(ids) : items[Position(ids, t)] \in Item
  BY PositionType
<1>2. Elements(ids) \subseteq Nat
  BY ElementsType
<1> QED BY <1>1, <1>2 DEF IsFlightMap, IsMap, Deliver, Item, Task

\* A nack keeps the map of queues, whether or not the DLQ exists.
LEMMA RequeueMap ==
    ASSUME NEW f, IsQueueMap(f), NEW q \in Name, NEW item \in Item
    PROVE  IsQueueMap(Requeue(f, q, item)) /\ Dlq(q) \in Name
<1>1. Dlq(q) \in Name
  BY DEF Dlq, Name
<1>2. <<item>> \in Seq(Item)
  OBVIOUS
<1>3. IsQueueMap(PushFront(f, q, <<item>>))
  BY <1>2, PushMap, 0 \in Nat
<1>4. \A old \in Seq(Item) : Append(old, item) \in Seq(Item)
  OBVIOUS
<1>5. Dlq(q) \in DOMAIN f => f[Dlq(q)] \in Seq(Item)
  BY DEF IsQueueMap, IsMap
<1>6. (IF Dlq(q) \in DOMAIN f THEN f[Dlq(q)] ELSE <<>>) \in Seq(Item)
  BY <1>5
<1>7. IsQueueMap(Insert(f, Dlq(q),
                Append(IF Dlq(q) \in DOMAIN f THEN f[Dlq(q)] ELSE <<>>, item)))
  BY <1>1, <1>4, <1>6, InsertMap DEF IsQueueMap
<1> QED BY <1>1, <1>3, <1>7 DEF Requeue
-----------------------------------------------------------------------------
(***************************************************************************)
(* The replay of one log entry keeps a state a state.                      *)
(***************************************************************************)
\* ... a Dequeued entry.
LEMMA ReplayDequeuedState ==
    ASSUME NEW st, IsState(st), NEW q \in Name, NEW ids \in Seq(Nat)
    PROVE  IsState(ReplayDequeued(st, [op |-> "dequeue", queue |-> q, ids |-> ids]))
<1> DEFINE e     == [op |-> "dequeue", queue |-> q, ids |-> ids]
           items == FirstOf(st.queues[q], Len(ids))
<1>1. CASE q \notin DOMAIN st.queues
  BY <1>1 DEF ReplayDequeued
<1>2. CASE q \in DOMAIN st.queues
  <2>1. st.queues[q] \in Seq(Item)
    BY <1>2 DEF IsState, IsQueueMap, IsMap
  <2>2. Len(ids) \in Nat
    OBVIOUS
  <2>3. items \in Seq(Item) /\ Len(items) = Least(Len(ids), Len(st.queues[q])) /\ Len(items) \in Nat
    BY <2>1, <2>2, SplitType
  <2>4. FirstOf(ids, Len(items)) \in Seq(Nat)
        /\ Len(FirstOf(ids, Len(items))) = Least(Len(items), Len(ids))
    BY <2>3, SplitType
  <2>5. Len(items) = Len(FirstOf(ids, Len(items)))
    BY <2>1, <2>2, <2>3, <2>4 DEF Least
  <2>6. IsFlightMap(Deliver(st.in_flight, q, items, FirstOf(ids, Len(items))))
    BY <2>3, <2>4, <2>5, DeliverMap DEF IsState
  <2>7. IsQueueMap(PopFront(st.queues, q, Len(ids)))
    BY <2>2, PushMap, <<>> \in Seq(Item) DEF IsState
  <2> QED BY <1>2, <2>6, <2>7 DEF ReplayDequeued, IsState
<1> QED BY <1>1, <1>2

\* ... a Nack entry.
LEMMA ReplayNackState ==
    ASSUME NEW st, IsState(st), NEW t
    PROVE  IsState(ReplayNack(st, t))
<1>1. CASE t \notin DOMAIN st.in_flight
  BY <1>1 DEF ReplayNack
<1>2. CASE t \in DOMAIN st.in_flight
  <2> DEFINE task == st.in_flight[t]
             item == [msg |-> task.msg, attempts |-> task.attempts]
  <2>1. task \in Task
    BY <1>2 DEF IsState, IsFlightMap, IsMap
  <2>2. item \in Item /\ task.queue \in Name
    BY <2>1 DEF Task, Item
  <2>3. IsQueueMap(Requeue(st.queues, task.queue, item))
    BY <2>2, RequeueMap DEF IsState
  <2>4. IsFlightMap(Without(st.in_flight, {t}))
    BY WithoutMap DEF IsState, IsFlightMap
  <2> QED BY <1>2, <2>3, <2>4 DEF ReplayNack, IsState
<1> QED BY <1>1, <1>2

\* ... any entry a request appends.
LEMMA ReplayOpState ==
    ASSUME NEW st, IsState(st), NEW op, NEW q, NEW items \in Seq(Item), NEW ids \in Seq(Nat),
           op \in {"create_queue", "queue", "dequeue"} => q \in Name
    PROVE  IsState(ReplayOp(st, WalOp(op, q, items, ids)))
<1>1. CASE op = "create_queue"
  <2>1. q \in Name /\ <<>> \in Seq(Item)
    BY <1>1
  <2>2. IsQueueMap(Insert(st.queues, q, <<>>))
    BY <2>1, InsertMap DEF IsState, IsQueueMap
  <2> QED BY <1>1, <2>2 DEF ReplayOp, WalOp, IsState
<1>2. CASE op = "queue"
  <2> DEFINE data  == [i \in DOMAIN items |-> items[i].msg]
             fresh == [i \in DOMAIN data |-> Fresh(data[i])]
  <2>1. \A i \in DOMAIN items : items[i] \in Item
    OBVIOUS
  <2>2. \A i \in DOMAIN items : Fresh(items[i].msg) \in Item
    BY <2>1 DEF Item, Fresh
  <2>3. fresh = [i \in DOMAIN items |-> Fresh(items[i].msg)]
    OBVIOUS
  <2>4. DOMAIN items = 1..Len(items) /\ Len(items) \in Nat
    OBVIOUS
  <2>5. fresh \in Seq(Item)
    BY <2>2, <2>3, <2>4
  <2>6. IsQueueMap(Enqueue(st.queues, q, fresh))
    BY <1>2, <2>5, PushMap, 0 \in Nat DEF IsState
  <2>7. WalOp(op, q, items, ids) = [op |-> "queue", queue |-> q, data |-> data]
    BY <1>2 DEF WalOp
  <2>8. ReplayOp(st, WalOp(op, q, items, ids)) = [st EXCEPT !.queues = Enqueue(@, q, fresh)]
    BY <2>7 DEF ReplayOp, ReplayEnqueue
  <2> QED BY <2>6, <2>8 DEF IsState
<1>3. CASE op = "dequeue"
  BY <1>3, ReplayDequeuedState DEF ReplayOp, WalOp
<1>4. CASE op \in {"ack", "ack_batch"}
  <2>1. IsFlightMap(Without(st.in_flight, Elements(ids)))
    BY WithoutMap DEF IsState, IsFlightMap
  <2> QED BY <1>4, <2>1 DEF ReplayOp, WalOp, ReplayAck, IsState
<1>5. CASE op = "nack"
  BY <1>5, ReplayNackState DEF ReplayOp, WalOp
<1>6. CASE op \notin {"create_queue", "queue", "dequeue", "ack", "ack_batch", "nack"}
  BY <1>6 DEF ReplayOp, WalOp
<1> QED BY <1>1, <1>2, <1>3, <1>4, <1>5, <1>6

\* An append, whole or cut short, leaves a log file.
LEMMA AppendFile ==
    ASSUME NEW file, IsWalFile(file), NEW op, NEW q, NEW items \in Seq(Item), NEW ids \in Seq(Nat),
           op \in {"create_queue", "queue", "dequeue"} => q \in Name
    PROVE  /\ IsWalFile(WalAppend(file, WalOp(op, q, items, ids)))
           /\ \A f \in TornAppends(file, WalOp(op, q, items, ids)) : IsWalFile(f)
<1> DEFINE e == WalOp(op, q, items, ids)
<1>1. IsState(ReplayOp(file.state, e))
  BY ReplayOpState DEF IsWalFile
<1> HIDE DEF e
<1>2. IsWalFile(WalAppend(file, e))
  BY <1>1 DEF WalAppend, IsWalFile, Tails
<1>3. IsWalFile([file EXCEPT !.tail = "corrupt"])
  BY DEF IsWalFile, Tails
<1>4. ASSUME NEW f, IsWalFile(f)
      PROVE  IsWalFile([f EXCEPT !.tail = IF @ = "clean" THEN "open" ELSE @])
  <2> DEFINE t == IF f.tail = "clean" THEN "open" ELSE f.tail
  <2>1. t \in Tails
    BY <1>4 DEF IsWalFile, Tails
  <2> HIDE DEF t
  <2>2. [f EXCEPT !.tail = t] = [state |-> f.state, tail |-> t]
    BY <1>4 DEF IsWalFile
  <2>3. IsWalFile([state |-> f.state, tail |-> t])
    BY <1>4, <2>1 DEF IsWalFile
  <2> QED BY <2>2, <2>3 DEF t
<1> QED BY <1>2, <1>3, <1>4 DEF TornAppends, e

\* A file is recovered to a state.
LEMMA RecoverState ==
    ASSUME NEW file, IsWalFile(file)
    PROVE  IsState(Recover(file))
<1>1. IsState(Empty)
  BY DEF IsState, Empty, IsQueueMap, IsFlightMap, IsMap
<1> QED BY <1>1 DEF Recover, IsWalFile
-----------------------------------------------------------------------------
(***************************************************************************)
(* Where the messages of a state go.                                       *)
(***************************************************************************)
\* Concatenating and splitting deques loses no message.
LEMMA MessagesOfParts ==
    ASSUME NEW s \in Seq(Item), NEW r \in Seq(Item), NEW n \in Nat
    PROVE  /\ Messages(s) \subseteq Messages(s \o r)
           /\ Messages(r) \subseteq Messages(s \o r)
           /\ Messages(s) \subseteq Messages(FirstOf(s, n)) \cup Messages(RestOf(s, n))
<1>1. Messages(s) \subseteq Messages(s \o r)
  <2> SUFFICES ASSUME NEW i \in DOMAIN s PROVE s[i].msg \in Messages(s \o r)
    BY DEF Messages
  <2>1. i \in DOMAIN (s \o r) /\ (s \o r)[i] = s[i]
    OBVIOUS
  <2> QED BY <2>1 DEF Messages
<1>2. Messages(r) \subseteq Messages(s \o r)
  <2> SUFFICES ASSUME NEW i \in DOMAIN r PROVE r[i].msg \in Messages(s \o r)
    BY DEF Messages
  <2>1. Len(s) + i \in DOMAIN (s \o r) /\ (s \o r)[Len(s) + i] = r[i]
    OBVIOUS
  <2> QED BY <2>1 DEF Messages
<1>3. Messages(s) \subseteq Messages(FirstOf(s, n)) \cup Messages(RestOf(s, n))
  <2> SUFFICES ASSUME NEW i \in DOMAIN s
               PROVE  s[i].msg \in Messages(FirstOf(s, n)) \cup Messages(RestOf(s, n))
    BY DEF Messages
  <2> DEFINE k == Least(n, Len(s))
  <2>1. k \in Nat /\ k <= Len(s)
    BY DEF Least
  <2>2. CASE i <= k
    <3>1. i \in DOMAIN SubSeq(s, 1, k) /\ SubSeq(s, 1, k)[i] = s[i]
      BY <2>1, <2>2
    <3> QED BY <3>1 DEF Messages, FirstOf
  <2>3. CASE i > k
    <3> DEFINE rest == SubSeq(s, k + 1, Len(s))
    <3>1. Len(s) \in Nat /\ i \in 1..Len(s)
      OBVIOUS
    <3> HIDE DEF k
    <3>2. Len(rest) = Len(s) - k /\ DOMAIN rest = 1..Len(rest)
      BY <2>1, <3>1
    <3>3. i - k \in 1..(Len(s) - k)
      BY <2>1, <2>3, <3>1
    <3>4. \A j \in 1..(Len(s) - k) : rest[j] = s[k + j]
      BY <2>1, <3>1
    <3>5. i - k \in DOMAIN rest /\ rest[i - k] = s[i]
      BY <2>1, <3>1, <3>2, <3>3, <3>4
    <3> QED BY <3>5 DEF Messages, RestOf, k
  <2> QED BY <2>1, <2>2, <2>3
<1> QED BY <1>1, <1>2, <1>3

\* Changing one queue keeps the messages of the others.
LEMMA PendingExcept ==
    ASSUME NEW f, IsQueueMap(f), NEW q, NEW s, NEW g, NEW S,
           DOMAIN f \subseteq DOMAIN g, \A x \in DOMAIN f : x # q => g[x] = f[x],
           q \in DOMAIN f => q \in DOMAIN g /\ Messages(f[q]) \subseteq Messages(g[q]) \cup S
    PROVE  Pending(f) \subseteq Pending(g) \cup S
<1> SUFFICES ASSUME NEW x \in DOMAIN f, NEW m \in Messages(f[x])
             PROVE  m \in Pending(g) \cup S
  BY DEF Pending
<1>1. CASE x = q
  BY <1>1 DEF Pending
<1>2. CASE x # q
  BY <1>2 DEF Pending
<1> QED BY <1>1, <1>2

\* Pushing adds messages and loses none; popping loses those popped.
LEMMA PendingPush ==
    ASSUME NEW f, IsQueueMap(f), NEW q \in DOMAIN f, NEW items \in Seq(Item), NEW n \in Nat
    PROVE  /\ Pending(f) \cup Messages(items) \subseteq Pending(PushBack(f, q, items))
           /\ Pending(f) \cup Messages(items) \subseteq Pending(PushFront(f, q, items))
           /\ Pending(f) \subseteq Pending(PopFront(f, q, n)) \cup Messages(FirstOf(f[q], n))
<1>0. f[q] \in Seq(Item)
  BY DEF IsQueueMap, IsMap
<1>1. /\ Messages(f[q]) \cup Messages(items) \subseteq Messages(f[q] \o items)
      /\ Messages(f[q]) \cup Messages(items) \subseteq Messages(items \o f[q])
      /\ Messages(f[q]) \subseteq Messages(FirstOf(f[q], n)) \cup Messages(RestOf(f[q], n))
  BY <1>0, MessagesOfParts
<1>2. /\ DOMAIN PushBack(f, q, items) = DOMAIN f
      /\ PushBack(f, q, items)[q] = f[q] \o items
      /\ \A x \in DOMAIN f : x # q => PushBack(f, q, items)[x] = f[x]
  BY DEF PushBack, IsQueueMap, IsMap
<1>3. /\ DOMAIN PushFront(f, q, items) = DOMAIN f
      /\ PushFront(f, q, items)[q] = items \o f[q]
      /\ \A x \in DOMAIN f : x # q => PushFront(f, q, items)[x] = f[x]
  BY DEF PushFront, IsQueueMap, IsMap
<1>4. /\ DOMAIN PopFront(f, q, n) = DOMAIN f
      /\ PopFront(f, q, n)[q] = RestOf(f[q], n)
      /\ \A x \in DOMAIN f : x # q => PopFront(f, q, n)[x] = f[x]
  BY DEF PopFront, IsQueueMap, IsMap
<1>5. Pending(f) \subseteq Pending(PushBack(f, q, items)) \cup {}
  BY <1>1, <1>2, PendingExcept
<1>6. Pending(f) \subseteq Pending(PushFront(f, q, items)) \cup {}
  BY <1>1, <1>3, PendingExcept
<1>7. Pending(f) \subseteq Pending(PopFront(f, q, n)) \cup Messages(FirstOf(f[q], n))
  BY <1>1, <1>4, PendingExcept
<1>8. /\ Messages(items) \subseteq Pending(PushBack(f, q, items))
      /\ Messages(items) \subseteq Pending(PushFront(f, q, items))
  BY <1>1, <1>2, <1>3 DEF Pending
<1> QED BY <1>5, <1>6, <1>7, <1>8

\* Creating a queue that does not exist loses no message.
LEMMA PendingCreate ==
    ASSUME NEW f, IsQueueMap(f), NEW q, q \notin DOMAIN f
    PROVE  Pending(f) \subseteq Pending(Insert(f, q, <<>>))
<1>1. \A x \in DOMAIN f : x \in DOMAIN Insert(f, q, <<>>) /\ Insert(f, q, <<>>)[x] = f[x]
  BY DEF Insert
<1> QED BY <1>1 DEF Pending

\* A nack of a task of a queue that exists keeps its message, in the queue or
\* in the DLQ, whether or not the DLQ exists.
LEMMA PendingRequeue ==
    ASSUME NEW f, IsQueueMap(f), NEW q \in DOMAIN f, NEW item \in Item
    PROVE  /\ Pending(f) \cup {item.msg} \subseteq Pending(Requeue(f, q, item))
           /\ DOMAIN f \subseteq DOMAIN Requeue(f, q, item)
           /\ DOMAIN Requeue(f, q, item) \subseteq DOMAIN f \cup {Dlq(q)}
<1>1. CASE item.attempts >= MaxAttempts
  <2> DEFINE d   == Dlq(q)
             old == IF d \in DOMAIN f THEN f[d] ELSE <<>>
             g   == Insert(f, d, Append(old, item))
  <2>1. old \in Seq(Item)
    BY DEF IsQueueMap, IsMap
  <2>2. Append(old, item) = old \o <<item>> /\ <<item>> \in Seq(Item)
    BY <2>1
  <2>3. Messages(old) \cup Messages(<<item>>) \subseteq Messages(Append(old, item))
    BY <2>1, <2>2, MessagesOfParts, 0 \in Nat
  <2>4. item.msg \in Messages(<<item>>)
    BY DEF Messages
  <2>5. DOMAIN g = DOMAIN f \cup {d} /\ g[d] = Append(old, item)
        /\ \A x \in DOMAIN f : x # d => g[x] = f[x]
    BY DEF Insert
  <2>6. d \in DOMAIN f => old = f[d]
    OBVIOUS
  <2>7. Requeue(f, q, item) = g
    BY <1>1 DEF Requeue
  <2> HIDE DEF g, old, d
  <2>8. Pending(f) \subseteq Pending(g) \cup {}
    BY <2>3, <2>5, <2>6, PendingExcept
  <2>9. item.msg \in Pending(g)
    BY <2>3, <2>4, <2>5 DEF Pending
  <2> QED BY <2>5, <2>7, <2>8, <2>9 DEF d
<1>2. CASE ~(item.attempts >= MaxAttempts)
  <2>1. Requeue(f, q, item) = PushFront(f, q, <<item>>)
    BY <1>2 DEF Requeue
  <2>2. <<item>> \in Seq(Item) /\ item.msg \in Messages(<<item>>)
    BY DEF Messages
  <2>3. DOMAIN PushFront(f, q, <<item>>) = DOMAIN f
    BY DEF PushFront
  <2> QED BY <2>1, <2>2, <2>3, PendingPush, 0 \in Nat
<1> QED BY <1>1, <1>2

\* Putting items in flight under new and different ids adds their messages
\* and loses none.
LEMMA FlyingDeliver ==
    ASSUME NEW f, NEW q, NEW items \in Seq(Item), NEW ids \in Seq(Nat), Len(items) = Len(ids),
           \A i, j \in DOMAIN ids : ids[i] = ids[j] => i = j,
           \A t \in Elements(ids) : t \notin DOMAIN f
    PROVE  Flying(f) \cup Messages(items) \subseteq Flying(Deliver(f, q, items, ids))
<1> DEFINE g == Deliver(f, q, items, ids)
<1>1. \A t \in DOMAIN f : t \in DOMAIN g /\ g[t] = f[t]
  BY DEF Deliver
<1>2. ASSUME NEW i \in DOMAIN items PROVE items[i].msg \in Flying(g)
  <2>1. i \in DOMAIN ids /\ ids[i] \in Elements(ids)
    BY DEF Elements
  <2>2. Position(ids, ids[i]) = i
    BY <2>1, PositionType
  <2>3. ids[i] \in DOMAIN g /\ g[ids[i]].msg = items[i].msg
    BY <2>1, <2>2 DEF Deliver
  <2> QED BY <2>3 DEF Flying
<1>3. Flying(f) \subseteq Flying(g)
  BY <1>1 DEF Flying
<1> QED BY <1>2, <1>3 DEF Messages

\* Removing tasks loses the messages in flight under their ids only.
LEMMA FlyingWithout ==
    ASSUME NEW f, NEW S
    PROVE  Flying(f) \subseteq Flying(Without(f, S)) \cup {f[t].msg : t \in S \cap DOMAIN f}
BY DEF Flying, Without

\* Putting a task back under an id that is not in flight.
LEMMA FlyingInsert ==
    ASSUME NEW f, NEW t, NEW task, t \notin DOMAIN f
    PROVE  Flying(f) \cup {task.msg} \subseteq Flying(Insert(f, t, task))
<1>1. \A x \in DOMAIN f : x \in DOMAIN Insert(f, t, task) /\ Insert(f, t, task)[x] = f[x]
  BY DEF Insert
<1>2. t \in DOMAIN Insert(f, t, task) /\ Insert(f, t, task)[t] = task
  BY DEF Insert
<1> QED BY <1>1, <1>2 DEF Flying
-----------------------------------------------------------------------------
(***************************************************************************)
(* Messages that are there once.                                           *)
(***************************************************************************)
\* No message stands twice in a deque, no message is in flight under two ids.
Distinct(s)       == \A i, j \in DOMAIN s : s[i].msg = s[j].msg => i = j
DistinctFlight(f) == \A t, u \in DOMAIN f : f[t].msg = f[u].msg => t = u

\* What stands at a place of two deques put together.
LEMMA ConcatAt ==
    ASSUME NEW S, NEW s \in Seq(S), NEW r \in Seq(S), NEW i \in DOMAIN (s \o r)
    PROVE  \/ i \in DOMAIN s /\ (s \o r)[i] = s[i]
           \/ i - Len(s) \in DOMAIN r /\ (s \o r)[i] = r[i - Len(s)] /\ i > Len(s)
<1>1. i \in 1..(Len(s) + Len(r)) /\ Len(s) \in Nat /\ Len(r) \in Nat
  OBVIOUS
<1>2. CASE i <= Len(s)
  BY <1>1, <1>2
<1>3. CASE i > Len(s)
  <2>1. i - Len(s) \in 1..Len(r)
    BY <1>1, <1>3
  <2> QED BY <1>1, <1>3, <2>1
<1> QED BY <1>1, <1>2, <1>3

\* What stands in front in s \o r is s.
LEMMA PrefixOf ==
    ASSUME NEW s \in Seq(Item), NEW r \in Seq(Item)
    PROVE  SubSeq(s \o r, 1, Len(s)) = s
<1>1. Len(s) \in Nat /\ Len(r) \in Nat /\ Len(s \o r) = Len(s) + Len(r) /\ s \o r \in Seq(Item)
  OBVIOUS
<1> DEFINE t == SubSeq(s \o r, 1, Len(s))
<1>2. t \in Seq(Item) /\ Len(t) = Len(s)
  BY <1>1
<1>3. \A i \in 1..Len(s) : t[i] = s[i]
  BY <1>1
<1> HIDE DEF t
<1>4. t = s
  BY <1>1, <1>2, <1>3
<1> QED BY <1>4 DEF t

\* What stands behind s in s \o r is r.
LEMMA SuffixOf ==
    ASSUME NEW s \in Seq(Item), NEW r \in Seq(Item)
    PROVE  SubSeq(s \o r, Len(s) + 1, Len(s \o r)) = r
<1>1. Len(s) \in Nat /\ Len(r) \in Nat /\ Len(s \o r) = Len(s) + Len(r) /\ s \o r \in Seq(Item)
  OBVIOUS
<1> DEFINE t == SubSeq(s \o r, Len(s) + 1, Len(s) + Len(r))
<1>2. t \in Seq(Item) /\ Len(t) = Len(r)
  BY <1>1
<1>3. \A i \in 1..Len(r) : t[i] = r[i]
  BY <1>1
<1> HIDE DEF t
<1>4. t = r
  BY <1>1, <1>2, <1>3
<1> QED BY <1>1, <1>4 DEF t

\* Two deques put together have the messages of both, each once if the two
\* have none in common.
LEMMA ConcatDistinct ==
    ASSUME NEW s \in Seq(Item), NEW r \in Seq(Item)
    PROVE  /\ Messages(s \o r) = Messages(s) \cup Messages(r)
           /\ Distinct(s) /\ Distinct(r) /\ Messages(s) \cap Messages(r) = {}
                 => Distinct(s \o r)
<1>1. Messages(s \o r) \subseteq Messages(s) \cup Messages(r)
  BY ConcatAt DEF Messages
<1>2. Messages(s) \cup Messages(r) \subseteq Messages(s \o r)
  BY MessagesOfParts, 0 \in Nat
<1>3. ASSUME Distinct(s), Distinct(r), Messages(s) \cap Messages(r) = {},
             NEW i \in DOMAIN (s \o r), NEW j \in DOMAIN (s \o r),
             (s \o r)[i].msg = (s \o r)[j].msg
      PROVE  i = j
  <2>1. \A a \in DOMAIN s, b \in DOMAIN r : s[a].msg # r[b].msg
    BY <1>3 DEF Messages
  <2>2. Len(s) \in Nat /\ i \in Nat /\ j \in Nat
    OBVIOUS
  <2>3. CASE i \in DOMAIN s /\ (s \o r)[i] = s[i]
    <3>1. j \in DOMAIN s /\ (s \o r)[j] = s[j]
      BY <1>3, <2>1, <2>3, ConcatAt
    <3> QED BY <1>3, <2>3, <3>1 DEF Distinct
  <2>4. CASE i - Len(s) \in DOMAIN r /\ (s \o r)[i] = r[i - Len(s)]
    <3>1. j - Len(s) \in DOMAIN r /\ (s \o r)[j] = r[j - Len(s)]
      BY <1>3, <2>1, <2>4, ConcatAt
    <3>2. i - Len(s) = j - Len(s)
      BY <1>3, <2>4, <3>1 DEF Distinct
    <3> QED BY <2>2, <3>2
  <2> QED BY <2>3, <2>4, ConcatAt
<1> QED BY <1>1, <1>2, <1>3 DEF Distinct

\* Where the first items of a deque and the others stood.
LEMMA SplitAt ==
    ASSUME NEW S, NEW s \in Seq(S), NEW n \in Nat, NEW k, k = Least(n, Len(s))
    PROVE  /\ k \in Nat /\ k <= Len(s) /\ k <= n
           /\ DOMAIN FirstOf(s, n) = 1..k
           /\ \A i \in 1..k : i \in DOMAIN s /\ FirstOf(s, n)[i] = s[i]
           /\ DOMAIN RestOf(s, n) = 1..(Len(s) - k)
           /\ \A i \in 1..(Len(s) - k) : i + k \in DOMAIN s /\ RestOf(s, n)[i] = s[i + k]
<1>1. k \in Nat /\ k <= Len(s) /\ k <= n /\ Len(s) \in Nat
  BY DEF Least
<1>2. FirstOf(s, n) = SubSeq(s, 1, k) /\ RestOf(s, n) = SubSeq(s, k + 1, Len(s))
  BY DEF FirstOf, RestOf
<1>3. DOMAIN SubSeq(s, 1, k) = 1..k /\ \A i \in 1..k : SubSeq(s, 1, k)[i] = s[i]
  BY <1>1
<1>4. /\ DOMAIN SubSeq(s, k + 1, Len(s)) = 1..(Len(s) - k)
      /\ \A i \in 1..(Len(s) - k) : SubSeq(s, k + 1, Len(s))[i] = s[i + k]
  BY <1>1
<1>5. DOMAIN s = 1..Len(s)
  OBVIOUS
<1>6. \A i \in 1..k : i \in DOMAIN s
  BY <1>1, <1>5
<1>7. \A i \in 1..(Len(s) - k) : i + k \in DOMAIN s
  BY <1>1, <1>5
<1> QED BY <1>1, <1>2, <1>3, <1>4, <1>6, <1>7

\* A deque is its first items followed by the others.
LEMMA SplitConcat ==
    ASSUME NEW S, NEW s \in Seq(S), NEW n \in Nat
    PROVE  FirstOf(s, n) \o RestOf(s, n) = s
<1> DEFINE k == Least(n, Len(s))
<1>1. k \in Nat /\ k <= Len(s) /\ Len(s) \in Nat
  BY DEF Least
<1>2. FirstOf(s, n) = SubSeq(s, 1, k) /\ RestOf(s, n) = SubSeq(s, k + 1, Len(s))
  BY DEF FirstOf, RestOf
<1> HIDE DEF k
<1>3. SubSeq(s, 1, k) \in Seq(S) /\ SubSeq(s, k + 1, Len(s)) \in Seq(S)
  BY <1>1
<1>4. Len(SubSeq(s, 1, k)) = k /\ Len(SubSeq(s, k + 1, Len(s))) = Len(s) - k
  BY <1>1
<1> DEFINE a == SubSeq(s, 1, k)
           b == SubSeq(s, k + 1, Len(s))
<1>5. /\ \A i \in 1..k : a[i] = s[i]
      /\ \A i \in 1..(Len(s) - k) : b[i] = s[i + k]
  BY <1>1
<1> HIDE DEF a, b
<1>6. a \in Seq(S) /\ b \in Seq(S) /\ Len(a) = k /\ Len(b) = Len(s) - k
  BY <1>3, <1>4 DEF a, b
<1>7. a \o b \in Seq(S) /\ Len(a \o b) = Len(s)
  BY <1>1, <1>6
<1>8. ASSUME NEW i \in 1..Len(s) PROVE (a \o b)[i] = s[i]
  <2>1. CASE i <= k
    BY <1>1, <1>5, <1>6, <2>1
  <2>2. CASE i > k
    <3>1. i - k \in 1..(Len(s) - k) /\ (i - k) + k = i
      BY <1>1, <2>2
    <3>2. (a \o b)[i] = b[i - k]
      BY <1>1, <1>6, <2>2
    <3>3. b[i - k] = s[(i - k) + k]
      BY <1>5, <3>1
    <3> QED BY <3>1, <3>2, <3>3
  <2>3. i <= k \/ i > k
    BY <1>1
  <2> QED BY <2>1, <2>2, <2>3
<1> DEFINE t == a \o b
<1>9. t \in Seq(S) /\ Len(t) = Len(s) /\ \A i \in 1..Len(s) : t[i] = s[i]
  BY <1>7, <1>8
<1> HIDE DEF t
<1>10. t = s
  BY <1>9
<1> QED BY <1>2, <1>10 DEF a, b, t

\* Splitting a deque and putting two together keep the items.
LEMMA ElementsParts ==
    ASSUME NEW s \in Seq(Item), NEW r \in Seq(Item), NEW n \in Nat
    PROVE  /\ Elements(s \o r) \subseteq Elements(s) \cup Elements(r)
           /\ Elements(FirstOf(s, n)) \cup Elements(RestOf(s, n)) \subseteq Elements(s)
<1>1. Elements(s \o r) \subseteq Elements(s) \cup Elements(r)
  BY ConcatAt DEF Elements
<1> DEFINE k == Least(n, Len(s))
           f == FirstOf(s, n)
           g == RestOf(s, n)
<1>2. /\ k \in Nat /\ k <= Len(s) /\ k <= n
      /\ DOMAIN f = 1..k
      /\ \A i \in 1..k : i \in DOMAIN s /\ f[i] = s[i]
      /\ DOMAIN g = 1..(Len(s) - k)
      /\ \A i \in 1..(Len(s) - k) : i + k \in DOMAIN s /\ g[i] = s[i + k]
  BY SplitAt, Zenon
<1> HIDE DEF k, f, g
<1>3. ASSUME NEW i \in DOMAIN f PROVE f[i] \in Elements(s)
  BY <1>2 DEF Elements
<1>4. ASSUME NEW i \in DOMAIN g PROVE g[i] \in Elements(s)
  <2>1. i + k \in DOMAIN s /\ g[i] = s[i + k]
    BY <1>2
  <2> QED BY <2>1 DEF Elements
<1>5. Elements(f) \cup Elements(g) \subseteq Elements(s)
  BY <1>3, <1>4 DEF Elements
<1> QED BY <1>1, <1>5 DEF f, g

\* Splitting a deque that has every message once.
LEMMA SplitDistinct ==
    ASSUME NEW s \in Seq(Item), NEW n \in Nat, Distinct(s)
    PROVE  /\ Messages(FirstOf(s, n)) \cup Messages(RestOf(s, n)) \subseteq Messages(s)
           /\ Messages(FirstOf(s, n)) \cap Messages(RestOf(s, n)) = {}
           /\ Distinct(FirstOf(s, n)) /\ Distinct(RestOf(s, n))
<1> DEFINE k == Least(n, Len(s))
           f == FirstOf(s, n)
           r == RestOf(s, n)
<1>0. Len(s) \in Nat
  OBVIOUS
<1>1. /\ k \in Nat /\ k <= Len(s) /\ k <= n
      /\ DOMAIN f = 1..k
      /\ \A i \in 1..k : i \in DOMAIN s /\ f[i] = s[i]
      /\ DOMAIN r = 1..(Len(s) - k)
      /\ \A i \in 1..(Len(s) - k) : i + k \in DOMAIN s /\ r[i] = s[i + k]
  BY SplitAt, Zenon
<1> HIDE DEF k, f, r
<1>2. Messages(f) \cup Messages(r) \subseteq Messages(s)
  BY <1>0, <1>1 DEF Messages
<1>3. \A i \in DOMAIN f, j \in DOMAIN r : f[i].msg # r[j].msg
  <2> SUFFICES ASSUME NEW i \in DOMAIN f, NEW j \in DOMAIN r, f[i].msg = r[j].msg
               PROVE  FALSE
    OBVIOUS
  <2>1. i = j + k
    BY <1>0, <1>1 DEF Distinct
  <2> QED BY <1>0, <1>1, <2>1
<1>4. Messages(f) \cap Messages(r) = {}
  BY <1>3 DEF Messages
<1>5. Distinct(f)
  BY <1>0, <1>1 DEF Distinct
<1>6. Distinct(r)
  <2> SUFFICES ASSUME NEW i \in DOMAIN r, NEW j \in DOMAIN r, r[i].msg = r[j].msg
               PROVE  i = j
    BY DEF Distinct
  <2>1. /\ i \in Nat /\ j \in Nat /\ k \in Nat
        /\ i + k \in DOMAIN s /\ r[i] = s[i + k] /\ j + k \in DOMAIN s /\ r[j] = s[j + k]
    BY <1>0, <1>1
  <2>2. i + k = j + k
    BY <2>1 DEF Distinct
  <2> QED BY <2>1, <2>2
<1> QED BY <1>2, <1>4, <1>5, <1>6 DEF f, r

\* Putting items in flight adds their messages and no others, each once.
LEMMA DeliverDistinct ==
    ASSUME NEW f, NEW q, NEW items \in Seq(Item), NEW ids \in Seq(Nat), Len(items) = Len(ids),
           DistinctFlight(f), Distinct(items), Flying(f) \cap Messages(items) = {}
    PROVE  /\ Flying(Deliver(f, q, items, ids)) \subseteq Flying(f) \cup Messages(items)
           /\ DistinctFlight(Deliver(f, q, items, ids))
<1> DEFINE g == Deliver(f, q, items, ids)
<1>1. DOMAIN items = DOMAIN ids
  OBVIOUS
<1>2. \A t \in Elements(ids) : /\ Position(ids, t) \in DOMAIN items
                               /\ ids[Position(ids, t)] = t
                               /\ g[t].msg = items[Position(ids, t)].msg
  BY <1>1, PositionType DEF Deliver
<1>3. /\ DOMAIN g = DOMAIN f \cup Elements(ids)
      /\ \A t \in DOMAIN f : t \notin Elements(ids) => g[t] = f[t]
  BY DEF Deliver
<1> HIDE DEF g
<1>4. \A t \in Elements(ids) : g[t].msg \in Messages(items)
  BY <1>2 DEF Messages
<1>5. \A t \in DOMAIN f : t \notin Elements(ids) => g[t].msg \in Flying(f)
  BY <1>3 DEF Flying
<1>6. Flying(g) \subseteq Flying(f) \cup Messages(items)
  BY <1>3, <1>4, <1>5 DEF Flying
<1>7. ASSUME NEW t \in DOMAIN g, NEW u \in DOMAIN g, g[t].msg = g[u].msg
      PROVE  t = u
  <2>1. CASE t \in Elements(ids) /\ u \in Elements(ids)
    BY <1>2, <1>7, <2>1 DEF Distinct
  <2>2. CASE t \notin Elements(ids) /\ u \notin Elements(ids)
    BY <1>3, <1>7, <2>2 DEF DistinctFlight
  <2>3. CASE t \in Elements(ids) /\ u \notin Elements(ids)
    BY <1>3, <1>4, <1>5, <1>7, <2>3
  <2>4. CASE t \notin Elements(ids) /\ u \in Elements(ids)
    BY <1>3, <1>4, <1>5, <1>7, <2>4
  <2> QED BY <2>1, <2>2, <2>3, <2>4
<1> QED BY <1>6, <1>7 DEF DistinctFlight, g
-----------------------------------------------------------------------------
(***************************************************************************)
(* What the operations do to a state that holds every message once.        *)
(***************************************************************************)
\* The ids in flight have been drawn, and the queues of their tasks exist.
Sound(st, n) ==
    /\ IsState(st)
    /\ \A t \in DOMAIN st.in_flight : t < n /\ st.in_flight[t].queue \in DOMAIN st.queues

\* A state holds every message once.
Once(st) ==
    /\ \A q \in DOMAIN st.queues :
          /\ Distinct(st.queues[q])
          /\ Messages(st.queues[q]) \cap Flying(st.in_flight) = {}
          /\ \A r \in DOMAIN st.queues \ {q} : Messages(st.queues[q]) \cap Messages(st.queues[r]) = {}
    /\ DistinctFlight(st.in_flight)

\* The numbers of a list are all different.
Injective(s) == \A k, l \in DOMAIN s : s[k] = s[l] => k = l

\* The messages of a state are those of its maps.
LEMMA LiveParts ==
    ASSUME NEW f, NEW g
    PROVE  LET st == [queues |-> f, in_flight |-> g]
           IN  st.queues = f /\ st.in_flight = g /\ Live(st) = Pending(f) \cup Flying(g)
BY DEF Live

\* Messages that wait or fly are in the state.
LEMMA LiveIntro ==
    ASSUME NEW st
    PROVE  /\ \A q \in DOMAIN st.queues : Messages(st.queues[q]) \subseteq Live(st)
           /\ Flying(st.in_flight) \subseteq Live(st)
           /\ \A m \in Live(st) : \/ \E q \in DOMAIN st.queues : m \in Messages(st.queues[q])
                                  \/ m \in Flying(st.in_flight)
BY DEF Live, Pending

\* One queue q of st has changed, by messages of A, and messages of B have
\* joined those in flight; neither are in another queue.
Moves(st, f, g, q, A, B) ==
    /\ q \in DOMAIN f
    /\ \A x \in DOMAIN f : x # q => x \in DOMAIN st.queues /\ f[x] = st.queues[x]
    /\ Distinct(f[q]) /\ DistinctFlight(g) /\ Messages(f[q]) \cap Flying(g) = {}
    /\ \A m \in Messages(f[q]) : m \in A \/ (q \in DOMAIN st.queues /\ m \in Messages(st.queues[q]))
    /\ Flying(g) \subseteq Flying(st.in_flight) \cup B
    /\ \A x \in DOMAIN st.queues : x # q => Messages(st.queues[x]) \cap (A \cup B) = {}

\* Then the new state holds every message once.
LEMMA OnceStep ==
    ASSUME NEW st, Once(st), NEW f, NEW g, NEW q, NEW A, NEW B, Moves(st, f, g, q, A, B)
    PROVE  Once([queues |-> f, in_flight |-> g])
<1> USE DEF Moves
<1>1. ASSUME NEW x \in DOMAIN f
      PROVE  Distinct(f[x]) /\ Messages(f[x]) \cap Flying(g) = {}
  <2>1. CASE x = q
    BY <2>1
  <2>2. CASE x # q
    BY <2>2 DEF Once
  <2> QED BY <2>1, <2>2
<1>2. ASSUME NEW x \in DOMAIN f, NEW y \in DOMAIN f, x # y, y # q
      PROVE  Messages(f[x]) \cap Messages(f[y]) = {}
  <2>1. CASE x = q
    BY <1>2, <2>1 DEF Once
  <2>2. CASE x # q
    BY <1>2, <2>2 DEF Once
  <2> QED BY <2>1, <2>2
<1>3. \A x \in DOMAIN f : \A y \in DOMAIN f \ {x} : Messages(f[x]) \cap Messages(f[y]) = {}
  BY <1>2
<1> QED BY <1>1, <1>3, LiveParts DEF Once

\* The items made of the messages of an enqueue entry.
LEMMA FreshItems ==
    ASSUME NEW d \in Seq(Nat), NEW items, items = [i \in DOMAIN d |-> Fresh(d[i])]
    PROVE  /\ items \in Seq(Item) /\ Messages(items) = Elements(d)
           /\ Injective(d) => Distinct(items)
           /\ \A i \in DOMAIN items : items[i].attempts = 0
<1>1. DOMAIN d = 1..Len(d) /\ Len(d) \in Nat /\ \A i \in DOMAIN d : d[i] \in Nat
  OBVIOUS
<1>2. \A m \in Nat : Fresh(m) \in Item /\ Fresh(m).msg = m /\ Fresh(m).attempts = 0
  BY DEF Fresh, Item
<1>3. items \in Seq(Item)
  BY <1>1, <1>2
<1>4. DOMAIN items = DOMAIN d /\ \A i \in DOMAIN d : items[i].msg = d[i] /\ items[i].attempts = 0
  BY <1>1, <1>2
<1> QED BY <1>3, <1>4 DEF Messages, Elements, Distinct, Injective

\* The ids that a dequeue draws are new and all different.
LEMMA DrawnIds ==
    ASSUME NEW n \in Nat, NEW items \in Seq(Item), NEW ids,
           ids = [k \in DOMAIN items |-> n + k - 1]
    PROVE  /\ ids \in Seq(Nat) /\ Len(ids) = Len(items) /\ Len(ids) \in Nat /\ Injective(ids)
           /\ \A t \in Elements(ids) : n <= t /\ t < n + Len(ids)
<1>1. DOMAIN items = 1..Len(items) /\ Len(items) \in Nat
  OBVIOUS
<1>2. ids \in Seq(Nat) /\ Len(ids) = Len(items)
  BY <1>1
<1>3. \A k \in 1..Len(items) : ids[k] = n + k - 1
  BY <1>1
<1>4. Injective(ids)
  BY <1>1, <1>2, <1>3 DEF Injective
<1>5. ASSUME NEW k \in 1..Len(items) PROVE n <= ids[k] /\ ids[k] < n + Len(items)
  BY <1>1, <1>3
<1> QED BY <1>1, <1>2, <1>4, <1>5 DEF Elements

\* The map g is f with the item at one end of queue d, where old has been.
PutAt(f, g, item, d, old) ==
    /\ d \in DOMAIN f => old = f[d]
    /\ d \notin DOMAIN f => old = <<>>
    /\ d \in DOMAIN g
    /\ g[d] = old \o <<item>> \/ g[d] = <<item>> \o old
    /\ \A x \in DOMAIN g : x # d => x \in DOMAIN f /\ g[x] = f[x]

\* A nack puts the item at one end of the queue or of its dead letter queue.
LEMMA RequeueAt ==
    ASSUME NEW f, IsQueueMap(f), NEW q \in DOMAIN f, NEW item \in Item
    PROVE  \E d, old : old \in Seq(Item) /\ PutAt(f, Requeue(f, q, item), item, d, old)
<1>1. CASE item.attempts >= MaxAttempts
  <2> DEFINE d   == Dlq(q)
             old == IF d \in DOMAIN f THEN f[d] ELSE <<>>
             g   == Requeue(f, q, item)
  <2>1. old \in Seq(Item)
    BY DEF IsQueueMap, IsMap
  <2>2. g = Insert(f, d, Append(old, item))
    BY <1>1 DEF Requeue
  <2>3. (d \in DOMAIN f => old = f[d]) /\ (d \notin DOMAIN f => old = <<>>)
    OBVIOUS
  <2> HIDE DEF old, d, g
  <2>4. Append(old, item) = old \o <<item>>
    BY <2>1
  <2>5. /\ d \in DOMAIN g /\ g[d] = old \o <<item>>
        /\ \A x \in DOMAIN g : x # d => x \in DOMAIN f /\ g[x] = f[x]
    BY <2>2, <2>4 DEF Insert
  <2>6. PutAt(f, g, item, d, old)
    BY <2>3, <2>5 DEF PutAt
  <2> QED BY <2>1, <2>6 DEF g
<1>2. CASE ~(item.attempts >= MaxAttempts)
  <2> DEFINE g == Requeue(f, q, item)
  <2>1. g = PushFront(f, q, <<item>>)
    BY <1>2 DEF Requeue
  <2>2. f[q] \in Seq(Item)
    BY DEF IsQueueMap, IsMap
  <2> HIDE DEF g
  <2>3. /\ q \in DOMAIN g /\ g[q] = <<item>> \o f[q]
        /\ \A x \in DOMAIN g : x # q => x \in DOMAIN f /\ g[x] = f[x]
    BY <2>1 DEF PushFront
  <2>4. PutAt(f, g, item, q, f[q])
    BY <2>3 DEF PutAt
  <2> QED BY <2>2, <2>4 DEF g
<1> QED BY <1>1, <1>2

\* The state nt holds what st holds, without the messages of R and with those of
\* A, each of them once; it has the queues of st, and its ids are below n.
Keeps(st, nt, n, A, R) ==
    /\ Sound(nt, n) /\ Once(nt)
    /\ DOMAIN st.queues \subseteq DOMAIN nt.queues
    /\ A \subseteq Live(nt) /\ Live(st) \subseteq Live(nt) \cup R
    /\ Live(nt) \subseteq (Live(st) \ R) \cup A

\* No change.
LEMMA KeepsSame ==
    ASSUME NEW st, NEW n, Sound(st, n), Once(st)
    PROVE  Keeps(st, st, n, {}, {})
BY DEF Keeps

\* A queue is created under a new name.
LEMMA KeepsCreate ==
    ASSUME NEW st, NEW n, Sound(st, n), Once(st), NEW q \in Name, q \notin DOMAIN st.queues
    PROVE  Keeps(st, [queues |-> Insert(st.queues, q, <<>>), in_flight |-> st.in_flight], n, {}, {})
<1> DEFINE f  == Insert(st.queues, q, <<>>)
           nt == [queues |-> f, in_flight |-> st.in_flight]
<1>1. IsQueueMap(st.queues) /\ IsFlightMap(st.in_flight)
  BY DEF Sound, IsState
<1>2. IsQueueMap(f)
  BY <1>1, <<>> \in Seq(Item), InsertMap DEF IsQueueMap
<1>3. /\ DOMAIN f = DOMAIN st.queues \cup {q} /\ f[q] = <<>>
      /\ \A x \in DOMAIN f : x # q => x \in DOMAIN st.queues /\ f[x] = st.queues[x]
  BY DEF Insert
<1>4. Messages(<<>>) = {} /\ Distinct(<<>>)
  BY DEF Messages, Distinct
<1> HIDE DEF f
<1>5. Once(nt)
  <2>1. DistinctFlight(st.in_flight)
    BY DEF Once
  <2>2. Moves(st, f, st.in_flight, q, {}, {})
    BY <1>3, <1>4, <2>1 DEF Moves
  <2> QED BY <2>1, <2>2, OnceStep
<1>6. Pending(f) = Pending(st.queues)
  BY <1>3, <1>4 DEF Pending
<1>7. nt.queues = f /\ nt.in_flight = st.in_flight /\ Live(nt) = Live(st)
  BY <1>6 DEF Live
<1>8. Sound(nt, n)
  BY <1>1, <1>2, <1>3, <1>7 DEF Sound, IsState
<1> HIDE DEF nt
<1>9. Keeps(st, nt, n, {}, {})
  BY <1>3, <1>5, <1>7, <1>8 DEF Keeps
<1> QED BY <1>9 DEF nt, f

\* New messages are put at the end of a queue.
LEMMA KeepsEnqueue ==
    ASSUME NEW st, NEW n, Sound(st, n), Once(st), NEW q \in DOMAIN st.queues,
           NEW items \in Seq(Item), Distinct(items), Messages(items) \cap Live(st) = {}
    PROVE  Keeps(st, [queues |-> PushBack(st.queues, q, items), in_flight |-> st.in_flight], n,
                 Messages(items), {})
<1> DEFINE f  == PushBack(st.queues, q, items)
           nt == [queues |-> f, in_flight |-> st.in_flight]
<1>1. IsQueueMap(st.queues) /\ IsFlightMap(st.in_flight) /\ q \in Name
  BY DEF Sound, IsState, IsQueueMap, IsMap
<1>2. st.queues[q] \in Seq(Item)
  BY <1>1 DEF IsQueueMap, IsMap
<1>3. /\ DOMAIN f = DOMAIN st.queues /\ f[q] = st.queues[q] \o items
      /\ \A x \in DOMAIN f : x # q => x \in DOMAIN st.queues /\ f[x] = st.queues[x]
  BY DEF PushBack
<1>4. IsQueueMap(f) /\ Pending(st.queues) \cup Messages(items) \subseteq Pending(f)
  BY <1>1, PushMap, PendingPush, 0 \in Nat
<1> HIDE DEF f
<1>5. DistinctFlight(st.in_flight) /\ Distinct(st.queues[q])
  BY DEF Once
<1>6. Messages(st.queues[q]) \subseteq Live(st)
  BY LiveIntro
<1>7. Messages(f[q]) = Messages(st.queues[q]) \cup Messages(items) /\ Distinct(f[q])
  BY <1>2, <1>3, <1>5, <1>6, ConcatDistinct
<1>8. Moves(st, f, st.in_flight, q, Messages(items), {})
  <2>1. Messages(f[q]) \cap Flying(st.in_flight) = {}
    BY <1>7, LiveIntro DEF Once
  <2>2. \A x \in DOMAIN st.queues : x # q => Messages(st.queues[x]) \cap (Messages(items) \cup {}) = {}
    BY LiveIntro
  <2> QED BY <1>3, <1>5, <1>7, <2>1, <2>2 DEF Moves
<1>9. Once(nt)
  BY <1>8, OnceStep
<1>10. Pending(f) \subseteq Pending(st.queues) \cup Messages(items)
  <2> SUFFICES ASSUME NEW x \in DOMAIN f, NEW m \in Messages(f[x])
               PROVE  m \in Pending(st.queues) \cup Messages(items)
    BY DEF Pending
  <2>1. CASE x = q
    BY <1>7, <2>1 DEF Pending
  <2>2. CASE x # q
    BY <1>3, <2>2 DEF Pending
  <2> QED BY <2>1, <2>2
<1>11. nt.queues = f /\ nt.in_flight = st.in_flight /\ Live(nt) = Live(st) \cup Messages(items)
  BY <1>4, <1>10 DEF Live
<1>12. Sound(nt, n)
  BY <1>1, <1>3, <1>4, <1>11 DEF Sound, IsState
<1> HIDE DEF nt
<1>13. Keeps(st, nt, n, Messages(items), {})
  BY <1>3, <1>9, <1>11, <1>12 DEF Keeps
<1> QED BY <1>13 DEF nt, f

\* The first items of a queue are put in flight under new ids.
LEMMA KeepsDequeue ==
    ASSUME NEW st, NEW n \in Nat, Sound(st, n), Once(st), NEW q \in DOMAIN st.queues, NEW k \in Nat,
           NEW items, items = FirstOf(st.queues[q], k),
           NEW ids \in Seq(Nat), Len(ids) = Len(items), Injective(ids),
           NEW m \in Nat, n <= m, \A t \in Elements(ids) : t < m /\ t \notin DOMAIN st.in_flight
    PROVE  Keeps(st, [queues    |-> PopFront(st.queues, q, k),
                      in_flight |-> Deliver(st.in_flight, q, items, ids)], m, {}, {})
<1> DEFINE f  == PopFront(st.queues, q, k)
           g  == Deliver(st.in_flight, q, items, ids)
           nt == [queues |-> f, in_flight |-> g]
<1>1. IsQueueMap(st.queues) /\ IsFlightMap(st.in_flight) /\ q \in Name
  BY DEF Sound, IsState, IsQueueMap, IsMap
<1>2. st.queues[q] \in Seq(Item)
  BY <1>1 DEF IsQueueMap, IsMap
<1>3. items \in Seq(Item)
  BY <1>2, SplitType
<1>4. \A i, j \in DOMAIN ids : ids[i] = ids[j] => i = j
  BY DEF Injective
<1>5. \A t \in DOMAIN st.in_flight : t \in Nat /\ t < n /\ st.in_flight[t].queue \in DOMAIN st.queues
  BY <1>1 DEF Sound, IsFlightMap, IsMap
<1>6. /\ DOMAIN f = DOMAIN st.queues /\ f[q] = RestOf(st.queues[q], k)
      /\ \A x \in DOMAIN f : x # q => x \in DOMAIN st.queues /\ f[x] = st.queues[x]
  BY DEF PopFront
<1>7. IsQueueMap(f) /\ Pending(st.queues) \subseteq Pending(f) \cup Messages(items)
  BY <1>1, <1>3, PushMap, PendingPush
<1>8. IsFlightMap(g)
  BY <1>1, <1>3, DeliverMap
<1>9. Flying(st.in_flight) \cup Messages(items) \subseteq Flying(g)
  BY <1>3, <1>4, FlyingDeliver
<1>10. DistinctFlight(st.in_flight) /\ Distinct(st.queues[q])
  BY DEF Once
<1>11. /\ Messages(items) \cup Messages(f[q]) \subseteq Messages(st.queues[q])
       /\ Messages(items) \cap Messages(f[q]) = {} /\ Distinct(items) /\ Distinct(f[q])
  BY <1>2, <1>6, <1>10, SplitDistinct
<1>12. Messages(st.queues[q]) \cap Flying(st.in_flight) = {}
  BY DEF Once
<1>13. Flying(g) \subseteq Flying(st.in_flight) \cup Messages(items) /\ DistinctFlight(g)
  <2>1. Distinct(items) /\ Flying(st.in_flight) \cap Messages(items) = {}
    BY <1>11, <1>12
  <2> QED BY <1>3, <1>10, <2>1, DeliverDistinct
<1>14. \A t \in DOMAIN g : t < m /\ g[t].queue \in DOMAIN st.queues
  <2> SUFFICES ASSUME NEW t \in DOMAIN g PROVE t < m /\ g[t].queue \in DOMAIN st.queues
    OBVIOUS
  <2>1. CASE t \in Elements(ids)
    BY <2>1 DEF Deliver
  <2>2. CASE t \notin Elements(ids)
    <3>1. t \in DOMAIN st.in_flight /\ g[t] = st.in_flight[t]
      BY <2>2 DEF Deliver
    <3> QED BY <1>5, <3>1
  <2> QED BY <2>1, <2>2
<1> HIDE DEF f, g
<1>15. Moves(st, f, g, q, {}, Messages(items))
  <2>1. Messages(f[q]) \cap Flying(g) = {}
    BY <1>11, <1>12, <1>13
  <2>2. \A x \in DOMAIN st.queues : x # q => Messages(st.queues[x]) \cap ({} \cup Messages(items)) = {}
    BY <1>11 DEF Once
  <2> QED BY <1>6, <1>11, <1>13, <2>1, <2>2 DEF Moves
<1>16. Once(nt)
  BY <1>15, OnceStep
<1>17. Pending(f) \subseteq Pending(st.queues)
  <2> SUFFICES ASSUME NEW x \in DOMAIN f, NEW y \in Messages(f[x]) PROVE y \in Pending(st.queues)
    BY DEF Pending
  <2>1. CASE x = q
    BY <1>11, <2>1 DEF Pending
  <2>2. CASE x # q
    BY <1>6, <2>2 DEF Pending
  <2> QED BY <2>1, <2>2
<1>18. Messages(items) \subseteq Pending(st.queues)
  BY <1>11 DEF Pending
<1>19. nt.queues = f /\ nt.in_flight = g /\ Live(nt) = Live(st)
  BY <1>7, <1>9, <1>13, <1>17, <1>18 DEF Live
<1>20. Sound(nt, m)
  BY <1>6, <1>7, <1>8, <1>14, <1>19 DEF Sound, IsState
<1>21. Keeps(st, nt, m, {}, {})
  <2> HIDE DEF nt
  <2> QED BY <1>6, <1>16, <1>19, <1>20 DEF Keeps
<1> QED BY <1>21 DEF f, g

\* Tasks that are in flight are removed.
LEMMA KeepsAck ==
    ASSUME NEW st, NEW n, Sound(st, n), Once(st), NEW S, S \subseteq DOMAIN st.in_flight
    PROVE  Keeps(st, [queues |-> st.queues, in_flight |-> Without(st.in_flight, S)], n,
                 {}, {st.in_flight[t].msg : t \in S})
<1> DEFINE g  == Without(st.in_flight, S)
           nt == [queues |-> st.queues, in_flight |-> g]
           R  == {st.in_flight[t].msg : t \in S}
<1>1. IsQueueMap(st.queues) /\ IsFlightMap(st.in_flight)
  BY DEF Sound, IsState
<1>2. IsFlightMap(g)
  BY <1>1, WithoutMap DEF IsFlightMap
<1>3. /\ DOMAIN g = DOMAIN st.in_flight \ S
      /\ \A t \in DOMAIN g : t \in DOMAIN st.in_flight /\ g[t] = st.in_flight[t]
  BY DEF Without
<1> HIDE DEF g
<1>4. Flying(g) \subseteq Flying(st.in_flight) /\ Flying(st.in_flight) \subseteq Flying(g) \cup R
  BY <1>3 DEF Flying
<1>5. DistinctFlight(st.in_flight)
  BY DEF Once
<1>6. Flying(g) \cap R = {}
  BY <1>3, <1>5 DEF Flying, DistinctFlight
<1>7. R \subseteq Flying(st.in_flight)
  BY DEF Flying
<1>8. Pending(st.queues) \cap R = {}
  BY <1>7 DEF Pending, Once
<1>9. nt.queues = st.queues /\ nt.in_flight = g
  OBVIOUS
<1>10. DistinctFlight(g)
  BY <1>3, <1>5 DEF DistinctFlight
<1> HIDE DEF R
<1>11. Once(nt)
  BY <1>4, <1>9, <1>10 DEF Once
<1>12. Live(nt) \subseteq Live(st) \ R /\ Live(st) \subseteq Live(nt) \cup R
  BY <1>4, <1>6, <1>8, <1>9 DEF Live
<1>13. Sound(nt, n)
  BY <1>1, <1>2, <1>3, <1>9 DEF Sound, IsState
<1> HIDE DEF nt
<1>14. Keeps(st, nt, n, {}, R)
  BY <1>9, <1>11, <1>12, <1>13 DEF Keeps
<1> QED BY <1>14 DEF nt, g, R

\* A task in flight fails.
LEMMA KeepsNack ==
    ASSUME NEW st, NEW n, Sound(st, n), Once(st), NEW t \in DOMAIN st.in_flight,
           NEW q, q = st.in_flight[t].queue,
           NEW item, item = [msg |-> st.in_flight[t].msg, attempts |-> st.in_flight[t].attempts]
    PROVE  /\ Keeps(st, [queues    |-> Requeue(st.queues, q, item),
                         in_flight |-> Without(st.in_flight, {t})], n, {}, {})
           /\ \A x \in DOMAIN Requeue(st.queues, q, item) : x \in DOMAIN st.queues \/ x[2] # 0
<1> DEFINE f    == Requeue(st.queues, q, item)
           g    == Without(st.in_flight, {t})
           nt   == [queues |-> f, in_flight |-> g]
<1>1. IsQueueMap(st.queues) /\ IsFlightMap(st.in_flight)
  BY DEF Sound, IsState
<1>3. st.in_flight[t] \in Task /\ q \in DOMAIN st.queues
  BY <1>1 DEF Sound, IsFlightMap, IsMap
<1>4. item \in Item /\ q \in Name /\ item.msg = st.in_flight[t].msg
  BY <1>3 DEF Task, Item
<1> DEFINE m == st.in_flight[t].msg
<1>5. Dlq(q)[2] # 0
  BY <1>4 DEF Dlq, Name
<1>6. /\ IsQueueMap(f) /\ Pending(st.queues) \cup {m} \subseteq Pending(f)
      /\ DOMAIN st.queues \subseteq DOMAIN f /\ DOMAIN f \subseteq DOMAIN st.queues \cup {Dlq(q)}
  BY <1>1, <1>3, <1>4, RequeueMap, PendingRequeue
<1>7. IsFlightMap(g)
  BY <1>1, WithoutMap DEF IsFlightMap
<1>8. /\ DOMAIN g = DOMAIN st.in_flight \ {t}
      /\ \A u \in DOMAIN g : u \in DOMAIN st.in_flight /\ g[u] = st.in_flight[u]
  BY DEF Without
<1>9. DistinctFlight(st.in_flight)
  BY DEF Once
<1>10. /\ Flying(g) \subseteq Flying(st.in_flight) /\ m \in Flying(st.in_flight)
       /\ Flying(st.in_flight) \subseteq Flying(g) \cup {m}
  <2> HIDE DEF g
  <2>1. Flying(g) \subseteq Flying(st.in_flight)
    BY <1>8 DEF Flying
  <2>2. Flying(st.in_flight) \subseteq Flying(g) \cup {m}
    BY <1>8 DEF Flying
  <2> QED BY <2>1, <2>2 DEF Flying
<1>11. m \notin Flying(g) /\ DistinctFlight(g)
  BY <1>8, <1>9 DEF Flying, DistinctFlight
<1>12. \A x \in DOMAIN st.queues : m \notin Messages(st.queues[x])
  BY <1>9, <1>10 DEF Once
<1>13. PICK d, old : old \in Seq(Item) /\ PutAt(st.queues, f, item, d, old)
  BY <1>1, <1>3, <1>4, RequeueAt
<1>14. /\ d \in DOMAIN st.queues => old = st.queues[d]
       /\ d \notin DOMAIN st.queues => old = <<>>
       /\ d \in DOMAIN f
       /\ f[d] = old \o <<item>> \/ f[d] = <<item>> \o old
       /\ \A x \in DOMAIN f : x # d => x \in DOMAIN st.queues /\ f[x] = st.queues[x]
  BY <1>13 DEF PutAt
<1> HIDE DEF f, g
<1>15. /\ Distinct(old) /\ m \notin Messages(old)
       /\ \A x \in Messages(old) : d \in DOMAIN st.queues /\ x \in Messages(st.queues[d])
  <2>1. CASE d \in DOMAIN st.queues
    BY <1>9, <1>12, <1>14, <2>1 DEF Once
  <2>2. CASE d \notin DOMAIN st.queues
    <3>1. old = <<>>
      BY <1>14, <2>2
    <3> QED BY <3>1 DEF Distinct, Messages
  <2> QED BY <2>1, <2>2
<1>16. <<item>> \in Seq(Item) /\ Messages(<<item>>) = {m} /\ Distinct(<<item>>)
  BY <1>4 DEF Messages, Distinct
<1>17. Messages(f[d]) = Messages(old) \cup {m} /\ Distinct(f[d])
  <2>1. Messages(old) \cap Messages(<<item>>) = {} /\ Messages(<<item>>) \cap Messages(old) = {}
    BY <1>15, <1>16
  <2>2. old \in Seq(Item)
    BY <1>13
  <2>3. CASE f[d] = old \o <<item>>
    BY <1>15, <1>16, <2>1, <2>2, <2>3, ConcatDistinct
  <2>4. CASE f[d] = <<item>> \o old
    <3>1. /\ Messages(<<item>> \o old) = Messages(<<item>>) \cup Messages(old)
          /\ Distinct(<<item>> \o old)
      BY <1>15, <1>16, <2>1, <2>2, ConcatDistinct
    <3> QED BY <1>16, <2>4, <3>1
  <2> QED BY <1>14, <2>3, <2>4
<1>18. Moves(st, f, g, d, {m}, {})
  <2>1. Messages(f[d]) \cap Flying(g) = {}
    BY <1>9, <1>10, <1>11, <1>17, <1>15 DEF Once
  <2>2. \A x \in DOMAIN st.queues : x # d => Messages(st.queues[x]) \cap ({m} \cup {}) = {}
    BY <1>12
  <2> QED BY <1>10, <1>11, <1>14, <1>17, <1>15, <2>1, <2>2 DEF Moves
<1>19. Once(nt)
  BY <1>9, <1>18, OnceStep
<1>20. Pending(f) \subseteq Pending(st.queues) \cup {m}
  <2> SUFFICES ASSUME NEW x \in DOMAIN f, NEW y \in Messages(f[x])
               PROVE  y \in Pending(st.queues) \cup {m}
    BY DEF Pending
  <2>1. CASE x = d
    BY <1>17, <1>15, <2>1 DEF Pending
  <2>2. CASE x # d
    BY <1>14, <2>2 DEF Pending
  <2> QED BY <2>1, <2>2
<1>21. nt.queues = f /\ nt.in_flight = g /\ Live(nt) = Live(st)
  BY <1>6, <1>10, <1>20 DEF Live
<1>22. Sound(nt, n)
  BY <1>6, <1>7, <1>8, <1>21 DEF Sound, IsState
<1>23. \A x \in DOMAIN f : x \in DOMAIN st.queues \/ x[2] # 0
  BY <1>5, <1>6
<1> HIDE DEF nt
<1>24. Keeps(st, nt, n, {}, {})
  BY <1>6, <1>19, <1>21, <1>22 DEF Keeps
<1> QED BY <1>23, <1>24 DEF nt, f, g
=============================================================================
