------------------------ MODULE MemoryStorageProofs -------------------------
(***************************************************************************)
(* Proofs about MemoryStorage for any number of clients, sweepers, queues, *)
(* messages and task ids.                                                  *)
(***************************************************************************)
EXTENDS MemoryStorage, StorageLemmas

USE MemoryStorageAssumption
-----------------------------------------------------------------------------
(***************************************************************************)
(* Type correctness.                                                       *)
(***************************************************************************)
\* A step that gives actor c the request r and takes back no delivery keeps
\* the requests well formed.
LEMMA HandlerStep ==
    ASSUME TypeOK, NEW c \in Actors, NEW r \in Handler, HandlerOK(r, DOMAIN delivered'),
           h' = [h EXCEPT ![c] = r], DOMAIN delivered \subseteq DOMAIN delivered'
    PROVE  h' \in [Actors -> Handler] /\ \A d \in Actors : HandlerOK(h'[d], DOMAIN delivered')
BY DEF TypeOK, HandlerOK

\* The idle request is well formed.
LEMMA IdleOK == Idle \in Handler /\ \A known : HandlerOK(Idle, known)
BY DEF Idle, Handler, HandlerOK, Ops, NoName

\* The entry of a request in progress can be appended.
LEMMA EntryFile ==
    ASSUME TypeOK, NEW c \in Actors
    PROVE  /\ IsWalFile(WalAppend(disk, Entry(h[c])))
           /\ \A f \in TornAppends(disk, Entry(h[c])) : IsWalFile(f)
<1>1. /\ h[c].items \in Seq(Item) /\ h[c].ids \in Seq(Nat) /\ IsWalFile(disk)
      /\ h[c].op \in {"create_queue", "queue", "dequeue"} => h[c].q \in Name
  BY DEF TypeOK, HandlerOK, Handler
<1> QED BY <1>1, AppendFile DEF Entry

\* New messages and new ids are well formed.
LEMMA NewType ==
    ASSUME TypeOK, NEW n \in Nat
    PROVE  /\ NewItems(n) \in Seq(Item) /\ Len(NewItems(n)) = n
           /\ NewIds(n) \in Seq(Nat) /\ Len(NewIds(n)) = n
<1>1. \A i \in 1..n : Fresh(nextMsg + i - 1) \in Item /\ nextId + i - 1 \in Nat
  BY DEF TypeOK, Fresh, Item
<1> QED BY <1>1 DEF NewItems, NewIds

\* Taking a task out of flight.
LEMMA TakeTaskType ==
    ASSUME TypeOK, NEW c \in Actors, NEW op \in {"ack", "nack"}, NEW t, TakeTask(c, op, t),
           op = "ack" => t \in DOMAIN delivered
    PROVE  /\ IsFlightMap(in_flight')
           /\ h' \in [Actors -> Handler] /\ \A d \in Actors : HandlerOK(h'[d], DOMAIN delivered')
<1> DEFINE task == in_flight[t]
           r == [op |-> op, at |-> "log", q |-> task.queue,
                 items |-> <<[msg |-> task.msg, attempts |-> task.attempts]>>, ids |-> <<t>>]
<1>1. t \in Nat /\ task \in Task
  BY DEF TypeOK, TakeTask, IsFlightMap, IsMap
<1>2. task.queue \in Name /\ [msg |-> task.msg, attempts |-> task.attempts] \in Item
  BY <1>1 DEF Task, Item
<1>4. h' = [h EXCEPT ![c] = r] /\ delivered' = delivered
  BY DEF TakeTask, Begin
<1>6. Elements(<<t>>) = {t}
  BY DEF Elements
<1>3. r \in Handler /\ HandlerOK(r, DOMAIN delivered')
  BY <1>1, <1>2, <1>4, <1>6 DEF Handler, HandlerOK, Ops
<1>5. IsFlightMap(in_flight')
  BY WithoutMap DEF TypeOK, TakeTask, IsFlightMap
<1> HIDE DEF r
<1> QED BY <1>3, <1>4, <1>5, HandlerStep

\* The initial state is well formed.
LEMMA TypeInit == Init => TypeOK
<1> SUFFICES ASSUME Init PROVE TypeOK
  OBVIOUS
<1>1. IsQueueMap(queues) /\ IsFlightMap(in_flight) /\ IsWalFile(disk)
  BY DEF Init, Empty, NoWal, IsWalFile, IsState, IsQueueMap, IsFlightMap, IsMap, Tails
<1>2. IsMap(delivered, Nat, Delivery)
  BY DEF Init, IsMap
<1> QED BY <1>1, <1>2, IdleOK DEF Init, TypeOK

\* Every request of a client keeps the state well formed.
LEMMA TypeRequest ==
    ASSUME TypeOK, NEW c \in Clients, Request(c)
    PROVE  TypeOK'
<1> c \in Actors
  BY DEF Actors
<1>1. ASSUME NEW q \in CreateNames, CreateQueue(c, q)
      PROVE  TypeOK'
  <2> DEFINE r == [op |-> "create_queue", at |-> "log", q |-> q, items |-> <<>>, ids |-> <<>>]
  <2>1. r \in Handler /\ HandlerOK(r, DOMAIN delivered')
    BY DEF Handler, HandlerOK, Ops
  <2>2. h' = [h EXCEPT ![c] = r]
    BY <1>1 DEF CreateQueue, Begin
  <2> HIDE DEF r
  <2> QED BY <1>1, <2>1, <2>2, HandlerStep DEF CreateQueue, TypeOK, mem, history
<1>2. ASSUME NEW q \in ReqNames, NEW n \in 1..MaxBatch, Queue(c, q, n)
      PROVE  TypeOK'
  <2> DEFINE r == [op |-> "queue", at |-> "log", q |-> q, items |-> NewItems(n), ids |-> <<>>]
  <2>1. r \in Handler /\ HandlerOK(r, DOMAIN delivered')
    BY NewType DEF Handler, HandlerOK, Ops
  <2>2. h' = [h EXCEPT ![c] = r] /\ nextMsg' \in Nat
    BY <1>2 DEF Queue, Begin, TypeOK
  <2> HIDE DEF r
  <2> QED BY <1>2, <2>1, <2>2, HandlerStep DEF Queue, TypeOK, mem, history
<1>3. ASSUME NEW q \in ReqNames, NEW n \in 1..MaxBatch, Dequeue(c, q, n)
      PROVE  TypeOK'
  <2> DEFINE items == FirstOf(queues[q], n)
             r == [op |-> "dequeue", at |-> "log", q |-> q,
                   items |-> items, ids |-> NewIds(Len(items))]
  <2>1. queues[q] \in Seq(Item) /\ q \in Name /\ n \in Nat
    BY <1>3 DEF Dequeue, TypeOK, IsQueueMap, IsMap
  <2>2. items \in Seq(Item) /\ Len(items) \in Nat
    BY <2>1, SplitType
  <2>3. r \in Handler /\ HandlerOK(r, DOMAIN delivered')
    BY <2>1, <2>2, NewType DEF Handler, HandlerOK, Ops
  <2>4. h' = [h EXCEPT ![c] = r] /\ nextId' \in Nat
    BY <1>3, <2>2 DEF Dequeue, Begin, TypeOK
  <2>5. IsQueueMap(queues')
    BY <1>3, <2>1, PushMap, <<>> \in Seq(Item) DEF Dequeue, TypeOK
  <2> HIDE DEF r
  <2> QED BY <1>3, <2>3, <2>4, <2>5, HandlerStep DEF Dequeue, TypeOK, history
<1>4. ASSUME NEW t \in KnownIds, Ack(c, t) \/ Nack(c, t)
      PROVE  TypeOK'
  <2>1. PICK op \in {"ack", "nack"} : TakeTask(c, op, t)
    BY <1>4 DEF Ack, Nack
  <2>2. due' \subseteq Nat /\ todo' = todo /\ t \in DOMAIN delivered
    BY <1>4 DEF Ack, Nack, TypeOK, KnownIds
  <2> QED BY <2>1, <2>2, TakeTaskType DEF TakeTask, TypeOK
<1>5. ASSUME NEW t \in KnownIds, ExtendVisibility(c, t)
      PROVE  TypeOK'
  <2> DEFINE r == [op |-> "extend", at |-> "log", q |-> in_flight[t].queue,
                   items |-> <<>>, ids |-> <<t>>]
  <2>1. t \in Nat /\ in_flight[t].queue \in Name
    BY <1>5 DEF ExtendVisibility, TypeOK, IsFlightMap, IsMap, Task
  <2>2. r \in Handler /\ HandlerOK(r, DOMAIN delivered')
    BY <2>1 DEF Handler, HandlerOK, Ops
  <2>3. h' = [h EXCEPT ![c] = r]
    BY <1>5 DEF ExtendVisibility, Begin
  <2> HIDE DEF r
  <2> QED BY <1>5, <2>2, <2>3, HandlerStep DEF ExtendVisibility, TypeOK, mem, history
<1>6. ASSUME NEW ids \in IdLists, AckBatch(c, ids)
      PROVE  TypeOK'
  <2> DEFINE r == [op |-> "ack_batch", at |-> "log", q |-> NoName, items |-> <<>>, ids |-> ids]
  <2>1. PICK n \in 1..MaxBatch : ids \in [1..n -> KnownIds]
    BY DEF IdLists
  <2>2. KnownIds \subseteq Nat /\ KnownIds \subseteq DOMAIN delivered
    BY DEF KnownIds, TypeOK, IsFlightMap, IsMap
  <2>3. n \in Nat /\ \A i \in 1..n : ids[i] \in Nat
    <3>1. \A i \in 1..n : ids[i] \in KnownIds
      BY <2>1
    <3>2. n \in Nat
      OBVIOUS
    <3> QED BY <2>2, <3>1, <3>2
  <2>4. ids \in Seq(Nat)
    BY <2>1, <2>3
  <2>5. Elements(ids) \subseteq DOMAIN delivered
    BY <2>1, <2>2 DEF Elements
  <2>6. r \in Handler /\ HandlerOK(r, DOMAIN delivered')
    BY <1>6, <2>4, <2>5 DEF AckBatch, Handler, HandlerOK, Ops, history
  <2>7. h' = [h EXCEPT ![c] = r]
    BY <1>6 DEF AckBatch, Begin
  <2> HIDE DEF r
  <2> QED BY <1>6, <2>6, <2>7, HandlerStep DEF AckBatch, TypeOK, mem, history
<1>7. CASE Disconnect(c)
  <2>1. h' = [h EXCEPT ![c] = Idle] /\ IsWalFile(disk')
    BY <1>7, EntryFile DEF Disconnect, TypeOK
  <2> QED BY <1>7, <2>1, IdleOK, HandlerStep DEF Disconnect, TypeOK, mem, history
<1> QED BY <1>1, <1>2, <1>3, <1>4, <1>5, <1>6, <1>7 DEF Request

\* Every step of the cleanup loop keeps the state well formed.
LEMMA TypeCleanup ==
    ASSUME TypeOK, NEW c \in Sweepers, Cleanup(c)
    PROVE  TypeOK'
<1> c \in Actors
  BY DEF Actors
<1>1. ASSUME NEW S \in SUBSET DOMAIN in_flight, Scan(c, S)
      PROVE  TypeOK'
  <2>1. S \subseteq Nat
    BY DEF TypeOK, IsFlightMap, IsMap
  <2> QED BY <1>1, <2>1 DEF Scan, TypeOK, mem, history
<1>2. ASSUME NEW t \in todo[c], CleanupNack(c, t)
      PROVE  TypeOK'
  <2>1. todo' \in [Actors -> SUBSET Nat]
    BY <1>2 DEF CleanupNack, TypeOK
  <2>2. CASE TakeTask(c, "nack", t) /\ UNCHANGED due
    BY <2>1, <2>2, TakeTaskType DEF TakeTask, TypeOK
  <2>3. CASE UNCHANGED <<mem, disk, h, nextMsg, nextId, crashes, history>>
    BY <2>1, <2>3 DEF TypeOK, mem, history
  <2> QED BY <1>2, <2>2, <2>3 DEF CleanupNack
<1> QED BY <1>1, <1>2 DEF Cleanup

\* Every later stage of a request keeps the state well formed.
LEMMA TypeProceed ==
    ASSUME TypeOK, NEW c \in Actors, Proceed(c)
    PROVE  TypeOK'
<1> DEFINE r == h[c]
<1>r. /\ r \in Handler /\ HandlerOK(r, DOMAIN delivered)
      /\ r.items \in Seq(Item) /\ r.ids \in Seq(Nat)
  BY DEF TypeOK, Handler
<1>i. ASSUME h' = [h EXCEPT ![c] = Idle], DOMAIN delivered \subseteq DOMAIN delivered'
      PROVE  h' \in [Actors -> Handler] /\ \A d \in Actors : HandlerOK(h'[d], DOMAIN delivered')
  BY <1>i, IdleOK, HandlerStep
<1>0. ReceivedAs(r.ids) \subseteq Nat \/ r.op # "ack_batch"
  BY <1>r DEF HandlerOK, ReceivedAs, TypeOK, IsMap, Delivery
<1>1. CASE Log(c)
  <2> DEFINE s == [r EXCEPT !.at = "apply"]
  <2>1. s \in Handler /\ HandlerOK(s, DOMAIN delivered')
    BY <1>1, <1>r DEF Log, Handler, HandlerOK, Idle
  <2>2. h' = [h EXCEPT ![c] = s]
    BY <1>1 DEF Log, TypeOK
  <2>3. IsWalFile(disk')
    BY <1>1, EntryFile DEF Log, TypeOK
  <2>4. due' \subseteq Nat
    BY <1>1 DEF Log, TypeOK
  <2> HIDE DEF s
  <2> QED BY <1>1, <2>1, <2>2, <2>3, <2>4, HandlerStep DEF Log, TypeOK, mem
<1>2. CASE LogFail(c)
  <2>1. IsWalFile(disk')
    BY <1>2, EntryFile DEF LogFail, TypeOK
  <2>2. IsQueueMap(queues')
    BY <1>2, <1>r, PushMap, 0 \in Nat DEF LogFail, Compensate, TypeOK, HandlerOK
  <2>3. IsFlightMap(in_flight')
    <3>1. CASE r.op = "nack"
      <4> DEFINE task == [msg |-> r.items[1].msg, attempts |-> r.items[1].attempts,
                          queue |-> r.q]
      <4>1. r.items[1] \in Item /\ r.ids[1] \in Nat /\ r.q \in Name
        BY <1>r, <3>1 DEF HandlerOK
      <4>2. task \in Task
        BY <4>1 DEF Item, Task
      <4>3. in_flight' = Insert(in_flight, r.ids[1], task)
        BY <1>2, <3>1 DEF LogFail, Compensate
      <4> HIDE DEF task
      <4> QED BY <4>1, <4>2, <4>3, InsertMap DEF TypeOK, IsFlightMap
    <3>2. CASE r.op # "nack"
      BY <1>2, <3>2 DEF LogFail, Compensate, TypeOK
    <3> QED BY <3>1, <3>2
  <2>4. h' = [h EXCEPT ![c] = Idle] /\ delivered' = delivered
    BY <1>2 DEF LogFail, history
  <2> QED BY <1>2, <1>i, <2>1, <2>2, <2>3, <2>4 DEF LogFail, TypeOK, history
<1>3. CASE FinishCreate(c)
  <2>1. r.q \in Name /\ <<>> \in Seq(Item)
    BY <1>3, <1>r DEF FinishCreate, End, HandlerOK
  <2>2. IsQueueMap(queues')
    BY <1>3, <2>1, InsertMap DEF FinishCreate, TypeOK, IsQueueMap
  <2> QED BY <1>3, <1>i, <2>2 DEF FinishCreate, End, TypeOK, history
<1>4. CASE FinishQueue(c)
  <2>1. r.q \in Name
    BY <1>4, <1>r DEF FinishQueue, End, HandlerOK
  <2>2. IsQueueMap(queues')
    BY <1>4, <1>r, <2>1, PushMap, 0 \in Nat DEF FinishQueue, TypeOK
  <2>3. due' \subseteq Nat
    BY <1>4, <1>r, MessagesType DEF FinishQueue, TypeOK
  <2> QED BY <1>4, <1>i, <2>2, <2>3 DEF FinishQueue, End, TypeOK
<1>5. CASE FinishDequeue(c)
  <2>1. r.q \in Name /\ Len(r.items) = Len(r.ids)
    BY <1>5, <1>r DEF FinishDequeue, End, HandlerOK
  <2>2. IsFlightMap(in_flight')
    BY <1>5, <1>r, <2>1, DeliverMap DEF FinishDequeue, TypeOK
  <2>3. \A t \in Elements(r.ids) : r.items[Position(r.ids, t)] \in Item
    BY <1>r, <2>1, PositionType
  <2>4. Elements(r.ids) \subseteq Nat
    BY <1>r, ElementsType
  <2>5. IsMap(delivered', Nat, Delivery)
    BY <1>5, <2>1, <2>3, <2>4 DEF FinishDequeue, TypeOK, IsMap, Delivery, Item
  <2>6. h' = [h EXCEPT ![c] = Idle] /\ DOMAIN delivered \subseteq DOMAIN delivered'
    BY <1>5 DEF FinishDequeue, End
  <2> QED BY <1>5, <1>i, <2>2, <2>5, <2>6 DEF FinishDequeue, TypeOK
<1>6. CASE FinishAck(c)
  <2>1. removed' \subseteq Nat
    BY <1>6, <1>r, MessagesType DEF FinishAck, TypeOK
  <2>2. acked' \subseteq DOMAIN delivered'
    BY <1>6, <1>r DEF FinishAck, End, TypeOK, HandlerOK
  <2> QED BY <1>6, <1>i, <2>1, <2>2 DEF FinishAck, End, TypeOK, mem
<1>7. CASE FinishNack(c)
  <2>1. r.q \in Name /\ r.items[1] \in Item
    BY <1>7, <1>r DEF FinishNack, End, HandlerOK
  <2>2. IsQueueMap(queues')
    BY <1>7, <2>1, RequeueMap DEF FinishNack, TypeOK
  <2> QED BY <1>7, <1>i, <2>2 DEF FinishNack, End, TypeOK, history
<1>8. CASE FinishExtend(c)
  BY <1>8, <1>i DEF FinishExtend, End, TypeOK, mem, history
<1>9. CASE FinishAckBatch(c)
  <2>1. IsFlightMap(in_flight')
    BY <1>9, WithoutMap DEF FinishAckBatch, TypeOK, IsFlightMap
  <2>2. MessagesOf(r.ids) \subseteq Nat
    BY DEF TypeOK, MessagesOf, IsFlightMap, IsMap, Task
  <2>3. removed' \subseteq Nat /\ due' \subseteq Nat
    BY <1>9, <2>2 DEF FinishAckBatch, TypeOK
  <2>4. acked' \subseteq DOMAIN delivered'
    BY <1>9, <1>r DEF FinishAckBatch, End, TypeOK, HandlerOK
  <2> QED BY <1>9, <1>i, <2>1, <2>3, <2>4 DEF FinishAckBatch, End, TypeOK
<1> QED BY <1>1, <1>2, <1>3, <1>4, <1>5, <1>6, <1>7, <1>8, <1>9 DEF Proceed

\* A restart recovers a well-formed state.
LEMMA TypeRestart ==
    ASSUME TypeOK, Restart
    PROVE  TypeOK'
<1>1. IsWalFile(disk')
  BY EntryFile DEF Restart, TypeOK
<1>2. IsState(Recover(disk'))
  BY <1>1, RecoverState
<1> QED BY <1>1, <1>2, IdleOK DEF Restart, TypeOK, IsState

\* Type correctness of the concurrent storage: no interleaving of requests,
\* log failures, dropped handlers, torn appends and restarts leaves a map, the
\* log or a request in progress malformed.
THEOREM TypeCorrect == Spec => []TypeOK
<1>1. TypeOK /\ [Next]_vars => TypeOK'
  <2> SUFFICES ASSUME TypeOK, [Next]_vars PROVE TypeOK'
    OBVIOUS
  <2>1. CASE Next
    BY <2>1, TypeRequest, TypeCleanup, TypeProceed, TypeRestart DEF Next
  <2>2. CASE UNCHANGED vars
    BY <2>2 DEF TypeOK, vars, mem, history
  <2> QED BY <2>1, <2>2
<1> QED BY <1>1, TypeInit, PTL DEF Spec
-----------------------------------------------------------------------------
(***************************************************************************)
(* Retries first.  The log keeps the order too, so that a restart does.    *)
(***************************************************************************)
\* No fresh item stands before a retried one.
Sorted(s) == \A i, j \in DOMAIN s : i < j /\ s[i].attempts = 0 => s[j].attempts = 0

AllFresh(s) == \A i \in DOMAIN s : s[i].attempts = 0
AllTried(s) == \A i \in DOMAIN s : s[i].attempts # 0

SortedQueues(f) == \A q \in DOMAIN f : q[2] = 0 => Sorted(f[q])
TriedFlight(g)  == \A t \in DOMAIN g : g[t].attempts # 0

\* The items a dequeue holds fit in front of its queue, which it has alone.
SortedHeld ==
    \A c \in Actors :
        /\ h[c].op = "queue" => AllFresh(h[c].items)
        /\ h[c].op = "nack"  => AllTried(h[c].items)
        /\ h[c].op = "dequeue" /\ h[c].q[2] = 0 /\ h[c].q \in DOMAIN queues
              => Sorted(h[c].items \o queues[h[c].q])

OneDequeue ==
    \A c, d \in Actors : h[c].op = "dequeue" /\ h[d].op = "dequeue" /\ h[c].q = h[d].q => c = d

RetryInv ==
    /\ SortedQueues(queues) /\ TriedFlight(in_flight) /\ SortedHeld /\ OneDequeue
    /\ SortedQueues(disk.state.queues) /\ TriedFlight(disk.state.in_flight)

\* Retried items before any, or any before fresh ones.
LEMMA SortedConcat ==
    ASSUME NEW s \in Seq(Item), NEW r \in Seq(Item), Sorted(s), Sorted(r),
           AllTried(s) \/ AllFresh(r)
    PROVE  Sorted(s \o r)
<1> SUFFICES ASSUME NEW i \in DOMAIN (s \o r), NEW j \in DOMAIN (s \o r), i < j,
                    (s \o r)[i].attempts = 0
             PROVE  (s \o r)[j].attempts = 0
  BY DEF Sorted
<1>0. i \in Nat /\ j \in Nat /\ Len(s) \in Nat
  OBVIOUS
<1>1. /\ \/ i \in DOMAIN s /\ (s \o r)[i] = s[i]
         \/ i - Len(s) \in DOMAIN r /\ (s \o r)[i] = r[i - Len(s)] /\ i > Len(s)
      /\ \/ j \in DOMAIN s /\ (s \o r)[j] = s[j]
         \/ j - Len(s) \in DOMAIN r /\ (s \o r)[j] = r[j - Len(s)] /\ j > Len(s)
  BY ConcatAt
<1>2. CASE i \in DOMAIN s /\ (s \o r)[i] = s[i]
  BY <1>1, <1>2 DEF Sorted, AllTried, AllFresh
<1>3. CASE i - Len(s) \in DOMAIN r /\ (s \o r)[i] = r[i - Len(s)] /\ i > Len(s)
  <2>1. j - Len(s) \in DOMAIN r /\ (s \o r)[j] = r[j - Len(s)]
    BY <1>0, <1>1, <1>3
  <2>2. i - Len(s) < j - Len(s)
    BY <1>0
  <2> QED BY <1>3, <2>1, <2>2 DEF Sorted
<1> QED BY <1>1, <1>2, <1>3

\* What a dequeue leaves is sorted.
LEMMA SortedRest ==
    ASSUME NEW s \in Seq(Item), NEW n \in Nat, Sorted(s)
    PROVE  Sorted(RestOf(s, n))
<1> DEFINE k == Least(n, Len(s))
           r == RestOf(s, n)
<1>1. /\ k \in Nat /\ DOMAIN r = 1..(Len(s) - k)
      /\ \A i \in 1..(Len(s) - k) : i + k \in DOMAIN s /\ r[i] = s[i + k]
  <2>1. k = Least(n, Len(s)) /\ k \in Nat
    BY DEF Least
  <2> HIDE DEF k
  <2> QED BY <2>1, SplitAt
<1> HIDE DEF k, r
<1>2. ASSUME NEW i \in DOMAIN r, NEW j \in DOMAIN r, i < j, r[i].attempts = 0
      PROVE  r[j].attempts = 0
  <2>1. i + k < j + k /\ i + k \in DOMAIN s /\ j + k \in DOMAIN s /\ r[i] = s[i + k] /\ r[j] = s[j + k]
    BY <1>1, <1>2
  <2> QED BY <1>2, <2>1 DEF Sorted
<1>3. Sorted(r)
  BY <1>2 DEF Sorted
<1> QED BY <1>3 DEF r

\* A change of one queue keeps the order of the others.
LEMMA SortedExcept ==
    ASSUME NEW f, SortedQueues(f), NEW g, NEW q,
           \A x \in DOMAIN g : x # q => x \in DOMAIN f /\ g[x] = f[x],
           q \in DOMAIN g /\ q[2] = 0 => Sorted(g[q])
    PROVE  SortedQueues(g)
BY DEF SortedQueues

\* A nack puts its item in front of the queue, or in a dead letter queue.
LEMMA SortedRequeue ==
    ASSUME NEW f, IsQueueMap(f), SortedQueues(f), NEW q \in Name,
           NEW item \in Item, item.attempts # 0
    PROVE  SortedQueues(Requeue(f, q, item))
<1>1. CASE item.attempts >= MaxAttempts
  <2> DEFINE d == Dlq(q)
             s == Append(IF d \in DOMAIN f THEN f[d] ELSE <<>>, item)
             g == Insert(f, d, s)
  <2>1. Requeue(f, q, item) = g
    BY <1>1 DEF Requeue
  <2>2. d[2] # 0
    BY DEF Dlq, Name
  <2> HIDE DEF s, d
  <2>3. \A x \in DOMAIN g : x # d => x \in DOMAIN f /\ g[x] = f[x]
    BY DEF Insert
  <2> HIDE DEF g
  <2>4. SortedQueues(g)
    BY <2>2, <2>3, SortedExcept
  <2> QED BY <2>1, <2>4
<1>2. CASE ~(item.attempts >= MaxAttempts) /\ q \in DOMAIN f
  <2>1. f[q] \in Seq(Item) /\ <<item>> \in Seq(Item)
    BY <1>2 DEF IsQueueMap, IsMap
  <2>2. Requeue(f, q, item) = [f EXCEPT ![q] = <<item>> \o @]
    BY <1>2 DEF Requeue, PushFront
  <2>3. /\ DOMAIN Requeue(f, q, item) = DOMAIN f
        /\ Requeue(f, q, item)[q] = <<item>> \o f[q]
        /\ \A x \in DOMAIN f : x # q => Requeue(f, q, item)[x] = f[x]
    BY <1>2, <2>2 DEF IsQueueMap, IsMap
  <2>4. AllTried(<<item>>) /\ Sorted(<<item>>)
    BY DEF AllTried, Sorted
  <2>5. Sorted(f[q]) => Sorted(<<item>> \o f[q])
    BY <2>1, <2>4, SortedConcat
  <2>6. q[2] = 0 => Sorted(f[q])
    BY <1>2 DEF SortedQueues
  <2> QED BY <2>3, <2>5, <2>6, SortedExcept
<1>3. CASE ~(item.attempts >= MaxAttempts) /\ q \notin DOMAIN f
  BY <1>3 DEF Requeue
<1> QED BY <1>1, <1>2, <1>3

\* Enqueued items are fresh, and go to the end.
LEMMA SortedEnqueue ==
    ASSUME NEW f, IsQueueMap(f), SortedQueues(f), NEW q, NEW items \in Seq(Item), AllFresh(items)
    PROVE  SortedQueues(Enqueue(f, q, items))
<1>1. CASE q \in DOMAIN f
  <2>1. f[q] \in Seq(Item) /\ Sorted(items)
    BY <1>1 DEF IsQueueMap, IsMap, Sorted, AllFresh
  <2>2. /\ DOMAIN Enqueue(f, q, items) = DOMAIN f
        /\ Enqueue(f, q, items)[q] = f[q] \o items
        /\ \A x \in DOMAIN f : x # q => Enqueue(f, q, items)[x] = f[x]
    BY <1>1 DEF Enqueue, PushBack, IsQueueMap, IsMap
  <2>3. q[2] = 0 => Sorted(f[q] \o items)
    BY <1>1, <2>1, SortedConcat DEF SortedQueues
  <2> QED BY <2>2, <2>3, SortedExcept
<1>2. CASE q \notin DOMAIN f
  BY <1>2 DEF Enqueue
<1> QED BY <1>1, <1>2

\* A dequeue takes from the front.
LEMMA SortedPop ==
    ASSUME NEW f, IsQueueMap(f), SortedQueues(f), NEW q \in DOMAIN f, NEW n \in Nat
    PROVE  /\ SortedQueues(PopFront(f, q, n))
           /\ PopFront(f, q, n)[q] = RestOf(f[q], n) /\ DOMAIN PopFront(f, q, n) = DOMAIN f
           /\ \A x \in DOMAIN f : x # q => PopFront(f, q, n)[x] = f[x]
           /\ q[2] = 0 => Sorted(FirstOf(f[q], n) \o RestOf(f[q], n))
<1>1. f[q] \in Seq(Item)
  BY DEF IsQueueMap, IsMap
<1>2. /\ PopFront(f, q, n)[q] = RestOf(f[q], n) /\ DOMAIN PopFront(f, q, n) = DOMAIN f
      /\ \A x \in DOMAIN f : x # q => PopFront(f, q, n)[x] = f[x]
  BY DEF PopFront, IsQueueMap, IsMap
<1>3. q[2] = 0 => Sorted(f[q]) /\ Sorted(RestOf(f[q], n))
  BY <1>1, SortedRest DEF SortedQueues
<1>4. FirstOf(f[q], n) \o RestOf(f[q], n) = f[q]
  BY <1>1, SplitConcat
<1> QED BY <1>2, <1>3, <1>4, SortedExcept

\* A delivered task has an attempt.
LEMMA TriedDeliver ==
    ASSUME NEW g, TriedFlight(g), NEW q, NEW items \in Seq(Item), NEW ids \in Seq(Nat),
           Len(items) = Len(ids)
    PROVE  TriedFlight(Deliver(g, q, items, ids))
<1>1. \A t \in Elements(ids) : items[Position(ids, t)] \in Item
  BY PositionType
<1>2. \A t \in Elements(ids) : items[Position(ids, t)].attempts + 1 # 0
  BY <1>1 DEF Item
<1> QED BY <1>2 DEF TriedFlight, Deliver

\* The replay of an entry keeps the order.
LEMMA ReplaySorted ==
    ASSUME NEW st, IsState(st), SortedQueues(st.queues), TriedFlight(st.in_flight),
           NEW op, NEW q, NEW items \in Seq(Item), NEW ids \in Seq(Nat),
           NEW new, new = ReplayOp(st, WalOp(op, q, items, ids))
    PROVE  SortedQueues(new.queues) /\ TriedFlight(new.in_flight)
<1> DEFINE e == WalOp(op, q, items, ids)
<1>e. new = ReplayOp(st, e)
  OBVIOUS
<1>0. /\ st = [queues |-> st.queues, in_flight |-> st.in_flight]
      /\ IsQueueMap(st.queues) /\ IsFlightMap(st.in_flight)
  BY DEF IsState
<1>1. CASE op = "create_queue"
  <2>1. e.op = "create_queue" /\ e.queue = q
    BY <1>1 DEF WalOp
  <2> HIDE DEF e
  <2>2. \/ new = st
        \/ new.queues = Insert(st.queues, q, <<>>) /\ new.in_flight = st.in_flight
    BY <1>e, <1>0, <2>1 DEF ReplayOp
  <2>3. SortedQueues(Insert(st.queues, q, <<>>))
    BY DEF Insert, SortedQueues, Sorted
  <2> QED BY <2>2, <2>3
<1>2. CASE op = "queue"
  <2> DEFINE data == [i \in DOMAIN items |-> items[i].msg]
             fresh == [i \in DOMAIN data |-> Fresh(data[i])]
  <2>1. e.op = "queue" /\ e.queue = q /\ e.data = data
    BY <1>2 DEF WalOp
  <2>2. DOMAIN items = 1..Len(items) /\ Len(items) \in Nat /\ \A i \in DOMAIN items : items[i] \in Item
    OBVIOUS
  <2>6. \A i \in DOMAIN items : Fresh(items[i].msg) \in Item /\ Fresh(items[i].msg).attempts = 0
    BY <2>2 DEF Item, Fresh
  <2>7. fresh = [i \in DOMAIN items |-> Fresh(items[i].msg)]
    OBVIOUS
  <2>3. fresh \in Seq(Item) /\ AllFresh(fresh)
    BY <2>2, <2>6, <2>7 DEF AllFresh
  <2> HIDE DEF e
  <2>4. new = ReplayEnqueue(st, e)
    BY <1>e, <2>1 DEF ReplayOp
  <2>5. new.queues = Enqueue(st.queues, q, fresh) /\ new.in_flight = st.in_flight
    BY <1>0, <2>1, <2>4 DEF ReplayEnqueue
  <2> HIDE DEF fresh
  <2> QED BY <1>0, <2>3, <2>5, SortedEnqueue
<1>3. CASE op = "dequeue"
  <2>1. e.op = "dequeue" /\ e.queue = q /\ e.ids = ids
    BY <1>3 DEF WalOp
  <2> HIDE DEF e
  <2>2. new = ReplayDequeued(st, e)
    BY <1>e, <2>1 DEF ReplayOp
  <2>3. CASE q \in DOMAIN st.queues
    <3> DEFINE got  == FirstOf(st.queues[q], Len(ids))
               used == FirstOf(ids, Len(got))
    <3>1. new.queues = PopFront(st.queues, q, Len(ids))
          /\ new.in_flight = Deliver(st.in_flight, q, got, used)
      BY <2>1, <2>2, <2>3 DEF ReplayDequeued
    <3>2. st.queues[q] \in Seq(Item) /\ Len(ids) \in Nat
      BY <1>0, <2>3 DEF IsQueueMap, IsMap
    <3>3. got \in Seq(Item) /\ Len(got) = Least(Len(ids), Len(st.queues[q])) /\ Len(got) \in Nat
      BY <3>2, SplitType
    <3> HIDE DEF got
    <3>4. used \in Seq(Nat) /\ Len(used) = Least(Len(got), Len(ids))
      BY <3>3, SplitType
    <3>5. Len(used) = Len(got)
      BY <3>2, <3>3, <3>4 DEF Least
    <3> HIDE DEF used
    <3> QED BY <1>0, <2>3, <3>1, <3>2, <3>3, <3>4, <3>5, SortedPop, TriedDeliver
  <2>4. CASE q \notin DOMAIN st.queues
    BY <2>1, <2>2, <2>4 DEF ReplayDequeued
  <2> QED BY <2>3, <2>4
<1>4. CASE op \in {"ack", "ack_batch"}
  <2>1. e.op = op /\ e.ids = ids
    BY <1>4 DEF WalOp
  <2> HIDE DEF e
  <2>2. new = ReplayAck(st, ids)
    BY <1>e, <1>4, <2>1 DEF ReplayOp
  <2>3. new.queues = st.queues
        /\ \/ new.in_flight = st.in_flight
           \/ new.in_flight = Without(st.in_flight, Elements(ids))
    BY <1>0, <2>2 DEF ReplayAck
  <2> QED BY <2>3 DEF TriedFlight, Without
<1>5. CASE op = "nack"
  <2>1. e.op = op /\ e.ids = ids
    BY <1>5 DEF WalOp
  <2> HIDE DEF e
  <2> DEFINE t == ids[1]
             task == st.in_flight[t]
             item == [msg |-> task.msg, attempts |-> task.attempts]
  <2>2. new = ReplayNack(st, t)
    BY <1>e, <1>5, <2>1 DEF ReplayOp
  <2>3. CASE t \in DOMAIN st.in_flight
    <3>1. new.queues = Requeue(st.queues, task.queue, item)
          /\ new.in_flight = Without(st.in_flight, {t})
      BY <2>2, <2>3 DEF ReplayNack
    <3>2. item \in Item /\ task.queue \in Name /\ item.attempts # 0
      BY <1>0, <2>3 DEF IsFlightMap, IsMap, Task, Item, TriedFlight
    <3>3. TriedFlight(Without(st.in_flight, {t}))
      BY DEF TriedFlight, Without
    <3> HIDE DEF item, task
    <3> QED BY <1>0, <3>1, <3>2, <3>3, SortedRequeue
  <2>4. CASE t \notin DOMAIN st.in_flight
    BY <2>2, <2>4 DEF ReplayNack
  <2> QED BY <2>3, <2>4
<1>6. CASE op \notin {"create_queue", "queue", "dequeue", "ack", "ack_batch", "nack"}
  <2>1. e.op = op
    BY <1>6 DEF WalOp
  <2> HIDE DEF e
  <2>2. new = st
    BY <1>e, <1>6, <2>1 DEF ReplayOp
  <2> QED BY <2>2
<1> QED BY <1>1, <1>2, <1>3, <1>4, <1>5, <1>6
-----------------------------------------------------------------------------
\* The entry of a request in progress keeps the order in the log.
LEMMA SortedFile ==
    ASSUME TypeOK, RetryInv, NEW c \in Actors,
           NEW f \in TornAppends(disk, Entry(h[c])) \cup {disk}
    PROVE  SortedQueues(f.state.queues) /\ TriedFlight(f.state.in_flight)
<1> DEFINE new == ReplayOp(disk.state, Entry(h[c]))
<1>1. /\ disk = [state |-> disk.state, tail |-> disk.tail] /\ IsState(disk.state)
      /\ h[c].items \in Seq(Item) /\ h[c].ids \in Seq(Nat)
      /\ SortedQueues(disk.state.queues) /\ TriedFlight(disk.state.in_flight)
  BY DEF TypeOK, IsWalFile, Handler, RetryInv
<1>2. SortedQueues(new.queues) /\ TriedFlight(new.in_flight)
  BY <1>1, ReplaySorted DEF Entry
<1>3. f.state \in {disk.state, new}
  BY <1>1 DEF TornAppends, WalAppend
<1> HIDE DEF new
<1> QED BY <1>1, <1>2, <1>3

\* A step of the request of c, which becomes r, that changes no queue but q.
SortedStep(c, r, q) ==
    /\ h' = [h EXCEPT ![c] = r]
    /\ \A x \in DOMAIN queues' : x # q => x \in DOMAIN queues /\ queues'[x] = queues[x]
    /\ \A d \in Actors : d # c /\ h[d].op = "dequeue" => h[d].q # q
    /\ SortedQueues(queues') /\ TriedFlight(in_flight')
    /\ SortedQueues(disk'.state.queues) /\ TriedFlight(disk'.state.in_flight)
    /\ r.op = "queue" => AllFresh(r.items)
    /\ r.op = "nack" => AllTried(r.items)
    /\ r.op = "dequeue" => r.q = q
    /\ r.op = "dequeue" /\ q[2] = 0 => Sorted(r.items \o queues'[q])

\* Such a step keeps the order.
LEMMA RetryStep ==
    ASSUME TypeOK, RetryInv, NEW c \in Actors, NEW r, NEW q, SortedStep(c, r, q)
    PROVE  RetryInv'
<1>1. h'[c] = r /\ \A d \in Actors : d # c => h'[d] = h[d]
  BY DEF TypeOK, SortedStep
<1>2. SortedHeld'
  <2> SUFFICES ASSUME NEW d \in Actors
               PROVE  /\ h'[d].op = "queue" => AllFresh(h'[d].items)
                      /\ h'[d].op = "nack"  => AllTried(h'[d].items)
                      /\ h'[d].op = "dequeue" /\ h'[d].q[2] = 0 /\ h'[d].q \in DOMAIN queues'
                            => Sorted(h'[d].items \o queues'[h'[d].q])
    BY DEF SortedHeld
  <2>1. CASE d = c
    BY <1>1, <2>1 DEF SortedStep
  <2>2. CASE d # c
    <3>1. h'[d] = h[d] /\ (h[d].op = "dequeue" /\ h[d].q \in DOMAIN queues' =>
                              h[d].q \in DOMAIN queues /\ queues'[h[d].q] = queues[h[d].q])
      BY <1>1, <2>2 DEF SortedStep
    <3> QED BY <3>1 DEF RetryInv, SortedHeld
  <2> QED BY <2>1, <2>2
<1>3. OneDequeue'
  BY <1>1 DEF RetryInv, OneDequeue, SortedStep
<1> QED BY <1>2, <1>3 DEF RetryInv, SortedStep

\* A step that changes no map and gives c a request without items, or the one
\* it had.
LEMMA RetryKeep ==
    ASSUME TypeOK, RetryInv, NEW c \in Actors, NEW r, h' = [h EXCEPT ![c] = r],
           \/ r.op \notin {"queue", "nack", "dequeue"}
           \/ r.op = h[c].op /\ r.items = h[c].items /\ r.q = h[c].q,
           UNCHANGED queues, TriedFlight(in_flight'),
           SortedQueues(disk'.state.queues), TriedFlight(disk'.state.in_flight)
    PROVE  RetryInv'
<1>1. h'[c] = r /\ \A d \in Actors : d # c => h'[d] = h[d]
  BY DEF TypeOK
<1>2. SortedHeld'
  BY <1>1 DEF RetryInv, SortedHeld
<1>3. OneDequeue'
  BY <1>1 DEF RetryInv, OneDequeue
<1> QED BY <1>2, <1>3 DEF RetryInv

\* The hands of an ack or a nack hold a task that was delivered.
LEMMA RetryTakeTask ==
    ASSUME TypeOK, RetryInv, NEW c \in Actors, NEW op \in {"ack", "nack"}, NEW t, TakeTask(c, op, t)
    PROVE  RetryInv'
<1> DEFINE task == in_flight[t]
           item == [msg |-> task.msg, attempts |-> task.attempts]
           r == [op |-> op, at |-> "log", q |-> task.queue, items |-> <<item>>, ids |-> <<t>>]
<1>1. /\ h' = [h EXCEPT ![c] = r] /\ t \in DOMAIN in_flight
      /\ in_flight' = Without(in_flight, {t}) /\ UNCHANGED <<queues, disk>>
  BY DEF TakeTask, Begin
<1>2. AllTried(<<item>>) /\ TriedFlight(in_flight')
  BY <1>1 DEF RetryInv, TriedFlight, AllTried, Without
<1>3. r.op = op /\ r.items = <<item>>
  OBVIOUS
<1> HIDE DEF r, item
<1>4. /\ SortedQueues(disk'.state.queues) /\ TriedFlight(disk'.state.in_flight)
      /\ SortedQueues(queues')
  BY <1>1 DEF RetryInv
<1>5. \A d \in Actors : d # c /\ h[d].op = "dequeue" => h[d].q # NoName
  BY DEF TypeOK, HandlerOK, Name, NoName
<1>6. /\ \A x \in DOMAIN queues' : x # NoName => x \in DOMAIN queues /\ queues'[x] = queues[x]
      /\ r.op # "queue" /\ r.op # "dequeue" /\ (r.op = "nack" => AllTried(r.items))
  BY <1>1, <1>2, <1>3
<1>9. SortedStep(c, r, NoName)
  BY <1>1, <1>2, <1>4, <1>5, <1>6 DEF SortedStep
<1> QED BY <1>9, RetryStep

\* Every request keeps the order.
LEMMA RetryRequest ==
    ASSUME TypeOK, RetryInv, NEW c \in Clients, Request(c)
    PROVE  RetryInv'
<1> c \in Actors
  BY DEF Actors
<1>0. /\ SortedQueues(disk.state.queues) /\ TriedFlight(disk.state.in_flight)
      /\ SortedQueues(queues) /\ TriedFlight(in_flight)
  BY DEF RetryInv
<1>1. ASSUME NEW q \in CreateNames, CreateQueue(c, q)
      PROVE  RetryInv'
  <2> DEFINE r == [op |-> "create_queue", at |-> "log", q |-> q, items |-> <<>>, ids |-> <<>>]
  <2>1. h' = [h EXCEPT ![c] = r] /\ UNCHANGED <<queues, in_flight, disk>>
    BY <1>1 DEF CreateQueue, Begin, mem
  <2>2. r.op = "create_queue"
    OBVIOUS
  <2> HIDE DEF r
  <2> QED BY <1>0, <2>1, <2>2, RetryKeep
<1>2. ASSUME NEW q \in ReqNames, NEW n \in 1..MaxBatch, Queue(c, q, n)
      PROVE  RetryInv'
  <2> DEFINE r == [op |-> "queue", at |-> "log", q |-> q, items |-> NewItems(n), ids |-> <<>>]
  <2>1. h' = [h EXCEPT ![c] = r] /\ UNCHANGED <<queues, in_flight, disk>> /\ ~QueueLocked(q)
    BY <1>2 DEF Queue, Begin, mem
  <2>2. AllFresh(NewItems(n))
    BY DEF AllFresh, NewItems, Fresh
  <2>3. r.op = "queue" /\ r.items = NewItems(n)
    OBVIOUS
  <2> HIDE DEF r
  <2>4. \A d \in Actors : d # c /\ h[d].op = "dequeue" => h[d].q # q
    BY <2>1 DEF QueueLocked
  <2>5. /\ \A x \in DOMAIN queues' : x # q => x \in DOMAIN queues /\ queues'[x] = queues[x]
        /\ r.op # "dequeue" /\ r.op # "nack" /\ AllFresh(r.items)
    BY <2>1, <2>2, <2>3
  <2>9. SortedStep(c, r, q)
    BY <1>0, <2>1, <2>4, <2>5 DEF SortedStep
  <2> QED BY <2>9, RetryStep
<1>3. ASSUME NEW q \in ReqNames, NEW n \in 1..MaxBatch, Dequeue(c, q, n)
      PROVE  RetryInv'
  <2> DEFINE items == FirstOf(queues[q], n)
             r == [op |-> "dequeue", at |-> "log", q |-> q,
                   items |-> items, ids |-> NewIds(Len(items))]
  <2>1. /\ h' = [h EXCEPT ![c] = r] /\ queues' = PopFront(queues, q, n) /\ ~QueueLocked(q)
        /\ UNCHANGED <<in_flight, disk>> /\ q \in DOMAIN queues /\ n \in Nat
        /\ IsQueueMap(queues)
    BY <1>3 DEF Dequeue, Begin, TypeOK
  <2>2. r.op = "dequeue" /\ r.q = q /\ r.items = items
    OBVIOUS
  <2> HIDE DEF r
  <2>3. /\ SortedQueues(queues') /\ queues'[q] = RestOf(queues[q], n) /\ DOMAIN queues' = DOMAIN queues
        /\ \A x \in DOMAIN queues : x # q => queues'[x] = queues[x]
        /\ q[2] = 0 => Sorted(items \o RestOf(queues[q], n))
    BY <1>0, <2>1, SortedPop
  <2> HIDE DEF items
  <2>4. \A d \in Actors : d # c /\ h[d].op = "dequeue" => h[d].q # q
    BY <2>1 DEF QueueLocked
  <2>5. /\ \A x \in DOMAIN queues' : x # q => x \in DOMAIN queues /\ queues'[x] = queues[x]
        /\ r.op # "queue" /\ r.op # "nack"
        /\ r.q = q /\ (q[2] = 0 => Sorted(r.items \o queues'[q]))
    BY <2>2, <2>3, <2>4
  <2>9. SortedStep(c, r, q)
    BY <1>0, <2>1, <2>3, <2>4, <2>5 DEF SortedStep
  <2> QED BY <2>9, RetryStep
<1>4. ASSUME NEW t \in KnownIds, Ack(c, t) \/ Nack(c, t)
      PROVE  RetryInv'
  <2>1. PICK op \in {"ack", "nack"} : TakeTask(c, op, t)
    BY <1>4 DEF Ack, Nack
  <2> QED BY <2>1, RetryTakeTask
<1>5. ASSUME NEW t \in KnownIds, ExtendVisibility(c, t)
      PROVE  RetryInv'
  <2> DEFINE r == [op |-> "extend", at |-> "log", q |-> in_flight[t].queue,
                   items |-> <<>>, ids |-> <<t>>]
  <2>1. h' = [h EXCEPT ![c] = r] /\ UNCHANGED <<queues, in_flight, disk>>
    BY <1>5 DEF ExtendVisibility, Begin, mem
  <2>2. r.op = "extend"
    OBVIOUS
  <2> HIDE DEF r
  <2> QED BY <1>0, <2>1, <2>2, RetryKeep
<1>6. ASSUME NEW ids \in IdLists, AckBatch(c, ids)
      PROVE  RetryInv'
  <2> DEFINE r == [op |-> "ack_batch", at |-> "log", q |-> NoName, items |-> <<>>, ids |-> ids]
  <2>1. h' = [h EXCEPT ![c] = r] /\ UNCHANGED <<queues, in_flight, disk>>
    BY <1>6 DEF AckBatch, Begin, mem
  <2>2. r.op = "ack_batch"
    OBVIOUS
  <2> HIDE DEF r
  <2> QED BY <1>0, <2>1, <2>2, RetryKeep
<1>7. CASE Disconnect(c)
  <2>1. /\ h' = [h EXCEPT ![c] = Idle] /\ UNCHANGED <<queues, in_flight>>
        /\ disk' \in TornAppends(disk, Entry(h[c])) \cup {disk}
    BY <1>7 DEF Disconnect, mem, TornAppends
  <2>2. Idle.op = "idle"
    BY DEF Idle
  <2> QED BY <1>0, <2>1, <2>2, RetryKeep, SortedFile
<1> QED BY <1>1, <1>2, <1>3, <1>4, <1>5, <1>6, <1>7 DEF Request

\* The cleanup loop keeps the order.
LEMMA RetryCleanup ==
    ASSUME TypeOK, RetryInv, NEW c \in Sweepers, Cleanup(c)
    PROVE  RetryInv'
<1> c \in Actors
  BY DEF Actors
<1>1. ASSUME NEW t, TakeTask(c, "nack", t) PROVE RetryInv'
  BY <1>1, RetryTakeTask
<1>2. CASE UNCHANGED <<mem, disk, h>>
  BY <1>2 DEF RetryInv, SortedHeld, OneDequeue, mem
<1> QED BY <1>1, <1>2 DEF Cleanup, Scan, CleanupNack

\* Every later stage keeps the order.
LEMMA RetryProceed ==
    ASSUME TypeOK, RetryInv, NEW c \in Actors, Proceed(c)
    PROVE  RetryInv'
<1> DEFINE r == h[c]
<1>0. /\ SortedQueues(disk.state.queues) /\ TriedFlight(disk.state.in_flight)
      /\ SortedQueues(queues) /\ TriedFlight(in_flight) /\ IsQueueMap(queues)
      /\ r.items \in Seq(Item) /\ r.ids \in Seq(Nat) /\ HandlerOK(r, DOMAIN delivered)
  BY DEF RetryInv, TypeOK, Handler
<1>i. Idle.op = "idle"
  BY DEF Idle
<1>1. CASE Log(c)
  <2> DEFINE s == [r EXCEPT !.at = "apply"]
  <2>1. h' = [h EXCEPT ![c] = s] /\ UNCHANGED <<queues, in_flight>>
    BY <1>1 DEF Log, TypeOK, mem
  <2>2. s.op = r.op /\ s.items = r.items /\ s.q = r.q
    BY DEF TypeOK, Handler
  <2>3. disk' \in TornAppends(disk, Entry(h[c])) \cup {disk}
    BY <1>1 DEF Log, TornAppends
  <2> HIDE DEF s
  <2> QED BY <1>0, <2>1, <2>2, <2>3, RetryKeep, SortedFile
<1>2. CASE LogFail(c)
  <2>1. /\ h' = [h EXCEPT ![c] = Idle] /\ Compensate(r)
        /\ disk' \in TornAppends(disk, Entry(h[c])) \cup {disk}
    BY <1>2 DEF LogFail, TornAppends
  <2>2. SortedQueues(disk'.state.queues) /\ TriedFlight(disk'.state.in_flight)
    BY <2>1, SortedFile
  <2>3. CASE r.op = "dequeue"
    <3> DEFINE q == r.q
    <3>1. queues' = PushFront(queues, q, r.items) /\ in_flight' = in_flight
      BY <2>1, <2>3 DEF Compensate
    <3>2. /\ DOMAIN queues' = DOMAIN queues /\ \A x \in DOMAIN queues : x # q => queues'[x] = queues[x]
          /\ q \in DOMAIN queues => queues'[q] = r.items \o queues[q]
      BY <1>0, <3>1 DEF PushFront, IsQueueMap, IsMap
    <3>3. q[2] = 0 /\ q \in DOMAIN queues => Sorted(r.items \o queues[q])
      BY <2>3 DEF RetryInv, SortedHeld
    <3>4. \A d \in Actors : d # c /\ h[d].op = "dequeue" => h[d].q # q
      BY <2>3 DEF RetryInv, OneDequeue
    <3> HIDE DEF q
    <3>5. SortedQueues(queues')
      BY <1>0, <3>2, <3>3, SortedExcept
    <3>6. \A x \in DOMAIN queues' : x # q => x \in DOMAIN queues /\ queues'[x] = queues[x]
      BY <3>2
    <3>9. SortedStep(c, Idle, q)
      BY <1>0, <1>i, <2>1, <2>2, <3>1, <3>4, <3>5, <3>6 DEF SortedStep
    <3> QED BY <3>9, RetryStep
  <2>4. CASE r.op = "nack"
    <3>1. queues' = queues
          /\ in_flight' = Insert(in_flight, r.ids[1],
                 [msg |-> r.items[1].msg, attempts |-> r.items[1].attempts, queue |-> r.q])
      BY <2>1, <2>4 DEF Compensate
    <3>2. r.items[1].attempts # 0
      BY <1>0, <2>4 DEF RetryInv, SortedHeld, AllTried, HandlerOK
    <3>3. TriedFlight(in_flight')
      BY <1>0, <3>1, <3>2 DEF TriedFlight, Insert
    <3> QED BY <1>i, <2>1, <2>2, <3>1, <3>3, RetryKeep
  <2>5. CASE r.op \notin {"dequeue", "nack"}
    <3>1. UNCHANGED <<queues, in_flight>>
      BY <2>1, <2>5 DEF Compensate
    <3> QED BY <1>0, <1>i, <2>1, <2>2, <3>1, RetryKeep
  <2> QED BY <2>3, <2>4, <2>5
<1>3. CASE FinishCreate(c)
  <2> DEFINE q == r.q
  <2>1. /\ h' = [h EXCEPT ![c] = Idle] /\ queues' = Insert(queues, q, <<>>) /\ ~QueueLocked(q)
        /\ UNCHANGED <<in_flight, disk>>
    BY <1>3 DEF FinishCreate, End
  <2> HIDE DEF q
  <2>2. /\ \A x \in DOMAIN queues' : x # q => x \in DOMAIN queues /\ queues'[x] = queues[x]
        /\ SortedQueues(queues')
    BY <1>0, <2>1 DEF Insert, SortedQueues, Sorted
  <2>3. \A d \in Actors : d # c /\ h[d].op = "dequeue" => h[d].q # q
    BY <2>1 DEF QueueLocked
  <2>9. SortedStep(c, Idle, q)
    BY <1>0, <1>i, <2>1, <2>2, <2>3 DEF SortedStep
  <2> QED BY <2>9, RetryStep
<1>4. CASE FinishQueue(c)
  <2> DEFINE q == r.q
  <2>1. /\ h' = [h EXCEPT ![c] = Idle] /\ queues' = Enqueue(queues, q, r.items) /\ ~QueueLocked(q)
        /\ UNCHANGED <<in_flight, disk>> /\ AllFresh(r.items)
    BY <1>4 DEF FinishQueue, End, RetryInv, SortedHeld
  <2> HIDE DEF q
  <2>2. \A x \in DOMAIN queues' : x # q => x \in DOMAIN queues /\ queues'[x] = queues[x]
    BY <1>0, <2>1 DEF Enqueue, PushBack, IsQueueMap, IsMap
  <2>3. SortedQueues(queues')
    BY <1>0, <2>1, SortedEnqueue
  <2>4. \A d \in Actors : d # c /\ h[d].op = "dequeue" => h[d].q # q
    BY <2>1 DEF QueueLocked
  <2>9. SortedStep(c, Idle, q)
    BY <1>0, <1>i, <2>1, <2>2, <2>3, <2>4 DEF SortedStep
  <2> QED BY <2>9, RetryStep
<1>5. CASE FinishDequeue(c)
  <2>1. /\ h' = [h EXCEPT ![c] = Idle] /\ UNCHANGED <<queues, disk>>
        /\ in_flight' = Deliver(in_flight, r.q, r.items, r.ids) /\ Len(r.items) = Len(r.ids)
    BY <1>0, <1>5 DEF FinishDequeue, End, HandlerOK
  <2>2. TriedFlight(in_flight')
    BY <1>0, <2>1, TriedDeliver
  <2> QED BY <1>0, <1>i, <2>1, <2>2, RetryKeep
<1>6. CASE FinishAck(c) \/ FinishExtend(c)
  <2>1. h' = [h EXCEPT ![c] = Idle] /\ UNCHANGED <<queues, in_flight, disk>>
    BY <1>6 DEF FinishAck, FinishExtend, End, mem
  <2> QED BY <1>0, <1>i, <2>1, RetryKeep
<1>7. CASE FinishNack(c)
  <2> DEFINE item == r.items[1]
             q == IF item.attempts >= MaxAttempts THEN Dlq(r.q) ELSE r.q
  <2>1. /\ h' = [h EXCEPT ![c] = Idle] /\ queues' = Requeue(queues, r.q, item)
        /\ UNCHANGED <<in_flight, disk>> /\ ~QueueLocked(q)
        /\ r.q \in Name /\ item \in Item /\ r.op = "nack"
    BY <1>0, <1>7 DEF FinishNack, End, HandlerOK
  <2>2. item.attempts # 0
    BY <1>0, <2>1 DEF RetryInv, SortedHeld, AllTried, HandlerOK
  <2>3. \A x \in DOMAIN queues' : x # q => x \in DOMAIN queues /\ queues'[x] = queues[x]
    BY <1>0, <2>1 DEF Requeue, Insert, PushFront, IsQueueMap, IsMap
  <2> HIDE DEF item, q
  <2>4. SortedQueues(queues')
    BY <1>0, <2>1, <2>2, SortedRequeue
  <2>5. \A d \in Actors : d # c /\ h[d].op = "dequeue" => h[d].q # q
    BY <2>1 DEF QueueLocked
  <2>9. SortedStep(c, Idle, q)
    BY <1>0, <1>i, <2>1, <2>3, <2>4, <2>5 DEF SortedStep
  <2> QED BY <2>9, RetryStep
<1>8. CASE FinishAckBatch(c)
  <2>1. /\ h' = [h EXCEPT ![c] = Idle] /\ UNCHANGED <<queues, disk>>
        /\ in_flight' = Without(in_flight, Elements(r.ids))
    BY <1>8 DEF FinishAckBatch, End
  <2>2. TriedFlight(in_flight')
    BY <1>0, <2>1 DEF TriedFlight, Without
  <2> QED BY <1>0, <1>i, <2>1, <2>2, RetryKeep
<1> QED BY <1>1, <1>2, <1>3, <1>4, <1>5, <1>6, <1>7, <1>8 DEF Proceed

\* A restart brings the order back from the log.
LEMMA RetryRestart ==
    ASSUME TypeOK, RetryInv, Restart
    PROVE  RetryInv'
<1>1. SortedQueues(disk'.state.queues) /\ TriedFlight(disk'.state.in_flight)
  <2>1. disk' = disk \/ \E c \in Actors : disk' \in TornAppends(disk, Entry(h[c]))
    BY DEF Restart
  <2> QED BY <2>1, SortedFile DEF RetryInv
<1>2. SortedQueues(queues') /\ TriedFlight(in_flight')
  BY <1>1 DEF Restart, Recover, Empty, SortedQueues, TriedFlight
<1>3. SortedHeld' /\ OneDequeue'
  BY DEF Restart, SortedHeld, OneDequeue, Idle
<1> QED BY <1>1, <1>2, <1>3 DEF RetryInv

\* The inductive invariant holds throughout.
LEMMA RetryAlways == Spec => []RetryInv
<1>1. Init => RetryInv
  BY DEF Init, RetryInv, Idle, Empty, NoWal, SortedQueues, TriedFlight, SortedHeld, OneDequeue
<1>2. TypeOK /\ RetryInv /\ [Next]_vars => RetryInv'
  <2> SUFFICES ASSUME TypeOK, RetryInv, [Next]_vars PROVE RetryInv'
    OBVIOUS
  <2>1. CASE Next
    BY <2>1, RetryRequest, RetryCleanup, RetryProceed, RetryRestart DEF Next
  <2>2. CASE UNCHANGED vars
    BY <2>2 DEF RetryInv, SortedHeld, OneDequeue, vars, mem
  <2> QED BY <2>1, <2>2
<1> QED BY <1>1, <1>2, TypeCorrect, PTL DEF Spec

\* In every queue but a dead letter queue the tasks that were delivered before
\* wait in front of the fresh ones, whatever runs at the same time, whichever
\* appends fail or are torn, whoever disconnects, and also after a restart.
THEOREM RetriedFirst == Spec => []RetriesFirst
<1>1. RetryInv => RetriesFirst
  BY DEF RetryInv, RetriesFirst, SortedQueues, Sorted
<1> QED BY <1>1, RetryAlways, PTL
-----------------------------------------------------------------------------
(***************************************************************************)
(* The order of fresh items, when one client at a time enqueues.           *)
(***************************************************************************)
\* The fresh items of a deque wait in the order in which they were sent, and
\* were sent before message n.
Rising(s)   == \A i, j \in DOMAIN s : i < j /\ s[i].attempts = 0 /\ s[j].attempts = 0
                                        => s[i].msg < s[j].msg
Before(s, n) == \A i \in DOMAIN s : s[i].attempts = 0 => s[i].msg < n

RisingQueues(f)    == \A q \in DOMAIN f : Rising(f[q])
BeforeQueues(f, n) == \A q \in DOMAIN f : Before(f[q], n)

\* What is in memory, the items in the hands of a dequeue included, was sent
\* before message n.
BeforeAll(n) ==
    /\ BeforeQueues(queues, n)
    /\ \A c \in Actors : h[c].op = "dequeue" => Before(h[c].items, n)

\* The items a dequeue holds fit in front of its queue.
RisingFront ==
    \A c \in Actors : h[c].op = "dequeue" /\ h[c].q \in DOMAIN queues
                        => Rising(h[c].items \o queues[h[c].q])

\* The items of an enqueue are the latest, in memory, and in the log until its
\* entry is there.
Latest(r) ==
    /\ Rising(r.items)
    /\ \A m \in Messages(r.items) :
          /\ m < nextMsg /\ BeforeAll(m)
          /\ r.at = "log" => BeforeQueues(disk.state.queues, m)

OrderInv ==
    /\ RisingQueues(queues) /\ RisingQueues(disk.state.queues) /\ RisingFront
    /\ BeforeAll(nextMsg) /\ BeforeQueues(disk.state.queues, nextMsg)
    /\ \A c \in Actors : h[c].op = "queue" => Latest(h[c])

\* One enqueue at a time.
SerialSends == \A c, d \in Actors : h[c].op = "queue" /\ h[d].op = "queue" => c = d

\* A change of the queues f to g that adds the fresh messages A at the end of
\* one of them keeps the order.
KeepsOrder(f, g, A) ==
    /\ RisingQueues(f) /\ (\A m \in A : BeforeQueues(f, m)) => RisingQueues(g)
    /\ \A n : BeforeQueues(f, n) /\ (\A m \in A : m < n) => BeforeQueues(g, n)

\* Items in front of others that were sent later.
LEMMA RisingConcat ==
    ASSUME NEW s \in Seq(Item), NEW r \in Seq(Item), Rising(s), Rising(r),
           \A i \in DOMAIN r : r[i].attempts = 0 => Before(s, r[i].msg)
    PROVE  Rising(s \o r)
<1> SUFFICES ASSUME NEW i \in DOMAIN (s \o r), NEW j \in DOMAIN (s \o r), i < j,
                    (s \o r)[i].attempts = 0, (s \o r)[j].attempts = 0
             PROVE  (s \o r)[i].msg < (s \o r)[j].msg
  BY DEF Rising
<1>0. i \in Nat /\ j \in Nat /\ Len(s) \in Nat
  OBVIOUS
<1>1. /\ \/ i \in DOMAIN s /\ (s \o r)[i] = s[i]
         \/ i - Len(s) \in DOMAIN r /\ (s \o r)[i] = r[i - Len(s)] /\ i > Len(s)
      /\ \/ j \in DOMAIN s /\ (s \o r)[j] = s[j]
         \/ j - Len(s) \in DOMAIN r /\ (s \o r)[j] = r[j - Len(s)] /\ j > Len(s)
  BY ConcatAt
<1>2. CASE i \in DOMAIN s /\ (s \o r)[i] = s[i] /\ j \in DOMAIN s /\ (s \o r)[j] = s[j]
  BY <1>2 DEF Rising
<1>3. CASE /\ i \in DOMAIN s /\ (s \o r)[i] = s[i]
           /\ j - Len(s) \in DOMAIN r /\ (s \o r)[j] = r[j - Len(s)]
  <2>1. Before(s, r[j - Len(s)].msg)
    BY <1>3
  <2> QED BY <1>3, <2>1 DEF Before
<1>4. CASE /\ i - Len(s) \in DOMAIN r /\ (s \o r)[i] = r[i - Len(s)]
           /\ j - Len(s) \in DOMAIN r /\ (s \o r)[j] = r[j - Len(s)]
  <2>1. i - Len(s) < j - Len(s)
    BY <1>0
  <2> QED BY <1>4, <2>1 DEF Rising
<1>5. CASE i > Len(s) /\ j \in DOMAIN s
  BY <1>0, <1>5
<1> QED BY <1>1, <1>2, <1>3, <1>4, <1>5

\* The parts of a deque that is put together or taken apart.
LEMMA BeforeParts ==
    ASSUME NEW s \in Seq(Item), NEW r \in Seq(Item), NEW n \in Nat, NEW m
    PROVE  /\ Before(s, m) /\ Before(r, m) => Before(s \o r, m)
           /\ Before(s, m) => Before(FirstOf(s, n), m) /\ Before(RestOf(s, n), m)
<1>1. /\ Elements(s \o r) \subseteq Elements(s) \cup Elements(r)
      /\ Elements(FirstOf(s, n)) \cup Elements(RestOf(s, n)) \subseteq Elements(s)
  BY ElementsParts
<1>2. \A t : Before(t, m) <=> \A e \in Elements(t) : e.attempts = 0 => e.msg < m
  BY DEF Before, Elements
<1> QED BY <1>1, <1>2

\* What a dequeue leaves is in order.
LEMMA RisingRest ==
    ASSUME NEW s \in Seq(Item), NEW n \in Nat, Rising(s)
    PROVE  Rising(RestOf(s, n))
<1> DEFINE k == Least(n, Len(s))
           r == RestOf(s, n)
<1>1. /\ k \in Nat /\ DOMAIN r = 1..(Len(s) - k)
      /\ \A i \in 1..(Len(s) - k) : i + k \in DOMAIN s /\ r[i] = s[i + k]
  <2>1. k = Least(n, Len(s)) /\ k \in Nat
    BY DEF Least
  <2> HIDE DEF k
  <2> QED BY <2>1, SplitAt
<1> HIDE DEF k, r
<1>2. ASSUME NEW i \in DOMAIN r, NEW j \in DOMAIN r, i < j, r[i].attempts = 0, r[j].attempts = 0
      PROVE  r[i].msg < r[j].msg
  <2>1. i + k < j + k /\ i + k \in DOMAIN s /\ j + k \in DOMAIN s /\ r[i] = s[i + k] /\ r[j] = s[j + k]
    BY <1>1, <1>2
  <2> QED BY <1>2, <2>1 DEF Rising
<1>3. Rising(r)
  BY <1>2 DEF Rising
<1> QED BY <1>3 DEF r

\* A change of one queue keeps the order of the others.
LEMMA RisingExcept ==
    ASSUME NEW f, RisingQueues(f), NEW g, NEW q,
           \A x \in DOMAIN g : x # q => x \in DOMAIN f /\ g[x] = f[x],
           q \in DOMAIN g => Rising(g[q])
    PROVE  RisingQueues(g)
BY DEF RisingQueues

\* The same of what was sent before a message.
LEMMA BeforeExcept ==
    ASSUME NEW f, NEW n, BeforeQueues(f, n), NEW g, NEW q,
           \A x \in DOMAIN g : x # q => x \in DOMAIN f /\ g[x] = f[x],
           q \in DOMAIN g => Before(g[q], n)
    PROVE  BeforeQueues(g, n)
BY DEF BeforeQueues

\* A retried item does not count, at either end.
LEMMA RisingRetry ==
    ASSUME NEW s \in Seq(Item), NEW item \in Item, item.attempts # 0
    PROVE  /\ Rising(s) => Rising(<<item>> \o s) /\ Rising(Append(s, item))
           /\ \A n : Before(s, n) => Before(<<item>> \o s, n) /\ Before(Append(s, item), n)
<1>1. <<item>> \in Seq(Item) /\ Append(s, item) = s \o <<item>> /\ DOMAIN <<item>> = {1}
  OBVIOUS
<1>2. Rising(<<item>>) /\ \A n : Before(<<item>>, n)
  BY <1>1 DEF Rising, Before
<1>3. Rising(s) => Rising(<<item>> \o s)
  BY <1>1, <1>2, RisingConcat
<1>4. Rising(s) => Rising(s \o <<item>>)
  <2>1. \A i \in DOMAIN <<item>> : <<item>>[i].attempts # 0
    BY <1>1
  <2> QED BY <1>1, <1>2, <2>1, RisingConcat
<1>5. \A n : Before(s, n) => Before(<<item>> \o s, n) /\ Before(s \o <<item>>, n)
  BY <1>1, <1>2, BeforeParts, 0 \in Nat
<1> QED BY <1>1, <1>3, <1>4, <1>5

\* A nack keeps the order of the fresh items.
LEMMA RisingRequeue ==
    ASSUME NEW f, IsQueueMap(f), NEW q \in Name, NEW item \in Item, item.attempts # 0
    PROVE  KeepsOrder(f, Requeue(f, q, item), {})
<1>1. CASE item.attempts >= MaxAttempts
  <2> DEFINE d == Dlq(q)
             old == IF d \in DOMAIN f THEN f[d] ELSE <<>>
             g == Insert(f, d, Append(old, item))
  <2>1. Requeue(f, q, item) = g
    BY <1>1 DEF Requeue
  <2>2. old \in Seq(Item) /\ (RisingQueues(f) => Rising(old)) /\ \A n : BeforeQueues(f, n) => Before(old, n)
    BY DEF IsQueueMap, IsMap, RisingQueues, BeforeQueues, Rising, Before
  <2> HIDE DEF old
  <2>3. /\ RisingQueues(f) => Rising(Append(old, item))
        /\ \A n : BeforeQueues(f, n) => Before(Append(old, item), n)
    BY <2>2, RisingRetry
  <2>4. (\A x \in DOMAIN g : x # d => x \in DOMAIN f /\ g[x] = f[x]) /\ g[d] = Append(old, item)
    BY DEF Insert
  <2> HIDE DEF g, d
  <2>5. RisingQueues(f) => RisingQueues(g)
    BY <2>3, <2>4, RisingExcept
  <2>6. ASSUME NEW n, BeforeQueues(f, n) PROVE BeforeQueues(g, n)
    <3>1. Before(g[d], n)
      BY <2>3, <2>4, <2>6
    <3> QED BY <2>4, <2>6, <3>1, BeforeExcept
  <2> QED BY <2>1, <2>5, <2>6 DEF KeepsOrder
<1>2. CASE ~(item.attempts >= MaxAttempts) /\ q \in DOMAIN f
  <2> DEFINE g == Requeue(f, q, item)
  <2>1. f[q] \in Seq(Item)
    BY <1>2 DEF IsQueueMap, IsMap
  <2>2. (\A x \in DOMAIN g : x # q => x \in DOMAIN f /\ g[x] = f[x]) /\ g[q] = <<item>> \o f[q]
    BY <1>2 DEF Requeue, PushFront, IsQueueMap, IsMap
  <2>3. /\ RisingQueues(f) => Rising(<<item>> \o f[q])
        /\ \A n : BeforeQueues(f, n) => Before(<<item>> \o f[q], n)
    BY <1>2, <2>1, RisingRetry DEF RisingQueues, BeforeQueues
  <2> HIDE DEF g
  <2>4. RisingQueues(f) => RisingQueues(g)
    BY <2>2, <2>3, RisingExcept
  <2>5. ASSUME NEW n, BeforeQueues(f, n) PROVE BeforeQueues(g, n)
    <3>1. Before(g[q], n)
      BY <2>2, <2>3, <2>5
    <3> QED BY <2>2, <2>5, <3>1, BeforeExcept
  <2> QED BY <2>4, <2>5 DEF g, KeepsOrder
<1>3. CASE ~(item.attempts >= MaxAttempts) /\ q \notin DOMAIN f
  BY <1>3 DEF Requeue, KeepsOrder
<1> QED BY <1>1, <1>2, <1>3

\* Fresh items that are the latest go to the end.
LEMMA RisingEnqueue ==
    ASSUME NEW f, IsQueueMap(f), NEW q, NEW items \in Seq(Item), Rising(items)
    PROVE  KeepsOrder(f, Enqueue(f, q, items), Messages(items))
<1>1. CASE q \in DOMAIN f
  <2> DEFINE g == Enqueue(f, q, items)
  <2>1. f[q] \in Seq(Item)
    BY <1>1 DEF IsQueueMap, IsMap
  <2>2. (\A x \in DOMAIN g : x # q => x \in DOMAIN f /\ g[x] = f[x]) /\ g[q] = f[q] \o items
    BY <1>1 DEF Enqueue, PushBack, IsQueueMap, IsMap
  <2> HIDE DEF g
  <2>3. ASSUME RisingQueues(f), \A m \in Messages(items) : BeforeQueues(f, m)
        PROVE  RisingQueues(g)
    <3>1. Rising(f[q]) /\ \A i \in DOMAIN items : Before(f[q], items[i].msg)
      BY <1>1, <2>3 DEF RisingQueues, BeforeQueues, Messages
    <3>2. Rising(f[q] \o items)
      BY <2>1, <3>1, RisingConcat
    <3> QED BY <2>2, <2>3, <3>2, RisingExcept
  <2>4. ASSUME NEW n, BeforeQueues(f, n), \A m \in Messages(items) : m < n
        PROVE  BeforeQueues(g, n)
    <3>1. Before(f[q], n) /\ Before(items, n)
      BY <1>1, <2>4 DEF BeforeQueues, Before, Messages
    <3>2. Before(f[q] \o items, n)
      BY <2>1, <3>1, BeforeParts, 0 \in Nat
    <3> QED BY <2>2, <2>4, <3>2, BeforeExcept
  <2> QED BY <2>3, <2>4 DEF g, KeepsOrder
<1>2. CASE q \notin DOMAIN f
  BY <1>2 DEF Enqueue, KeepsOrder
<1> QED BY <1>1, <1>2

\* A dequeue takes from the front.
LEMMA RisingPop ==
    ASSUME NEW f, IsQueueMap(f), NEW q \in DOMAIN f, NEW n \in Nat
    PROVE  /\ KeepsOrder(f, PopFront(f, q, n), {})
           /\ RisingQueues(f) => Rising(FirstOf(f[q], n) \o RestOf(f[q], n))
           /\ \A m : BeforeQueues(f, m) => Before(FirstOf(f[q], n), m)
<1> DEFINE g == PopFront(f, q, n)
<1>1. f[q] \in Seq(Item)
  BY DEF IsQueueMap, IsMap
<1>2. (\A x \in DOMAIN g : x # q => x \in DOMAIN f /\ g[x] = f[x]) /\ g[q] = RestOf(f[q], n)
  BY DEF PopFront, IsQueueMap, IsMap
<1> HIDE DEF g
<1>3. FirstOf(f[q], n) \o RestOf(f[q], n) = f[q]
  BY <1>1, SplitConcat
<1>4. RisingQueues(f) => Rising(f[q]) /\ Rising(RestOf(f[q], n))
  BY <1>1, RisingRest DEF RisingQueues
<1>5. \A m : BeforeQueues(f, m) => Before(RestOf(f[q], n), m) /\ Before(FirstOf(f[q], n), m)
  BY <1>1, BeforeParts DEF BeforeQueues
<1>6. RisingQueues(f) => RisingQueues(g)
  BY <1>2, <1>4, RisingExcept
<1>7. \A m : BeforeQueues(f, m) => BeforeQueues(g, m)
  BY <1>2, <1>5, BeforeExcept
<1> QED BY <1>3, <1>4, <1>5, <1>6, <1>7 DEF g, KeepsOrder

\* The replay of an entry keeps the order, when the messages of an enqueue come
\* in order.
LEMMA ReplayRising ==
    ASSUME NEW st, IsState(st), TriedFlight(st.in_flight),
           NEW op, NEW q, NEW items \in Seq(Item), NEW ids \in Seq(Nat),
           op = "queue" => AllFresh(items) /\ Rising(items),
           NEW new, new = ReplayOp(st, WalOp(op, q, items, ids))
    PROVE  KeepsOrder(st.queues, new.queues, IF op = "queue" THEN Messages(items) ELSE {})
<1> DEFINE e == WalOp(op, q, items, ids)
<1>e. new = ReplayOp(st, e)
  OBVIOUS
<1>0. /\ st = [queues |-> st.queues, in_flight |-> st.in_flight]
      /\ IsQueueMap(st.queues) /\ IsFlightMap(st.in_flight)
  BY DEF IsState
<1>s. KeepsOrder(st.queues, st.queues, {})
  BY DEF KeepsOrder
<1>1. CASE op = "create_queue"
  <2>1. e.op = "create_queue" /\ e.queue = q
    BY <1>1 DEF WalOp
  <2> HIDE DEF e
  <2>2. new = st \/ new.queues = Insert(st.queues, q, <<>>)
    BY <1>e, <1>0, <2>1 DEF ReplayOp
  <2>3. KeepsOrder(st.queues, Insert(st.queues, q, <<>>), {})
    BY DEF Insert, KeepsOrder, RisingQueues, BeforeQueues, Rising, Before
  <2> QED BY <1>1, <1>s, <2>2, <2>3
<1>2. CASE op = "queue"
  <2> DEFINE data == [i \in DOMAIN items |-> items[i].msg]
             fresh == [i \in DOMAIN data |-> Fresh(data[i])]
  <2>1. e.op = "queue" /\ e.queue = q /\ e.data = data
    BY <1>2 DEF WalOp
  <2>2. DOMAIN items = 1..Len(items) /\ Len(items) \in Nat /\ \A i \in DOMAIN items : items[i] \in Item
    OBVIOUS
  <2>6. \A i \in DOMAIN items : Fresh(items[i].msg) \in Item /\ Fresh(items[i].msg).msg = items[i].msg
    BY <2>2 DEF Item, Fresh
  <2>7. fresh = [i \in DOMAIN items |-> Fresh(items[i].msg)]
    OBVIOUS
  <2>3. fresh \in Seq(Item) /\ DOMAIN fresh = DOMAIN items /\ \A i \in DOMAIN items : fresh[i].msg = items[i].msg
    BY <2>2, <2>6, <2>7
  <2> HIDE DEF e
  <2>4. new = ReplayEnqueue(st, e)
    BY <1>e, <2>1 DEF ReplayOp
  <2>5. new.queues = Enqueue(st.queues, q, fresh)
    BY <1>0, <2>1, <2>4 DEF ReplayEnqueue
  <2> HIDE DEF fresh
  <2>8. Messages(fresh) = Messages(items) /\ Rising(fresh)
    BY <1>2, <2>3 DEF Messages, Rising, AllFresh
  <2> QED BY <1>0, <1>2, <2>3, <2>5, <2>8, RisingEnqueue
<1>3. CASE op = "dequeue"
  <2>1. e.op = "dequeue" /\ e.queue = q /\ e.ids = ids
    BY <1>3 DEF WalOp
  <2> HIDE DEF e
  <2>2. new = ReplayDequeued(st, e)
    BY <1>e, <2>1 DEF ReplayOp
  <2>3. CASE q \in DOMAIN st.queues
    <3>1. new.queues = PopFront(st.queues, q, Len(ids)) /\ Len(ids) \in Nat
      BY <2>1, <2>2, <2>3 DEF ReplayDequeued
    <3> QED BY <1>0, <1>3, <2>3, <3>1, RisingPop
  <2>4. CASE q \notin DOMAIN st.queues
    BY <1>3, <1>s, <2>1, <2>2, <2>4 DEF ReplayDequeued
  <2> QED BY <2>3, <2>4
<1>4. CASE op \in {"ack", "ack_batch"}
  <2>1. e.op = op /\ e.ids = ids
    BY <1>4 DEF WalOp
  <2> HIDE DEF e
  <2>2. new = ReplayAck(st, ids)
    BY <1>e, <1>4, <2>1 DEF ReplayOp
  <2>3. new.queues = st.queues
    BY <1>0, <2>2 DEF ReplayAck
  <2> QED BY <1>4, <1>s, <2>3
<1>5. CASE op = "nack"
  <2>1. e.op = op /\ e.ids = ids
    BY <1>5 DEF WalOp
  <2> HIDE DEF e
  <2> DEFINE t == ids[1]
             task == st.in_flight[t]
             item == [msg |-> task.msg, attempts |-> task.attempts]
  <2>2. new = ReplayNack(st, t)
    BY <1>e, <1>5, <2>1 DEF ReplayOp
  <2>3. CASE t \in DOMAIN st.in_flight
    <3>1. new.queues = Requeue(st.queues, task.queue, item)
      BY <2>2, <2>3 DEF ReplayNack
    <3>2. item \in Item /\ task.queue \in Name /\ item.attempts # 0
      BY <1>0, <2>3 DEF IsFlightMap, IsMap, Task, Item, TriedFlight
    <3> HIDE DEF item, task
    <3> QED BY <1>0, <1>5, <3>1, <3>2, RisingRequeue
  <2>4. CASE t \notin DOMAIN st.in_flight
    BY <1>5, <1>s, <2>2, <2>4 DEF ReplayNack
  <2> QED BY <2>3, <2>4
<1>6. CASE op \notin {"create_queue", "queue", "dequeue", "ack", "ack_batch", "nack"}
  <2>1. e.op = op
    BY <1>6 DEF WalOp
  <2> HIDE DEF e
  <2>2. new = st
    BY <1>e, <1>6, <2>1 DEF ReplayOp
  <2> QED BY <1>6, <1>s, <2>2
<1> QED BY <1>1, <1>2, <1>3, <1>4, <1>5, <1>6

\* The messages the entry of a request adds to the log.
Adds(r) == IF r.op = "queue" THEN Messages(r.items) ELSE {}

\* The entry of a request in progress keeps the order in the log.
LEMMA RisingFile ==
    ASSUME TypeOK, RetryInv, OrderInv, NEW c \in Actors,
           NEW f \in TornAppends(disk, Entry(h[c])) \cup {disk}
    PROVE  KeepsOrder(disk.state.queues, f.state.queues, Adds(h[c]))
<1> DEFINE new == ReplayOp(disk.state, Entry(h[c]))
<1>1. /\ disk = [state |-> disk.state, tail |-> disk.tail] /\ IsState(disk.state)
      /\ h[c].items \in Seq(Item) /\ h[c].ids \in Seq(Nat)
      /\ TriedFlight(disk.state.in_flight)
      /\ h[c].op = "queue" => AllFresh(h[c].items) /\ Rising(h[c].items)
  BY DEF TypeOK, IsWalFile, Handler, RetryInv, SortedHeld, OrderInv, Latest
<1>2. KeepsOrder(disk.state.queues, new.queues, Adds(h[c]))
  BY <1>1, ReplayRising DEF Entry, Adds
<1>3. f.state \in {disk.state, new}
  BY <1>1 DEF TornAppends, WalAppend
<1> HIDE DEF new
<1>4. KeepsOrder(disk.state.queues, disk.state.queues, Adds(h[c]))
  BY DEF KeepsOrder
<1> QED BY <1>2, <1>3, <1>4

\* A step of the request of c, which becomes r, that adds the messages A to
\* memory and B to the log.
RisingStep(c, r, A, B) ==
    /\ h' = [h EXCEPT ![c] = r]
    /\ RisingQueues(queues') /\ RisingFront'
    /\ \A n : BeforeAll(n) /\ (\A m \in A : m < n)
                => BeforeQueues(queues', n) /\ (r.op = "dequeue" => Before(r.items, n))
    /\ KeepsOrder(disk.state.queues, disk'.state.queues, B)
    /\ nextMsg' \in Nat /\ nextMsg <= nextMsg'
    /\ A # {} => h[c].op = "queue" /\ A = Messages(h[c].items) /\ r.op # "queue"
    /\ B # {} => h[c].op = "queue" /\ h[c].at = "log" /\ B = Messages(h[c].items)
    /\ r.op = "queue" =>
          /\ r.items \in Seq(Item) /\ Rising(r.items)
          /\ \/ h[c].op = "queue" /\ r.items = h[c].items /\ r.at # "log"
             \/ A = {} /\ B = {} /\ \A m \in Messages(r.items) : nextMsg <= m /\ m < nextMsg'

\* What was sent before a message was sent before every later one.
LEMMA BeforeLater ==
    ASSUME TypeOK, NEW n \in Nat, NEW m \in Nat, n <= m
    PROVE  /\ BeforeAll(n) => BeforeAll(m)
           /\ BeforeQueues(disk.state.queues, n) => BeforeQueues(disk.state.queues, m)
<1>1. ASSUME NEW s \in Seq(Item), Before(s, n) PROVE Before(s, m)
  <2>1. \A i \in DOMAIN s : s[i] \in Item
    OBVIOUS
  <2>2. \A i \in DOMAIN s : s[i].msg \in Nat
    BY <2>1 DEF Item
  <2> QED BY <1>1, <2>2 DEF Before
<1>2. ASSUME NEW f, IsQueueMap(f), BeforeQueues(f, n) PROVE BeforeQueues(f, m)
  BY <1>1, <1>2 DEF IsQueueMap, IsMap, BeforeQueues
<1>3. \A c \in Actors : h[c].items \in Seq(Item)
  BY DEF TypeOK, Handler
<1>4. IsQueueMap(queues) /\ IsQueueMap(disk.state.queues)
  BY DEF TypeOK, IsWalFile, IsState
<1> QED BY <1>1, <1>2, <1>3, <1>4 DEF BeforeAll

\* Such a step keeps the order when enqueues come one at a time.
LEMMA OrderStep ==
    ASSUME TypeOK, OrderInv, SerialSends, NEW c \in Actors, NEW r, NEW A, NEW B, RisingStep(c, r, A, B)
    PROVE  OrderInv'
<1>0. /\ h'[c] = r /\ \A d \in Actors : d # c => h'[d] = h[d]
      /\ \A d \in Actors : h[d].items \in Seq(Item)
  BY DEF TypeOK, RisingStep, Handler
<1>1. \A m \in A : m \in Nat /\ m < nextMsg
  BY <1>0, MessagesType DEF RisingStep, OrderInv, Latest
<1>2. \A m \in B : m \in Nat /\ m < nextMsg /\ BeforeQueues(disk.state.queues, m)
  BY <1>0, MessagesType DEF RisingStep, OrderInv, Latest
<1>3. ASSUME NEW n, BeforeAll(n), \A m \in A : m < n
      PROVE  BeforeAll(n)'
  <2>1. BeforeQueues(queues', n) /\ (r.op = "dequeue" => Before(r.items, n))
    BY <1>3 DEF RisingStep
  <2> QED BY <1>0, <1>3, <2>1 DEF BeforeAll
<1>4. ASSUME NEW n, BeforeQueues(disk.state.queues, n), \A m \in B : m < n
      PROVE  BeforeQueues(disk'.state.queues, n)
  BY <1>4 DEF RisingStep, KeepsOrder
<1>5. RisingQueues(disk'.state.queues)
  BY <1>2 DEF RisingStep, KeepsOrder, OrderInv
<1>6. nextMsg \in Nat /\ nextMsg' \in Nat /\ nextMsg <= nextMsg'
  BY DEF TypeOK, RisingStep
<1>7. BeforeAll(nextMsg') /\ BeforeQueues(disk.state.queues, nextMsg')
  BY <1>6, BeforeLater DEF OrderInv
<1>8. (\A m \in A : m < nextMsg') /\ (\A m \in B : m < nextMsg')
  BY <1>1, <1>2, <1>6
<1>9. BeforeAll(nextMsg)' /\ BeforeQueues(disk'.state.queues, nextMsg')
  BY <1>3, <1>4, <1>7, <1>8 DEF BeforeAll
<1>10. ASSUME NEW d \in Actors, h'[d].op = "queue", NEW m \in Messages(h'[d].items)
       PROVE  m < nextMsg' /\ BeforeAll(m)' /\ (h'[d].at = "log" => BeforeQueues(disk'.state.queues, m))
  <2>0. m \in Nat
    <3>1. h'[d].items \in Seq(Item)
      BY <1>0, <1>10 DEF RisingStep
    <3> QED BY <1>10, <3>1, MessagesType
  <2>1. CASE d # c
    <3>1. h'[d] = h[d] /\ A = {} /\ B = {}
      BY <1>0, <1>10, <2>1 DEF RisingStep, SerialSends
    <3>2. m < nextMsg /\ BeforeAll(m) /\ (h[d].at = "log" => BeforeQueues(disk.state.queues, m))
      BY <1>10, <3>1 DEF OrderInv, Latest
    <3> QED BY <1>3, <1>4, <1>6, <2>0, <3>1, <3>2
  <2>2. CASE d = c /\ h[c].op = "queue" /\ r.items = h[c].items /\ r.at # "log"
    <3>1. m < nextMsg /\ BeforeAll(m) /\ A = {}
      BY <1>0, <1>10, <2>2 DEF OrderInv, Latest, RisingStep
    <3> QED BY <1>0, <1>3, <1>6, <2>0, <2>2, <3>1
  <2>3. CASE d = c /\ A = {} /\ B = {} /\ nextMsg <= m /\ m < nextMsg'
    <3>1. BeforeAll(m) /\ BeforeQueues(disk.state.queues, m)
      BY <1>6, <2>0, <2>3, BeforeLater DEF OrderInv
    <3> QED BY <1>3, <1>4, <2>3, <3>1
  <2> QED BY <1>0, <1>10, <2>1, <2>2, <2>3 DEF RisingStep
<1>11. \A d \in Actors : h'[d].op = "queue" => Rising(h'[d].items)
  BY <1>0 DEF RisingStep, OrderInv, Latest
<1>12. \A d \in Actors : h'[d].op = "queue" => Latest(h[d])'
  BY <1>10, <1>11 DEF Latest
<1> QED BY <1>5, <1>9, <1>12 DEF OrderInv, RisingStep

\* The request of c becomes r, and one queue changes, from which no other
\* dequeue has taken.
FrontStep(c, r, q) ==
    /\ h' = [h EXCEPT ![c] = r]
    /\ \A x \in DOMAIN queues' : x # q => x \in DOMAIN queues /\ queues'[x] = queues[x]
    /\ \A d \in Actors : d # c /\ h[d].op = "dequeue" => h[d].q # q
    /\ r.op = "dequeue" => r.q = q /\ Rising(r.items \o queues'[q])

\* What the others hold still fits in front of their queues.
LEMMA FrontExcept ==
    ASSUME TypeOK, OrderInv, NEW c \in Actors, NEW r, NEW q, FrontStep(c, r, q)
    PROVE  RisingFront'
<1>1. h'[c] = r /\ \A d \in Actors : d # c => h'[d] = h[d]
  BY DEF TypeOK, FrontStep
<1> QED BY <1>1 DEF OrderInv, RisingFront, FrontStep

\* A step that changes no queue and ends a request of c, begins one without
\* items, or brings it to its last stage.
LEMMA OrderKeep ==
    ASSUME TypeOK, OrderInv, SerialSends, NEW c \in Actors, NEW r, h' = [h EXCEPT ![c] = r],
           \/ r.op \notin {"queue", "dequeue"}
           \/ r.op = h[c].op /\ r.items = h[c].items /\ r.q = h[c].q /\ r.at # "log",
           UNCHANGED <<queues, nextMsg>>,
           KeepsOrder(disk.state.queues, disk'.state.queues, IF h[c].at = "log" THEN Adds(h[c]) ELSE {})
    PROVE  OrderInv'
<1> DEFINE B == IF h[c].at = "log" THEN Adds(h[c]) ELSE {}
<1>1. h'[c] = r /\ \A d \in Actors : d # c => h'[d] = h[d]
  BY DEF TypeOK
<1>2. RisingFront'
  BY <1>1 DEF OrderInv, RisingFront
<1>3. /\ B # {} => h[c].op = "queue" /\ h[c].at = "log" /\ B = Messages(h[c].items)
      /\ KeepsOrder(disk.state.queues, disk'.state.queues, B)
  BY DEF Adds
<1> HIDE DEF B
<1>4. RisingQueues(queues') /\ nextMsg' \in Nat /\ nextMsg <= nextMsg'
  BY DEF OrderInv, TypeOK
<1>5. \A n : BeforeAll(n) => BeforeQueues(queues', n) /\ (r.op = "dequeue" => Before(r.items, n))
  BY DEF BeforeAll
<1>6. r.op = "queue" => /\ h[c].op = "queue" /\ r.items = h[c].items /\ r.at # "log"
                        /\ r.items \in Seq(Item) /\ Rising(r.items)
  BY DEF OrderInv, Latest, TypeOK, Handler
<1>7. RisingStep(c, r, {}, B)
  BY <1>2, <1>3, <1>4, <1>5, <1>6 DEF RisingStep
<1> QED BY <1>7, OrderStep

\* A request of c whose last stage changes one queue.
LEMMA OrderOneQueue ==
    ASSUME TypeOK, OrderInv, SerialSends, NEW c \in Actors, NEW q, NEW A,
           h' = [h EXCEPT ![c] = Idle], ~QueueLocked(q), UNCHANGED <<disk, nextMsg>>,
           \A x \in DOMAIN queues' : x # q => x \in DOMAIN queues /\ queues'[x] = queues[x],
           A \in {{}, Adds(h[c])}, KeepsOrder(queues, queues', A)
    PROVE  OrderInv'
<1>1. Idle.op = "idle" /\ nextMsg' \in Nat /\ nextMsg <= nextMsg' /\ RisingQueues(queues)
  BY DEF Idle, TypeOK, OrderInv
<1>2. A # {} => h[c].op = "queue" /\ A = Messages(h[c].items)
  BY DEF Adds
<1>3. RisingQueues(queues')
  BY <1>1, <1>2 DEF KeepsOrder, OrderInv, Latest, BeforeAll
<1>4. \A d \in Actors : d # c /\ h[d].op = "dequeue" => h[d].q # q
  BY DEF QueueLocked
<1>5. FrontStep(c, Idle, q)
  BY <1>1, <1>4 DEF FrontStep
<1>9. RisingFront'
  BY <1>5, FrontExcept
<1>6. \A n : BeforeAll(n) /\ (\A m \in A : m < n) => BeforeQueues(queues', n)
  BY DEF BeforeAll, KeepsOrder
<1>7. KeepsOrder(disk.state.queues, disk'.state.queues, {})
  BY DEF KeepsOrder
<1>8. RisingStep(c, Idle, A, {})
  BY <1>1, <1>2, <1>3, <1>9, <1>6, <1>7 DEF RisingStep
<1> QED BY <1>8, OrderStep

\* Every request keeps the order.
LEMMA OrderRequest ==
    ASSUME TypeOK, RetryInv, OrderInv, SerialSends, NEW c \in Clients, Request(c)
    PROVE  OrderInv'
<1> c \in Actors
  BY DEF Actors
<1>0. /\ RisingQueues(queues) /\ IsQueueMap(queues) /\ nextMsg \in Nat
      /\ \A A : KeepsOrder(disk.state.queues, disk.state.queues, A)
  BY DEF OrderInv, TypeOK, KeepsOrder
<1>1. ASSUME NEW q \in CreateNames, CreateQueue(c, q)
      PROVE  OrderInv'
  <2> DEFINE r == [op |-> "create_queue", at |-> "log", q |-> q, items |-> <<>>, ids |-> <<>>]
  <2>1. h' = [h EXCEPT ![c] = r] /\ UNCHANGED <<queues, disk, nextMsg>> /\ r.op = "create_queue"
    BY <1>1 DEF CreateQueue, Begin, mem
  <2> HIDE DEF r
  <2> QED BY <1>0, <2>1, OrderKeep
<1>2. ASSUME NEW q \in ReqNames, NEW n \in 1..MaxBatch, Queue(c, q, n)
      PROVE  OrderInv'
  <2> DEFINE r == [op |-> "queue", at |-> "log", q |-> q, items |-> NewItems(n), ids |-> <<>>]
  <2>1. /\ h' = [h EXCEPT ![c] = r] /\ UNCHANGED <<queues, disk>> /\ ~QueueLocked(q)
        /\ nextMsg' = nextMsg + n /\ n \in Nat
    BY <1>2 DEF Queue, Begin, mem
  <2>2. /\ DOMAIN NewItems(n) = 1..n
        /\ \A i \in 1..n : /\ NewItems(n)[i] = Fresh(nextMsg + i - 1)
                           /\ nextMsg + i - 1 \in Nat
    BY <1>0, <2>1 DEF NewItems
  <2>3. \A i \in 1..n : NewItems(n)[i] \in Item /\ NewItems(n)[i].msg = nextMsg + i - 1
    BY <2>2 DEF Fresh, Item
  <2>4. NewItems(n) \in Seq(Item)
    <3>1. NewItems(n) = [i \in 1..n |-> NewItems(n)[i]]
      BY DEF NewItems
    <3> HIDE DEF NewItems
    <3> QED BY <2>1, <2>2, <2>3, <3>1
  <2>5. /\ Rising(NewItems(n))
        /\ \A m \in Messages(NewItems(n)) : nextMsg <= m /\ m < nextMsg'
    <3> DEFINE s == NewItems(n)
    <3>1. DOMAIN s = 1..n /\ \A i \in 1..n : s[i].msg = nextMsg + i - 1
      BY <2>2, <2>3
    <3> HIDE DEF s
    <3>2. Rising(s)
      BY <1>0, <2>1, <3>1 DEF Rising
    <3>3. \A m \in Messages(s) : nextMsg <= m /\ m < nextMsg'
      BY <1>0, <2>1, <3>1 DEF Messages
    <3> QED BY <3>2, <3>3 DEF s
  <2>6. r.op = "queue" /\ r.items = NewItems(n)
    OBVIOUS
  <2> HIDE DEF r
  <2>7. RisingFront'
    <3>1. \A d \in Actors : d # c /\ h[d].op = "dequeue" => h[d].q # q
      BY <2>1 DEF QueueLocked
    <3>2. \A x \in DOMAIN queues' : x # q => x \in DOMAIN queues /\ queues'[x] = queues[x]
      BY <2>1
    <3>3. FrontStep(c, r, q)
      BY <2>1, <2>6, <3>1, <3>2 DEF FrontStep
    <3> QED BY <3>3, FrontExcept
  <2>8. \A k : BeforeAll(k) => BeforeQueues(queues', k)
    BY <2>1 DEF BeforeAll
  <2>9. nextMsg' \in Nat /\ nextMsg <= nextMsg' /\ RisingQueues(queues')
        /\ KeepsOrder(disk.state.queues, disk'.state.queues, {})
    BY <1>0, <2>1
  <2>10. RisingStep(c, r, {}, {})
    BY <2>1, <2>4, <2>5, <2>6, <2>7, <2>8, <2>9 DEF RisingStep
  <2> QED BY <2>10, OrderStep
<1>3. ASSUME NEW q \in ReqNames, NEW n \in 1..MaxBatch, Dequeue(c, q, n)
      PROVE  OrderInv'
  <2> DEFINE items == FirstOf(queues[q], n)
             r == [op |-> "dequeue", at |-> "log", q |-> q,
                   items |-> items, ids |-> NewIds(Len(items))]
  <2>1. /\ h' = [h EXCEPT ![c] = r] /\ queues' = PopFront(queues, q, n) /\ ~QueueLocked(q)
        /\ UNCHANGED <<disk, nextMsg>> /\ q \in DOMAIN queues /\ n \in Nat
    BY <1>3 DEF Dequeue, Begin
  <2>2. r.op = "dequeue" /\ r.q = q /\ r.items = items
    OBVIOUS
  <2> HIDE DEF r
  <2>3. /\ KeepsOrder(queues, queues', {}) /\ Rising(items \o RestOf(queues[q], n))
        /\ \A m : BeforeQueues(queues, m) => Before(items, m)
    BY <1>0, <2>1, RisingPop
  <2>4. /\ queues'[q] = RestOf(queues[q], n)
        /\ \A x \in DOMAIN queues' : x # q => x \in DOMAIN queues /\ queues'[x] = queues[x]
    BY <1>0, <2>1 DEF PopFront, IsQueueMap, IsMap
  <2> HIDE DEF items
  <2>5. \A d \in Actors : d # c /\ h[d].op = "dequeue" => h[d].q # q
    BY <2>1 DEF QueueLocked
  <2>6. RisingFront'
    <3>1. FrontStep(c, r, q)
      BY <2>1, <2>2, <2>3, <2>4, <2>5 DEF FrontStep
    <3> QED BY <3>1, FrontExcept
  <2>7. RisingQueues(queues') /\ nextMsg' \in Nat /\ nextMsg <= nextMsg'
        /\ KeepsOrder(disk.state.queues, disk'.state.queues, {})
    BY <1>0, <2>1, <2>3 DEF KeepsOrder
  <2>8. \A k : BeforeAll(k) => BeforeQueues(queues', k) /\ Before(r.items, k)
    BY <2>2, <2>3 DEF BeforeAll, KeepsOrder
  <2>9. RisingStep(c, r, {}, {})
    BY <2>1, <2>2, <2>6, <2>7, <2>8 DEF RisingStep
  <2> QED BY <2>9, OrderStep
<1>4. ASSUME NEW t \in KnownIds, NEW op \in {"ack", "nack"}, TakeTask(c, op, t)
      PROVE  OrderInv'
  <2> DEFINE task == in_flight[t]
             r == [op |-> op, at |-> "log", q |-> task.queue,
                   items |-> <<[msg |-> task.msg, attempts |-> task.attempts]>>, ids |-> <<t>>]
  <2>1. h' = [h EXCEPT ![c] = r] /\ UNCHANGED <<queues, disk, nextMsg>> /\ r.op = op
    BY <1>4 DEF TakeTask, Begin
  <2> HIDE DEF r
  <2> QED BY <1>0, <2>1, OrderKeep
<1>5. ASSUME NEW t \in KnownIds, ExtendVisibility(c, t)
      PROVE  OrderInv'
  <2> DEFINE r == [op |-> "extend", at |-> "log", q |-> in_flight[t].queue,
                   items |-> <<>>, ids |-> <<t>>]
  <2>1. h' = [h EXCEPT ![c] = r] /\ UNCHANGED <<queues, disk, nextMsg>> /\ r.op = "extend"
    BY <1>5 DEF ExtendVisibility, Begin, mem
  <2> HIDE DEF r
  <2> QED BY <1>0, <2>1, OrderKeep
<1>6. ASSUME NEW ids \in IdLists, AckBatch(c, ids)
      PROVE  OrderInv'
  <2> DEFINE r == [op |-> "ack_batch", at |-> "log", q |-> NoName, items |-> <<>>, ids |-> ids]
  <2>1. h' = [h EXCEPT ![c] = r] /\ UNCHANGED <<queues, disk, nextMsg>> /\ r.op = "ack_batch"
    BY <1>6 DEF AckBatch, Begin, mem
  <2> HIDE DEF r
  <2> QED BY <1>0, <2>1, OrderKeep
<1>7. CASE Disconnect(c)
  <2>1. /\ h' = [h EXCEPT ![c] = Idle] /\ UNCHANGED <<queues, nextMsg>> /\ h[c].at = "log"
        /\ disk' \in TornAppends(disk, Entry(h[c])) \cup {disk} /\ Idle.op = "idle"
    BY <1>7 DEF Disconnect, mem, TornAppends, Idle
  <2>2. KeepsOrder(disk.state.queues, disk'.state.queues, Adds(h[c]))
    BY <2>1, RisingFile
  <2> QED BY <2>1, <2>2, OrderKeep
<1> QED BY <1>1, <1>2, <1>3, <1>4, <1>5, <1>6, <1>7 DEF Request, Ack, Nack

\* The cleanup loop keeps the order.
LEMMA OrderCleanup ==
    ASSUME TypeOK, OrderInv, SerialSends, NEW c \in Sweepers, Cleanup(c)
    PROVE  OrderInv'
<1> c \in Actors
  BY DEF Actors
<1>1. ASSUME NEW t, TakeTask(c, "nack", t) PROVE OrderInv'
  <2> DEFINE task == in_flight[t]
             r == [op |-> "nack", at |-> "log", q |-> task.queue,
                   items |-> <<[msg |-> task.msg, attempts |-> task.attempts]>>, ids |-> <<t>>]
  <2>1. h' = [h EXCEPT ![c] = r] /\ UNCHANGED <<queues, disk, nextMsg>> /\ r.op = "nack"
    BY <1>1 DEF TakeTask, Begin
  <2> HIDE DEF r
  <2>2. \A A : KeepsOrder(disk.state.queues, disk'.state.queues, A)
    BY <2>1 DEF KeepsOrder
  <2> QED BY <2>1, <2>2, OrderKeep
<1>2. CASE UNCHANGED <<queues, disk, h, nextMsg>>
  BY <1>2 DEF OrderInv, RisingFront, BeforeAll, Latest
<1> QED BY <1>1, <1>2 DEF Cleanup, Scan, CleanupNack, mem

\* Every later stage keeps the order.
LEMMA OrderProceed ==
    ASSUME TypeOK, RetryInv, OrderInv, SerialSends, NEW c \in Actors, Proceed(c)
    PROVE  OrderInv'
<1> DEFINE r == h[c]
<1>0. /\ RisingQueues(queues) /\ IsQueueMap(queues) /\ nextMsg \in Nat
      /\ \A A : KeepsOrder(disk.state.queues, disk.state.queues, A)
      /\ r.items \in Seq(Item) /\ HandlerOK(r, DOMAIN delivered)
  BY DEF OrderInv, TypeOK, KeepsOrder, Handler
<1>i. Idle.op = "idle"
  BY DEF Idle
<1>1. CASE Log(c)
  <2> DEFINE s == [r EXCEPT !.at = "apply"]
  <2>1. h' = [h EXCEPT ![c] = s] /\ UNCHANGED <<queues, nextMsg>> /\ r.at = "log"
    BY <1>1 DEF Log, TypeOK, mem
  <2>2. s.op = r.op /\ s.items = r.items /\ s.q = r.q /\ s.at = "apply"
    BY DEF TypeOK, Handler
  <2>3. disk' \in TornAppends(disk, Entry(h[c])) \cup {disk}
    BY <1>1 DEF Log, TornAppends
  <2> HIDE DEF s
  <2>4. KeepsOrder(disk.state.queues, disk'.state.queues, Adds(h[c]))
    BY <2>3, RisingFile
  <2> QED BY <2>1, <2>2, <2>4, OrderKeep
<1>2. CASE LogFail(c)
  <2>1. /\ h' = [h EXCEPT ![c] = Idle] /\ Compensate(r) /\ r.at = "log" /\ UNCHANGED nextMsg
        /\ disk' \in TornAppends(disk, Entry(h[c])) \cup {disk}
    BY <1>2 DEF LogFail, TornAppends
  <2>2. KeepsOrder(disk.state.queues, disk'.state.queues, Adds(h[c]))
    BY <2>1, RisingFile
  <2>3. CASE r.op = "dequeue"
    <3> DEFINE q == r.q
    <3>1. queues' = PushFront(queues, q, r.items) /\ Adds(r) = {}
      BY <2>1, <2>3 DEF Compensate, Adds
    <3>2. /\ \A x \in DOMAIN queues' : x # q => x \in DOMAIN queues /\ queues'[x] = queues[x]
          /\ q \in DOMAIN queues' => q \in DOMAIN queues /\ queues'[q] = r.items \o queues[q]
                                     /\ queues[q] \in Seq(Item)
      BY <1>0, <3>1 DEF PushFront, IsQueueMap, IsMap
    <3>3. q \in DOMAIN queues => Rising(r.items \o queues[q])
      BY <2>3 DEF OrderInv, RisingFront
    <3>4. \A d \in Actors : d # c /\ h[d].op = "dequeue" => h[d].q # q
      BY <2>3 DEF RetryInv, OneDequeue
    <3> HIDE DEF q
    <3>5. RisingQueues(queues')
      BY <1>0, <3>2, <3>3, RisingExcept
    <3>6. RisingFront'
      <4>1. FrontStep(c, Idle, q)
        BY <1>i, <2>1, <3>2, <3>4 DEF FrontStep
      <4> QED BY <4>1, FrontExcept
    <3>7. ASSUME NEW n, BeforeAll(n) PROVE BeforeQueues(queues', n)
      <4>1. BeforeQueues(queues, n) /\ Before(r.items, n)
        BY <2>3, <3>7 DEF BeforeAll
      <4>2. q \in DOMAIN queues' => Before(queues'[q], n)
        BY <1>0, <3>2, <4>1, BeforeParts, 0 \in Nat DEF BeforeQueues
      <4> QED BY <3>2, <4>1, <4>2, BeforeExcept
    <3>8. nextMsg' \in Nat /\ nextMsg <= nextMsg'
          /\ KeepsOrder(disk.state.queues, disk'.state.queues, {})
      BY <1>0, <2>1, <2>2, <3>1
    <3>9. RisingStep(c, Idle, {}, {})
      BY <1>i, <2>1, <3>5, <3>6, <3>7, <3>8 DEF RisingStep
    <3> QED BY <3>9, OrderStep
  <2>4. CASE r.op # "dequeue"
    <3>1. UNCHANGED queues
      BY <2>1, <2>4 DEF Compensate
    <3> QED BY <1>i, <2>1, <2>2, <3>1, OrderKeep
  <2> QED BY <2>3, <2>4
<1>3. CASE FinishCreate(c)
  <2> DEFINE q == r.q
  <2>1. /\ h' = [h EXCEPT ![c] = Idle] /\ queues' = Insert(queues, q, <<>>) /\ ~QueueLocked(q)
        /\ UNCHANGED <<disk, nextMsg>>
    BY <1>3 DEF FinishCreate, End
  <2> HIDE DEF q
  <2>2. /\ \A x \in DOMAIN queues' : x # q => x \in DOMAIN queues /\ queues'[x] = queues[x]
        /\ KeepsOrder(queues, queues', {})
    BY <2>1 DEF Insert, KeepsOrder, RisingQueues, BeforeQueues, Rising, Before
  <2> QED BY <1>0, <1>i, <2>1, <2>2, OrderOneQueue
<1>4. CASE FinishQueue(c)
  <2> DEFINE q == r.q
  <2>1. /\ h' = [h EXCEPT ![c] = Idle] /\ queues' = Enqueue(queues, q, r.items) /\ ~QueueLocked(q)
        /\ UNCHANGED <<disk, nextMsg>> /\ r.op = "queue"
    BY <1>4 DEF FinishQueue, End
  <2> HIDE DEF q
  <2>2. \A x \in DOMAIN queues' : x # q => x \in DOMAIN queues /\ queues'[x] = queues[x]
    BY <1>0, <2>1 DEF Enqueue, PushBack, IsQueueMap, IsMap
  <2>3. Rising(r.items)
    BY <2>1 DEF OrderInv, Latest
  <2>4. KeepsOrder(queues, queues', Messages(r.items))
    BY <1>0, <2>1, <2>3, RisingEnqueue
  <2>5. Adds(r) = Messages(r.items)
    BY <2>1 DEF Adds
  <2> QED BY <1>0, <1>i, <2>1, <2>2, <2>4, <2>5, OrderOneQueue
<1>5. CASE FinishDequeue(c) \/ FinishAck(c) \/ FinishExtend(c) \/ FinishAckBatch(c)
  <2>1. h' = [h EXCEPT ![c] = Idle] /\ UNCHANGED <<queues, disk, nextMsg>>
    BY <1>5 DEF FinishDequeue, FinishAck, FinishExtend, FinishAckBatch, End, mem
  <2> QED BY <1>0, <1>i, <2>1, OrderKeep
<1>6. CASE FinishNack(c)
  <2> DEFINE item == r.items[1]
             q == IF item.attempts >= MaxAttempts THEN Dlq(r.q) ELSE r.q
  <2>1. /\ h' = [h EXCEPT ![c] = Idle] /\ queues' = Requeue(queues, r.q, item)
        /\ UNCHANGED <<disk, nextMsg>> /\ ~QueueLocked(q)
        /\ r.q \in Name /\ item \in Item /\ r.op = "nack"
    BY <1>0, <1>6 DEF FinishNack, End, HandlerOK
  <2>2. item.attempts # 0
    BY <1>0, <2>1 DEF RetryInv, SortedHeld, AllTried, HandlerOK
  <2>3. \A x \in DOMAIN queues' : x # q => x \in DOMAIN queues /\ queues'[x] = queues[x]
    BY <1>0, <2>1 DEF Requeue, Insert, PushFront, IsQueueMap, IsMap
  <2> HIDE DEF item, q
  <2>4. KeepsOrder(queues, queues', {})
    BY <1>0, <2>1, <2>2, RisingRequeue
  <2> QED BY <1>0, <1>i, <2>1, <2>3, <2>4, OrderOneQueue
<1> QED BY <1>1, <1>2, <1>3, <1>4, <1>5, <1>6 DEF Proceed

\* A restart brings the order back from the log.
LEMMA OrderRestart ==
    ASSUME TypeOK, RetryInv, OrderInv, Restart
    PROVE  OrderInv'
<1>1. \E A : KeepsOrder(disk.state.queues, disk'.state.queues, A)
             /\ (\A m \in A : m < nextMsg /\ BeforeQueues(disk.state.queues, m))
  <2>1. CASE disk' = disk
    <3>1. KeepsOrder(disk.state.queues, disk'.state.queues, {})
      BY <2>1 DEF KeepsOrder
    <3> QED BY <3>1
  <2>2. ASSUME NEW c \in Actors, h[c].at = "log", disk' \in TornAppends(disk, Entry(h[c]))
        PROVE  \E A : KeepsOrder(disk.state.queues, disk'.state.queues, A)
                      /\ (\A m \in A : m < nextMsg /\ BeforeQueues(disk.state.queues, m))
    <3>1. KeepsOrder(disk.state.queues, disk'.state.queues, Adds(h[c]))
      BY <2>2, RisingFile
    <3>2. \A m \in Adds(h[c]) : m < nextMsg /\ BeforeQueues(disk.state.queues, m)
      BY <2>2 DEF Adds, OrderInv, Latest
    <3> QED BY <3>1, <3>2
  <2> QED BY <2>1, <2>2 DEF Restart
<1>2. RisingQueues(disk'.state.queues) /\ BeforeQueues(disk'.state.queues, nextMsg)
  BY <1>1 DEF KeepsOrder, OrderInv
<1>3. RisingQueues(queues') /\ BeforeQueues(queues', nextMsg) /\ nextMsg' = nextMsg
  BY <1>2 DEF Restart, Recover, Empty, RisingQueues, BeforeQueues
<1>4. \A c \in Actors : h'[c].op = "idle"
  BY DEF Restart, Idle
<1> QED BY <1>2, <1>3, <1>4 DEF OrderInv, RisingFront, BeforeAll

\* When enqueues come one at a time, messages that were never delivered wait in
\* the order in which they were sent, in every queue, whatever else runs at the same
\* time, whichever appends fail or are torn, whoever disconnects, and also after
\* a restart.
THEOREM SentInOrder == Spec /\ []SerialSends => []FreshInOrder
<1>1. Init => OrderInv
  BY DEF Init, OrderInv, Idle, Empty, NoWal, RisingQueues, BeforeQueues, RisingFront, BeforeAll
<1>2. TypeOK /\ RetryInv /\ OrderInv /\ SerialSends /\ [Next]_vars => OrderInv'
  <2> SUFFICES ASSUME TypeOK, RetryInv, OrderInv, SerialSends, [Next]_vars PROVE OrderInv'
    OBVIOUS
  <2>1. CASE Next
    BY <2>1, OrderRequest, OrderCleanup, OrderProceed, OrderRestart DEF Next
  <2>2. CASE UNCHANGED vars
    BY <2>2 DEF OrderInv, RisingFront, BeforeAll, Latest, vars, mem
  <2> QED BY <2>1, <2>2
<1>3. OrderInv => FreshInOrder
  BY DEF OrderInv, FreshInOrder, RisingQueues, Rising
<1> QED BY <1>1, <1>2, <1>3, TypeCorrect, RetryAlways, PTL DEF Spec
=============================================================================
