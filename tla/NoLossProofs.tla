---------------------------- MODULE NoLossProofs ----------------------------
(***************************************************************************)
(* The proofs that the storage loses no message, for any number of         *)
(* clients, sweepers, queues, messages and log failures: without crashes,  *)
(* under any interleaving of requests; and across crashes, when one        *)
(* request runs at a time.                                                 *)
(***************************************************************************)
EXTENDS MemoryStorageProofs

USE QueueStateAssumption, MemoryStorageAssumption
-----------------------------------------------------------------------------
(***************************************************************************)
(* How each part of the invariant follows from what a step does to the     *)
(* request of one actor c, which becomes r.                                *)
(***************************************************************************)
\* No queue appears, and r creates none.
LEMMA CreateFreshStep ==
    ASSUME TypeOK, CreateFresh, NEW c \in Actors, NEW r, r.op # "create_queue",
           h' = [h EXCEPT ![c] = r], DOMAIN queues' = DOMAIN queues
    PROVE  CreateFresh'
BY DEF TypeOK, CreateFresh

\* The request ends or holds nothing; what appears in flight was held by it.
LEMMA IdsApartRelease ==
    ASSUME TypeOK, IdsApart, NEW c \in Actors, NEW r, r.op \notin Holding,
           h' = [h EXCEPT ![c] = r], nextId' = nextId,
           \A t \in DOMAIN in_flight' :
              \/ t \in DOMAIN in_flight
              \/ h[c].op \in Holding /\ t \in Elements(h[c].ids)
    PROVE  IdsApart'
<1>1. \A d \in Actors : h'[d] = IF d = c THEN r ELSE h[d]
  BY DEF TypeOK
<1>2. \A t \in DOMAIN in_flight' : t < nextId'
  BY DEF IdsApart
<1>3. ASSUME NEW d \in Actors, h'[d].op \in Holding
      PROVE  /\ \A t \in Elements(h'[d].ids) : t < nextId' /\ t \notin DOMAIN in_flight'
             /\ \A i, j \in DOMAIN h'[d].ids : h'[d].ids[i] = h'[d].ids[j] => i = j
             /\ \A e \in Actors \ {d} : h'[e].op \in Holding =>
                   Elements(h'[d].ids) \cap Elements(h'[e].ids) = {}
  <2>1. d # c /\ h'[d] = h[d] /\ h[d].op \in Holding
    BY <1>1, <1>3
  <2>2. \A e \in Actors \ {d} : h[e].op \in Holding => Elements(h[d].ids) \cap Elements(h[e].ids) = {}
    BY <2>1 DEF IdsApart
  <2>3. \A e \in Actors \ {d} : h'[e].op \in Holding => h'[e] = h[e]
    BY <1>1
  <2>4. \A t \in Elements(h[d].ids) : t < nextId /\ t \notin DOMAIN in_flight
    BY <2>1 DEF IdsApart
  <2>5. \A t \in Elements(h[d].ids) : t \notin DOMAIN in_flight'
    BY <2>1, <2>2, <2>4
  <2>6. \A i, j \in DOMAIN h[d].ids : h[d].ids[i] = h[d].ids[j] => i = j
    BY <2>1 DEF IdsApart
  <2> QED BY <2>1, <2>2, <2>3, <2>4, <2>5, <2>6
<1> QED BY <1>2, <1>3 DEF IdsApart

\* The request takes ids that no other request holds.
LEMMA IdsApartTake ==
    ASSUME TypeOK, IdsApart, NEW c \in Actors, NEW r, r.ids \in Seq(Nat),
           h' = [h EXCEPT ![c] = r], nextId' \in Nat, nextId <= nextId',
           DOMAIN in_flight' \subseteq DOMAIN in_flight,
           \A t \in Elements(r.ids) : t < nextId' /\ t \notin DOMAIN in_flight',
           \A i, j \in DOMAIN r.ids : r.ids[i] = r.ids[j] => i = j,
           \A d \in Actors \ {c} : h[d].op \in Holding => Elements(r.ids) \cap Elements(h[d].ids) = {}
    PROVE  IdsApart'
<1>1. \A d \in Actors : h'[d] = IF d = c THEN r ELSE h[d]
  BY DEF TypeOK
<1>2. \A t \in DOMAIN in_flight' : t < nextId'
  BY DEF IdsApart, TypeOK, IsFlightMap, IsMap
<1>3. ASSUME NEW d \in Actors, h'[d].op \in Holding
      PROVE  /\ \A t \in Elements(h'[d].ids) : t < nextId' /\ t \notin DOMAIN in_flight'
             /\ \A i, j \in DOMAIN h'[d].ids : h'[d].ids[i] = h'[d].ids[j] => i = j
             /\ \A e \in Actors \ {d} : h'[e].op \in Holding =>
                   Elements(h'[d].ids) \cap Elements(h'[e].ids) = {}
  <2>1. CASE d = c
    <3>1. h'[d] = r /\ \A e \in Actors \ {d} : h'[e] = h[e]
      BY <1>1, <2>1
    <3> QED BY <2>1, <3>1
  <2>2. CASE d # c
    <3>1. h'[d] = h[d] /\ h[d].op \in Holding /\ Elements(h[d].ids) \subseteq Nat
      BY <1>1, <1>3, <2>2, ElementsType DEF TypeOK, Handler
    <3>2. \A t \in Elements(h[d].ids) : t < nextId /\ t \notin DOMAIN in_flight
      BY <3>1 DEF IdsApart
    <3>3. \A t \in Elements(h[d].ids) : t < nextId' /\ t \notin DOMAIN in_flight'
      BY <3>1, <3>2 DEF TypeOK
    <3>4. \A i, j \in DOMAIN h[d].ids : h[d].ids[i] = h[d].ids[j] => i = j
      BY <3>1 DEF IdsApart
    <3>5. \A e \in Actors \ {d} : h[e].op \in Holding => Elements(h[d].ids) \cap Elements(h[e].ids) = {}
      BY <3>1 DEF IdsApart
    <3>6. Elements(h[d].ids) \cap Elements(r.ids) = {}
      BY <2>2, <3>1
    <3>7. \A e \in Actors \ {d} : h'[e] = IF e = c THEN r ELSE h[e]
      BY <1>1
    <3>8. \A e \in Actors \ {d} : h'[e].op \in Holding => Elements(h[d].ids) \cap Elements(h'[e].ids) = {}
      BY <3>5, <3>6, <3>7
    <3>9. h'[d].ids = h[d].ids
      BY <3>1
    <3>10. \A t \in Elements(h'[d].ids) : t < nextId' /\ t \notin DOMAIN in_flight'
      BY <3>3, <3>9
    <3>11. \A i, j \in DOMAIN h'[d].ids : h'[d].ids[i] = h'[d].ids[j] => i = j
      BY <3>4, <3>9
    <3>12. \A e \in Actors \ {d} : h'[e].op \in Holding =>
              Elements(h'[d].ids) \cap Elements(h'[e].ids) = {}
      BY <3>8, <3>9
    <3> QED BY <3>10, <3>11, <3>12
  <2> QED BY <2>1, <2>2
<1> QED BY <1>2, <1>3 DEF IdsApart

\* Queues stay, the queue of r exists, and so do those of the tasks in flight.
LEMMA QueuesExistStep ==
    ASSUME TypeOK, QueuesExist, NEW c \in Actors, NEW r,
           h' = [h EXCEPT ![c] = r], DOMAIN queues \subseteq DOMAIN queues',
           r.op \in Holding \cup {"queue"} => r.q \in DOMAIN queues',
           \A t \in DOMAIN in_flight' :
              \/ t \in DOMAIN in_flight /\ in_flight'[t] = in_flight[t]
              \/ in_flight'[t].queue \in DOMAIN queues'
    PROVE  QueuesExist'
BY DEF TypeOK, QueuesExist

\* What was in the maps or held by c, and is still due, is in the maps or
\* held by r; what becomes due is in a queue.
LEMMA NoLossStep ==
    ASSUME TypeOK, NoLoss, NEW c \in Actors, NEW r, h' = [h EXCEPT ![c] = r],
           \A m \in due' : m \in Pending(queues) \cup Flying(in_flight) \cup HeldBy(h[c])
                              => m \in Pending(queues') \cup Flying(in_flight') \cup HeldBy(r),
           \A m \in due' : m \notin due => m \in Pending(queues')
    PROVE  NoLoss'
<1>1. \A d \in Actors : h'[d] = IF d = c THEN r ELSE h[d]
  BY DEF TypeOK
<1> SUFFICES ASSUME NEW m \in due'
             PROVE  m \in Pending(queues') \cup Flying(in_flight') \cup Held'
  BY DEF NoLoss
<1>2. HeldBy(r) \subseteq Held'
  BY <1>1 DEF Held
<1>3. CASE m \in Pending(queues) \cup Flying(in_flight) \cup HeldBy(h[c])
  BY <1>2, <1>3
<1>4. CASE m \notin due
  BY <1>4
<1>5. ASSUME NEW d \in Actors, d # c, m \in HeldBy(h[d])
      PROVE  m \in Held'
  <2>1. h'[d] = h[d]
    BY <1>1, <1>5
  <2> QED BY <1>5, <2>1 DEF Held
<1>6. m \in due => m \in Pending(queues) \cup Flying(in_flight) \cup Held
  BY DEF NoLoss
<1> QED BY <1>3, <1>4, <1>5, <1>6 DEF Held
-----------------------------------------------------------------------------
(***************************************************************************)
(* The actions.                                                            *)
(***************************************************************************)
Rest == CreateFresh /\ IdsApart /\ QueuesExist /\ NoLoss

\* A step that gives c a request which holds nothing, and that leaves the maps
\* and the messages that are due alone.
LEMMA RestBegin ==
    ASSUME TypeOK, Rest, NEW c \in Actors, NEW r, h[c] = Idle, h' = [h EXCEPT ![c] = r],
           r.op \notin Holding \cup {"create_queue"}, r.op = "queue" => r.q \in DOMAIN queues,
           UNCHANGED <<queues, in_flight, nextId, due>>
    PROVE  Rest'
<1>1. CreateFresh'
  BY CreateFreshStep DEF Rest
<1>2. IdsApart'
  BY IdsApartRelease DEF Rest
<1>3. QueuesExist'
  BY QueuesExistStep DEF Rest
<1>4. HeldBy(h[c]) = {}
  BY DEF HeldBy, Idle
<1>5. NoLoss'
  BY <1>4, NoLossStep DEF Rest
<1> QED BY <1>1, <1>2, <1>3, <1>5 DEF Rest

\* Only one request at a time creates a queue, so none is overtaken.
LEMMA RestCreateQueue ==
    ASSUME TypeOK, Rest, NEW c \in Creators, NEW q \in CreateNames, q[2] = 0,
           CreateQueue(c, q)
    PROVE  Rest'
<1> DEFINE r == [op |-> "create_queue", at |-> "log", q |-> q, items |-> <<>>, ids |-> <<>>]
<1>0. c \in Actors
  BY DEF Actors
<1>1. h[c] = Idle /\ h' = [h EXCEPT ![c] = r] /\ q \notin DOMAIN queues
      /\ UNCHANGED <<queues, in_flight, nextId, due>>
  BY DEF CreateQueue, Begin, mem, history
<1>2. CreateFresh'
  BY <1>0, <1>1 DEF Rest, CreateFresh, TypeOK
<1>3. r.op \notin Holding \cup {"queue"} /\ HeldBy(r) = {}
  BY DEF Holding, HeldBy
<1>4. HeldBy(h[c]) = {}
  BY <1>1 DEF HeldBy, Idle
<1> HIDE DEF r
<1>5. IdsApart'
  BY <1>0, <1>1, <1>3, IdsApartRelease DEF Rest
<1>6. QueuesExist'
  BY <1>0, <1>1, <1>3, QueuesExistStep DEF Rest
<1>7. NoLoss'
  BY <1>0, <1>1, <1>4, NoLossStep DEF Rest
<1> QED BY <1>2, <1>5, <1>6, <1>7 DEF Rest

\* A dequeue holds what it pops, under ids nobody has.
LEMMA RestDequeue ==
    ASSUME TypeOK, Rest, NEW c \in Actors, NEW q \in ReqNames, NEW n \in 1..MaxBatch,
           Dequeue(c, q, n)
    PROVE  Rest'
<1> DEFINE items == FirstOf(queues[q], n)
           k == Len(items)
           r == [op |-> "dequeue", at |-> "log", q |-> q, items |-> items, ids |-> NewIds(k)]
<1>1. /\ h[c] = Idle /\ h' = [h EXCEPT ![c] = r] /\ q \in DOMAIN queues /\ nextId' = nextId + k
      /\ queues' = PopFront(queues, q, n) /\ UNCHANGED <<in_flight, due>>
  BY DEF Dequeue, Begin, history
<1>2. queues[q] \in Seq(Item) /\ n \in Nat
  BY <1>1 DEF TypeOK, IsQueueMap, IsMap
<1>3. items \in Seq(Item) /\ k \in Nat
  BY <1>2, SplitType
<1>4. NewIds(k) \in Seq(Nat) /\ Len(NewIds(k)) = k
  BY <1>3, NewType
<1>5. DOMAIN queues' = DOMAIN queues
  BY <1>1 DEF PopFront
<1>6. /\ r.op = "dequeue" /\ r.q = q /\ r.ids = NewIds(k) /\ HeldBy(r) = Messages(items)
      /\ r.op # "create_queue"
  BY DEF HeldBy
<1>7. HeldBy(h[c]) = {}
  BY <1>1 DEF HeldBy, Idle
<1> HIDE DEF r, items, k
<1>8. CreateFresh'
  BY <1>1, <1>5, <1>6, CreateFreshStep DEF Rest
<1>9. nextId \in Nat /\ DOMAIN NewIds(k) = 1..k /\ \A i \in 1..k : NewIds(k)[i] = nextId + i - 1
  BY DEF NewIds, TypeOK
<1>10. \A t \in Elements(NewIds(k)) : t \in Nat /\ nextId <= t /\ t < nextId'
  BY <1>1, <1>3, <1>9 DEF Elements
<1>11. \A i, j \in DOMAIN NewIds(k) : NewIds(k)[i] = NewIds(k)[j] => i = j
  BY <1>3, <1>9
<1>12. \A t \in DOMAIN in_flight : t \in Nat /\ t < nextId
  BY DEF Rest, IdsApart, TypeOK, IsFlightMap, IsMap
<1>13. ASSUME NEW d \in Actors, h[d].op \in Holding
       PROVE  Elements(NewIds(k)) \cap Elements(h[d].ids) = {}
  <2>1. \A t \in Elements(h[d].ids) : t < nextId
    BY <1>13 DEF Rest, IdsApart
  <2>2. Elements(h[d].ids) \subseteq Nat
    BY ElementsType DEF TypeOK, Handler
  <2> QED BY <1>9, <1>10, <2>1, <2>2
<1>14. IdsApart'
  <2>1. \A t \in Elements(NewIds(k)) : t < nextId' /\ t \notin DOMAIN in_flight'
    BY <1>1, <1>9, <1>10, <1>12
  <2>2. nextId' \in Nat /\ nextId <= nextId' /\ DOMAIN in_flight' \subseteq DOMAIN in_flight
    BY <1>1, <1>3, <1>9
  <2>3. /\ r.ids \in Seq(Nat)
        /\ \A t \in Elements(r.ids) : t < nextId' /\ t \notin DOMAIN in_flight'
        /\ \A i, j \in DOMAIN r.ids : r.ids[i] = r.ids[j] => i = j
        /\ \A d \in Actors \ {c} : h[d].op \in Holding => Elements(r.ids) \cap Elements(h[d].ids) = {}
    BY <1>4, <1>6, <1>11, <1>13, <2>1
  <2> QED BY <1>1, <2>2, <2>3, IdsApartTake DEF Rest
<1>15. QueuesExist'
  BY <1>1, <1>5, <1>6, QueuesExistStep DEF Rest
<1>16. Pending(queues) \subseteq Pending(queues') \cup Messages(items)
  BY <1>1, <1>2, PendingPush, <<>> \in Seq(Item) DEF TypeOK, items
<1>17. NoLoss'
  <2>1. \A m \in due' : m \in Pending(queues) \cup Flying(in_flight) \cup HeldBy(h[c])
                              => m \in Pending(queues') \cup Flying(in_flight') \cup HeldBy(r)
    BY <1>1, <1>6, <1>7, <1>16
  <2>2. \A m \in due' : m \notin due => m \in Pending(queues')
    BY <1>1
  <2> QED BY <1>1, <2>1, <2>2, NoLossStep DEF Rest
<1> QED BY <1>8, <1>14, <1>15, <1>17 DEF Rest

\* An ack or a nack takes a task that no other request can take.
LEMMA RestTakeTask ==
    ASSUME TypeOK, Rest, NEW c \in Actors, NEW op \in {"ack", "nack"}, NEW t,
           TakeTask(c, op, t), due' \subseteq due, op = "ack" => in_flight[t].msg \notin due'
    PROVE  Rest'
<1> DEFINE task == in_flight[t]
           item == [msg |-> task.msg, attempts |-> task.attempts]
           r == [op |-> op, at |-> "log", q |-> task.queue, items |-> <<item>>, ids |-> <<t>>]
<1>1. /\ h[c] = Idle /\ h' = [h EXCEPT ![c] = r] /\ t \in DOMAIN in_flight
      /\ in_flight' = Without(in_flight, {t}) /\ UNCHANGED <<queues, nextId>>
  BY DEF TakeTask, Begin
<1>2. t \in Nat /\ task.queue \in DOMAIN queues
  BY <1>1 DEF TypeOK, IsFlightMap, IsMap, Rest, QueuesExist
<1>3. /\ r.op = op /\ r.q = task.queue /\ r.ids = <<t>> /\ r.op # "create_queue"
      /\ op = "nack" => HeldBy(r) = Messages(<<item>>)
  BY DEF HeldBy
<1>4. Messages(<<item>>) = {task.msg}
  BY DEF Messages
<1>5. HeldBy(h[c]) = {}
  BY <1>1 DEF HeldBy, Idle
<1>6. Elements(<<t>>) = {t}
  BY DEF Elements
<1>7. DOMAIN in_flight' = DOMAIN in_flight \ {t}
      /\ \A x \in DOMAIN in_flight' : in_flight'[x] = in_flight[x]
  BY <1>1 DEF Without
<1> HIDE DEF r, item
<1>8. CreateFresh'
  BY <1>1, <1>3, CreateFreshStep DEF Rest
<1>9. IdsApart'
  <2>1. \A d \in Actors \ {c} : h[d].op \in Holding => Elements(<<t>>) \cap Elements(h[d].ids) = {}
    BY <1>1, <1>6 DEF Rest, IdsApart
  <2>2. t < nextId /\ nextId \in Nat
    BY <1>1 DEF Rest, IdsApart, TypeOK
  <2>3. \A x \in Elements(<<t>>) : x < nextId' /\ x \notin DOMAIN in_flight'
    BY <1>1, <1>6, <1>7, <2>2
  <2>4. \A i, j \in DOMAIN <<t>> : <<t>>[i] = <<t>>[j] => i = j
    OBVIOUS
  <2>5. nextId' \in Nat /\ nextId <= nextId' /\ <<t>> \in Seq(Nat)
    BY <1>1, <1>2, <2>2
  <2>6. DOMAIN in_flight' \subseteq DOMAIN in_flight
    BY <1>7
  <2>7. /\ r.ids \in Seq(Nat)
        /\ \A x \in Elements(r.ids) : x < nextId' /\ x \notin DOMAIN in_flight'
        /\ \A i, j \in DOMAIN r.ids : r.ids[i] = r.ids[j] => i = j
        /\ \A d \in Actors \ {c} : h[d].op \in Holding => Elements(r.ids) \cap Elements(h[d].ids) = {}
    BY <1>3, <2>1, <2>3, <2>4, <2>5
  <2> QED BY <1>1, <2>5, <2>6, <2>7, IdsApartTake DEF Rest
<1>10. QueuesExist'
  BY <1>1, <1>2, <1>3, <1>7, QueuesExistStep DEF Rest
<1>11. Flying(in_flight) \subseteq Flying(in_flight') \cup {task.msg}
  BY <1>1, FlyingWithout
<1>12. NoLoss'
  <2>1. task.msg \notin due' \/ task.msg \in HeldBy(r)
    BY <1>3, <1>4
  <2>2. \A m \in due' : m \in Pending(queues) \cup Flying(in_flight) \cup HeldBy(h[c])
                              => m \in Pending(queues') \cup Flying(in_flight') \cup HeldBy(r)
    BY <1>1, <1>5, <1>11, <2>1
  <2>3. \A m \in due' : m \notin due => m \in Pending(queues')
    OBVIOUS
  <2> QED BY <1>1, <2>2, <2>3, NoLossStep DEF Rest
<1> QED BY <1>8, <1>9, <1>10, <1>12 DEF Rest

\* The end of a request: c becomes idle, and what it held is in the maps or
\* no longer due.
LEMMA RestEnd ==
    ASSUME TypeOK, Rest, NEW c \in Actors, h' = [h EXCEPT ![c] = Idle], nextId' = nextId,
           CreateFresh', DOMAIN queues \subseteq DOMAIN queues',
           \A t \in DOMAIN in_flight' :
              \/ t \in DOMAIN in_flight /\ in_flight'[t] = in_flight[t]
              \/ /\ h[c].op \in Holding /\ t \in Elements(h[c].ids)
                 /\ in_flight'[t].queue \in DOMAIN queues',
           \A m \in due' : m \in Pending(queues) \cup Flying(in_flight) \cup HeldBy(h[c])
                              => m \in Pending(queues') \cup Flying(in_flight'),
           \A m \in due' : m \notin due => m \in Pending(queues')
    PROVE  Rest'
<1>1. Idle.op \notin Holding \cup {"queue"} /\ HeldBy(Idle) = {}
  BY DEF Idle, Holding, HeldBy
<1>2. IdsApart'
  BY <1>1, IdsApartRelease DEF Rest
<1>3. QueuesExist'
  BY <1>1, QueuesExistStep DEF Rest
<1>4. \A m \in due' : m \in Pending(queues) \cup Flying(in_flight) \cup HeldBy(h[c])
                           => m \in Pending(queues') \cup Flying(in_flight') \cup HeldBy(Idle)
  OBVIOUS
<1>5. NoLoss'
  BY <1>4, NoLossStep DEF Rest
<1> QED BY <1>2, <1>3, <1>5 DEF Rest

\* The append only moves the request on.
LEMMA RestLog ==
    ASSUME TypeOK, Rest, NEW c \in Actors, Log(c)
    PROVE  Rest'
<1> DEFINE r == [h[c] EXCEPT !.at = "apply"]
<1>1. /\ h' = [h EXCEPT ![c] = r] /\ due' \subseteq due
      /\ UNCHANGED <<queues, in_flight, nextId>>
  BY DEF Log, TypeOK, mem
<1>2. r.op = h[c].op /\ r.q = h[c].q /\ r.items = h[c].items /\ r.ids = h[c].ids
  BY DEF TypeOK, Handler
<1> HIDE DEF r
<1>3. \A d \in Actors :
        /\ h'[d].op = h[d].op /\ h'[d].q = h[d].q
        /\ h'[d].items = h[d].items /\ h'[d].ids = h[d].ids
  BY <1>1, <1>2 DEF TypeOK
<1>4. CreateFresh' /\ QueuesExist'
  BY <1>1, <1>3 DEF Rest, CreateFresh, QueuesExist
<1>5. IdsApart'
  <2>1. CASE r.op \notin Holding
    BY <1>1, <2>1, IdsApartRelease DEF Rest
  <2>2. CASE r.op \in Holding
    <3>1. /\ \A t \in Elements(r.ids) : t < nextId' /\ t \notin DOMAIN in_flight'
          /\ \A i, j \in DOMAIN r.ids : r.ids[i] = r.ids[j] => i = j
          /\ \A d \in Actors \ {c} : h[d].op \in Holding => Elements(r.ids) \cap Elements(h[d].ids) = {}
      BY <1>1, <1>2, <2>2 DEF Rest, IdsApart
    <3>2. r.ids \in Seq(Nat) /\ nextId' \in Nat /\ nextId <= nextId'
      BY <1>1, <1>2 DEF TypeOK, Handler
    <3> QED BY <1>1, <3>1, <3>2, IdsApartTake DEF Rest
  <2> QED BY <2>1, <2>2
<1>6. HeldBy(r) = HeldBy(h[c])
  BY <1>2 DEF HeldBy
<1>7. NoLoss'
  BY <1>1, <1>6, NoLossStep DEF Rest
<1> QED BY <1>4, <1>5, <1>7 DEF Rest

\* A failed append: a dequeue puts its items back, a nack its task.
LEMMA RestLogFail ==
    ASSUME TypeOK, Rest, NEW c \in Actors, LogFail(c)
    PROVE  Rest'
<1> DEFINE r == h[c]
<1>1. h' = [h EXCEPT ![c] = Idle] /\ Compensate(r) /\ UNCHANGED <<nextId, due>>
  BY DEF LogFail, history
<1>r. r.items \in Seq(Item) /\ r.ids \in Seq(Nat) /\ HandlerOK(r, DOMAIN delivered)
  BY DEF TypeOK, Handler
<1>q. r.op \in Holding => r.q \in DOMAIN queues
  BY DEF Rest, QueuesExist
<1>2. DOMAIN queues' = DOMAIN queues
  BY <1>1 DEF Compensate, PushFront
<1>3. CreateFresh'
  BY <1>1, <1>2, CreateFreshStep DEF Rest, Idle
<1>4. CASE r.op = "dequeue"
  <2>1. queues' = PushFront(queues, r.q, r.items) /\ in_flight' = in_flight
    BY <1>1, <1>4 DEF Compensate
  <2>2. HeldBy(r) = Messages(r.items) /\ r.q \in DOMAIN queues
    BY <1>4, <1>q DEF HeldBy, Holding
  <2>3. Pending(queues) \cup Messages(r.items) \subseteq Pending(queues')
    BY <1>r, <2>1, <2>2, PendingPush, 0 \in Nat DEF TypeOK
  <2> QED BY <1>1, <1>2, <1>3, <2>1, <2>2, <2>3, RestEnd
<1>5. CASE r.op = "nack"
  <2> DEFINE t    == r.ids[1]
             task == [msg |-> r.items[1].msg, attempts |-> r.items[1].attempts, queue |-> r.q]
  <2>1. queues' = queues /\ in_flight' = Insert(in_flight, t, task)
    BY <1>1, <1>5 DEF Compensate
  <2>2. Len(r.items) = 1 /\ Len(r.ids) = 1
    BY <1>5, <1>r DEF HandlerOK
  <2>3. t \in Elements(r.ids) /\ Messages(r.items) = {r.items[1].msg}
    BY <1>r, <2>2 DEF Elements, Messages
  <2>4. HeldBy(r) = {task.msg} /\ task.queue \in DOMAIN queues /\ r.op \in Holding
    BY <1>5, <1>q, <2>3 DEF HeldBy, Holding
  <2>5. t \notin DOMAIN in_flight
    BY <2>3, <2>4 DEF Rest, IdsApart
  <2> HIDE DEF task, t
  <2>6. Flying(in_flight) \cup {task.msg} \subseteq Flying(in_flight')
    BY <2>1, <2>5, FlyingInsert
  <2>7. \A x \in DOMAIN in_flight' :
          \/ x \in DOMAIN in_flight /\ in_flight'[x] = in_flight[x]
          \/ x = t /\ in_flight'[x] = task
    BY <2>1, InsertCases
  <2>8. \A x \in DOMAIN in_flight' :
          \/ x \in DOMAIN in_flight /\ in_flight'[x] = in_flight[x]
          \/ /\ h[c].op \in Holding /\ x \in Elements(h[c].ids)
             /\ in_flight'[x].queue \in DOMAIN queues'
    BY <2>1, <2>3, <2>4, <2>7
  <2> QED BY <1>1, <1>3, <2>1, <2>4, <2>6, <2>8, RestEnd
<1>6. CASE r.op \notin {"dequeue", "nack"}
  <2>1. queues' = queues /\ in_flight' = in_flight /\ HeldBy(r) = {}
    BY <1>1, <1>6 DEF Compensate, HeldBy
  <2> QED BY <1>1, <1>3, <2>1, RestEnd
<1> QED BY <1>4, <1>5, <1>6

\* The queue that create_queue inserts is still missing.
LEMMA RestFinishCreate ==
    ASSUME TypeOK, Rest, CalmConfig, NEW c \in Actors, FinishCreate(c)
    PROVE  Rest'
<1> DEFINE q == h[c].q
<1>1. /\ h' = [h EXCEPT ![c] = Idle] /\ h[c].op = "create_queue"
      /\ queues' = Insert(queues, q, <<>>) /\ UNCHANGED <<in_flight, nextId, due>>
  BY DEF FinishCreate, End, history
<1>2. c \in Creators /\ q \notin DOMAIN queues
  BY <1>1 DEF Rest, CreateFresh
<1>3. DOMAIN queues' = DOMAIN queues \cup {q}
  BY <1>1 DEF Insert
<1>4. \A d \in Actors : h'[d].op = "create_queue" => d # c /\ h'[d] = h[d]
  BY <1>1 DEF TypeOK, Idle
<1>5. \A d \in Actors : h'[d].op # "create_queue"
  BY <1>2, <1>4 DEF Rest, CreateFresh, CalmConfig
<1>6. CreateFresh'
  BY <1>5 DEF CreateFresh
<1>7. Pending(queues) \subseteq Pending(queues')
  BY <1>1, <1>2, PendingCreate DEF TypeOK
<1>8. HeldBy(h[c]) = {}
  BY <1>1 DEF HeldBy
<1> QED BY <1>1, <1>3, <1>6, <1>7, <1>8, RestEnd

\* What becomes due is in its queue.
LEMMA RestFinishQueue ==
    ASSUME TypeOK, Rest, NEW c \in Actors, FinishQueue(c)
    PROVE  Rest'
<1> DEFINE r == h[c]
<1>1. /\ h' = [h EXCEPT ![c] = Idle] /\ r.op = "queue" /\ due' = due \cup Messages(r.items)
      /\ queues' = Enqueue(queues, r.q, r.items) /\ UNCHANGED <<in_flight, nextId>>
  BY DEF FinishQueue, End
<1>2. r.items \in Seq(Item) /\ r.q \in DOMAIN queues
  BY <1>1 DEF TypeOK, Handler, Rest, QueuesExist
<1>3. queues' = PushBack(queues, r.q, r.items)
  BY <1>1, <1>2 DEF Enqueue
<1>4. Pending(queues) \cup Messages(r.items) \subseteq Pending(queues')
  BY <1>2, <1>3, PendingPush, 0 \in Nat DEF TypeOK
<1>5. DOMAIN queues' = DOMAIN queues
  BY <1>3 DEF PushBack
<1>6. CreateFresh'
  BY <1>1, <1>5, CreateFreshStep DEF Rest, Idle
<1>7. HeldBy(r) = {}
  BY <1>1 DEF HeldBy
<1> QED BY <1>1, <1>4, <1>5, <1>6, <1>7, RestEnd

\* Delivered items go in flight under ids that are not there yet.
LEMMA RestFinishDequeue ==
    ASSUME TypeOK, Rest, NEW c \in Actors, FinishDequeue(c)
    PROVE  Rest'
<1> DEFINE r == h[c]
<1>1. /\ h' = [h EXCEPT ![c] = Idle] /\ r.op = "dequeue" /\ UNCHANGED <<queues, nextId, due>>
      /\ in_flight' = Deliver(in_flight, r.q, r.items, r.ids)
  BY DEF FinishDequeue, End
<1>2. r.items \in Seq(Item) /\ r.ids \in Seq(Nat) /\ Len(r.items) = Len(r.ids)
  BY <1>1 DEF TypeOK, Handler, HandlerOK
<1>3. r.op \in Holding /\ r.q \in DOMAIN queues
  BY <1>1 DEF Holding, Rest, QueuesExist
<1>4. /\ \A i, j \in DOMAIN r.ids : r.ids[i] = r.ids[j] => i = j
      /\ \A t \in Elements(r.ids) : t \notin DOMAIN in_flight
  BY <1>3 DEF Rest, IdsApart
<1>5. Flying(in_flight) \cup Messages(r.items) \subseteq Flying(in_flight')
  BY <1>1, <1>2, <1>4, FlyingDeliver
<1>6. HeldBy(r) = Messages(r.items)
  BY <1>1 DEF HeldBy
<1>7. CreateFresh'
  BY <1>1, CreateFreshStep DEF Rest, Idle
<1>8. \A t \in DOMAIN in_flight' :
        \/ t \in DOMAIN in_flight /\ in_flight'[t] = in_flight[t]
        \/ t \in Elements(r.ids) /\ in_flight'[t].queue = r.q
  BY <1>1 DEF Deliver
<1> QED BY <1>1, <1>3, <1>5, <1>6, <1>7, <1>8, RestEnd

\* A failed task goes back to its queue or to the DLQ, which no create_queue
\* is about to replace.
LEMMA RestFinishNack ==
    ASSUME TypeOK, Rest, NEW c \in Actors, FinishNack(c)
    PROVE  Rest'
<1> DEFINE r    == h[c]
           item == r.items[1]
<1>1. /\ h' = [h EXCEPT ![c] = Idle] /\ r.op = "nack" /\ UNCHANGED <<in_flight, nextId, due>>
      /\ queues' = Requeue(queues, r.q, item)
  BY DEF FinishNack, End, history
<1>2. r.items \in Seq(Item) /\ Len(r.items) = 1 /\ r.q \in Name
  BY <1>1 DEF TypeOK, Handler, HandlerOK
<1>3. item \in Item /\ Messages(r.items) = {item.msg}
  BY <1>2 DEF Messages
<1>4. r.q \in DOMAIN queues
  BY <1>1 DEF Holding, Rest, QueuesExist
<1>5. /\ Pending(queues) \cup {item.msg} \subseteq Pending(queues')
      /\ DOMAIN queues \subseteq DOMAIN queues'
      /\ DOMAIN queues' \subseteq DOMAIN queues \cup {Dlq(r.q)}
  BY <1>1, <1>3, <1>4, PendingRequeue DEF TypeOK
<1>6. Dlq(r.q)[2] # 0
  BY <1>2 DEF Dlq, Name
<1>7. \A d \in Actors : h'[d].op = "create_queue" => h'[d] = h[d]
  BY <1>1 DEF TypeOK, Idle
<1>8. CreateFresh'
  BY <1>5, <1>6, <1>7 DEF Rest, CreateFresh
<1>9. HeldBy(r) = {item.msg}
  BY <1>1, <1>3 DEF HeldBy
<1> QED BY <1>1, <1>5, <1>8, <1>9, RestEnd

\* A batch acknowledgement loses what is no longer due.
LEMMA RestFinishAckBatch ==
    ASSUME TypeOK, Rest, NEW c \in Actors, FinishAckBatch(c)
    PROVE  Rest'
<1> DEFINE S == Elements(h[c].ids)
<1>1. /\ h' = [h EXCEPT ![c] = Idle] /\ h[c].op = "ack_batch" /\ UNCHANGED <<queues, nextId>>
      /\ in_flight' = Without(in_flight, S) /\ due' = due \ MessagesOf(h[c].ids)
  BY DEF FinishAckBatch, End
<1>2. Flying(in_flight) \subseteq Flying(in_flight') \cup MessagesOf(h[c].ids)
  BY <1>1, FlyingWithout DEF MessagesOf
<1>3. HeldBy(h[c]) = {}
  BY <1>1 DEF HeldBy
<1>4. CreateFresh'
  BY <1>1, CreateFreshStep DEF Rest, Idle
<1>5. \A t \in DOMAIN in_flight' : t \in DOMAIN in_flight /\ in_flight'[t] = in_flight[t]
  BY <1>1 DEF Without
<1> QED BY <1>1, <1>2, <1>3, <1>4, <1>5, RestEnd

\* An ack or an extension ends without a change to the maps.
LEMMA RestFinishOther ==
    ASSUME TypeOK, Rest, NEW c \in Actors, FinishAck(c) \/ FinishExtend(c)
    PROVE  Rest'
<1>1. /\ h' = [h EXCEPT ![c] = Idle] /\ h[c].op \in {"ack", "extend"}
      /\ UNCHANGED <<queues, in_flight, nextId, due>>
  BY DEF FinishAck, FinishExtend, End, mem, history
<1>2. HeldBy(h[c]) = {}
  BY <1>1 DEF HeldBy
<1>3. CreateFresh'
  BY <1>1, CreateFreshStep DEF Rest, Idle
<1> QED BY <1>1, <1>2, <1>3, RestEnd
-----------------------------------------------------------------------------
\* The invariant holds initially.
LEMMA NoLossInit == Init => NoLossInv
<1> SUFFICES ASSUME Init PROVE NoLossInv
  OBVIOUS
<1>1. \A c \in Actors : h[c].op = "idle"
  BY DEF Init, Idle
<1>2. DOMAIN in_flight = {} /\ due = {}
  BY DEF Init, Empty
<1> QED BY <1>1, <1>2, TypeInit
        DEF NoLossInv, CreateFresh, IdsApart, QueuesExist, NoLoss, Holding

\* Every step of a client keeps it.
LEMMA RestRequest ==
    ASSUME TypeOK, Rest, CalmConfig, NEW c \in Clients, Request(c)
    PROVE  Rest'
<1> c \in Actors
  BY DEF Actors
<1>1. ASSUME NEW q \in CreateNames, c \in Creators, CreateQueue(c, q)
      PROVE  Rest'
  BY <1>1, RestCreateQueue DEF CalmConfig
<1>2. ASSUME NEW q \in ReqNames, NEW n \in 1..MaxBatch, Queue(c, q, n)
      PROVE  Rest'
  <2> DEFINE r == [op |-> "queue", at |-> "log", q |-> q, items |-> NewItems(n), ids |-> <<>>]
  <2>1. /\ h[c] = Idle /\ h' = [h EXCEPT ![c] = r] /\ q \in DOMAIN queues
        /\ UNCHANGED <<queues, in_flight, nextId, due>>
    BY <1>2 DEF Queue, Begin, mem, history
  <2>2. r.op \notin Holding \cup {"create_queue"} /\ r.q = q
    BY DEF Holding
  <2> HIDE DEF r
  <2> QED BY <2>1, <2>2, RestBegin
<1>3. ASSUME NEW q \in ReqNames, NEW n \in 1..MaxBatch, Dequeue(c, q, n)
      PROVE  Rest'
  BY <1>3, RestDequeue
<1>4. ASSUME NEW t \in KnownIds, Ack(c, t)
      PROVE  Rest'
  BY <1>4, RestTakeTask DEF Ack
<1>5. ASSUME NEW t \in KnownIds, Nack(c, t)
      PROVE  Rest'
  BY <1>5, RestTakeTask DEF Nack
<1>6. ASSUME NEW t \in KnownIds, ExtendVisibility(c, t)
      PROVE  Rest'
  <2> DEFINE r == [op |-> "extend", at |-> "log", q |-> in_flight[t].queue,
                   items |-> <<>>, ids |-> <<t>>]
  <2>1. /\ h[c] = Idle /\ h' = [h EXCEPT ![c] = r]
        /\ UNCHANGED <<queues, in_flight, nextId, due>>
    BY <1>6 DEF ExtendVisibility, Begin, mem, history
  <2>2. r.op \notin Holding \cup {"create_queue", "queue"}
    BY DEF Holding
  <2> HIDE DEF r
  <2> QED BY <2>1, <2>2, RestBegin
<1>7. ASSUME NEW ids \in IdLists, AckBatch(c, ids)
      PROVE  Rest'
  <2> DEFINE r == [op |-> "ack_batch", at |-> "log", q |-> NoName, items |-> <<>>, ids |-> ids]
  <2>1. /\ h[c] = Idle /\ h' = [h EXCEPT ![c] = r]
        /\ UNCHANGED <<queues, in_flight, nextId, due>>
    BY <1>7 DEF AckBatch, Begin, mem, history
  <2>2. r.op \notin Holding \cup {"create_queue", "queue"}
    BY DEF Holding
  <2> HIDE DEF r
  <2> QED BY <2>1, <2>2, RestBegin
<1>8. ASSUME Disconnect(c) PROVE Rest'
  <2>1. /\ h' = [h EXCEPT ![c] = Idle] /\ h[c].op \notin {"dequeue", "nack"}
        /\ UNCHANGED <<queues, in_flight, nextId, due>>
    BY <1>8 DEF Disconnect, CalmConfig, mem, history
  <2>2. HeldBy(h[c]) = {}
    BY <2>1 DEF HeldBy
  <2>3. CreateFresh'
    BY <2>1, CreateFreshStep DEF Rest, Idle
  <2> QED BY <2>1, <2>2, <2>3, RestEnd
<1> QED BY <1>1, <1>2, <1>3, <1>4, <1>5, <1>6, <1>7, <1>8 DEF Request

\* Every step of the cleanup loop keeps it: a nack of a task that is gone
\* changes nothing.
LEMMA RestCleanup ==
    ASSUME TypeOK, Rest, NEW c \in Sweepers, Cleanup(c)
    PROVE  Rest'
<1> c \in Actors
  BY DEF Actors
<1>1. CASE UNCHANGED <<mem, h, nextId, history>>
  BY <1>1 DEF Rest, CreateFresh, IdsApart, QueuesExist, NoLoss, Held, mem, history
<1>2. ASSUME NEW t \in todo[c], TakeTask(c, "nack", t), UNCHANGED due
      PROVE  Rest'
  BY <1>2, RestTakeTask
<1>3. CASE \E S \in SUBSET DOMAIN in_flight : Scan(c, S)
  BY <1>1, <1>3 DEF Scan
<1>4. ASSUME NEW t \in todo[c], CleanupNack(c, t)
      PROVE  Rest'
  BY <1>1, <1>2, <1>4 DEF CleanupNack
<1> QED BY <1>3, <1>4 DEF Cleanup

\* The invariant always holds, when CalmConfig excludes what loses messages.
LEMMA NoLossAlways == CalmConfig => (Spec => []NoLossInv)
<1> SUFFICES ASSUME CalmConfig PROVE Spec => []NoLossInv
  OBVIOUS
<1>1. NoLossInv /\ [Next]_vars => NoLossInv'
  <2> SUFFICES ASSUME TypeOK, Rest, [Next]_vars PROVE TypeOK' /\ Rest'
    BY DEF NoLossInv, Rest
  <2>0. TypeOK'
    <3>1. CASE Next
      BY <3>1, TypeRequest, TypeCleanup, TypeProceed, TypeRestart DEF Next
    <3>2. CASE UNCHANGED vars
      BY <3>2 DEF TypeOK, vars, mem, history
    <3> QED BY <3>1, <3>2
  <2>1. ASSUME NEW c \in Clients, Request(c) PROVE Rest'
    BY <2>1, RestRequest
  <2>2. ASSUME NEW c \in Sweepers, Cleanup(c) PROVE Rest'
    BY <2>2, RestCleanup
  <2>3. ASSUME NEW c \in Actors, Proceed(c) PROVE Rest'
    BY <2>3, RestLog, RestLogFail, RestFinishCreate, RestFinishQueue, RestFinishDequeue,
       RestFinishNack, RestFinishAckBatch, RestFinishOther DEF Proceed
  <2>4. ~Restart
    BY DEF Restart, CalmConfig, TypeOK
  <2>5. ASSUME UNCHANGED vars PROVE Rest'
    BY <2>5 DEF Rest, CreateFresh, IdsApart, QueuesExist, NoLoss, Held, vars, mem, history
  <2> QED BY <2>0, <2>1, <2>2, <2>3, <2>4, <2>5 DEF Next
<1> QED BY <1>1, NoLossInit, PTL DEF Spec

\* No accepted message is lost: if the enqueue of a message was answered Ok and
\* no ack has removed it, it is in a queue, in flight, or held by a dequeue or
\* nack that runs, whatever requests of clients, appends that fail and passes
\* of the cleanup loop are interleaved (CalmConfig says what is excluded).
THEOREM NothingLost == CalmConfig => (Spec => []NoLoss)
<1>1. NoLossInv => NoLoss
  BY DEF NoLossInv
<1> QED BY <1>1, NoLossAlways, PTL
-----------------------------------------------------------------------------
(***************************************************************************)
(* The log of a server that runs one request at a time.                    *)
(***************************************************************************)
\* The server runs one request, or one nack of the cleanup loop, at a time.
OneAtATime == \A c, d \in Actors : h[c].op # "idle" /\ h[d].op # "idle" => c = d

\* A log whose appends are whole, or fail and leave nothing, unless the process
\* ends in the middle of one; clients wait for their answers.
WholeAppends == HasWal /\ "tear" \notin Faults /\ DropOps = {}

\* The maps as they were before the request r, and as they will be after it.
QueuesBefore(r) == IF r.op = "dequeue" THEN PushFront(queues, r.q, r.items) ELSE queues
FlightBefore(r) ==
    IF r.op \in {"ack", "nack"}
    THEN Insert(in_flight, r.ids[1],
                [msg |-> r.items[1].msg, attempts |-> r.items[1].attempts, queue |-> r.q])
    ELSE in_flight

QueuesAfter(r) ==
    CASE r.op = "create_queue" -> Insert(queues, r.q, <<>>)
      [] r.op = "queue"        -> Enqueue(queues, r.q, r.items)
      [] r.op = "nack"         -> Requeue(queues, r.q, r.items[1])
      [] OTHER                 -> queues
FlightAfter(r) ==
    CASE r.op = "dequeue"   -> Deliver(in_flight, r.q, r.items, r.ids)
      [] r.op = "ack_batch" -> Without(in_flight, Elements(r.ids))
      [] OTHER              -> in_flight

\* The state has the queues f and all the tasks of g.  (It may have more: an
\* ack whose append fails drops its task and is not in the log.)
Same(st, f, g) ==
    /\ st.queues = f
    /\ \A t \in DOMAIN g : t \in DOMAIN st.in_flight /\ st.in_flight[t] = g[t]

\* The messages of M have been sent.
Below(M) == \A m \in M : m < nextMsg

\* A state to which the log may replay when the messages of D are due.
Settled(st, D) ==
    /\ Sound(st, nextId) /\ Once(st) /\ Below(Live(st))
    /\ D \subseteq Live(st) /\ AckedMessages \cap Live(st) = {}
    /\ \A t \in DOMAIN st.in_flight \cap DOMAIN delivered : st.in_flight[t].msg = delivered[t].msg

\* The request r has not been logged: the log replays to what memory was
\* before it.
ToLog(st, r) ==
    /\ Same(st, QueuesBefore(r), FlightBefore(r))
    /\ r.op = "create_queue" => r.q \notin DOMAIN queues
    /\ r.op \in {"queue", "dequeue"} => r.q \in DOMAIN queues
    /\ r.op = "queue" =>
          /\ Distinct(r.items) /\ AllFresh(r.items)
          /\ Below(Messages(r.items)) /\ Messages(r.items) \cap (Live(st) \cup AckedMessages) = {}
    /\ r.op = "dequeue" =>
          /\ Injective(r.ids)
          /\ \A t \in Elements(r.ids) : t < nextId /\ t \notin DOMAIN st.in_flight \cup DOMAIN delivered
    /\ r.op \in {"ack", "nack"} => r.ids[1] \notin DOMAIN in_flight
    /\ r.op = "ack" => r.items[1].msg \notin due
    /\ r.op = "ack_batch" => Elements(r.ids) \subseteq DOMAIN in_flight

\* The messages of M are no longer there.
Gone(st, M) == M \cap Live(st) = {} /\ Below(M)

\* The request r has been logged: the log replays to what memory will be after
\* it.
Logged(st, r) ==
    /\ Same(st, QueuesAfter(r), FlightAfter(r))
    /\ r.op = "queue" => Messages(r.items) \subseteq Live(st)
    /\ r.op = "dequeue" => \A t \in Elements(r.ids) : t < nextId /\ t \notin DOMAIN delivered
    /\ r.op \in {"ack", "ack_batch"} => Gone(st, ReceivedAs(r.ids))

\* The ids that clients know have been drawn.
IdsKnown == \A t \in DOMAIN delivered : t < nextId

\* Memory and the log show the same: at rest, and on either side of the request
\* that runs.
Mirror(st) ==
    /\ (\A c \in Actors : h[c] = Idle) => Same(st, queues, in_flight)
    /\ \A c \in Actors : \/ h[c] = Idle
                         \/ h[c].at = "log" /\ ToLog(st, h[c])
                         \/ h[c].at = "apply" /\ Logged(st, h[c])

\* What is due is in the log, what is acknowledged is not.
Sure == Settled(disk.state, due) /\ Below(AckedMessages) /\ IdsKnown

\* The invariant.  A line that does not parse stays in the log, and then no
\* restart reads it.
LogInv == disk.tail # "corrupt" => Sure /\ Mirror(disk.state)
-----------------------------------------------------------------------------
(***************************************************************************)
(* What an entry does when the log is replayed.                            *)
(***************************************************************************)
\* The messages that the entry of r takes out of the state.
Drops(st, r) ==
    IF r.op \in {"ack", "ack_batch"} THEN {st.in_flight[t].msg : t \in Elements(r.ids)} ELSE {}

\* What is known when the request r is logged.
LogPre(st, r) ==
    /\ IsQueueMap(queues) /\ IsFlightMap(in_flight) /\ nextId \in Nat
    /\ r \in Handler /\ HandlerOK(r, DOMAIN delivered)
    /\ Sound(st, nextId) /\ Once(st) /\ ToLog(st, r)

\* What its replay achieves.
LogPost(st, nt, r) ==
    /\ Keeps(st, nt, nextId, Adds(r), Drops(st, r))
    /\ Same(nt, QueuesAfter(r), FlightAfter(r))
    /\ \A t \in DOMAIN nt.in_flight :
          \/ t \in DOMAIN st.in_flight /\ nt.in_flight[t] = st.in_flight[t]
          \/ r.op = "dequeue" /\ t \in Elements(r.ids)

\* The parts of what is known.
LEMMA LogPreParts ==
    ASSUME NEW st, NEW r, LogPre(st, r)
    PROVE  /\ st = [queues |-> st.queues, in_flight |-> st.in_flight]
           /\ IsQueueMap(st.queues) /\ IsFlightMap(st.in_flight)
           /\ Sound(st, nextId) /\ Once(st) /\ nextId \in Nat
           /\ r.items \in Seq(Item) /\ r.ids \in Seq(Nat)
           /\ IsQueueMap(queues) /\ IsFlightMap(in_flight)
           /\ Same(st, QueuesBefore(r), FlightBefore(r))
BY DEF LogPre, Sound, IsState, Handler, ToLog

\* A create entry, for a queue that neither memory nor the log has.
LEMMA LogCreate ==
    ASSUME NEW st, NEW r, LogPre(st, r), r.op = "create_queue"
    PROVE  LogPost(st, ReplayOp(st, Entry(r)), r)
<1> DEFINE nt == [queues |-> Insert(st.queues, r.q, <<>>), in_flight |-> st.in_flight]
<1>1. st.queues = queues /\ \A t \in DOMAIN in_flight : t \in DOMAIN st.in_flight /\ st.in_flight[t] = in_flight[t]
  BY LogPreParts DEF Same, QueuesBefore, FlightBefore
<1>2. r.q \in Name /\ r.q \notin DOMAIN st.queues
  BY <1>1 DEF LogPre, HandlerOK, ToLog
<1>3. Entry(r) = [op |-> "create_queue", queue |-> r.q]
  BY DEF Entry, WalOp
<1>4. ReplayOp(st, Entry(r)) = nt
  BY <1>2, <1>3, LogPreParts DEF ReplayOp
<1>5. Keeps(st, nt, nextId, {}, {})
  BY <1>2, LogPreParts, KeepsCreate
<1>6. Adds(r) = {} /\ Drops(st, r) = {}
  BY DEF Adds, Drops
<1>7. QueuesAfter(r) = Insert(queues, r.q, <<>>) /\ FlightAfter(r) = in_flight
  BY DEF QueuesAfter, FlightAfter
<1>8. Same(nt, QueuesAfter(r), FlightAfter(r))
  BY <1>1, <1>7 DEF Same
<1> QED BY <1>4, <1>5, <1>6, <1>8 DEF LogPost

\* An enqueue entry: the payloads come back as items that were never delivered.
LEMMA LogQueue ==
    ASSUME NEW st, NEW r, LogPre(st, r), r.op = "queue"
    PROVE  LogPost(st, ReplayOp(st, Entry(r)), r)
<1> DEFINE items == r.items
           data  == [i \in DOMAIN items |-> items[i].msg]
           fresh == [i \in DOMAIN data |-> Fresh(data[i])]
           f     == PushBack(st.queues, r.q, items)
           nt    == [queues |-> f, in_flight |-> st.in_flight]
<1>1. st.queues = queues /\ \A t \in DOMAIN in_flight : t \in DOMAIN st.in_flight /\ st.in_flight[t] = in_flight[t]
  BY LogPreParts DEF Same, QueuesBefore, FlightBefore
<1>2. /\ r.q \in DOMAIN st.queues /\ Distinct(items) /\ AllFresh(items)
      /\ Messages(items) \cap Live(st) = {}
  BY <1>1 DEF LogPre, ToLog
<1>3. Entry(r) = [op |-> "queue", queue |-> r.q, data |-> data]
  BY DEF Entry, WalOp
<1>4. items \in Seq(Item) /\ \A i \in DOMAIN items : items[i] \in Item
  BY LogPreParts
<1>5. fresh = items
  <2>1. \A i \in DOMAIN items : Fresh(items[i].msg) = items[i]
    BY <1>2, <1>4 DEF AllFresh, Fresh, Item
  <2>2. fresh = [i \in DOMAIN items |-> items[i]]
    BY <2>1
  <2>3. items = [i \in DOMAIN items |-> items[i]]
    BY <1>4
  <2> QED BY <2>2, <2>3
<1> HIDE DEF data, fresh
<1>6. ReplayOp(st, Entry(r)) = [st EXCEPT !.queues = Enqueue(@, r.q, fresh)]
  BY <1>3 DEF ReplayOp, ReplayEnqueue, fresh
<1>7. Enqueue(st.queues, r.q, items) = f
  BY <1>2 DEF Enqueue
<1> HIDE DEF f
<1>8. ReplayOp(st, Entry(r)) = nt
  BY <1>5, <1>6, <1>7, LogPreParts
<1>9. Keeps(st, nt, nextId, Messages(items), {})
  BY <1>2, <1>4, LogPreParts, KeepsEnqueue DEF f
<1>10. Adds(r) = Messages(items) /\ Drops(st, r) = {}
  BY DEF Adds, Drops
<1>11. QueuesAfter(r) = f /\ FlightAfter(r) = in_flight
  BY <1>1, <1>7 DEF QueuesAfter, FlightAfter
<1>12. Same(nt, QueuesAfter(r), FlightAfter(r))
  BY <1>1, <1>11 DEF Same
<1> QED BY <1>8, <1>9, <1>10, <1>12 DEF LogPost

\* Items in front of a deque are the first of it.
LEMMA FrontFirst ==
    ASSUME NEW S, NEW s \in Seq(S), NEW r \in Seq(S), NEW n, n = Len(s)
    PROVE  FirstOf(s \o r, n) = s /\ RestOf(s \o r, n) = r
<1>1. n \in Nat /\ Len(r) \in Nat /\ Len(s \o r) = n + Len(r) /\ s \o r \in Seq(S)
  OBVIOUS
<1>2. Least(n, Len(s \o r)) = n
  BY <1>1 DEF Least
<1> DEFINE a == SubSeq(s \o r, 1, n)
           b == SubSeq(s \o r, n + 1, n + Len(r))
<1>3. FirstOf(s \o r, n) = a /\ RestOf(s \o r, n) = b
  BY <1>1, <1>2 DEF FirstOf, RestOf
<1>4. a \in Seq(S) /\ Len(a) = n /\ \A i \in 1..n : a[i] = s[i]
  BY <1>1
<1>5. b \in Seq(S) /\ Len(b) = Len(r)
  BY <1>1
<1>6. ASSUME NEW i \in 1..Len(r) PROVE b[i] = r[i]
  <2>1. b[i] = (s \o r)[n + i]
    BY <1>1
  <2>2. (s \o r)[n + i] = r[i]
    BY <1>1
  <2> QED BY <2>1, <2>2
<1> HIDE DEF a, b
<1>7. a = s
  BY <1>1, <1>4
<1>8. b = r
  BY <1>1, <1>5, <1>6
<1> QED BY <1>3, <1>7, <1>8

\* A Dequeued entry carries ids only; the items at the front of the replayed
\* queue are those that the request holds, so each id is bound to its message.
LEMMA LogDequeue ==
    ASSUME NEW st, NEW r, LogPre(st, r), r.op = "dequeue"
    PROVE  LogPost(st, ReplayOp(st, Entry(r)), r)
<1> DEFINE q  == r.q
           n  == Len(r.ids)
           g  == Deliver(st.in_flight, q, r.items, r.ids)
           nt == [queues |-> queues, in_flight |-> g]
<1>1. /\ st.queues = PushFront(queues, q, r.items)
      /\ \A t \in DOMAIN in_flight : t \in DOMAIN st.in_flight /\ st.in_flight[t] = in_flight[t]
  BY LogPreParts DEF Same, QueuesBefore, FlightBefore
<1>2. /\ q \in DOMAIN queues /\ Injective(r.ids)
      /\ \A t \in Elements(r.ids) : t < nextId /\ t \notin DOMAIN st.in_flight
  BY DEF LogPre, ToLog
<1>3. r.items \in Seq(Item) /\ r.ids \in Seq(Nat) /\ n = Len(r.items) /\ n \in Nat
  BY LogPreParts DEF LogPre, HandlerOK
<1>4. queues[q] \in Seq(Item) /\ queues = [x \in DOMAIN queues |-> queues[x]]
  BY <1>2, LogPreParts DEF IsQueueMap, IsMap
<1>5. /\ DOMAIN st.queues = DOMAIN queues /\ st.queues[q] = r.items \o queues[q]
      /\ \A x \in DOMAIN queues : x # q => st.queues[x] = queues[x]
  BY <1>1, <1>2, <1>4 DEF PushFront
<1>6. FirstOf(st.queues[q], n) = r.items /\ RestOf(st.queues[q], n) = queues[q]
  BY <1>3, <1>4, <1>5, FrontFirst
<1>7. PopFront(st.queues, q, n) = queues
  <2> DEFINE p == PopFront(st.queues, q, n)
  <2>1. p = [x \in DOMAIN queues |-> p[x]]
    BY <1>1, <1>5 DEF PopFront, PushFront
  <2>2. \A x \in DOMAIN queues : p[x] = queues[x]
    BY <1>2, <1>5, <1>6 DEF PopFront
  <2> HIDE DEF p
  <2>3. p = queues
    BY <1>4, <2>1, <2>2
  <2> QED BY <2>3 DEF p
<1>8. FirstOf(r.ids, Len(r.items)) = r.ids
  <2>1. r.ids \o <<>> = r.ids /\ <<>> \in Seq(Nat)
    BY <1>3
  <2>2. FirstOf(r.ids \o <<>>, n) = r.ids
    BY <1>3, <2>1, FrontFirst
  <2> QED BY <1>3, <2>1, <2>2
<1>9. Entry(r) = [op |-> "dequeue", queue |-> q, ids |-> r.ids]
  BY DEF Entry, WalOp
<1>10. ReplayOp(st, Entry(r)) = ReplayDequeued(st, [op |-> "dequeue", queue |-> q, ids |-> r.ids])
  BY <1>9 DEF ReplayOp
<1>11. ReplayDequeued(st, [op |-> "dequeue", queue |-> q, ids |-> r.ids]) = nt
  BY <1>2, <1>5, <1>6, <1>7, <1>8 DEF ReplayDequeued
<1>12. Keeps(st, [queues |-> PopFront(st.queues, q, n), in_flight |-> Deliver(st.in_flight, q, r.items, r.ids)],
             nextId, {}, {})
  <2>1. q \in DOMAIN st.queues /\ r.items = FirstOf(st.queues[q], n) /\ nextId <= nextId
    BY <1>2, <1>5, <1>6, LogPreParts
  <2>2. Len(r.ids) = Len(r.items) /\ Sound(st, nextId) /\ Once(st) /\ nextId \in Nat
    BY <1>3, LogPreParts
  <2> HIDE DEF q, n
  <2> QED BY <1>2, <1>3, <2>1, <2>2, KeepsDequeue
<1>13. Adds(r) = {} /\ Drops(st, r) = {}
  BY DEF Adds, Drops
<1>14. QueuesAfter(r) = queues /\ FlightAfter(r) = Deliver(in_flight, q, r.items, r.ids)
  BY DEF QueuesAfter, FlightAfter
<1>15. Same(nt, QueuesAfter(r), FlightAfter(r))
  <2>1. \A t \in DOMAIN Deliver(in_flight, q, r.items, r.ids) :
           t \in DOMAIN g /\ g[t] = Deliver(in_flight, q, r.items, r.ids)[t]
    BY <1>1 DEF Deliver
  <2>2. nt.queues = queues /\ nt.in_flight = g
    OBVIOUS
  <2> HIDE DEF nt, g
  <2> QED BY <1>14, <2>1, <2>2 DEF Same
<1>16. \A t \in DOMAIN nt.in_flight :
          \/ t \in DOMAIN st.in_flight /\ nt.in_flight[t] = st.in_flight[t]
          \/ t \in Elements(r.ids)
  BY DEF Deliver
<1>17. ReplayOp(st, Entry(r)) = nt /\ Keeps(st, nt, nextId, {}, {})
  BY <1>7, <1>10, <1>11, <1>12
<1> HIDE DEF nt
<1> QED BY <1>13, <1>15, <1>16, <1>17 DEF LogPost

\* An ack or ack_batch entry: all its tasks are found.
LEMMA LogAck ==
    ASSUME NEW st, NEW r, LogPre(st, r), r.op \in {"ack", "ack_batch"}
    PROVE  LogPost(st, ReplayOp(st, Entry(r)), r)
<1> DEFINE g  == Without(st.in_flight, Elements(r.ids))
           nt == [queues |-> st.queues, in_flight |-> g]
<1>0. r.ids \in Seq(Nat) /\ (r.op = "ack" => Len(r.ids) = 1)
  BY LogPreParts DEF LogPre, HandlerOK
<1>1. st.queues = queues
  BY LogPreParts DEF Same, QueuesBefore
<1>2. /\ Elements(r.ids) \subseteq DOMAIN st.in_flight
      /\ \A t \in DOMAIN FlightAfter(r) : /\ t \in DOMAIN in_flight /\ t \notin Elements(r.ids)
                                          /\ FlightAfter(r)[t] = in_flight[t]
      /\ \A t \in DOMAIN in_flight : t \in DOMAIN st.in_flight /\ st.in_flight[t] = in_flight[t]
  <2>1. CASE r.op = "ack"
    <3>1. /\ DOMAIN FlightBefore(r) = DOMAIN in_flight \cup {r.ids[1]}
          /\ \A t \in DOMAIN in_flight : t # r.ids[1] => FlightBefore(r)[t] = in_flight[t]
      BY <2>1 DEF FlightBefore, Insert
    <3>2. r.ids[1] \notin DOMAIN in_flight /\ Elements(r.ids) = {r.ids[1]}
      BY <1>0, <2>1 DEF LogPre, ToLog, Elements
    <3>3. FlightAfter(r) = in_flight
      BY <2>1 DEF FlightAfter
    <3> QED BY <3>1, <3>2, <3>3, LogPreParts DEF Same
  <2>2. CASE r.op = "ack_batch"
    <3>1. FlightBefore(r) = in_flight /\ FlightAfter(r) = Without(in_flight, Elements(r.ids))
      BY <2>2 DEF FlightBefore, FlightAfter
    <3>2. Elements(r.ids) \subseteq DOMAIN in_flight
      BY <2>2 DEF LogPre, ToLog
    <3> QED BY <3>1, <3>2, LogPreParts DEF Same, Without
  <2> QED BY <2>1, <2>2
<1>3. Entry(r) = [op |-> r.op, ids |-> r.ids]
  BY DEF Entry, WalOp
<1>4. ReplayOp(st, Entry(r)) = ReplayAck(st, r.ids)
  BY <1>3 DEF ReplayOp
<1>5. ReplayAck(st, r.ids) = nt
  BY <1>2, LogPreParts DEF ReplayAck
<1>6. Keeps(st, nt, nextId, {}, {st.in_flight[t].msg : t \in Elements(r.ids)})
  BY <1>2, LogPreParts, KeepsAck
<1>7. Adds(r) = {} /\ Drops(st, r) = {st.in_flight[t].msg : t \in Elements(r.ids)}
  BY DEF Adds, Drops
<1>8. QueuesAfter(r) = queues
  BY DEF QueuesAfter
<1>9. Same(nt, QueuesAfter(r), FlightAfter(r))
  BY <1>1, <1>2, <1>8 DEF Same, Without
<1>10. \A t \in DOMAIN nt.in_flight : t \in DOMAIN st.in_flight /\ nt.in_flight[t] = st.in_flight[t]
  BY DEF Without
<1> QED BY <1>4, <1>5, <1>6, <1>7, <1>9, <1>10 DEF LogPost

\* A nack entry: the task in the log is the one that the request holds.
LEMMA LogNack ==
    ASSUME NEW st, NEW r, LogPre(st, r), r.op = "nack"
    PROVE  LogPost(st, ReplayOp(st, Entry(r)), r)
<1> DEFINE t    == r.ids[1]
           item == r.items[1]
           f    == Requeue(st.queues, r.q, item)
           g    == Without(st.in_flight, {t})
           nt   == [queues |-> f, in_flight |-> g]
<1>0. r.ids \in Seq(Nat) /\ r.items \in Seq(Item) /\ Len(r.items) = 1 /\ Len(r.ids) = 1
  BY LogPreParts DEF LogPre, HandlerOK
<1>1. item \in Item
  BY <1>0
<1>2. st.queues = queues
  BY LogPreParts DEF Same, QueuesBefore
<1>3. /\ t \in DOMAIN st.in_flight
      /\ st.in_flight[t] = [msg |-> item.msg, attempts |-> item.attempts, queue |-> r.q]
      /\ t \notin DOMAIN in_flight
      /\ \A u \in DOMAIN in_flight : u \in DOMAIN st.in_flight /\ st.in_flight[u] = in_flight[u]
  <2>1. /\ DOMAIN FlightBefore(r) = DOMAIN in_flight \cup {t}
        /\ FlightBefore(r)[t] = [msg |-> item.msg, attempts |-> item.attempts, queue |-> r.q]
        /\ \A u \in DOMAIN in_flight : u # t => FlightBefore(r)[u] = in_flight[u]
    BY DEF FlightBefore, Insert
  <2>2. t \notin DOMAIN in_flight
    BY DEF LogPre, ToLog
  <2> HIDE DEF item, t
  <2> QED BY <2>1, <2>2, LogPreParts DEF Same
<1>4. /\ r.q = st.in_flight[t].queue
      /\ item = [msg |-> st.in_flight[t].msg, attempts |-> st.in_flight[t].attempts]
  <2> HIDE DEF item, t
  <2> QED BY <1>1, <1>3 DEF Item
<1>5. Entry(r) = [op |-> "nack", ids |-> r.ids]
  BY DEF Entry, WalOp
<1>6. ReplayOp(st, Entry(r)) = ReplayNack(st, t)
  BY <1>5 DEF ReplayOp
<1> HIDE DEF item, t
<1>7. ReplayNack(st, t) = nt
  BY <1>3, <1>4 DEF ReplayNack
<1>8. Keeps(st, nt, nextId, {}, {})
  BY <1>3, <1>4, LogPreParts, KeepsNack
<1>9. Adds(r) = {} /\ Drops(st, r) = {}
  BY DEF Adds, Drops
<1>10. QueuesAfter(r) = f /\ FlightAfter(r) = in_flight
  BY <1>2 DEF QueuesAfter, FlightAfter, item
<1>11. Same(nt, QueuesAfter(r), FlightAfter(r))
  BY <1>3, <1>10 DEF Same, Without
<1>12. \A u \in DOMAIN nt.in_flight : u \in DOMAIN st.in_flight /\ nt.in_flight[u] = st.in_flight[u]
  BY DEF Without
<1> QED BY <1>6, <1>7, <1>8, <1>9, <1>11, <1>12 DEF LogPost

\* The entry of a heartbeat has no effect.
LEMMA LogExtend ==
    ASSUME NEW st, NEW r, LogPre(st, r), r.op = "extend"
    PROVE  LogPost(st, ReplayOp(st, Entry(r)), r)
<1>1. Entry(r) = [op |-> "extend", ids |-> r.ids]
  BY DEF Entry, WalOp
<1>2. ReplayOp(st, Entry(r)) = st
  BY <1>1 DEF ReplayOp
<1>3. Adds(r) = {} /\ Drops(st, r) = {}
  BY DEF Adds, Drops
<1>4. Keeps(st, st, nextId, {}, {})
  BY LogPreParts, KeepsSame
<1>5. /\ QueuesAfter(r) = queues /\ FlightAfter(r) = in_flight
      /\ QueuesBefore(r) = queues /\ FlightBefore(r) = in_flight
  BY DEF QueuesAfter, FlightAfter, QueuesBefore, FlightBefore
<1> QED BY <1>2, <1>3, <1>4, <1>5, LogPreParts DEF LogPost

\* The entry of any request does in the replay what the request does in memory.
LEMMA LogEffect ==
    ASSUME NEW st, NEW r, LogPre(st, r), r.op # "idle"
    PROVE  LogPost(st, ReplayOp(st, Entry(r)), r)
<1>1. r.op \in {"create_queue", "queue", "dequeue", "ack", "nack", "extend", "ack_batch"}
  BY DEF LogPre, Handler, Ops
<1> QED BY <1>1, LogCreate, LogQueue, LogDequeue, LogAck, LogNack, LogExtend

\* What is left of due when the entry of r is in the log.
DueAfter(r) == IF r.op = "ack_batch" THEN due \ ReceivedAs(r.ids) ELSE due

\* The entry of a request takes the log from a state before it to one after it.
LEMMA LogSettled ==
    ASSUME TypeOK, NEW c \in Actors, NEW r, r = h[c], r.op # "idle",
           NEW st, Settled(st, due), ToLog(st, r), NEW nt, nt = ReplayOp(st, Entry(r))
    PROVE  Settled(nt, DueAfter(r)) /\ Logged(nt, r)
<1>1. LogPre(st, r)
  BY DEF LogPre, TypeOK, Settled
<1>2. LogPost(st, nt, r)
  BY <1>1, LogEffect
<1>3. /\ Sound(nt, nextId) /\ Once(nt) /\ Same(nt, QueuesAfter(r), FlightAfter(r))
      /\ Adds(r) \subseteq Live(nt) /\ Live(st) \subseteq Live(nt) \cup Drops(st, r)
      /\ Live(nt) \subseteq (Live(st) \ Drops(st, r)) \cup Adds(r)
      /\ \A t \in DOMAIN nt.in_flight :
            \/ t \in DOMAIN st.in_flight /\ nt.in_flight[t] = st.in_flight[t]
            \/ r.op = "dequeue" /\ t \in Elements(r.ids)
  BY <1>2 DEF LogPost, Keeps
<1>4. /\ Below(Live(st)) /\ due \subseteq Live(st) /\ AckedMessages \cap Live(st) = {}
      /\ \A t \in DOMAIN st.in_flight \cap DOMAIN delivered : st.in_flight[t].msg = delivered[t].msg
  BY DEF Settled
<1>5. Below(Adds(r)) /\ AckedMessages \cap Adds(r) = {}
  BY DEF ToLog, Adds, Below
<1>6. Below(Live(nt)) /\ AckedMessages \cap Live(nt) = {}
  BY <1>3, <1>4, <1>5 DEF Below
<1>7. /\ \A t \in DOMAIN in_flight : r.op = "ack_batch" => t \in DOMAIN st.in_flight /\ st.in_flight[t] = in_flight[t]
      /\ r.op = "ack" => r.ids[1] \in DOMAIN st.in_flight /\ st.in_flight[r.ids[1]].msg = r.items[1].msg
  <2>1. Same(st, QueuesBefore(r), FlightBefore(r))
    BY DEF ToLog
  <2>2. CASE r.op = "ack"
    <3>1. r.ids[1] \in DOMAIN FlightBefore(r) /\ FlightBefore(r)[r.ids[1]].msg = r.items[1].msg
      BY <2>2 DEF FlightBefore, Insert
    <3> QED BY <2>1, <2>2, <3>1 DEF Same
  <2>3. CASE r.op # "ack"
    BY <2>1, <2>3 DEF Same, FlightBefore
  <2> QED BY <2>2, <2>3
<1>8. r.op = "ack" => Elements(r.ids) = {r.ids[1]} /\ Messages(r.items) = {r.items[1].msg}
  <2>1. r.op = "ack" => r.ids \in Seq(Nat) /\ r.items \in Seq(Item) /\ Len(r.ids) = 1 /\ Len(r.items) = 1
    BY <1>1, LogPreParts DEF LogPre, HandlerOK
  <2> QED BY <2>1 DEF Elements, Messages
<1>9. Drops(st, r) \subseteq Live(st)
  <2>1. Elements(r.ids) \subseteq DOMAIN st.in_flight \/ r.op \notin {"ack", "ack_batch"}
    BY <1>7, <1>8 DEF ToLog
  <2> QED BY <2>1 DEF Drops, Live, Flying
<1>10. r.op \in {"ack", "ack_batch"} => Drops(st, r) = ReceivedAs(r.ids)
  <2>1. r.op \in {"ack", "ack_batch"} => Elements(r.ids) \subseteq DOMAIN st.in_flight \cap DOMAIN delivered
    BY <1>1, <1>7, <1>8 DEF LogPre, HandlerOK, ToLog
  <2> QED BY <1>4, <2>1 DEF Drops, ReceivedAs
<1>20. DueAfter(r) \cap Drops(st, r) = {}
  <2>1. CASE r.op = "ack"
    BY <1>7, <1>8, <2>1 DEF ToLog, Drops, DueAfter
  <2>2. CASE r.op = "ack_batch"
    BY <1>10, <2>2 DEF DueAfter
  <2>3. CASE r.op \notin {"ack", "ack_batch"}
    BY <2>3 DEF Drops
  <2> QED BY <2>1, <2>2, <2>3
<1>11. DueAfter(r) \subseteq Live(nt)
  BY <1>3, <1>4, <1>20 DEF DueAfter
<1>12. \A t \in DOMAIN nt.in_flight \cap DOMAIN delivered : nt.in_flight[t].msg = delivered[t].msg
  <2>1. r.op = "dequeue" => \A t \in Elements(r.ids) : t \notin DOMAIN delivered
    BY DEF ToLog
  <2> QED BY <1>3, <1>4, <2>1
<1>13. Settled(nt, DueAfter(r))
  BY <1>3, <1>6, <1>11, <1>12 DEF Settled
<1>14. r.op \in {"ack", "ack_batch"} => Gone(nt, Drops(st, r))
  BY <1>3, <1>4, <1>9 DEF Gone, Below, Adds
<1>17. r.op = "queue" => Messages(r.items) \subseteq Live(nt)
  BY <1>3 DEF Adds
<1>18. r.op = "dequeue" => \A t \in Elements(r.ids) : t < nextId /\ t \notin DOMAIN delivered
  BY DEF ToLog
<1>19. Logged(nt, r)
  BY <1>3, <1>10, <1>14, <1>17, <1>18 DEF Logged, Gone, Below
<1> QED BY <1>13, <1>19
-----------------------------------------------------------------------------
(***************************************************************************)
(* The steps.                                                              *)
(***************************************************************************)
\* One request runs after the step.
LEMMA MirrorOne ==
    ASSUME TypeOK', OneAtATime', NEW c \in Actors, h'[c].op # "idle",
           \/ h'[c].at = "log" /\ ToLog(disk.state, h[c])'
           \/ h'[c].at = "apply" /\ Logged(disk.state, h[c])'
    PROVE  Mirror(disk.state)'
<1>1. \A d \in Actors : d # c => h'[d] = Idle
  BY DEF OneAtATime, TypeOK, HandlerOK
<1>2. h'[c] # Idle
  BY DEF Idle
<1> QED BY <1>1, <1>2 DEF Mirror

\* None does.
LEMMA MirrorNone ==
    ASSUME \A d \in Actors : h'[d] = Idle, Same(disk.state, queues, in_flight)'
    PROVE  Mirror(disk.state)'
BY DEF Mirror

\* A request that runs is the only one.
LEMMA OthersIdle ==
    ASSUME TypeOK, OneAtATime, NEW c \in Actors, h[c].op # "idle"
    PROVE  \A d \in Actors : d # c => h[d] = Idle
BY DEF OneAtATime, TypeOK, HandlerOK

\* When a request begins, no other runs.
LEMMA BeginAlone ==
    ASSUME TypeOK, OneAtATime', LogInv, disk.tail # "corrupt",
           NEW c \in Actors, NEW op \in Ops, NEW q, NEW items, NEW ids, Begin(c, op, q, items, ids)
    PROVE  /\ Same(disk.state, queues, in_flight) /\ Sure
           /\ h'[c] = [op |-> op, at |-> "log", q |-> q, items |-> items, ids |-> ids]
           /\ h'[c].op # "idle" /\ h'[c].at = "log"
<1>1. h[c] = Idle /\ h'[c] = [op |-> op, at |-> "log", q |-> q, items |-> items, ids |-> ids]
      /\ \A d \in Actors : d # c => h'[d] = h[d]
  BY DEF Begin, TypeOK
<1>2. h'[c].op # "idle" /\ h'[c].at = "log"
  BY <1>1 DEF Ops
<1>3. \A d \in Actors : d # c => h[d].op = "idle"
  BY <1>1, <1>2 DEF OneAtATime
<1>4. \A d \in Actors : h[d] = Idle
  BY <1>1, <1>3 DEF TypeOK, HandlerOK
<1> QED BY <1>1, <1>2, <1>4 DEF LogInv, Mirror

\* The messages of a state are numbers.
LEMMA LiveType ==
    ASSUME NEW st, IsState(st)
    PROVE  Live(st) \subseteq Nat
<1>1. \A q \in DOMAIN st.queues : st.queues[q] \in Seq(Item)
  BY DEF IsState, IsQueueMap, IsMap
<1>2. \A q \in DOMAIN st.queues : Messages(st.queues[q]) \subseteq Nat
  BY <1>1, MessagesType
<1>3. \A t \in DOMAIN st.in_flight : st.in_flight[t] \in Task
  BY DEF IsState, IsFlightMap, IsMap
<1>4. \A t \in DOMAIN st.in_flight : st.in_flight[t].msg \in Nat
  BY <1>3 DEF Task
<1> QED BY <1>2, <1>4 DEF Live, Pending, Flying

\* New numbers of messages and ids, and fewer messages that are due, disturb
\* nothing.
LEMMA SureGrow ==
    ASSUME TypeOK, TypeOK', Sure, UNCHANGED <<disk, acked, delivered>>, due' \subseteq due,
           nextMsg <= nextMsg', nextId <= nextId'
    PROVE  Sure'
<1>1. IsState(disk.state) /\ disk' = disk /\ AckedMessages' = AckedMessages /\ delivered' = delivered
  BY DEF TypeOK, IsWalFile, AckedMessages
<1>2. nextMsg \in Nat /\ nextMsg' \in Nat /\ nextId \in Nat /\ nextId' \in Nat
  BY DEF TypeOK
<1>3. Live(disk.state) \subseteq Nat /\ AckedMessages \subseteq Nat /\ DOMAIN delivered \subseteq Nat
      /\ DOMAIN disk.state.in_flight \subseteq Nat
  BY <1>1, LiveType DEF TypeOK, IsMap, IsState, IsFlightMap, AckedMessages, Delivery
<1>4. Below(Live(disk.state))' /\ Below(AckedMessages)' /\ IdsKnown'
  BY <1>1, <1>2, <1>3 DEF Sure, Settled, Below, IdsKnown
<1>5. Sound(disk.state, nextId)'
  BY <1>1, <1>2, <1>3 DEF Sure, Settled, Sound
<1> QED BY <1>1, <1>4, <1>5 DEF Sure, Settled

\* The first stage of a request that changes no map.
LEMMA LogInvBegin ==
    ASSUME TypeOK, TypeOK', OneAtATime', LogInv,
           NEW c \in Actors, NEW op \in {"create_queue", "extend", "ack_batch"}, NEW q, NEW ids,
           Begin(c, op, q, <<>>, ids),
           op = "create_queue" => q \notin DOMAIN queues,
           op = "ack_batch" => Elements(ids) \subseteq DOMAIN in_flight,
           UNCHANGED <<mem, disk, nextMsg, nextId, history>>
    PROVE  LogInv'
<1> SUFFICES ASSUME disk.tail # "corrupt" PROVE Sure' /\ Mirror(disk.state)'
  BY DEF LogInv
<1>1. op \in Ops /\ queues' = queues /\ in_flight' = in_flight /\ disk' = disk
      /\ nextMsg' = nextMsg /\ nextId' = nextId /\ AckedMessages' = AckedMessages /\ acked' = acked /\ delivered' = delivered /\ due' = due
  BY DEF Ops, mem, history, AckedMessages
<1>2. /\ Same(disk.state, queues, in_flight) /\ Sure
      /\ h'[c] = [op |-> op, at |-> "log", q |-> q, items |-> <<>>, ids |-> ids]
      /\ h'[c].op # "idle" /\ h'[c].at = "log"
  BY <1>1, BeginAlone
<1>3. Sure'
  <2>1. nextMsg <= nextMsg' /\ nextId <= nextId' /\ due' \subseteq due
    BY <1>1 DEF TypeOK
  <2> QED BY <1>1, <1>2, <2>1, SureGrow
<1>4. ToLog(disk.state, h[c])'
  BY <1>1, <1>2 DEF ToLog, Same, QueuesBefore, FlightBefore
<1> QED BY <1>2, <1>3, <1>4, MirrorOne

\* The messages and ids a request draws.
LEMMA NewParts ==
    ASSUME TypeOK, NEW n \in Nat
    PROVE  /\ Distinct(NewItems(n)) /\ AllFresh(NewItems(n))
           /\ \A m \in Messages(NewItems(n)) : m \in Nat /\ nextMsg <= m /\ m < nextMsg + n
           /\ Injective(NewIds(n))
           /\ \A t \in Elements(NewIds(n)) : t \in Nat /\ nextId <= t /\ t < nextId + n
<1>1. nextMsg \in Nat /\ nextId \in Nat
  BY DEF TypeOK
<1>2. /\ DOMAIN NewItems(n) = 1..n /\ DOMAIN NewIds(n) = 1..n
      /\ \A i \in 1..n : NewIds(n)[i] = nextId + i - 1
      /\ \A i \in 1..n : NewItems(n)[i].msg = nextMsg + i - 1 /\ NewItems(n)[i].attempts = 0
  BY DEF NewItems, NewIds, Fresh
<1>3. \A i \in 1..n : /\ nextMsg + i - 1 \in Nat /\ nextMsg <= nextMsg + i - 1 /\ nextMsg + i - 1 < nextMsg + n
                      /\ nextId + i - 1 \in Nat /\ nextId <= nextId + i - 1 /\ nextId + i - 1 < nextId + n
  BY <1>1
<1>4. \A i, j \in 1..n : nextMsg + i - 1 = nextMsg + j - 1 \/ nextId + i - 1 = nextId + j - 1 => i = j
  BY <1>1
<1>5. Distinct(NewItems(n)) /\ AllFresh(NewItems(n)) /\ Injective(NewIds(n))
  <2> DEFINE s == NewItems(n)
             l == NewIds(n)
  <2>1. /\ DOMAIN s = 1..n /\ DOMAIN l = 1..n /\ \A i \in 1..n : l[i] = nextId + i - 1
        /\ \A i \in 1..n : s[i].msg = nextMsg + i - 1 /\ s[i].attempts = 0
    BY <1>2
  <2> HIDE DEF s, l
  <2>2. \A i, j \in 1..n : s[i].msg = s[j].msg \/ l[i] = l[j] => i = j
    <3> SUFFICES ASSUME NEW i \in 1..n, NEW j \in 1..n, s[i].msg = s[j].msg \/ l[i] = l[j]
                 PROVE  i = j
      OBVIOUS
    <3>1. s[i].msg = nextMsg + i - 1 /\ s[j].msg = nextMsg + j - 1
      BY <2>1
    <3>2. l[i] = nextId + i - 1 /\ l[j] = nextId + j - 1
      BY <2>1
    <3> QED BY <1>4, <3>1, <3>2
  <2>3. Distinct(s) /\ AllFresh(s) /\ Injective(l)
    BY <2>1, <2>2 DEF Distinct, AllFresh, Injective
  <2> QED BY <2>3 DEF s, l
<1>6. \A m \in Messages(NewItems(n)) : m \in Nat /\ nextMsg <= m /\ m < nextMsg + n
  BY <1>2, <1>3 DEF Messages
<1>7. \A t \in Elements(NewIds(n)) : t \in Nat /\ nextId <= t /\ t < nextId + n
  BY <1>2, <1>3 DEF Elements
<1> QED BY <1>5, <1>6, <1>7

\* The first stage of an enqueue.
LEMMA LogInvQueue ==
    ASSUME TypeOK, TypeOK', OneAtATime', LogInv,
           NEW c \in Actors, NEW q, NEW n \in Nat, Queue(c, q, n)
    PROVE  LogInv'
<1> SUFFICES ASSUME disk.tail # "corrupt" PROVE Sure' /\ Mirror(disk.state)'
  BY DEF LogInv, Queue
<1> DEFINE items == NewItems(n)
<1>1. /\ queues' = queues /\ in_flight' = in_flight /\ disk' = disk /\ nextMsg' = nextMsg + n
      /\ nextId' = nextId /\ AckedMessages' = AckedMessages /\ acked' = acked /\ delivered' = delivered /\ due' = due
      /\ q \in DOMAIN queues /\ Begin(c, "queue", q, items, <<>>)
  BY DEF Queue, mem, history, AckedMessages
<1> HIDE DEF items
<1>2. /\ Same(disk.state, queues, in_flight) /\ Sure
      /\ h'[c] = [op |-> "queue", at |-> "log", q |-> q, items |-> items, ids |-> <<>>]
      /\ h'[c].op # "idle" /\ h'[c].at = "log"
  BY <1>1, BeginAlone DEF Ops
<1>3. Sure'
  <2>1. nextMsg <= nextMsg' /\ nextId <= nextId' /\ due' \subseteq due
    BY <1>1 DEF TypeOK
  <2> QED BY <1>1, <1>2, <2>1, SureGrow
<1>4. Distinct(items) /\ AllFresh(items) /\ \A m \in Messages(items) : m \in Nat /\ nextMsg <= m /\ m < nextMsg + n
  BY NewParts DEF items
<1>5. Messages(items) \cap (Live(disk.state) \cup AckedMessages) = {}
  <2>1. \A m \in Live(disk.state) \cup AckedMessages : m \in Nat /\ m < nextMsg
    BY <1>2, LiveType DEF Sure, Settled, Below, TypeOK, IsWalFile, AckedMessages, IsMap, Delivery
  <2>2. nextMsg \in Nat
    BY DEF TypeOK
  <2> QED BY <1>4, <2>1, <2>2
<1>6. \A m \in Messages(items) : m < nextMsg'
  BY <1>1, <1>4
<1>7. ToLog(disk.state, h[c])'
  BY <1>1, <1>2, <1>4, <1>5, <1>6 DEF ToLog, Same, QueuesBefore, FlightBefore, Below
<1> QED BY <1>2, <1>3, <1>7, MirrorOne

\* The first stage of a dequeue: with its items put back, memory is as before.
LEMMA LogInvDequeue ==
    ASSUME TypeOK, TypeOK', OneAtATime', LogInv,
           NEW c \in Actors, NEW q, NEW n \in Nat, Dequeue(c, q, n)
    PROVE  LogInv'
<1> SUFFICES ASSUME disk.tail # "corrupt" PROVE Sure' /\ Mirror(disk.state)'
  BY DEF LogInv, Dequeue
<1> DEFINE items == FirstOf(queues[q], n)
           k     == Len(items)
           ids   == NewIds(k)
<1>1. /\ queues' = PopFront(queues, q, n) /\ in_flight' = in_flight /\ disk' = disk /\ nextMsg' = nextMsg
      /\ nextId' = nextId + k /\ AckedMessages' = AckedMessages /\ acked' = acked /\ delivered' = delivered /\ due' = due
      /\ q \in DOMAIN queues /\ Begin(c, "dequeue", q, items, ids)
  BY DEF Dequeue, mem, history, AckedMessages
<1>2. /\ queues[q] \in Seq(Item) /\ queues = [x \in DOMAIN queues |-> queues[x]]
      /\ nextId \in Nat /\ nextMsg \in Nat
  BY <1>1 DEF TypeOK, IsQueueMap, IsMap
<1>3. items \in Seq(Item) /\ k \in Nat /\ items \o RestOf(queues[q], n) = queues[q]
  BY <1>2, SplitType, SplitConcat
<1>4. Injective(ids) /\ \A t \in Elements(ids) : t \in Nat /\ nextId <= t /\ t < nextId + k
  BY <1>3, NewParts
<1> HIDE DEF items, k, ids
<1>5. /\ Same(disk.state, queues, in_flight) /\ Sure
      /\ h'[c] = [op |-> "dequeue", at |-> "log", q |-> q, items |-> items, ids |-> ids]
      /\ h'[c].op # "idle" /\ h'[c].at = "log"
  BY <1>1, BeginAlone DEF Ops
<1>6. Sure'
  <2>1. nextMsg <= nextMsg' /\ nextId <= nextId' /\ due' \subseteq due
    BY <1>1, <1>2, <1>3
  <2> QED BY <1>1, <1>5, <2>1, SureGrow
<1>7. \A t \in Elements(ids) : t < nextId' /\ t \notin DOMAIN disk.state.in_flight \cup DOMAIN delivered
  <2>1. \A t \in DOMAIN disk.state.in_flight : t \in Nat /\ t < nextId
    BY <1>5 DEF Sure, Settled, Sound, IsState, IsFlightMap, IsMap
  <2>2. \A t \in DOMAIN delivered : t \in Nat /\ t < nextId
    BY <1>5 DEF Sure, IdsKnown, TypeOK, IsMap
  <2> QED BY <1>1, <1>2, <1>4, <2>1, <2>2
<1>8. PushFront(queues', q, items) = queues /\ q \in DOMAIN queues'
  <2> DEFINE p == PushFront(queues', q, items)
  <2>1. /\ DOMAIN queues' = DOMAIN queues /\ queues'[q] = RestOf(queues[q], n)
        /\ \A x \in DOMAIN queues : x # q => queues'[x] = queues[x]
    BY <1>1 DEF PopFront
  <2>2. p = [x \in DOMAIN queues |-> p[x]]
    BY <2>1 DEF PushFront
  <2>3. \A x \in DOMAIN queues : p[x] = queues[x]
    BY <1>1, <1>3, <2>1 DEF PushFront
  <2> HIDE DEF p
  <2>4. p = queues
    BY <1>2, <2>2, <2>3
  <2> QED BY <1>1, <2>1, <2>4 DEF p
<1>9. Same(disk.state, QueuesBefore(h[c]), FlightBefore(h[c]))'
  BY <1>1, <1>5, <1>8 DEF Same, QueuesBefore, FlightBefore
<1>10. ToLog(disk.state, h[c])'
  BY <1>1, <1>4, <1>5, <1>7, <1>8, <1>9 DEF ToLog
<1> QED BY <1>5, <1>6, <1>10, MirrorOne

\* The first stage of an ack or a nack.
LEMMA LogInvTakeTask ==
    ASSUME TypeOK, TypeOK', OneAtATime', LogInv,
           NEW c \in Actors, NEW op \in {"ack", "nack"}, NEW t, TakeTask(c, op, t),
           op = "ack" => due' = due \ {in_flight[t].msg}, op = "nack" => due' = due
    PROVE  LogInv'
<1> SUFFICES ASSUME disk.tail # "corrupt" PROVE Sure' /\ Mirror(disk.state)'
  BY DEF LogInv, TakeTask
<1> DEFINE task == in_flight[t]
           item == [msg |-> task.msg, attempts |-> task.attempts]
<1>1. /\ queues' = queues /\ in_flight' = Without(in_flight, {t}) /\ disk' = disk /\ nextMsg' = nextMsg
      /\ nextId' = nextId /\ AckedMessages' = AckedMessages /\ delivered' = delivered /\ due' \subseteq due
      /\ t \in DOMAIN in_flight /\ Begin(c, op, task.queue, <<item>>, <<t>>) /\ acked' = acked
  BY DEF TakeTask, AckedMessages
<1>2. task \in Task /\ nextId \in Nat /\ nextMsg \in Nat
  BY <1>1 DEF TypeOK, IsFlightMap, IsMap
<1>3. item.msg = task.msg /\ item.attempts = task.attempts
  OBVIOUS
<1> HIDE DEF item
<1>4. /\ Same(disk.state, queues, in_flight) /\ Sure
      /\ h'[c] = [op |-> op, at |-> "log", q |-> task.queue, items |-> <<item>>, ids |-> <<t>>]
      /\ h'[c].op # "idle" /\ h'[c].at = "log"
  BY <1>1, BeginAlone DEF Ops
<1>5. Sure'
  <2>1. nextMsg <= nextMsg' /\ nextId <= nextId'
    BY <1>1, <1>2
  <2> QED BY <1>1, <1>4, <2>1, SureGrow
<1>6. h'[c].ids[1] = t /\ h'[c].items[1] = item /\ h'[c].q = task.queue /\ h'[c].op = op
  BY <1>4
<1>7. [msg |-> item.msg, attempts |-> item.attempts, queue |-> task.queue] = task
  BY <1>2, <1>3 DEF Task
<1>8. t \notin DOMAIN in_flight' /\ \A u \in DOMAIN in_flight' : u \in DOMAIN in_flight /\ in_flight'[u] = in_flight[u]
  BY <1>1 DEF Without
<1>9. Same(disk.state, QueuesBefore(h[c]), FlightBefore(h[c]))'
  <2> HIDE DEF task
  <2>1. QueuesBefore(h[c])' = queues
    BY <1>1, <1>6 DEF QueuesBefore
  <2>2. FlightBefore(h[c])' = Insert(in_flight', t, task)
    BY <1>6, <1>7 DEF FlightBefore
  <2>3. \A u \in DOMAIN Insert(in_flight', t, task) :
           u \in DOMAIN in_flight /\ Insert(in_flight', t, task)[u] = in_flight[u]
    BY <1>1, <1>8 DEF Insert, task
  <2> QED BY <1>1, <1>4, <2>1, <2>2, <2>3 DEF Same
<1>10. op = "ack" => item.msg \notin due'
  BY <1>3
<1>11. ToLog(disk.state, h[c])'
  BY <1>6, <1>8, <1>9, <1>10 DEF ToLog
<1> QED BY <1>4, <1>5, <1>11, MirrorOne

\* The append: the log goes from the state before the request to the one after it.
LEMMA LogInvLog ==
    ASSUME TypeOK, TypeOK', OneAtATime', LogInv, HasWal, NEW c \in Actors, Log(c)
    PROVE  LogInv'
<1> DEFINE r == h[c]
<1>1. /\ r.at = "log" /\ disk' = WalAppend(disk, Entry(r)) /\ due' = DueAfter(r)
      /\ queues' = queues /\ in_flight' = in_flight /\ nextMsg' = nextMsg /\ nextId' = nextId
      /\ AckedMessages' = AckedMessages /\ delivered' = delivered
  BY DEF Log, mem, DueAfter, AckedMessages
<1>2. /\ h'[c].op = r.op /\ h'[c].q = r.q /\ h'[c].items = r.items /\ h'[c].ids = r.ids
      /\ h'[c].at = "apply"
  BY DEF Log, TypeOK, Handler
<1>3. r # Idle /\ r.op # "idle"
  BY <1>1 DEF Idle, TypeOK, HandlerOK
<1> SUFFICES ASSUME disk'.tail # "corrupt" PROVE Sure' /\ Mirror(disk.state)'
  BY DEF LogInv
<1> DEFINE nt == ReplayOp(disk.state, Entry(r))
<1>4. disk.tail = "clean" /\ disk'.state = nt
  BY <1>1 DEF WalAppend, TypeOK, IsWalFile
<1>5. Sure /\ ToLog(disk.state, r)
  BY <1>1, <1>3, <1>4 DEF LogInv, Mirror
<1>6. Settled(nt, DueAfter(r)) /\ Logged(nt, r)
  <2> HIDE DEF nt
  <2>1. Settled(disk.state, due)
    BY <1>5 DEF Sure
  <2>2. nt = ReplayOp(disk.state, Entry(r))
    BY DEF nt
  <2> QED BY <1>3, <1>5, <2>1, <2>2, LogSettled
<1> HIDE DEF nt
<1>7. Sure'
  BY <1>1, <1>4, <1>5, <1>6 DEF Sure, Settled, Below, IdsKnown
<1> HIDE DEF r
<1>8. Logged(disk.state, h[c])'
  BY <1>1, <1>2, <1>4, <1>6
     DEF Logged, Same, QueuesAfter, FlightAfter, Gone, Below, ReceivedAs
<1> QED BY <1>2, <1>3, <1>7, <1>8, MirrorOne

\* After the last stage of a request none runs.
LEMMA LogInvEnd ==
    ASSUME TypeOK, TypeOK', OneAtATime, LogInv, NEW c \in Actors, h[c].op # "idle",
           h' = [h EXCEPT ![c] = Idle], disk' = disk,
           disk.tail # "corrupt" => Sure' /\ Same(disk.state, queues, in_flight)'
    PROVE  LogInv'
<1>1. \A d \in Actors : h'[d] = Idle
  BY OthersIdle DEF TypeOK
<1> QED BY <1>1, MirrorNone DEF LogInv

\* An append that fails and leaves nothing: memory goes back.
LEMMA LogInvLogFail ==
    ASSUME TypeOK, TypeOK', OneAtATime, LogInv, WholeAppends, NEW c \in Actors, LogFail(c)
    PROVE  LogInv'
<1> DEFINE r == h[c]
<1>1. /\ r.at = "log" /\ disk' = disk /\ h' = [h EXCEPT ![c] = Idle]
      /\ queues' = QueuesBefore(r)
      /\ in_flight' = (IF r.op = "nack" THEN FlightBefore(r) ELSE in_flight)
      /\ nextMsg' = nextMsg /\ nextId' = nextId /\ AckedMessages' = AckedMessages /\ acked' = acked /\ delivered' = delivered /\ due' = due
  BY DEF LogFail, Compensate, WholeAppends, QueuesBefore, FlightBefore, history, AckedMessages
<1>2. r # Idle /\ r.op # "idle"
  BY <1>1 DEF Idle, TypeOK, HandlerOK
<1>3. ASSUME disk.tail # "corrupt" PROVE Sure' /\ Same(disk.state, queues, in_flight)'
  <2>1. Sure /\ ToLog(disk.state, r)
    BY <1>1, <1>2, <1>3 DEF LogInv, Mirror
  <2>2. Sure'
    BY <1>1, <2>1 DEF Sure, Settled, Below, IdsKnown
  <2> HIDE DEF r
  <2>3. Same(disk.state, QueuesBefore(r), FlightBefore(r))
    BY <2>1 DEF ToLog
  <2>4. CASE r.op = "ack"
    <3>1. \A t \in DOMAIN in_flight : t \in DOMAIN FlightBefore(r) /\ FlightBefore(r)[t] = in_flight[t]
      BY <2>1, <2>4 DEF ToLog, FlightBefore, Insert
    <3> QED BY <1>1, <2>2, <2>3, <2>4, <3>1 DEF Same
  <2>5. CASE r.op # "ack"
    <3>1. in_flight' = FlightBefore(r)
      BY <1>1, <2>5 DEF FlightBefore
    <3> QED BY <1>1, <2>2, <2>3, <3>1 DEF Same
  <2> QED BY <2>4, <2>5
<1> QED BY <1>1, <1>2, <1>3, LogInvEnd

\* The last stage brings memory to where the log is.
LEMMA LogInvFinish ==
    ASSUME TypeOK, TypeOK', OneAtATime, LogInv, NEW c \in Actors, NEW op \in Ops, End(c, op),
           queues' = QueuesAfter(h[c]), in_flight' = FlightAfter(h[c]), disk' = disk,
           Sure /\ Logged(disk.state, h[c]) => Sure'
    PROVE  LogInv'
<1>1. h[c].op # "idle" /\ h[c].at = "apply" /\ h[c] # Idle /\ h' = [h EXCEPT ![c] = Idle]
  BY DEF End, Ops, Idle
<1>2. ASSUME disk.tail # "corrupt" PROVE Sure' /\ Same(disk.state, queues, in_flight)'
  <2>1. Sure /\ Logged(disk.state, h[c])
    BY <1>1, <1>2 DEF LogInv, Mirror
  <2> QED BY <2>1 DEF Logged, Same
<1> QED BY <1>1, <1>2, LogInvEnd

\* The later stages of a request.
LEMMA LogInvProceed ==
    ASSUME TypeOK, TypeOK', OneAtATime, OneAtATime', LogInv, WholeAppends, NEW c \in Actors, Proceed(c)
    PROVE  LogInv'
<1> DEFINE r == h[c]
<1>0. TypeOK /\ r \in Handler /\ HandlerOK(r, DOMAIN delivered)
  BY DEF TypeOK
<1>1. CASE Log(c)
  BY <1>1, LogInvLog DEF WholeAppends
<1>2. CASE LogFail(c)
  BY <1>2, LogInvLogFail
<1>3. CASE FinishCreate(c)
  <2>1. End(c, "create_queue") /\ "create_queue" \in Ops /\ disk' = disk
    BY <1>3 DEF FinishCreate, Ops
  <2>2. queues' = QueuesAfter(r) /\ in_flight' = FlightAfter(r)
    BY <1>3 DEF FinishCreate, End, QueuesAfter, FlightAfter
  <2>3. Sure => Sure'
    BY <1>3 DEF FinishCreate, history, Sure, Settled, Below, IdsKnown, AckedMessages
  <2> QED BY <2>1, <2>2, <2>3, LogInvFinish
<1>4. CASE FinishQueue(c)
  <2>1. End(c, "queue") /\ "queue" \in Ops /\ disk' = disk
    BY <1>4 DEF FinishQueue, Ops
  <2>2. queues' = QueuesAfter(r) /\ in_flight' = FlightAfter(r)
    BY <1>4 DEF FinishQueue, End, QueuesAfter, FlightAfter
  <2>3. Sure /\ Logged(disk.state, r) => Sure'
    BY <1>4 DEF FinishQueue, End, Sure, Settled, Below, IdsKnown, Logged, AckedMessages
  <2> QED BY <2>1, <2>2, <2>3, LogInvFinish
<1>5. CASE FinishDequeue(c)
  <2>1. End(c, "dequeue") /\ "dequeue" \in Ops /\ disk' = disk
    BY <1>5 DEF FinishDequeue, Ops
  <2>2. queues' = QueuesAfter(r) /\ in_flight' = FlightAfter(r) /\ in_flight' = Deliver(in_flight, r.q, r.items, r.ids)
    BY <1>5 DEF FinishDequeue, End, QueuesAfter, FlightAfter
  <2>3. ASSUME Sure, Logged(disk.state, r) PROVE Sure'
    <3>1. \A t \in Elements(r.ids) : t < nextId /\ disk.state.in_flight[t].msg = r.items[Position(r.ids, t)].msg
      <4>1. \A t \in Elements(r.ids) : t \in DOMAIN in_flight' /\ in_flight'[t].msg = r.items[Position(r.ids, t)].msg
        BY <2>2 DEF Deliver
      <4>2. \A t \in DOMAIN in_flight' : disk.state.in_flight[t] = in_flight'[t]
        BY <2>2, <2>3 DEF Logged, Same
      <4>3. \A t \in Elements(r.ids) : t < nextId
        BY <2>1, <2>3 DEF Logged, End
      <4> QED BY <4>1, <4>2, <4>3
    <3>2. /\ DOMAIN delivered' = DOMAIN delivered \cup Elements(r.ids)
          /\ \A t \in Elements(r.ids) : delivered'[t].msg = r.items[Position(r.ids, t)].msg
          /\ \A t \in DOMAIN delivered : t \notin Elements(r.ids) => delivered'[t] = delivered[t]
      BY <1>5 DEF FinishDequeue
    <3>3. disk' = disk /\ nextMsg' = nextMsg /\ nextId' = nextId /\ due' = due /\ AckedMessages' = AckedMessages
      <4>1. \A t \in acked : t \in DOMAIN delivered /\ t \notin Elements(r.ids)
        BY <2>1, <2>3 DEF TypeOK, Logged, End
      <4>2. acked' = acked
        BY <1>5 DEF FinishDequeue
      <4>3. \A t \in acked : delivered'[t] = delivered[t]
        BY <3>2, <4>1
      <4>4. AckedMessages' = AckedMessages
        BY <4>2, <4>3 DEF AckedMessages
      <4> QED BY <1>5, <4>4 DEF FinishDequeue
    <3> HIDE DEF r
    <3>4. \A t \in DOMAIN disk.state.in_flight \cap DOMAIN delivered' : disk.state.in_flight[t].msg = delivered'[t].msg
      BY <2>3, <3>1, <3>2 DEF Sure, Settled
    <3>5. IdsKnown'
      BY <2>3, <3>1, <3>2, <3>3 DEF Sure, IdsKnown
    <3> QED BY <2>3, <3>3, <3>4, <3>5 DEF Sure, Settled, Below
  <2> QED BY <2>1, <2>2, <2>3, LogInvFinish
<1>6. CASE FinishAck(c)
  <2>1. End(c, "ack") /\ "ack" \in Ops /\ disk' = disk
    BY <1>6 DEF FinishAck, Ops
  <2>2. queues' = QueuesAfter(r) /\ in_flight' = FlightAfter(r)
    BY <1>6 DEF FinishAck, End, QueuesAfter, FlightAfter, mem
  <2>3. Sure /\ Logged(disk.state, r) => Sure'
    <3>1. AckedMessages' = AckedMessages \cup ReceivedAs(r.ids)
      BY <1>6 DEF FinishAck, AckedMessages, ReceivedAs
    <3> QED BY <1>6, <3>1 DEF FinishAck, End, Sure, Settled, Below, IdsKnown, Logged, Gone
  <2> QED BY <2>1, <2>2, <2>3, LogInvFinish
<1>7. CASE FinishNack(c)
  <2>1. End(c, "nack") /\ "nack" \in Ops /\ disk' = disk
    BY <1>7 DEF FinishNack, Ops
  <2>2. queues' = QueuesAfter(r) /\ in_flight' = FlightAfter(r)
    BY <1>7 DEF FinishNack, End, QueuesAfter, FlightAfter
  <2>3. Sure => Sure'
    BY <1>7 DEF FinishNack, history, Sure, Settled, Below, IdsKnown, AckedMessages
  <2> QED BY <2>1, <2>2, <2>3, LogInvFinish
<1>8. CASE FinishExtend(c)
  <2>1. End(c, "extend") /\ "extend" \in Ops /\ disk' = disk
    BY <1>8 DEF FinishExtend, Ops
  <2>2. queues' = QueuesAfter(r) /\ in_flight' = FlightAfter(r)
    BY <1>8 DEF FinishExtend, End, QueuesAfter, FlightAfter, mem
  <2>3. Sure => Sure'
    BY <1>8 DEF FinishExtend, history, Sure, Settled, Below, IdsKnown, AckedMessages
  <2> QED BY <2>1, <2>2, <2>3, LogInvFinish
<1>9. CASE FinishAckBatch(c)
  <2>1. End(c, "ack_batch") /\ "ack_batch" \in Ops /\ disk' = disk
    BY <1>9 DEF FinishAckBatch, Ops
  <2>2. queues' = QueuesAfter(r) /\ in_flight' = FlightAfter(r)
    BY <1>9 DEF FinishAckBatch, End, QueuesAfter, FlightAfter
  <2>3. Sure /\ Logged(disk.state, r) => Sure'
    <3>1. AckedMessages' = AckedMessages \cup ReceivedAs(r.ids)
      BY <1>9 DEF FinishAckBatch, AckedMessages, ReceivedAs
    <3> QED BY <1>9, <3>1 DEF FinishAckBatch, End, Sure, Settled, Below, IdsKnown, Logged, Gone
  <2> QED BY <2>1, <2>2, <2>3, LogInvFinish
<1> QED BY <1>1, <1>2, <1>3, <1>4, <1>5, <1>6, <1>7, <1>8, <1>9 DEF Proceed

\* What an append that is cut short leaves, when every line of it parses.
LEMMA TornCases ==
    ASSUME NEW file, IsWalFile(file), NEW e, NEW g \in TornAppends(file, e), g.tail # "corrupt"
    PROVE  g = file \/ (file.tail = "clean" /\ g.state = ReplayOp(file.state, e))
<1> DEFINE a == WalAppend(file, e)
           t == IF a.tail = "clean" THEN "open" ELSE a.tail
<1>1. file = [state |-> file.state, tail |-> file.tail]
  BY DEF IsWalFile
<1>2. a.tail # "corrupt" => file.tail = "clean" /\ a.state = ReplayOp(file.state, e)
  BY <1>1 DEF WalAppend
<1>3. a = [state |-> a.state, tail |-> a.tail]
  BY <1>1 DEF WalAppend
<1>4. g \in {file, a, [file EXCEPT !.tail = "corrupt"], [a EXCEPT !.tail = t]}
  BY DEF TornAppends
<1> HIDE DEF a
<1>5. [file EXCEPT !.tail = "corrupt"].tail = "corrupt"
  BY <1>1
<1>6. /\ [a EXCEPT !.tail = t].state = a.state
      /\ [a EXCEPT !.tail = t].tail # "corrupt" => a.tail # "corrupt"
  <2>1. [a EXCEPT !.tail = t] = [state |-> a.state, tail |-> t]
    BY <1>3
  <2> QED BY <2>1
<1> QED BY <1>2, <1>4, <1>5, <1>6

\* The process ends and starts again.
LEMMA LogInvRestart ==
    ASSUME TypeOK, TypeOK', LogInv, Restart
    PROVE  LogInv'
<1> SUFFICES ASSUME disk'.tail # "corrupt" PROVE Sure' /\ Mirror(disk.state)'
  BY DEF LogInv
<1>1. /\ queues' = Recover(disk').queues /\ in_flight' = Recover(disk').in_flight
      /\ h' = [c \in Actors |-> Idle] /\ due' = (IF disk' = disk THEN due ELSE due \ Unanswered)
      /\ nextMsg' = nextMsg /\ nextId' = nextId /\ AckedMessages' = AckedMessages /\ delivered' = delivered
  BY DEF Restart, AckedMessages
<1>2. Same(disk.state, queues, in_flight)'
  BY <1>1 DEF Recover, Same
<1>3. Mirror(disk.state)'
  <2>1. \A d \in Actors : h'[d] = Idle
    BY <1>1
  <2> QED BY <1>2, <2>1, MirrorNone
<1>4. CASE disk' = disk
  BY <1>1, <1>3, <1>4 DEF LogInv, Sure, Settled, Below, IdsKnown
<1>5. CASE disk' # disk
  <2>1. PICK c \in Actors : h[c].at = "log" /\ disk' \in TornAppends(disk, Entry(h[c]))
    BY <1>5 DEF Restart
  <2> DEFINE r  == h[c]
             nt == ReplayOp(disk.state, Entry(r))
  <2>2. disk.tail = "clean" /\ disk'.state = nt
    <3>1. IsWalFile(disk)
      BY DEF TypeOK
    <3> QED BY <1>5, <2>1, <3>1, TornCases
  <2>3. r # Idle /\ r.op # "idle"
    BY <2>1 DEF Idle, TypeOK, HandlerOK
  <2>4. Sure /\ ToLog(disk.state, r)
    BY <2>1, <2>2, <2>3 DEF LogInv, Mirror
  <2>5. Settled(nt, DueAfter(r))
    <3> HIDE DEF nt
    <3>1. Settled(disk.state, due)
      BY <2>4 DEF Sure
    <3>2. nt = ReplayOp(disk.state, Entry(r))
      BY DEF nt
    <3> QED BY <2>3, <2>4, <3>1, <3>2, LogSettled
  <2>6. due' \subseteq DueAfter(r)
    BY <1>1, <1>5 DEF DueAfter, Unanswered
  <2> HIDE DEF nt
  <2>7. Sure'
    BY <1>1, <2>2, <2>4, <2>5, <2>6 DEF Sure, Settled, Below, IdsKnown
  <2> QED BY <1>3, <2>7
<1> QED BY <1>4, <1>5

\* Steps that change none of this.
LEMMA LogInvKeep ==
    ASSUME LogInv, UNCHANGED <<mem, disk, h, nextMsg, nextId, history>>
    PROVE  LogInv'
<1>1. /\ queues' = queues /\ in_flight' = in_flight /\ disk' = disk /\ h' = h
      /\ nextMsg' = nextMsg /\ nextId' = nextId /\ AckedMessages' = AckedMessages /\ acked' = acked /\ delivered' = delivered /\ due' = due
  BY DEF mem, history, AckedMessages
<1>2. Sure => Sure'
  BY <1>1 DEF Sure, Settled, Below, IdsKnown
<1>3. ASSUME NEW c \in Actors
      PROVE  /\ ToLog(disk.state, h[c]) => ToLog(disk.state, h[c])'
             /\ Logged(disk.state, h[c]) => Logged(disk.state, h[c])'
  <2>1. ToLog(disk.state, h[c]) => ToLog(disk.state, h[c])'
    BY <1>1 DEF ToLog, Same, QueuesBefore, FlightBefore, Below
  <2>2. Logged(disk.state, h[c]) => Logged(disk.state, h[c])'
    BY <1>1 DEF Logged, Same, QueuesAfter, FlightAfter, Gone, Below, ReceivedAs
  <2> QED BY <2>1, <2>2
<1>4. Mirror(disk.state) => Mirror(disk.state)'
  BY <1>1, <1>3 DEF Mirror, Same
<1> QED BY <1>1, <1>2, <1>4 DEF LogInv

\* The requests of clients.
LEMMA LogInvRequest ==
    ASSUME TypeOK, TypeOK', OneAtATime', LogInv, WholeAppends, NEW c \in Clients, Request(c)
    PROVE  LogInv'
<1>0. c \in Actors
  BY DEF Actors
<1>1. ASSUME NEW q \in CreateNames, CreateQueue(c, q) PROVE LogInv'
  BY <1>0, <1>1, LogInvBegin DEF CreateQueue
<1>2. ASSUME NEW q \in ReqNames, NEW n \in 1..MaxBatch, Queue(c, q, n) PROVE LogInv'
  <2>1. n \in Nat
    OBVIOUS
  <2> QED BY <1>0, <1>2, <2>1, LogInvQueue
<1>3. ASSUME NEW q \in ReqNames, NEW n \in 1..MaxBatch, Dequeue(c, q, n) PROVE LogInv'
  <2>1. n \in Nat
    OBVIOUS
  <2> QED BY <1>0, <1>3, <2>1, LogInvDequeue
<1>4. ASSUME NEW t \in KnownIds, Ack(c, t) PROVE LogInv'
  BY <1>0, <1>4, LogInvTakeTask DEF Ack
<1>5. ASSUME NEW t \in KnownIds, Nack(c, t) PROVE LogInv'
  BY <1>0, <1>5, LogInvTakeTask DEF Nack
<1>6. ASSUME NEW t \in KnownIds, ExtendVisibility(c, t) PROVE LogInv'
  BY <1>0, <1>6, LogInvBegin DEF ExtendVisibility
<1>7. ASSUME NEW ids \in IdLists, AckBatch(c, ids) PROVE LogInv'
  <2>1. Elements(ids) \subseteq DOMAIN in_flight
    BY <1>7 DEF AckBatch
  <2> QED BY <1>0, <1>7, <2>1, LogInvBegin DEF AckBatch
<1>8. ~Disconnect(c)
  BY DEF Disconnect, WholeAppends
<1> QED BY <1>1, <1>2, <1>3, <1>4, <1>5, <1>6, <1>7, <1>8 DEF Request

\* The cleanup loop.
LEMMA LogInvCleanup ==
    ASSUME TypeOK, TypeOK', OneAtATime', LogInv, NEW c \in Sweepers, Cleanup(c)
    PROVE  LogInv'
<1>0. c \in Actors
  BY DEF Actors
<1>1. ASSUME NEW S \in SUBSET DOMAIN in_flight, Scan(c, S) PROVE LogInv'
  BY <1>1, LogInvKeep DEF Scan
<1>2. ASSUME NEW t \in todo[c], CleanupNack(c, t) PROVE LogInv'
  <2>1. CASE TakeTask(c, "nack", t) /\ UNCHANGED due
    BY <1>0, <2>1, LogInvTakeTask
  <2>2. CASE UNCHANGED <<mem, disk, h, nextMsg, nextId, crashes, history>>
    BY <2>2, LogInvKeep
  <2> QED BY <1>2, <2>1, <2>2 DEF CleanupNack
<1> QED BY <1>1, <1>2 DEF Cleanup

\* An empty log.
LEMMA LogInvInit == Init => LogInv
<1> SUFFICES ASSUME Init PROVE LogInv
  OBVIOUS
<1> DEFINE st == disk.state
<1>1. st = Empty /\ queues = st.queues /\ in_flight = st.in_flight
  BY DEF Init, NoWal
<1>2. DOMAIN st.queues = {} /\ DOMAIN st.in_flight = {} /\ IsState(st)
  BY <1>1 DEF Empty, IsState, IsQueueMap, IsFlightMap, IsMap
<1>3. Live(st) = {}
  BY <1>2 DEF Live, Pending, Flying
<1>4. Sound(st, nextId) /\ Once(st)
  BY <1>2 DEF Sound, Once, DistinctFlight
<1>5. AckedMessages = {} /\ due = {} /\ DOMAIN delivered = {}
  BY DEF Init, AckedMessages
<1> HIDE DEF st
<1>6. Settled(st, due) /\ Below(AckedMessages) /\ IdsKnown
  BY <1>2, <1>3, <1>4, <1>5 DEF Settled, Below, IdsKnown
<1>7. \A c \in Actors : h[c] = Idle
  BY DEF Init
<1>8. Mirror(st)
  BY <1>1, <1>7 DEF Mirror, Same
<1> QED BY <1>6, <1>8 DEF LogInv, Sure, st

\* Every step keeps the invariant.
LEMMA LogInvNext ==
    ASSUME TypeOK, TypeOK', OneAtATime, OneAtATime', WholeAppends, LogInv, [Next]_vars
    PROVE  LogInv'
<1>1. CASE Next
  <2>1. ASSUME NEW c \in Clients, Request(c) PROVE LogInv'
    BY <2>1, LogInvRequest
  <2>2. ASSUME NEW c \in Sweepers, Cleanup(c) PROVE LogInv'
    BY <2>2, LogInvCleanup
  <2>3. ASSUME NEW c \in Actors, Proceed(c) PROVE LogInv'
    BY <2>3, LogInvProceed
  <2>4. CASE Restart
    BY <2>4, LogInvRestart
  <2> QED BY <1>1, <2>1, <2>2, <2>3, <2>4 DEF Next
<1>2. CASE UNCHANGED vars
  BY <1>2, LogInvKeep DEF vars
<1> QED BY <1>1, <1>2

\* It holds always.
LEMMA LogInvAlways == WholeAppends => (Spec /\ []OneAtATime => []LogInv)
<1> SUFFICES ASSUME WholeAppends PROVE Spec /\ []OneAtATime => []LogInv
  OBVIOUS
<1>1. Init => LogInv
  BY LogInvInit
<1>2. TypeOK /\ TypeOK' /\ OneAtATime /\ OneAtATime' /\ LogInv /\ [Next]_vars => LogInv'
  BY LogInvNext
<1>3. Spec => []TypeOK
  BY TypeCorrect
<1> QED BY <1>1, <1>2, <1>3, PTL DEF Spec

\* Recovery is exact: between requests the replay of the log gives the queues as
\* they are in memory, item by item and in order, and every task in flight under
\* its id and with its attempts, after any appends that failed and any number
\* of crashes, also in the middle of an append, as long as every line parses.
THEOREM RecoversExactly == WholeAppends => (Spec /\ []OneAtATime => []RecoveryExact)
<1> SUFFICES ASSUME WholeAppends PROVE Spec /\ []OneAtATime => []RecoveryExact
  OBVIOUS
<1>1. LogInv => RecoveryExact
  BY DEF LogInv, Mirror, Same, RecoveryExact, Recover
<1>2. Spec /\ []OneAtATime => []LogInv
  BY LogInvAlways
<1> QED BY <1>1, <1>2, PTL

\* A crash at any moment loses no message whose enqueue was answered Ok and
\* that no ack has removed, as long as every line of the log parses.
THEOREM AcceptedSurvives == WholeAppends => (Spec /\ []OneAtATime => []DurableLive)
<1> SUFFICES ASSUME WholeAppends PROVE Spec /\ []OneAtATime => []DurableLive
  OBVIOUS
<1>1. LogInv => DurableLive
  BY DEF LogInv, Sure, Settled, DurableLive, Recover
<1>2. Spec /\ []OneAtATime => []LogInv
  BY LogInvAlways
<1> QED BY <1>1, <1>2, PTL

\* A crash at any moment brings back no message that was received under an id
\* whose ack or ack_batch was answered Ok.
THEOREM AckedNeverReturns == WholeAppends => (Spec /\ []OneAtATime => []DurableAck)
<1> SUFFICES ASSUME WholeAppends PROVE Spec /\ []OneAtATime => []DurableAck
  OBVIOUS
<1>1. LogInv => DurableAck
  <2>1. Live(Empty) = {}
    BY DEF Live, Empty, Pending, Flying
  <2> QED BY <2>1 DEF LogInv, Sure, Settled, DurableAck, Recover
<1>2. Spec /\ []OneAtATime => []LogInv
  BY LogInvAlways
<1> QED BY <1>1, <1>2, PTL
=============================================================================
