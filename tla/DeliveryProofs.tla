--------------------------- MODULE DeliveryProofs ---------------------------
(***************************************************************************)
(* Where messages are and how often they were delivered: the proofs that   *)
(* the concurrent storage never has a message in two places, never brings  *)
(* an acknowledged one back, counts every delivery, and hands a message    *)
(* out MaxAttempts times at most before it goes to a dead letter queue,    *)
(* for any number of clients, sweepers, queues and messages, whatever      *)
(* appends fail and whoever disconnects, while the process does not end.   *)
(* Then that its operations take effect one after the other, as those of   *)
(* TaskService do.                                                         *)
(***************************************************************************)
EXTENDS NoLossProofs, StorageRefinement, FiniteSetTheorems

USE MemoryStorageAssumption
-----------------------------------------------------------------------------
(***************************************************************************)
(* The inductive invariant.  A message is kept in a box: a queue, the map  *)
(* of tasks in flight, or the hands of a request.                          *)
(***************************************************************************)
Box == ({"queue"} \X Name) \cup {<<"flight", 0>>} \cup ({"held"} \X Actors)

Waiting(f, q) == IF q \in DOMAIN f THEN Messages(f[q]) ELSE {}

Inside(b) ==
    CASE b[1] = "queue"  -> Waiting(queues, b[2])
      [] b[1] = "flight" -> Flying(in_flight)
      [] b[1] = "held"   -> Messages(h[b[2]].items)

\* No box holds a message twice.
NoTwins ==
    /\ \A q \in DOMAIN queues : Distinct(queues[q])
    /\ DistinctFlight(in_flight)
    /\ \A c \in Actors : Distinct(h[c].items)

\* No message is in two boxes.
Apart == \A a, b \in Box : a # b => Inside(a) \cap Inside(b) = {}

\* No message appears before it is sent.
Numbered ==
    /\ \A b \in Box : \A m \in Inside(b) : m < nextMsg
    /\ \A m \in removed : m < nextMsg

\* An acknowledged message is in no box.
RemovedOut == \A b \in Box : Inside(b) \cap removed = {}

CopyInv == NoTwins /\ Apart /\ Numbered /\ RemovedOut
-----------------------------------------------------------------------------
\* What the boxes hold, after a step that changes the request of c to r and at
\* most the queue q.
LEMMA BoxesAfter ==
    ASSUME TypeOK, NEW c \in Actors, NEW r, h' = [h EXCEPT ![c] = r], NEW q,
           \A x : x # q => Waiting(queues', x) = Waiting(queues, x)
    PROVE  /\ Inside(<<"queue", q>>)' = Waiting(queues', q)
           /\ Inside(<<"flight", 0>>)' = Flying(in_flight')
           /\ Inside(<<"held", c>>)' = Messages(r.items)
           /\ \A b \in Box : b \notin {<<"queue", q>>, <<"flight", 0>>, <<"held", c>>} =>
                 Inside(b)' = Inside(b)
<1>1. h'[c] = r /\ \A d \in Actors : d # c => h'[d] = h[d]
  BY DEF TypeOK
<1>2. \A x \in Name : x # q => Inside(<<"queue", x>>)' = Inside(<<"queue", x>>)
  BY DEF Inside
<1>3. \A d \in Actors : d # c => Inside(<<"held", d>>)' = Inside(<<"held", d>>)
  BY <1>1 DEF Inside
<1>4. ASSUME NEW b \in Box, b \notin {<<"queue", q>>, <<"flight", 0>>, <<"held", c>>}
      PROVE  Inside(b)' = Inside(b)
  <2>1. CASE b \in {"queue"} \X Name
    BY <1>2, <1>4, <2>1
  <2>2. CASE b \in {"held"} \X Actors
    BY <1>3, <1>4, <2>2
  <2> QED BY <1>4, <2>1, <2>2 DEF Box
<1>5. Inside(<<"queue", q>>)' = Waiting(queues', q)
  BY DEF Inside
<1>6. Inside(<<"flight", 0>>)' = Flying(in_flight')
  BY DEF Inside
<1>7. Inside(<<"held", c>>)' = Messages(r.items)
  BY <1>1 DEF Inside
<1> QED BY <1>4, <1>5, <1>6, <1>7

\* A step moves messages between the queue q, the tasks in flight and the
\* request of c, which becomes r, lets some of them go, and takes new ones in.
BoxStep(c, r, q) ==
    LET old == Waiting(queues, q) \cup Flying(in_flight) \cup Messages(h[c].items)
        new == Waiting(queues', q) \cup Flying(in_flight') \cup Messages(r.items)
    IN  /\ h' = [h EXCEPT ![c] = r]
        /\ \A x : x # q => Waiting(queues', x) = Waiting(queues, x)
        /\ \A x \in DOMAIN queues' : Distinct(queues'[x])
        /\ DistinctFlight(in_flight') /\ Distinct(r.items)
        /\ nextMsg' \in Nat /\ nextMsg <= nextMsg'
        /\ new \subseteq old \cup {m \in Nat : nextMsg <= m /\ m < nextMsg'}
        /\ Waiting(queues', q) \cap Flying(in_flight') = {}
        /\ Waiting(queues', q) \cap Messages(r.items) = {}
        /\ Flying(in_flight') \cap Messages(r.items) = {}
        /\ removed \subseteq removed' /\ removed' \ removed \subseteq old
        /\ (removed' \ removed) \cap new = {}

\* Such a step keeps the invariant.
LEMMA CopyStep ==
    ASSUME TypeOK, CopyInv, NEW c \in Actors, NEW r, NEW q, BoxStep(c, r, q)
    PROVE  CopyInv'
<1> DEFINE B  == {<<"queue", q>>, <<"flight", 0>>, <<"held", c>>}
           Old == Waiting(queues, q) \cup Flying(in_flight) \cup Messages(h[c].items)
           New == {m \in Nat : nextMsg <= m /\ m < nextMsg'}
<1>0. /\ h' = [h EXCEPT ![c] = r]
      /\ \A x : x # q => Waiting(queues', x) = Waiting(queues, x)
      /\ \A x \in DOMAIN queues' : Distinct(queues'[x])
      /\ DistinctFlight(in_flight') /\ Distinct(r.items)
      /\ nextMsg' \in Nat /\ nextMsg <= nextMsg'
      /\ Waiting(queues', q) \cup Flying(in_flight') \cup Messages(r.items) \subseteq Old \cup New
      /\ Waiting(queues', q) \cap Flying(in_flight') = {}
      /\ Waiting(queues', q) \cap Messages(r.items) = {}
      /\ Flying(in_flight') \cap Messages(r.items) = {}
      /\ removed \subseteq removed' /\ removed' \ removed \subseteq Old
      /\ (removed' \ removed) \cap (Waiting(queues', q) \cup Flying(in_flight') \cup Messages(r.items)) = {}
  BY DEF BoxStep
<1>1. /\ Inside(<<"queue", q>>)' = Waiting(queues', q)
      /\ Inside(<<"flight", 0>>)' = Flying(in_flight')
      /\ Inside(<<"held", c>>)' = Messages(r.items)
      /\ \A b \in Box : b \notin B => Inside(b)' = Inside(b)
  BY <1>0, BoxesAfter
<1>2. /\ Inside(<<"queue", q>>) = Waiting(queues, q)
      /\ Inside(<<"flight", 0>>) = Flying(in_flight)
      /\ Inside(<<"held", c>>) = Messages(h[c].items)
  BY DEF Inside
<1>3. /\ <<"flight", 0>> \in Box /\ <<"held", c>> \in Box
      /\ <<"queue", q>> \in Box \/ Waiting(queues, q) = {}
  BY DEF Box, Waiting, TypeOK, IsQueueMap, IsMap
<1>4. NoTwins'
  BY <1>0 DEF CopyInv, NoTwins, TypeOK
<1>n. nextMsg \in Nat /\ removed \subseteq Nat /\ nextMsg' \in Nat /\ nextMsg <= nextMsg'
      /\ removed \subseteq removed'
  BY <1>0 DEF TypeOK
<1>5. \A m \in Old : m < nextMsg
  BY <1>2, <1>3 DEF CopyInv, Numbered
<1>6. \A b \in Box : b \notin B => Inside(b) \cap Old = {}
  BY <1>2, <1>3 DEF CopyInv, Apart
<1>7. \A b \in Box : b \notin B => Inside(b) \cap New = {}
  BY <1>n DEF CopyInv, Numbered
<1>8. \A b \in Box : b \in B => Inside(b)' \subseteq Old \cup New
  BY <1>0, <1>1
<1>10. \A a, b \in B : a # b => Inside(a)' \cap Inside(b)' = {}
  BY <1>0, <1>1
<1>11. \A b \in B : (removed' \ removed) \cap Inside(b)' = {}
  BY <1>0, <1>1
<1>o. \A m \in Old : m \in Nat
  <2>1. Messages(h[c].items) \subseteq Nat
    BY MessagesType DEF TypeOK, Handler
  <2>2. Flying(in_flight) \subseteq Nat
    BY DEF Flying, TypeOK, IsFlightMap, IsMap, Task
  <2>3. Waiting(queues, q) \subseteq Nat
    BY MessagesType DEF Waiting, TypeOK, IsQueueMap, IsMap
  <2> QED BY <2>1, <2>2, <2>3
<1>12. (removed' \ removed) \subseteq Old /\ Old \cap removed = {} /\ New \cap removed = {}
  <2>1. Old \cap removed = {}
    BY <1>2, <1>3 DEF CopyInv, RemovedOut
  <2>2. New \cap removed = {}
    BY <1>n DEF CopyInv, Numbered
  <2> QED BY <1>0, <2>1, <2>2
<1>b. \A b \in Box : \A m \in Inside(b) : b \notin B => m \in Nat
  <2>1. ASSUME NEW x \in Name PROVE Inside(<<"queue", x>>) \subseteq Nat
    BY MessagesType DEF Inside, Waiting, TypeOK, IsQueueMap, IsMap
  <2>2. ASSUME NEW d \in Actors PROVE Inside(<<"held", d>>) \subseteq Nat
    BY MessagesType DEF Inside, TypeOK, Handler
  <2> QED BY <2>1, <2>2 DEF Box
<1> HIDE DEF B, Old
<1>13. Apart'
  <2> SUFFICES ASSUME NEW a \in Box, NEW b \in Box, a # b
               PROVE  Inside(a)' \cap Inside(b)' = {}
    BY DEF Apart, Box
  <2>1. CASE a \in B /\ b \in B
    BY <1>10, <2>1
  <2>2. CASE a \in B /\ b \notin B
    BY <1>1, <1>6, <1>7, <1>8, <2>2
  <2>3. CASE a \notin B /\ b \in B
    BY <1>1, <1>6, <1>7, <1>8, <2>3
  <2>4. CASE a \notin B /\ b \notin B
    BY <1>1, <2>4 DEF CopyInv, Apart
  <2> QED BY <2>1, <2>2, <2>3, <2>4
<1>14. Numbered'
  <2>1. ASSUME NEW b \in Box, NEW m \in Inside(b)' PROVE m < nextMsg'
    <3>1. CASE b \in B
      BY <1>5, <1>8, <1>n, <1>o, <3>1
    <3>2. CASE b \notin B
      <4>1. m \in Inside(b) /\ m \in Nat
        BY <1>1, <1>b, <2>1, <3>2
      <4>2. m < nextMsg
        BY <4>1 DEF CopyInv, Numbered
      <4> QED BY <1>n, <4>1, <4>2
    <3> QED BY <3>1, <3>2
  <2>2. ASSUME NEW m \in removed' PROVE m < nextMsg'
    <3>1. m \in Nat /\ m < nextMsg
      BY <1>5, <1>12, <1>n, <1>o DEF CopyInv, Numbered
    <3> QED BY <1>n, <3>1
  <2> QED BY <2>1, <2>2 DEF Numbered, Box
<1>15. RemovedOut'
  <2> SUFFICES ASSUME NEW b \in Box PROVE Inside(b)' \cap removed' = {}
    BY DEF RemovedOut, Box
  <2>1. CASE b \in B
    BY <1>8, <1>11, <1>12, <2>1
  <2>2. CASE b \notin B
    <3>1. Inside(b)' = Inside(b) /\ Inside(b) \cap Old = {} /\ Inside(b) \cap removed = {}
      BY <1>1, <1>6, <2>2 DEF CopyInv, RemovedOut
    <3> QED BY <1>12, <3>1
  <2> QED BY <2>1, <2>2
<1> QED BY <1>4, <1>13, <1>14, <1>15 DEF CopyInv

\* What one box holds.
LEMMA CopyOne ==
    ASSUME TypeOK, CopyInv
    PROVE  /\ \A x \in DOMAIN queues : Distinct(queues[x]) /\ queues[x] \in Seq(Item)
           /\ DistinctFlight(in_flight) /\ nextMsg \in Nat
           /\ \A c \in Actors : /\ Distinct(h[c].items)
                                /\ h[c].items \in Seq(Item) /\ h[c].ids \in Seq(Nat)
BY DEF CopyInv, NoTwins, TypeOK, Handler, IsQueueMap, IsMap

\* What a request, a queue and the tasks in flight hold has nothing in common.
LEMMA CopyNow ==
    ASSUME TypeOK, CopyInv, NEW c \in Actors, NEW q
    PROVE  /\ Waiting(queues, q) \cap Flying(in_flight) = {}
           /\ Waiting(queues, q) \cap Messages(h[c].items) = {}
           /\ Flying(in_flight) \cap Messages(h[c].items) = {}
<1>1. /\ Inside(<<"queue", q>>) = Waiting(queues, q)
      /\ Inside(<<"flight", 0>>) = Flying(in_flight)
      /\ Inside(<<"held", c>>) = Messages(h[c].items)
  BY DEF Inside
<1>2. /\ <<"flight", 0>> \in Box /\ <<"held", c>> \in Box
      /\ <<"queue", q>> \in Box \/ Waiting(queues, q) = {}
  BY DEF Box, Waiting, TypeOK, IsQueueMap, IsMap
<1>3. /\ Waiting(queues, q) \cap Flying(in_flight) = {}
      /\ Waiting(queues, q) \cap Messages(h[c].items) = {}
      /\ Flying(in_flight) \cap Messages(h[c].items) = {}
  BY <1>1, <1>2 DEF CopyInv, Apart
<1> QED BY <1>3

-----------------------------------------------------------------------------
(***************************************************************************)
(* The actions.                                                            *)
(***************************************************************************)
\* A step that leaves the maps alone, and the request with what it held or
\* with nothing.
LEMMA CopyKeep ==
    ASSUME TypeOK, CopyInv, NEW c \in Actors, NEW r, h' = [h EXCEPT ![c] = r],
           r.items \in {<<>>, h[c].items}, UNCHANGED <<queues, in_flight, nextMsg, removed>>
    PROVE  CopyInv'
<1>1. Messages(<<>>) = {} /\ Distinct(<<>>)
  BY DEF Messages, Distinct
<1>2. Messages(r.items) \subseteq Messages(h[c].items) /\ Distinct(r.items)
  BY <1>1, CopyOne
<1>3. /\ Waiting(queues, NoName) \cap Flying(in_flight) = {}
      /\ Waiting(queues, NoName) \cap Messages(h[c].items) = {}
      /\ Flying(in_flight) \cap Messages(h[c].items) = {}
  BY CopyNow
<1>z. BoxStep(c, r, NoName)
  BY <1>2, <1>3, CopyOne DEF BoxStep
<1> QED BY <1>z, CopyStep

\* An enqueue takes in messages with new numbers.
LEMMA CopyQueue ==
    ASSUME TypeOK, CopyInv, NEW c \in Actors, NEW q, NEW n \in 1..MaxBatch, Queue(c, q, n)
    PROVE  CopyInv'
<1> DEFINE r == [op |-> "queue", at |-> "log", q |-> q, items |-> NewItems(n), ids |-> <<>>]
           New == Messages(NewItems(n))
<1>1. /\ h[c] = Idle /\ h' = [h EXCEPT ![c] = r] /\ nextMsg' = nextMsg + n
      /\ UNCHANGED <<queues, in_flight, removed>>
  BY DEF Queue, Begin, mem, history
<1>2. nextMsg \in Nat /\ n \in Nat /\ r.items = NewItems(n)
  BY DEF TypeOK
<1>3. DOMAIN NewItems(n) = 1..n /\ \A i \in 1..n : NewItems(n)[i].msg = nextMsg + i - 1
  BY DEF NewItems, Fresh
<1>4. Distinct(NewItems(n))
  BY <1>2, <1>3 DEF Distinct
<1>5. \A m \in New : m \in Nat /\ nextMsg <= m /\ m < nextMsg'
  BY <1>1, <1>2, <1>3 DEF Messages
<1>6. nextMsg' \in Nat /\ nextMsg <= nextMsg'
  BY <1>1, <1>2
<1>7. \A m \in Waiting(queues, q) \cup Flying(in_flight) : m < nextMsg /\ m \in Nat
  <2>1. Inside(<<"queue", q>>) = Waiting(queues, q) /\ Inside(<<"flight", 0>>) = Flying(in_flight)
    BY DEF Inside
  <2>2. <<"flight", 0>> \in Box /\ (<<"queue", q>> \in Box \/ Waiting(queues, q) = {})
    BY DEF Box, Waiting, TypeOK, IsQueueMap, IsMap
  <2>3. Flying(in_flight) \subseteq Nat
    BY DEF Flying, TypeOK, IsFlightMap, IsMap, Task
  <2>4. Waiting(queues, q) \subseteq Nat
    BY MessagesType DEF Waiting, TypeOK, IsQueueMap, IsMap
  <2> QED BY <2>1, <2>2, <2>3, <2>4 DEF CopyInv, Numbered
<1>8. Waiting(queues, q) \cap New = {} /\ Flying(in_flight) \cap New = {}
  BY <1>2, <1>5, <1>7
<1> HIDE DEF r
<1>9. Waiting(queues, q) \cap Flying(in_flight) = {}
  BY CopyNow
<1>10. New \subseteq {m \in Nat : nextMsg <= m /\ m < nextMsg'}
  BY <1>5
<1>11. Messages(r.items) = New /\ Distinct(r.items)
  BY <1>2, <1>4
<1> HIDE DEF New
<1>z. BoxStep(c, r, q)
  BY <1>1, <1>6, <1>8, <1>9, <1>10, <1>11, CopyOne DEF BoxStep
<1> QED BY <1>z, CopyStep

\* A dequeue holds what it pops.
LEMMA CopyDequeue ==
    ASSUME TypeOK, CopyInv, NEW c \in Actors, NEW q, NEW n \in 1..MaxBatch, Dequeue(c, q, n)
    PROVE  CopyInv'
<1> DEFINE items == FirstOf(queues[q], n)
           r == [op |-> "dequeue", at |-> "log", q |-> q,
                 items |-> items, ids |-> NewIds(Len(items))]
<1>1. /\ h[c] = Idle /\ h' = [h EXCEPT ![c] = r] /\ q \in DOMAIN queues
      /\ queues' = PopFront(queues, q, n) /\ UNCHANGED <<in_flight, nextMsg, removed>>
  BY DEF Dequeue, Begin, history
<1>2. queues[q] \in Seq(Item) /\ n \in Nat /\ Distinct(queues[q])
  BY <1>1, CopyOne
<1>3. /\ Messages(items) \cup Messages(RestOf(queues[q], n)) \subseteq Messages(queues[q])
      /\ Messages(items) \cap Messages(RestOf(queues[q], n)) = {}
      /\ Distinct(items) /\ Distinct(RestOf(queues[q], n))
  BY <1>2, SplitDistinct
<1>4. /\ DOMAIN queues' = DOMAIN queues /\ queues'[q] = RestOf(queues[q], n)
      /\ \A x \in DOMAIN queues : x # q => queues'[x] = queues[x]
  BY <1>1 DEF PopFront, TypeOK, IsQueueMap, IsMap
<1>5. r.items = items
  OBVIOUS
<1> HIDE DEF r, items
<1>6. /\ \A x : x # q => Waiting(queues', x) = Waiting(queues, x)
      /\ Waiting(queues, q) = Messages(queues[q])
      /\ Waiting(queues', q) = Messages(RestOf(queues[q], n))
      /\ \A x \in DOMAIN queues' : Distinct(queues'[x])
  BY <1>1, <1>3, <1>4, CopyOne DEF Waiting
<1>7. Waiting(queues, q) \cap Flying(in_flight) = {}
  BY CopyNow
<1>z. BoxStep(c, r, q)
  BY <1>1, <1>3, <1>5, <1>6, <1>7, CopyOne DEF BoxStep
<1> QED BY <1>z, CopyStep

\* An ack or a nack holds the task it takes.
LEMMA CopyTakeTask ==
    ASSUME TypeOK, CopyInv, NEW c \in Actors, NEW op, NEW t, TakeTask(c, op, t)
    PROVE  CopyInv'
<1> DEFINE task == in_flight[t]
           item == [msg |-> task.msg, attempts |-> task.attempts]
           r == [op |-> op, at |-> "log", q |-> task.queue, items |-> <<item>>, ids |-> <<t>>]
<1>1. /\ h[c] = Idle /\ h' = [h EXCEPT ![c] = r] /\ t \in DOMAIN in_flight
      /\ in_flight' = Without(in_flight, {t}) /\ UNCHANGED <<queues, nextMsg, removed>>
  BY DEF TakeTask, Begin
<1>2. Messages(<<item>>) = {task.msg} /\ Distinct(<<item>>) /\ r.items = <<item>>
  BY DEF Messages, Distinct
<1>3. DOMAIN in_flight' = DOMAIN in_flight \ {t}
      /\ \A x \in DOMAIN in_flight' : in_flight'[x] = in_flight[x]
  BY <1>1 DEF Without
<1> HIDE DEF r, item
<1>4. Flying(in_flight') \subseteq Flying(in_flight) /\ task.msg \in Flying(in_flight)
  BY <1>1, <1>3 DEF Flying
<1>6. DistinctFlight(in_flight)
  BY CopyOne
<1>7. task.msg \notin Flying(in_flight') /\ DistinctFlight(in_flight')
  BY <1>1, <1>3, <1>6 DEF Flying, DistinctFlight
<1>8. Messages(r.items) = {task.msg} /\ Distinct(r.items)
  BY <1>2
<1> HIDE DEF task
<1>5. Waiting(queues, NoName) \cap Flying(in_flight) = {}
  BY CopyNow
<1>9. /\ h' = [h EXCEPT ![c] = r] /\ UNCHANGED <<queues, nextMsg, removed>> /\ nextMsg \in Nat
      /\ \A x \in DOMAIN queues : Distinct(queues[x])
  BY <1>1, CopyOne
<1>10. Waiting(queues, NoName) \cap {task.msg} = {}
  BY <1>4, <1>5
<1>z. BoxStep(c, r, NoName)
  BY <1>4, <1>5, <1>7, <1>8, <1>9, <1>10 DEF BoxStep
<1> QED BY <1>z, CopyStep

\* Items go from a request to one end of a queue that exists.
LEMMA CopyPush ==
    ASSUME TypeOK, CopyInv, NEW c \in Actors, h' = [h EXCEPT ![c] = Idle],
           NEW q \in DOMAIN queues,
           \/ queues' = PushFront(queues, q, h[c].items)
           \/ queues' = PushBack(queues, q, h[c].items),
           UNCHANGED <<in_flight, nextMsg, removed>>
    PROVE  CopyInv'
<1> DEFINE s == queues[q]
           i == h[c].items
<1>0. /\ Waiting(queues, q) = Messages(s) /\ Waiting(queues, q) \cap Flying(in_flight) = {}
      /\ Waiting(queues, q) \cap Messages(i) = {} /\ Flying(in_flight) \cap Messages(i) = {}
  BY CopyNow DEF Waiting
<1>1. s \in Seq(Item) /\ i \in Seq(Item) /\ Distinct(s) /\ Distinct(i)
      /\ Messages(i) \cap Messages(s) = {} /\ Messages(s) \cap Messages(i) = {}
  BY <1>0, CopyOne
<1>2. /\ DOMAIN queues' = DOMAIN queues /\ queues'[q] \in {s \o i, i \o s}
      /\ \A x \in DOMAIN queues : x # q => queues'[x] = queues[x]
  BY DEF PushFront, PushBack, TypeOK, IsQueueMap, IsMap
<1> HIDE DEF s, i
<1>c. /\ Messages(s \o i) = Messages(s) \cup Messages(i) /\ Distinct(s \o i)
      /\ Messages(i \o s) = Messages(i) \cup Messages(s) /\ Distinct(i \o s)
  BY <1>1, ConcatDistinct
<1>3. Messages(queues'[q]) = Messages(s) \cup Messages(i) /\ Distinct(queues'[q])
  BY <1>2, <1>c
<1>4. Idle.items = <<>> /\ Messages(<<>>) = {} /\ Distinct(<<>>)
  BY DEF Idle, Messages, Distinct
<1>5. /\ \A x : x # q => Waiting(queues', x) = Waiting(queues, x)
      /\ Waiting(queues, q) = Messages(s)
      /\ Waiting(queues', q) = Messages(s) \cup Messages(i)
      /\ \A x \in DOMAIN queues' : Distinct(queues'[x])
  BY <1>0, <1>2, <1>3, CopyOne DEF Waiting
<1>6. Messages(h[c].items) = Messages(i)
  BY DEF i
<1>z. BoxStep(c, Idle, q)
  BY <1>0, <1>6, <1>4, <1>5, CopyOne DEF BoxStep
<1> QED BY <1>z, CopyStep

\* A failed append: a dequeue puts its items back, a nack its task, and any
\* other request ends.
LEMMA CopyLogFail ==
    ASSUME TypeOK, CopyInv, NEW c \in Actors, LogFail(c)
    PROVE  CopyInv'
<1> DEFINE r == h[c]
<1>1. h' = [h EXCEPT ![c] = Idle] /\ Compensate(r) /\ UNCHANGED <<nextMsg, removed>>
  BY DEF LogFail, history
<1>2. Idle.items = <<>> /\ Messages(<<>>) = {} /\ Distinct(<<>>)
  BY DEF Idle, Messages, Distinct
<1>3. CASE r.op = "dequeue" /\ r.q \in DOMAIN queues
  <2>1. queues' = PushFront(queues, r.q, r.items) /\ in_flight' = in_flight
    BY <1>1, <1>3 DEF Compensate
  <2> QED BY <1>1, <1>3, <2>1, CopyPush
<1>4. CASE r.op = "nack"
  <2> DEFINE t    == r.ids[1]
             task == [msg |-> r.items[1].msg, attempts |-> r.items[1].attempts, queue |-> r.q]
  <2>1. queues' = queues /\ in_flight' = Insert(in_flight, t, task)
    BY <1>1, <1>4 DEF Compensate
  <2>2. r.items \in Seq(Item) /\ Len(r.items) = 1
    BY <1>4 DEF TypeOK, Handler, HandlerOK
  <2>3. task.msg \in Messages(r.items)
    BY <2>2 DEF Messages
  <2> HIDE DEF task, t
  <2>4. \A x \in DOMAIN in_flight' :
          \/ x \in DOMAIN in_flight /\ in_flight'[x] = in_flight[x]
          \/ x = t /\ in_flight'[x] = task
    BY <2>1, InsertCases
  <2>5. /\ Waiting(queues, NoName) \cap Flying(in_flight) = {}
        /\ Waiting(queues, NoName) \cap Messages(r.items) = {}
        /\ Flying(in_flight) \cap Messages(r.items) = {}
    BY CopyNow
  <2>6. Flying(in_flight') \subseteq Flying(in_flight) \cup {task.msg}
    BY <2>4 DEF Flying
  <2>7. DistinctFlight(in_flight) /\ \A x \in DOMAIN in_flight : in_flight[x].msg # task.msg
    BY <2>3, <2>5, CopyOne DEF Flying
  <2>8. DistinctFlight(in_flight')
    BY <2>4, <2>7 DEF DistinctFlight
  <2>z. BoxStep(c, Idle, NoName)
    BY <1>1, <1>2, <2>1, <2>3, <2>5, <2>6, <2>8, CopyOne DEF BoxStep
  <2> QED BY <2>z, CopyStep
<1>5. CASE ~(r.op = "nack") /\ ~(r.op = "dequeue" /\ r.q \in DOMAIN queues)
  <2>1. queues' = queues /\ in_flight' = in_flight
    BY <1>1, <1>5 DEF Compensate, PushFront, TypeOK, IsQueueMap, IsMap
  <2> QED BY <1>1, <1>2, <2>1, CopyKeep
<1> QED BY <1>3, <1>4, <1>5

\* A create_queue may drop the messages of a queue of that name, and nothing
\* else.
LEMMA CopyFinishCreate ==
    ASSUME TypeOK, CopyInv, NEW c \in Actors, FinishCreate(c)
    PROVE  CopyInv'
<1> DEFINE q == h[c].q
<1>1. /\ h' = [h EXCEPT ![c] = Idle] /\ queues' = Insert(queues, q, <<>>)
      /\ UNCHANGED <<in_flight, nextMsg, removed>>
  BY DEF FinishCreate, End, history
<1>2. Idle.items = <<>> /\ Messages(<<>>) = {} /\ Distinct(<<>>)
  BY DEF Idle, Messages, Distinct
<1> HIDE DEF q
<1>3. /\ Waiting(queues', q) = {} /\ \A x : x # q => Waiting(queues', x) = Waiting(queues, x)
      /\ \A x \in DOMAIN queues' : Distinct(queues'[x])
  BY <1>1, <1>2, CopyOne DEF Insert, Waiting
<1>4. Flying(in_flight) \cap Messages(h[c].items) = {}
  BY CopyNow
<1>z. BoxStep(c, Idle, q)
  BY <1>1, <1>2, <1>3, <1>4, CopyOne DEF BoxStep
<1> QED BY <1>z, CopyStep

\* An enqueue puts its items into the queue, if that exists.
LEMMA CopyFinishQueue ==
    ASSUME TypeOK, CopyInv, NEW c \in Actors, FinishQueue(c)
    PROVE  CopyInv'
<1>1. /\ h' = [h EXCEPT ![c] = Idle] /\ UNCHANGED <<in_flight, nextMsg, removed>>
      /\ queues' = Enqueue(queues, h[c].q, h[c].items)
  BY DEF FinishQueue, End
<1>2. Idle.items = <<>>
  BY DEF Idle
<1>3. CASE h[c].q \in DOMAIN queues
  BY <1>1, <1>3, CopyPush DEF Enqueue
<1>4. CASE h[c].q \notin DOMAIN queues
  BY <1>1, <1>2, <1>4, CopyKeep DEF Enqueue
<1> QED BY <1>3, <1>4

\* A dequeue puts its items in flight.
LEMMA CopyFinishDequeue ==
    ASSUME TypeOK, CopyInv, NEW c \in Actors, FinishDequeue(c)
    PROVE  CopyInv'
<1> DEFINE r == h[c]
<1>1. /\ h' = [h EXCEPT ![c] = Idle] /\ r.op = "dequeue" /\ UNCHANGED <<queues, nextMsg, removed>>
      /\ in_flight' = Deliver(in_flight, r.q, r.items, r.ids)
  BY DEF FinishDequeue, End
<1>2. Idle.items = <<>> /\ Messages(<<>>) = {} /\ Distinct(<<>>)
  BY DEF Idle, Messages, Distinct
<1>3. r.items \in Seq(Item) /\ r.ids \in Seq(Nat) /\ Len(r.items) = Len(r.ids)
  BY <1>1 DEF TypeOK, Handler, HandlerOK
<1>4. /\ Waiting(queues, NoName) \cap Flying(in_flight) = {}
      /\ Waiting(queues, NoName) \cap Messages(r.items) = {}
      /\ Flying(in_flight) \cap Messages(r.items) = {}
  BY CopyNow
<1>5. /\ Flying(in_flight') \subseteq Flying(in_flight) \cup Messages(r.items)
      /\ DistinctFlight(in_flight')
  BY <1>1, <1>3, <1>4, CopyOne, DeliverDistinct
<1>z. BoxStep(c, Idle, NoName)
  BY <1>1, <1>2, <1>4, <1>5, CopyOne DEF BoxStep
<1> QED BY <1>z, CopyStep

\* The message of an ack was nowhere but in its hands.
LEMMA CopyFinishAck ==
    ASSUME TypeOK, CopyInv, NEW c \in Actors, FinishAck(c)
    PROVE  CopyInv'
<1>1. /\ h' = [h EXCEPT ![c] = Idle] /\ removed' = removed \cup Messages(h[c].items)
      /\ UNCHANGED <<queues, in_flight, nextMsg>>
  BY DEF FinishAck, End, mem
<1>2. Idle.items = <<>> /\ Messages(<<>>) = {} /\ Distinct(<<>>)
  BY DEF Idle, Messages, Distinct
<1>3. /\ Waiting(queues, NoName) \cap Flying(in_flight) = {}
      /\ Waiting(queues, NoName) \cap Messages(h[c].items) = {}
      /\ Flying(in_flight) \cap Messages(h[c].items) = {}
  BY CopyNow
<1>z. BoxStep(c, Idle, NoName)
  BY <1>1, <1>2, <1>3, CopyOne DEF BoxStep
<1> QED BY <1>z, CopyStep

\* A nack puts its item into the queue or the DLQ, or drops it.
LEMMA CopyFinishNack ==
    ASSUME TypeOK, CopyInv, NEW c \in Actors, FinishNack(c)
    PROVE  CopyInv'
<1> DEFINE r    == h[c]
           item == r.items[1]
           d    == Dlq(r.q)
           old  == IF d \in DOMAIN queues THEN queues[d] ELSE <<>>
<1>1. /\ h' = [h EXCEPT ![c] = Idle] /\ r.op = "nack" /\ UNCHANGED <<in_flight, nextMsg, removed>>
      /\ queues' = Requeue(queues, r.q, item)
  BY DEF FinishNack, End, history
<1>2. Idle.items = <<>> /\ Messages(<<>>) = {} /\ Distinct(<<>>)
  BY DEF Idle, Messages, Distinct
<1>3. r.items \in Seq(Item) /\ Len(r.items) = 1
  BY <1>1 DEF TypeOK, Handler, HandlerOK
<1>4. item \in Item /\ r.items = <<item>>
  BY <1>3
<1>5. CASE item.attempts >= MaxAttempts
  <2>1. queues' = Insert(queues, d, Append(old, item))
    BY <1>1, <1>5 DEF Requeue
  <2> HIDE DEF d
  <2>2. old \in Seq(Item) /\ Messages(old) = Waiting(queues, d) /\ Distinct(old)
    <3>1. CASE d \in DOMAIN queues
      <4>1. old = queues[d] /\ Waiting(queues, d) = Messages(queues[d])
        BY <3>1 DEF Waiting
      <4> QED BY <3>1, <4>1, CopyOne
    <3>2. CASE d \notin DOMAIN queues
      <4>1. old = <<>> /\ Waiting(queues, d) = {} /\ <<>> \in Seq(Item)
        BY <3>2 DEF Waiting
      <4> QED BY <1>2, <4>1
    <3> QED BY <3>1, <3>2
  <2>3. /\ Waiting(queues, d) \cap Flying(in_flight) = {}
        /\ Waiting(queues, d) \cap Messages(r.items) = {}
        /\ Flying(in_flight) \cap Messages(r.items) = {}
    BY CopyNow
  <2> DEFINE s == Append(old, item)
  <2> HIDE DEF old, item, r
  <2>4. s = old \o r.items
    BY <1>4, <2>2
  <2>c. Messages(old) \cap Messages(r.items) = {} /\ Distinct(r.items)
    BY <2>2, <2>3, CopyOne DEF r
  <2> HIDE DEF s
  <2>5. Messages(s) = Messages(old) \cup Messages(r.items) /\ Distinct(s)
    BY <1>3, <2>2, <2>4, <2>c, ConcatDistinct
  <2>6. /\ \A x : x # d => Waiting(queues', x) = Waiting(queues, x)
        /\ Waiting(queues', d) = Messages(s)
        /\ \A x \in DOMAIN queues' : Distinct(queues'[x])
    BY <2>1, <2>5, CopyOne DEF Insert, Waiting, s
  <2>z. BoxStep(c, Idle, d)
    BY <1>1, <1>2, <2>2, <2>3, <2>5, <2>6, CopyOne DEF BoxStep, r
  <2> QED BY <2>z, CopyStep
<1>6. CASE ~(item.attempts >= MaxAttempts) /\ r.q \in DOMAIN queues
  <2>1. queues' = PushFront(queues, r.q, r.items)
    BY <1>1, <1>4, <1>6 DEF Requeue
  <2> QED BY <1>1, <1>6, <2>1, CopyPush
<1>7. CASE ~(item.attempts >= MaxAttempts) /\ r.q \notin DOMAIN queues
  <2>1. queues' = queues
    BY <1>1, <1>7 DEF Requeue
  <2> QED BY <1>1, <1>2, <2>1, CopyKeep
<1> QED BY <1>5, <1>6, <1>7

\* The messages an ack_batch removes were nowhere but in flight.
LEMMA CopyFinishAckBatch ==
    ASSUME TypeOK, CopyInv, NEW c \in Actors, FinishAckBatch(c)
    PROVE  CopyInv'
<1> DEFINE S == Elements(h[c].ids)
           M == MessagesOf(h[c].ids)
<1>1. /\ h' = [h EXCEPT ![c] = Idle] /\ UNCHANGED <<queues, nextMsg>>
      /\ in_flight' = Without(in_flight, S) /\ removed' = removed \cup M
  BY DEF FinishAckBatch, End
<1>2. Idle.items = <<>> /\ Messages(<<>>) = {} /\ Distinct(<<>>)
  BY DEF Idle, Messages, Distinct
<1>3. M = {in_flight[t].msg : t \in S \cap DOMAIN in_flight}
  BY DEF MessagesOf
<1> HIDE DEF S, M
<1>4. DOMAIN in_flight' = DOMAIN in_flight \ S
      /\ \A x \in DOMAIN in_flight' : in_flight'[x] = in_flight[x]
  BY <1>1 DEF Without
<1>5. Flying(in_flight') \subseteq Flying(in_flight) /\ M \subseteq Flying(in_flight)
  BY <1>3, <1>4 DEF Flying
<1>6. DistinctFlight(in_flight)
  BY CopyOne
<1>7. M \cap Flying(in_flight') = {} /\ DistinctFlight(in_flight')
  BY <1>3, <1>4, <1>6 DEF Flying, DistinctFlight
<1>8. Waiting(queues, NoName) \cap Flying(in_flight) = {}
  BY CopyNow
<1>z. BoxStep(c, Idle, NoName)
  BY <1>1, <1>2, <1>5, <1>7, <1>8, CopyOne DEF BoxStep
<1> QED BY <1>z, CopyStep
-----------------------------------------------------------------------------
\* Nothing is anywhere in the beginning.
LEMMA CopyInit == Init => CopyInv
<1> SUFFICES ASSUME Init PROVE CopyInv
  OBVIOUS
<1>1. DOMAIN queues = {} /\ DOMAIN in_flight = {} /\ removed = {}
      /\ \A c \in Actors : h[c].items = <<>>
  BY DEF Init, Empty, Idle
<1>2. Messages(<<>>) = {} /\ Distinct(<<>>)
  BY DEF Messages, Distinct
<1>3. \A b \in Box : Inside(b) = {}
  BY <1>1, <1>2 DEF Box, Inside, Waiting, Flying
<1>4. NoTwins
  BY <1>1, <1>2 DEF NoTwins, DistinctFlight
<1> QED BY <1>1, <1>3, <1>4 DEF CopyInv, Apart, Numbered, RemovedOut

\* Every step of a client keeps the invariant.
LEMMA CopyRequest ==
    ASSUME TypeOK, CopyInv, NEW c \in Clients, Request(c)
    PROVE  CopyInv'
<1> c \in Actors
  BY DEF Actors
<1>1. ASSUME NEW q \in CreateNames, CreateQueue(c, q)
      PROVE  CopyInv'
  <2> DEFINE r == [op |-> "create_queue", at |-> "log", q |-> q, items |-> <<>>, ids |-> <<>>]
  <2>1. h' = [h EXCEPT ![c] = r] /\ r.items = <<>>
        /\ UNCHANGED <<queues, in_flight, nextMsg, removed>>
    BY <1>1 DEF CreateQueue, Begin, mem, history
  <2> HIDE DEF r
  <2> QED BY <2>1, CopyKeep
<1>2. ASSUME NEW q \in ReqNames, NEW n \in 1..MaxBatch, Queue(c, q, n) \/ Dequeue(c, q, n)
      PROVE  CopyInv'
  BY <1>2, CopyQueue, CopyDequeue
<1>3. ASSUME NEW t \in KnownIds, Ack(c, t) \/ Nack(c, t)
      PROVE  CopyInv'
  BY <1>3, CopyTakeTask DEF Ack, Nack
<1>4. ASSUME NEW t \in KnownIds, ExtendVisibility(c, t)
      PROVE  CopyInv'
  <2> DEFINE r == [op |-> "extend", at |-> "log", q |-> in_flight[t].queue,
                   items |-> <<>>, ids |-> <<t>>]
  <2>1. h' = [h EXCEPT ![c] = r] /\ r.items = <<>>
        /\ UNCHANGED <<queues, in_flight, nextMsg, removed>>
    BY <1>4 DEF ExtendVisibility, Begin, mem, history
  <2> HIDE DEF r
  <2> QED BY <2>1, CopyKeep
<1>5. ASSUME NEW ids \in IdLists, AckBatch(c, ids)
      PROVE  CopyInv'
  <2> DEFINE r == [op |-> "ack_batch", at |-> "log", q |-> NoName, items |-> <<>>, ids |-> ids]
  <2>1. h' = [h EXCEPT ![c] = r] /\ r.items = <<>>
        /\ UNCHANGED <<queues, in_flight, nextMsg, removed>>
    BY <1>5 DEF AckBatch, Begin, mem, history
  <2> HIDE DEF r
  <2> QED BY <2>1, CopyKeep
<1>6. CASE Disconnect(c)
  <2>1. h' = [h EXCEPT ![c] = Idle] /\ Idle.items = <<>>
        /\ UNCHANGED <<queues, in_flight, nextMsg, removed>>
    BY <1>6 DEF Disconnect, mem, history, Idle
  <2> QED BY <2>1, CopyKeep
<1> QED BY <1>1, <1>2, <1>3, <1>4, <1>5, <1>6 DEF Request

\* Every step of the cleanup loop keeps it, and so does a step of nobody.
LEMMA CopyCleanup ==
    ASSUME TypeOK, CopyInv,
           (\E c \in Sweepers : Cleanup(c)) \/ UNCHANGED vars
    PROVE  CopyInv'
<1>1. CASE UNCHANGED <<mem, h, nextMsg, removed>>
  <2>1. \A b : Inside(b)' = Inside(b)
    BY <1>1 DEF Inside, mem
  <2> QED BY <1>1, <2>1 DEF CopyInv, NoTwins, Apart, Numbered, RemovedOut, mem
<1>2. ASSUME NEW c \in Sweepers, NEW t, TakeTask(c, "nack", t)
      PROVE  CopyInv'
  BY <1>2, CopyTakeTask DEF Actors
<1>3. ASSUME NEW c \in Sweepers, NEW S, Scan(c, S)
      PROVE  CopyInv'
  BY <1>1, <1>3 DEF Scan, history
<1>4. ASSUME NEW c \in Sweepers, NEW t, CleanupNack(c, t)
      PROVE  CopyInv'
  BY <1>1, <1>2, <1>4 DEF CleanupNack, history
<1>5. CASE UNCHANGED vars
  BY <1>1, <1>5 DEF vars, history
<1> QED BY <1>3, <1>4, <1>5 DEF Cleanup

\* Every later stage of a request keeps it.
LEMMA CopyProceed ==
    ASSUME TypeOK, CopyInv, NEW c \in Actors, Proceed(c)
    PROVE  CopyInv'
<1>1. CASE Log(c)
  <2> DEFINE r == [h[c] EXCEPT !.at = "apply"]
  <2>1. h' = [h EXCEPT ![c] = r] /\ UNCHANGED <<queues, in_flight, nextMsg, removed>>
    BY <1>1 DEF Log, TypeOK, mem
  <2>2. r.items = h[c].items
    BY DEF TypeOK, Handler
  <2> HIDE DEF r
  <2> QED BY <2>1, <2>2, CopyKeep
<1>2. CASE FinishExtend(c)
  <2>1. h' = [h EXCEPT ![c] = Idle] /\ Idle.items = <<>>
        /\ UNCHANGED <<queues, in_flight, nextMsg, removed>>
    BY <1>2 DEF FinishExtend, End, mem, history, Idle
  <2> QED BY <2>1, CopyKeep
<1> QED BY <1>1, <1>2, CopyLogFail, CopyFinishCreate, CopyFinishQueue, CopyFinishDequeue,
           CopyFinishAck, CopyFinishNack, CopyFinishAckBatch DEF Proceed

\* The invariant holds in every state of a process that does not end.
LEMMA CopyInvariant == MaxCrashes = 0 => (Spec => [](TypeOK /\ CopyInv))
<1> SUFFICES ASSUME MaxCrashes = 0 PROVE Spec => [](TypeOK /\ CopyInv)
  OBVIOUS
<1>1. TypeOK /\ CopyInv /\ [Next]_vars => CopyInv'
  <2> SUFFICES ASSUME TypeOK, CopyInv, [Next]_vars PROVE CopyInv'
    OBVIOUS
  <2>1. ~Restart
    BY DEF Restart, TypeOK
  <2> QED BY <2>1, CopyRequest, CopyCleanup, CopyProceed DEF Next
<1> QED BY <1>1, CopyInit, TypeCorrect, PTL DEF Spec

\* A message at a place is inside the box of the place.
LEMMA PlaceInBox ==
    ASSUME TypeOK, NEW p \in Places
    PROVE  \/ \E q \in DOMAIN queues : \E i \in DOMAIN queues[q] :
                 /\ p = <<"queue", q, i>> /\ MessageAt(p) = queues[q][i].msg
                 /\ <<"queue", q>> \in Box /\ MessageAt(p) \in Inside(<<"queue", q>>)
           \/ \E t \in DOMAIN in_flight :
                 /\ p = <<"flight", t, 0>> /\ MessageAt(p) = in_flight[t].msg
                 /\ <<"flight", 0>> \in Box /\ MessageAt(p) \in Inside(<<"flight", 0>>)
           \/ \E c \in Actors : \E i \in DOMAIN h[c].items :
                 /\ p = <<"held", c, i>> /\ MessageAt(p) = h[c].items[i].msg
                 /\ <<"held", c>> \in Box /\ MessageAt(p) \in Inside(<<"held", c>>)
<1>1. ASSUME NEW q \in DOMAIN queues, NEW i \in DOMAIN queues[q], p = <<"queue", q, i>>
      PROVE  /\ MessageAt(p) = queues[q][i].msg
             /\ <<"queue", q>> \in Box /\ MessageAt(p) \in Inside(<<"queue", q>>)
  <2>1. MessageAt(p) = queues[q][i].msg
    BY <1>1 DEF MessageAt
  <2>2. Inside(<<"queue", q>>) = Messages(queues[q])
    BY DEF Inside, Waiting
  <2> QED BY <2>1, <2>2 DEF Messages, Box, TypeOK, IsQueueMap, IsMap
<1>2. ASSUME NEW t \in DOMAIN in_flight, p = <<"flight", t, 0>>
      PROVE  /\ MessageAt(p) = in_flight[t].msg
             /\ <<"flight", 0>> \in Box /\ MessageAt(p) \in Inside(<<"flight", 0>>)
  <2>1. MessageAt(p) = in_flight[t].msg
    BY <1>2 DEF MessageAt
  <2>2. Inside(<<"flight", 0>>) = Flying(in_flight)
    BY DEF Inside
  <2> QED BY <2>1, <2>2 DEF Flying, Box
<1>3. ASSUME NEW c \in Actors, NEW i \in DOMAIN h[c].items, p = <<"held", c, i>>
      PROVE  /\ MessageAt(p) = h[c].items[i].msg
             /\ <<"held", c>> \in Box /\ MessageAt(p) \in Inside(<<"held", c>>)
  <2>1. MessageAt(p) = h[c].items[i].msg
    BY <1>3 DEF MessageAt
  <2>2. Inside(<<"held", c>>) = Messages(h[c].items)
    BY DEF Inside
  <2> QED BY <2>1, <2>2 DEF Messages, Box
<1>4. \/ \E q \in DOMAIN queues : \E i \in DOMAIN queues[q] : p = <<"queue", q, i>>
      \/ \E t \in DOMAIN in_flight : p = <<"flight", t, 0>>
      \/ \E c \in Actors : \E i \in DOMAIN h[c].items : p = <<"held", c, i>>
  BY DEF Places
<1>5. CASE \E q \in DOMAIN queues : \E i \in DOMAIN queues[q] : p = <<"queue", q, i>>
  BY <1>1, <1>5
<1>6. CASE \E t \in DOMAIN in_flight : p = <<"flight", t, 0>>
  BY <1>2, <1>6
<1>7. CASE \E c \in Actors : \E i \in DOMAIN h[c].items : p = <<"held", c, i>>
  BY <1>3, <1>7
<1> QED BY <1>4, <1>5, <1>6, <1>7

\* A message is never in two places, whatever an ack, a nack of a client and a
\* nack of the cleanup loop race for, whatever appends fail and whoever
\* disconnects, on a server whose process does not end.
THEOREM OneCopy == MaxCrashes = 0 => (Spec => []SingleCopy)
<1>1. TypeOK /\ CopyInv => SingleCopy
  <2> SUFFICES ASSUME TypeOK, CopyInv, NEW p \in Places, NEW r \in Places,
                      MessageAt(p) = MessageAt(r)
               PROVE  p = r
    BY DEF SingleCopy
  <2> DEFINE m == MessageAt(p)
  <2> HIDE DEF m
  <2>0. m = MessageAt(p) /\ m = MessageAt(r)
    BY DEF m
  <2>1. \A a, b \in Box : m \in Inside(a) /\ m \in Inside(b) => a = b
    BY DEF CopyInv, Apart
  <2>2. ASSUME NEW q \in DOMAIN queues, NEW i \in DOMAIN queues[q],
               p = <<"queue", q, i>>, m = queues[q][i].msg,
               <<"queue", q>> \in Box, m \in Inside(<<"queue", q>>)
        PROVE  p = r
    <3>1. PICK j \in DOMAIN queues[q] : r = <<"queue", q, j>> /\ m = queues[q][j].msg
      BY <2>0, <2>1, <2>2, PlaceInBox
    <3> QED BY <2>2, <3>1 DEF CopyInv, NoTwins, Distinct
  <2>3. ASSUME NEW t \in DOMAIN in_flight, p = <<"flight", t, 0>>, m = in_flight[t].msg,
               <<"flight", 0>> \in Box, m \in Inside(<<"flight", 0>>)
        PROVE  p = r
    <3>1. PICK u \in DOMAIN in_flight : r = <<"flight", u, 0>> /\ m = in_flight[u].msg
      BY <2>0, <2>1, <2>3, PlaceInBox
    <3> QED BY <2>3, <3>1 DEF CopyInv, NoTwins, DistinctFlight
  <2>4. ASSUME NEW c \in Actors, NEW i \in DOMAIN h[c].items,
               p = <<"held", c, i>>, m = h[c].items[i].msg,
               <<"held", c>> \in Box, m \in Inside(<<"held", c>>)
        PROVE  p = r
    <3>1. PICK j \in DOMAIN h[c].items : r = <<"held", c, j>> /\ m = h[c].items[j].msg
      BY <2>0, <2>1, <2>4, PlaceInBox
    <3> QED BY <2>4, <3>1 DEF CopyInv, NoTwins, Distinct
  <2> QED BY <2>0, <2>2, <2>3, <2>4, PlaceInBox
<1> QED BY <1>1, CopyInvariant, PTL

\* A message whose task an ack or ack_batch has taken out of flight before it
\* was answered Ok does not come back: it is in no queue, not in flight, and in
\* the hands of no request, on a server whose process does not end.  Nothing is
\* said of the ids that ack_batch did not find any more, which are answered Ok
\* too (run ack_batch_race).
THEOREM RemovedStaysGone == MaxCrashes = 0 => (Spec => []RemovedGone)
<1>1. TypeOK /\ CopyInv => RemovedGone
  <2> SUFFICES ASSUME TypeOK, CopyInv, NEW p \in Places PROVE MessageAt(p) \notin removed
    BY DEF RemovedGone
  <2>1. PICK b \in Box : MessageAt(p) \in Inside(b)
    BY PlaceInBox
  <2> QED BY <2>1 DEF CopyInv, RemovedOut
<1> QED BY <1>1, CopyInvariant, PTL
-----------------------------------------------------------------------------
(***************************************************************************)
(* The number of deliveries.                                               *)
(***************************************************************************)
\* An item or a task counts the deliveries of its message that D records.
Counted(D, x)    == x.attempts = Cardinality({t \in DOMAIN D : D[t].msg = x.msg})
AllCounted(D, s) == \A x \in Elements(s) : Counted(D, x)

\* The ids of a dequeue that runs have been drawn for it and not been answered.
IdsDrawn ==
    \A c \in Actors : h[c].op = "dequeue" =>
       /\ \A t \in Elements(h[c].ids) : t < nextId /\ t \notin DOMAIN delivered
       /\ \A i, j \in DOMAIN h[c].ids : h[c].ids[i] = h[c].ids[j] => i = j
       /\ \A d \in Actors \ {c} : h[d].op = "dequeue" =>
             Elements(h[c].ids) \cap Elements(h[d].ids) = {}

CountInv ==
    /\ \A t \in DOMAIN delivered : t < nextId /\ delivered[t].msg < nextMsg
    /\ \A q \in DOMAIN queues : AllCounted(delivered, queues[q])
    /\ \A t \in DOMAIN in_flight : Counted(delivered, in_flight[t])
    /\ \A c \in Actors : AllCounted(delivered, h[c].items)
    /\ IdsDrawn

\* Counting goes through the ends of deques.
LEMMA CountedParts ==
    ASSUME NEW D, NEW s \in Seq(Item), NEW r \in Seq(Item), NEW n \in Nat, AllCounted(D, s)
    PROVE  /\ AllCounted(D, r) => AllCounted(D, s \o r) /\ AllCounted(D, r \o s)
           /\ AllCounted(D, FirstOf(s, n)) /\ AllCounted(D, RestOf(s, n))
BY ElementsParts DEF AllCounted

\* A step of the request of c, which becomes r, that changes no queue but q and
\* delivers nothing.
CountStep(c, r, q) ==
    /\ h' = [h EXCEPT ![c] = r] /\ UNCHANGED delivered
    /\ nextMsg' \in Nat /\ nextMsg <= nextMsg' /\ nextId' \in Nat /\ nextId <= nextId'
    /\ \A x \in DOMAIN queues' : x # q => x \in DOMAIN queues /\ queues'[x] = queues[x]
    /\ q \in DOMAIN queues' => AllCounted(delivered, queues'[q])
    /\ \A t \in DOMAIN in_flight' : Counted(delivered, in_flight'[t])
    /\ AllCounted(delivered, r.items)
    /\ r.op = "dequeue" =>
          \/ h[c].op = "dequeue" /\ r.ids = h[c].ids
          \/ /\ \A t \in Elements(r.ids) : nextId <= t /\ t < nextId'
             /\ \A i, j \in DOMAIN r.ids : r.ids[i] = r.ids[j] => i = j

\* The numbers of a state.
LEMMA Drawn ==
    ASSUME TypeOK, CountInv
    PROVE  /\ nextId \in Nat /\ nextMsg \in Nat
           /\ \A t \in DOMAIN delivered : t \in Nat /\ delivered[t].msg \in Nat
           /\ \A c \in Actors : Elements(h[c].ids) \subseteq Nat
<1>1. \A c \in Actors : h[c].ids \in Seq(Nat)
  BY DEF TypeOK, Handler
<1>2. \A c \in Actors : Elements(h[c].ids) \subseteq Nat
  BY <1>1, ElementsType
<1> QED BY <1>2 DEF TypeOK, IsMap, Delivery

\* Such a step keeps the counts.
LEMMA CountKept ==
    ASSUME TypeOK, CountInv, NEW c \in Actors, NEW r, NEW q, CountStep(c, r, q)
    PROVE  CountInv'
<1>1. h'[c] = r /\ \A d \in Actors : d # c => h'[d] = h[d]
  BY DEF TypeOK, CountStep
<1>0. /\ delivered' = delivered /\ nextMsg' \in Nat /\ nextMsg <= nextMsg'
      /\ nextId' \in Nat /\ nextId <= nextId'
  BY DEF CountStep
<1>2. \A t \in DOMAIN delivered' : t < nextId' /\ delivered'[t].msg < nextMsg'
  BY <1>0, Drawn DEF CountInv
<1>3. \A x \in DOMAIN queues' : AllCounted(delivered', queues'[x])
  BY DEF CountInv, CountStep
<1>4. \A t \in DOMAIN in_flight' : Counted(delivered', in_flight'[t])
  BY DEF CountStep
<1>5. \A d \in Actors : AllCounted(delivered', h'[d].items)
  BY <1>1 DEF CountInv, CountStep
<1>6. IdsDrawn'
  <2>1. ASSUME NEW d \in Actors, h[d].op = "dequeue"
        PROVE  /\ \A t \in Elements(h[d].ids) : t < nextId' /\ t \notin DOMAIN delivered'
               /\ \A i, j \in DOMAIN h[d].ids : h[d].ids[i] = h[d].ids[j] => i = j
               /\ \A e \in Actors \ {d} : h[e].op = "dequeue" =>
                     Elements(h[d].ids) \cap Elements(h[e].ids) = {}
    <3>1. \A t \in Elements(h[d].ids) : t \in Nat /\ t < nextId /\ nextId \in Nat
      BY <2>1, Drawn DEF CountInv, IdsDrawn
    <3>2. \A t \in Elements(h[d].ids) : t < nextId'
      BY <1>0, <3>1
    <3> QED BY <1>0, <2>1, <3>2 DEF CountInv, IdsDrawn
  <2>2. CASE r.op = "dequeue" => h[c].op = "dequeue" /\ r.ids = h[c].ids
    <3>1. \A d \in Actors : h'[d].op = "dequeue" => h[d].op = "dequeue" /\ h'[d].ids = h[d].ids
      BY <1>1, <2>2
    <3> QED BY <2>1, <3>1 DEF IdsDrawn
  <2>3. CASE /\ r.op = "dequeue"
             /\ \A t \in Elements(r.ids) : nextId <= t /\ t < nextId'
             /\ \A i, j \in DOMAIN r.ids : r.ids[i] = r.ids[j] => i = j
    <3>1. ASSUME NEW d \in Actors, d # c, h[d].op = "dequeue"
          PROVE  Elements(r.ids) \cap Elements(h[d].ids) = {}
      <4>1. \A t \in Elements(h[d].ids) : t \in Nat /\ t < nextId /\ nextId \in Nat
        BY <3>1, Drawn DEF CountInv, IdsDrawn
      <4> QED BY <2>3, <4>1
    <3>2. \A t \in Elements(r.ids) : t < nextId' /\ t \notin DOMAIN delivered'
      <4>1. \A t \in DOMAIN delivered : t \in Nat /\ t < nextId /\ nextId \in Nat
        BY Drawn DEF CountInv
      <4> QED BY <1>0, <2>3, <4>1
    <3> QED BY <1>1, <2>1, <2>3, <3>1, <3>2 DEF IdsDrawn
  <2> QED BY <2>2, <2>3 DEF CountStep
<1> QED BY <1>2, <1>3, <1>4, <1>5, <1>6 DEF CountInv

\* The counts of a state.
LEMMA CountNow ==
    ASSUME TypeOK, CountInv
    PROVE  /\ \A q \in DOMAIN queues : AllCounted(delivered, queues[q]) /\ queues[q] \in Seq(Item)
           /\ \A t \in DOMAIN in_flight : Counted(delivered, in_flight[t])
           /\ \A c \in Actors : AllCounted(delivered, h[c].items) /\ h[c].items \in Seq(Item)
           /\ nextMsg \in Nat /\ nextId \in Nat /\ AllCounted(delivered, <<>>)
BY DEF CountInv, TypeOK, Handler, IsQueueMap, IsMap, AllCounted, Elements

\* A step that takes tasks out of flight at most, and leaves the request with
\* what it held or with nothing.
LEMMA CountKeep ==
    ASSUME TypeOK, CountInv, NEW c \in Actors, NEW r, h' = [h EXCEPT ![c] = r],
           \/ r.items = <<>> /\ r.op # "dequeue"
           \/ r.items = h[c].items /\ r.op = h[c].op /\ r.ids = h[c].ids,
           UNCHANGED <<queues, delivered, nextMsg, nextId>>,
           \A t \in DOMAIN in_flight' : t \in DOMAIN in_flight /\ in_flight'[t] = in_flight[t]
    PROVE  CountInv'
<1>1. AllCounted(delivered, r.items)
  BY CountNow
<1>2. CountStep(c, r, NoName)
  BY <1>1, CountNow DEF CountStep
<1> QED BY <1>2, CountKept

\* A new message has not been delivered.
LEMMA CountQueue ==
    ASSUME TypeOK, CountInv, NEW c \in Actors, NEW q, NEW n \in 1..MaxBatch, Queue(c, q, n)
    PROVE  CountInv'
<1> DEFINE r == [op |-> "queue", at |-> "log", q |-> q, items |-> NewItems(n), ids |-> <<>>]
<1>1. /\ h' = [h EXCEPT ![c] = r] /\ nextMsg' = nextMsg + n
      /\ UNCHANGED <<queues, in_flight, nextId, delivered>>
  BY DEF Queue, Begin, mem, history
<1>2. r.op = "queue" /\ r.items = NewItems(n) /\ n \in Nat
  OBVIOUS
<1> HIDE DEF r
<1>3. nextMsg' \in Nat /\ nextMsg <= nextMsg'
  BY <1>1, <1>2, CountNow
<1>4. ASSUME NEW i \in 1..n PROVE Counted(delivered, Fresh(nextMsg + i - 1))
  <2> DEFINE m == nextMsg + i - 1
  <2>1. m \in Nat /\ m >= nextMsg
    BY CountNow
  <2>2. Fresh(m).attempts = 0 /\ Fresh(m).msg = m
    BY DEF Fresh
  <2> HIDE DEF m
  <2>3. {t \in DOMAIN delivered : delivered[t].msg = m} = {}
    BY <2>1, Drawn DEF CountInv
  <2>4. Cardinality({}) = 0
    BY FS_EmptySet
  <2>5. Counted(delivered, Fresh(m))
    BY <2>2, <2>3, <2>4 DEF Counted
  <2> QED BY <2>5 DEF m
<1>5. AllCounted(delivered, r.items)
  BY <1>2, <1>4 DEF AllCounted, Elements, NewItems
<1>6. CountStep(c, r, q)
  BY <1>1, <1>2, <1>3, <1>5, CountNow DEF CountStep
<1> QED BY <1>6, CountKept

\* A dequeue draws new ids.
LEMMA CountDequeue ==
    ASSUME TypeOK, CountInv, NEW c \in Actors, NEW q, NEW n \in 1..MaxBatch, Dequeue(c, q, n)
    PROVE  CountInv'
<1> DEFINE items == FirstOf(queues[q], n)
           k == Len(items)
           r == [op |-> "dequeue", at |-> "log", q |-> q, items |-> items, ids |-> NewIds(k)]
<1>1. /\ h' = [h EXCEPT ![c] = r] /\ q \in DOMAIN queues /\ nextId' = nextId + k
      /\ queues' = PopFront(queues, q, n) /\ UNCHANGED <<in_flight, nextMsg, delivered>>
  BY DEF Dequeue, Begin, history
<1>2. queues[q] \in Seq(Item) /\ n \in Nat /\ AllCounted(delivered, queues[q]) /\ nextId \in Nat
  BY <1>1, CountNow
<1>3. AllCounted(delivered, items) /\ AllCounted(delivered, RestOf(queues[q], n))
  BY <1>2, CountedParts
<1>4. k \in Nat
  BY <1>2, SplitType
<1>5. /\ DOMAIN queues' = DOMAIN queues /\ queues'[q] = RestOf(queues[q], n)
      /\ \A x \in DOMAIN queues : x # q => queues'[x] = queues[x]
  BY <1>1 DEF PopFront, TypeOK, IsQueueMap, IsMap
<1>6. r.items = items /\ r.op = "dequeue" /\ r.ids = NewIds(k)
  OBVIOUS
<1> HIDE DEF r, items, k
<1>7. DOMAIN NewIds(k) = 1..k /\ \A i \in 1..k : NewIds(k)[i] = nextId + i - 1
  BY DEF NewIds
<1>8. /\ \A t \in Elements(NewIds(k)) : nextId <= t /\ t < nextId'
      /\ \A i, j \in DOMAIN NewIds(k) : NewIds(k)[i] = NewIds(k)[j] => i = j
      /\ nextId' \in Nat /\ nextId <= nextId'
  <2>1. \A i \in 1..k : nextId <= nextId + i - 1 /\ nextId + i - 1 < nextId + k
    BY <1>2, <1>4
  <2>2. \A i, j \in 1..k : nextId + i - 1 = nextId + j - 1 => i = j
    BY <1>2, <1>4
  <2>3. nextId + k \in Nat /\ nextId <= nextId + k
    BY <1>2, <1>4
  <2> QED BY <1>1, <1>7, <2>1, <2>2, <2>3 DEF Elements
<1>9. CountStep(c, r, q)
  BY <1>1, <1>3, <1>5, <1>6, <1>8, CountNow DEF CountStep
<1> QED BY <1>9, CountKept

\* An ack or a nack holds the task with its count.
LEMMA CountTakeTask ==
    ASSUME TypeOK, CountInv, NEW c \in Actors, NEW op \in {"ack", "nack"}, NEW t, TakeTask(c, op, t)
    PROVE  CountInv'
<1> DEFINE task == in_flight[t]
           item == [msg |-> task.msg, attempts |-> task.attempts]
           r == [op |-> op, at |-> "log", q |-> task.queue, items |-> <<item>>, ids |-> <<t>>]
<1>1. /\ h' = [h EXCEPT ![c] = r] /\ t \in DOMAIN in_flight
      /\ in_flight' = Without(in_flight, {t}) /\ UNCHANGED <<queues, nextMsg, nextId, delivered>>
  BY DEF TakeTask, Begin
<1>2. item.msg = task.msg /\ item.attempts = task.attempts /\ Elements(<<item>>) = {item}
  BY DEF Elements
<1>3. r.items = <<item>> /\ r.op # "dequeue"
  OBVIOUS
<1> HIDE DEF r, item
<1>4. AllCounted(delivered, r.items)
  BY <1>1, <1>2, <1>3, CountNow DEF AllCounted, Counted
<1>5. \A x \in DOMAIN in_flight' : x \in DOMAIN in_flight /\ in_flight'[x] = in_flight[x]
  BY <1>1 DEF Without
<1> HIDE DEF task
<1>6. /\ \A x \in DOMAIN in_flight' : Counted(delivered, in_flight'[x])
      /\ nextMsg \in Nat /\ nextId \in Nat
      /\ \A x \in DOMAIN queues : AllCounted(delivered, queues[x])
  BY <1>5, CountNow
<1>7. CountStep(c, r, NoName)
  BY <1>1, <1>3, <1>4, <1>6 DEF CountStep
<1> QED BY <1>7, CountKept

\* Items go from a request to one end of a queue that exists.
LEMMA CountPush ==
    ASSUME TypeOK, CountInv, NEW c \in Actors, h' = [h EXCEPT ![c] = Idle],
           NEW q \in DOMAIN queues,
           \/ queues' = PushFront(queues, q, h[c].items)
           \/ queues' = PushBack(queues, q, h[c].items),
           UNCHANGED <<in_flight, nextMsg, nextId, delivered>>
    PROVE  CountInv'
<1>1. /\ DOMAIN queues' = DOMAIN queues
      /\ queues'[q] \in {queues[q] \o h[c].items, h[c].items \o queues[q]}
      /\ \A x \in DOMAIN queues : x # q => queues'[x] = queues[x]
  BY DEF PushFront, PushBack, TypeOK, IsQueueMap, IsMap
<1>2. /\ AllCounted(delivered, queues[q]) /\ queues[q] \in Seq(Item)
      /\ AllCounted(delivered, h[c].items) /\ h[c].items \in Seq(Item)
  BY CountNow
<1>3. AllCounted(delivered, queues'[q])
  BY <1>1, <1>2, 0 \in Nat, CountedParts
<1>4. Idle.items = <<>> /\ Idle.op = "idle"
  BY DEF Idle
<1>5. CountStep(c, Idle, q)
  BY <1>1, <1>3, <1>4, CountNow DEF CountStep
<1> QED BY <1>5, CountKept

\* A failed append takes no delivery back and adds none.
LEMMA CountLogFail ==
    ASSUME TypeOK, CountInv, NEW c \in Actors, LogFail(c)
    PROVE  CountInv'
<1> DEFINE r == h[c]
<1>1. h' = [h EXCEPT ![c] = Idle] /\ Compensate(r) /\ UNCHANGED <<nextMsg, nextId, delivered>>
  BY DEF LogFail, history
<1>2. Idle.items = <<>> /\ Idle.op = "idle"
  BY DEF Idle
<1>3. CASE r.op = "dequeue" /\ r.q \in DOMAIN queues
  <2>1. queues' = PushFront(queues, r.q, r.items) /\ in_flight' = in_flight
    BY <1>1, <1>3 DEF Compensate
  <2> QED BY <1>1, <1>3, <2>1, CountPush
<1>4. CASE r.op = "nack"
  <2> DEFINE t    == r.ids[1]
             item == r.items[1]
             task == [msg |-> item.msg, attempts |-> item.attempts, queue |-> r.q]
  <2>1. queues' = queues /\ in_flight' = Insert(in_flight, t, task)
    BY <1>1, <1>4 DEF Compensate
  <2>2. r.items \in Seq(Item) /\ Len(r.items) = 1 /\ AllCounted(delivered, r.items)
    BY <1>4, CountNow DEF TypeOK, HandlerOK
  <2>3. item \in Elements(r.items) /\ task.msg = item.msg /\ task.attempts = item.attempts
    BY <2>2 DEF Elements
  <2>4. Counted(delivered, item)
    BY <2>2, <2>3 DEF AllCounted
  <2> HIDE DEF item, task, t
  <2>5. Counted(delivered, task)
    BY <2>3, <2>4 DEF Counted
  <2>6. \A x \in DOMAIN in_flight' : Counted(delivered, in_flight'[x])
    BY <2>1, <2>5, InsertCases, CountNow
  <2>7. CountStep(c, Idle, NoName)
    BY <1>1, <1>2, <2>1, <2>6, CountNow DEF CountStep
  <2> QED BY <2>7, CountKept
<1>5. CASE ~(r.op = "nack") /\ ~(r.op = "dequeue" /\ r.q \in DOMAIN queues)
  <2>1. queues' = queues /\ in_flight' = in_flight
    BY <1>1, <1>5 DEF Compensate, PushFront, TypeOK, IsQueueMap, IsMap
  <2> QED BY <1>1, <1>2, <2>1, CountKeep
<1> QED BY <1>3, <1>4, <1>5

\* An enqueue and a nack put items with their counts into a queue; a
\* create_queue empties one.
LEMMA CountFinishPut ==
    ASSUME TypeOK, CountInv, NEW c \in Actors, FinishCreate(c) \/ FinishQueue(c) \/ FinishNack(c)
    PROVE  CountInv'
<1> DEFINE r    == h[c]
           item == r.items[1]
<1>1. h' = [h EXCEPT ![c] = Idle] /\ UNCHANGED <<in_flight, nextMsg, nextId, delivered>>
  BY DEF FinishCreate, FinishQueue, FinishNack, End, history
<1>2. Idle.items = <<>> /\ Idle.op = "idle"
  BY DEF Idle
<1>3. ASSUME NEW q, NEW s, queues' = Insert(queues, q, s), AllCounted(delivered, s)
      PROVE  CountInv'
  <2>1. /\ queues'[q] = s
        /\ \A x \in DOMAIN queues' : x # q => x \in DOMAIN queues /\ queues'[x] = queues[x]
    BY <1>3 DEF Insert
  <2>2. CountStep(c, Idle, q)
    BY <1>1, <1>2, <1>3, <2>1, CountNow DEF CountStep
  <2> QED BY <2>2, CountKept
<1>4. CASE FinishCreate(c)
  BY <1>3, <1>4, CountNow DEF FinishCreate
<1>5. CASE UNCHANGED queues
  BY <1>1, <1>2, <1>5, CountKeep
<1>6. CASE FinishQueue(c)
  <2>1. queues' = Enqueue(queues, r.q, r.items)
    BY <1>6 DEF FinishQueue
  <2>2. CASE r.q \in DOMAIN queues
    BY <1>1, <2>1, <2>2, CountPush DEF Enqueue
  <2> QED BY <1>5, <2>1, <2>2 DEF Enqueue
<1>7. CASE FinishNack(c)
  <2> DEFINE d   == Dlq(r.q)
             old == IF d \in DOMAIN queues THEN queues[d] ELSE <<>>
  <2>1. queues' = Requeue(queues, r.q, item) /\ r.items \in Seq(Item) /\ Len(r.items) = 1
    BY <1>7, CountNow DEF FinishNack, End, TypeOK, HandlerOK
  <2>2. r.items = <<item>> /\ item \in Item
    BY <2>1
  <2>3. CASE item.attempts >= MaxAttempts
    <3>1. queues' = Insert(queues, d, Append(old, item))
      BY <2>1, <2>3 DEF Requeue
    <3>2. old \in Seq(Item) /\ AllCounted(delivered, old)
      BY CountNow
    <3>3. AllCounted(delivered, r.items)
      BY CountNow
    <3> HIDE DEF old, r, item
    <3>4. Append(old, item) = old \o r.items
      BY <2>2, <3>2
    <3>5. AllCounted(delivered, old \o r.items)
      BY <2>1, <3>2, <3>3, 0 \in Nat, CountedParts
    <3> QED BY <1>3, <3>1, <3>4, <3>5
  <2>4. CASE ~(item.attempts >= MaxAttempts) /\ r.q \in DOMAIN queues
    <3>1. queues' = PushFront(queues, r.q, r.items)
      BY <2>1, <2>2, <2>4 DEF Requeue
    <3> QED BY <1>1, <2>4, <3>1, CountPush
  <2> QED BY <1>5, <2>1, <2>3, <2>4 DEF Requeue
<1> QED BY <1>4, <1>6, <1>7

\* Deliveries of other messages are not counted.
LEMMA CountOthers ==
    ASSUME NEW D, NEW E, DOMAIN D \subseteq DOMAIN E, \A t \in DOMAIN D : E[t] = D[t],
           NEW x, Counted(D, x), \A t \in DOMAIN E \ DOMAIN D : E[t].msg # x.msg
    PROVE  Counted(E, x)
<1>1. {t \in DOMAIN E : E[t].msg = x.msg} = {t \in DOMAIN D : D[t].msg = x.msg}
  OBVIOUS
<1> QED BY <1>1 DEF Counted

\* Of the deliveries that E has more than D, t is the one of x, which becomes y.
OneMore(D, E, n, x, t, y) ==
    /\ n \in Nat /\ DOMAIN D \subseteq 0..n /\ DOMAIN D \subseteq DOMAIN E
    /\ \A u \in DOMAIN D : E[u] = D[u]
    /\ t \in DOMAIN E \ DOMAIN D
    /\ \A u \in DOMAIN E \ DOMAIN D : E[u].msg = x.msg <=> u = t
    /\ y.msg = x.msg /\ y.attempts = x.attempts + 1

\* A delivery is counted once.
LEMMA CountDelivery ==
    ASSUME NEW D, NEW E, NEW n, NEW x, NEW t, NEW y, OneMore(D, E, n, x, t, y), Counted(D, x)
    PROVE  Counted(E, y)
<1> USE DEF OneMore
<1> DEFINE A == {u \in DOMAIN D : D[u].msg = x.msg}
           B == {u \in DOMAIN E : E[u].msg = y.msg}
<1>1. IsFiniteSet(A)
  <2>1. IsFiniteSet(0..n)
    BY FS_Interval
  <2>2. A \in SUBSET (0..n)
    OBVIOUS
  <2> HIDE DEF A
  <2> QED BY <2>1, <2>2, FS_Subset
<1>2. x.attempts = Cardinality(A)
  BY DEF Counted
<1>3. B = A \cup {t} /\ t \notin A
  OBVIOUS
<1>4. y.attempts = Cardinality(B) => Counted(E, y)
  BY DEF Counted
<1> HIDE DEF A, B
<1>5. Cardinality(A \cup {t}) = Cardinality(A) + 1
  BY <1>1, <1>3, FS_AddElement
<1> QED BY <1>2, <1>3, <1>4, <1>5

\* A dequeue that is answered counts one delivery for each of its items.
LEMMA CountFinishDequeue ==
    ASSUME TypeOK, CopyInv, CountInv, NEW c \in Actors, FinishDequeue(c)
    PROVE  CountInv'
<1> DEFINE r   == h[c]
           ids == r.ids
           its == r.items
           D   == delivered
           E   == delivered'
<1>1. /\ h' = [h EXCEPT ![c] = Idle] /\ r.op = "dequeue" /\ UNCHANGED <<queues, nextMsg, nextId>>
      /\ in_flight' = Deliver(in_flight, r.q, its, ids)
      /\ E = [t \in DOMAIN D \cup Elements(ids) |->
                IF t \in Elements(ids)
                THEN [msg |-> its[Position(ids, t)].msg, queue |-> r.q] ELSE D[t]]
  BY DEF FinishDequeue, End
<1>2. /\ its \in Seq(Item) /\ ids \in Seq(Nat) /\ Len(its) = Len(ids) /\ DOMAIN its = DOMAIN ids
      /\ Distinct(its) /\ AllCounted(D, its)
  BY <1>1, CopyOne, CountNow DEF TypeOK, Handler, HandlerOK
<1>3. /\ \A t \in Elements(ids) : t \in Nat /\ t < nextId /\ t \notin DOMAIN D
      /\ \A i, j \in DOMAIN ids : ids[i] = ids[j] => i = j
      /\ \A d \in Actors \ {c} : h[d].op = "dequeue" => Elements(ids) \cap Elements(h[d].ids) = {}
  BY <1>1, Drawn DEF CountInv, IdsDrawn
<1>4. \A t \in Elements(ids) : Position(ids, t) \in DOMAIN its /\ ids[Position(ids, t)] = t
  BY <1>2, PositionType
<1>5. /\ DOMAIN E = DOMAIN D \cup Elements(ids) /\ \A t \in DOMAIN D : E[t] = D[t]
      /\ \A t \in Elements(ids) : E[t].msg = its[Position(ids, t)].msg
      /\ DOMAIN E \ DOMAIN D = Elements(ids)
  BY <1>1, <1>3
<1>6. /\ DOMAIN in_flight' = DOMAIN in_flight \cup Elements(ids)
      /\ \A t \in DOMAIN in_flight : t \notin Elements(ids) => in_flight'[t] = in_flight[t]
      /\ \A t \in Elements(ids) :
            in_flight'[t] = [msg |-> its[Position(ids, t)].msg,
                             attempts |-> its[Position(ids, t)].attempts + 1, queue |-> r.q]
  BY <1>1 DEF Deliver
<1>7. DOMAIN D \subseteq 0..nextId /\ nextId \in Nat
  BY Drawn DEF CountInv
<1>8. h'[c] = Idle /\ \A d \in Actors : d # c => h'[d] = h[d]
  BY <1>1 DEF TypeOK
<1> HIDE DEF r, ids, its, D, E
<1>9. \A t \in Elements(ids) : E[t].msg \in Messages(its)
  BY <1>4, <1>5 DEF Messages
<1>10. ASSUME NEW x, Counted(D, x), x.msg \notin Messages(its) PROVE Counted(E, x)
  <2>1. DOMAIN D \subseteq DOMAIN E /\ \A t \in DOMAIN E \ DOMAIN D : E[t].msg # x.msg
    BY <1>5, <1>9, <1>10
  <2> QED BY <1>5, <1>10, <2>1, CountOthers
<1>11. \A b \in Box : b # <<"held", c>> => Inside(b) \cap Messages(its) = {}
  <2>1. <<"held", c>> \in Box /\ Inside(<<"held", c>>) = Messages(its)
    BY DEF Box, Inside, its, r
  <2> QED BY <2>1 DEF CopyInv, Apart
<1>12. ASSUME NEW t \in Elements(ids) PROVE Counted(E, in_flight'[t])
  <2> DEFINE x == its[Position(ids, t)]
  <2>1. x \in Elements(its) /\ Counted(D, x)
    BY <1>2, <1>4 DEF AllCounted, Elements
  <2>2. in_flight'[t].msg = x.msg /\ in_flight'[t].attempts = x.attempts + 1
    BY <1>6
  <2>3. \A u \in Elements(ids) : E[u].msg = x.msg <=> u = t
    BY <1>2, <1>4, <1>5 DEF Distinct
  <2> HIDE DEF x
  <2>4. OneMore(D, E, nextId, x, t, in_flight'[t])
    BY <1>5, <1>7, <2>2, <2>3 DEF OneMore
  <2> QED BY <2>1, <2>4, CountDelivery
<1>13. ASSUME NEW t \in DOMAIN in_flight, t \notin Elements(ids) PROVE Counted(E, in_flight'[t])
  <2>1. in_flight[t].msg \in Inside(<<"flight", 0>>) /\ <<"flight", 0>> \in Box
    BY DEF Inside, Flying, Box
  <2>2. in_flight[t].msg \notin Messages(its)
    BY <1>11, <2>1
  <2>3. Counted(D, in_flight[t])
    BY CountNow DEF D
  <2> QED BY <1>6, <1>10, <1>13, <2>2, <2>3
<1>14. ASSUME NEW q \in DOMAIN queues PROVE AllCounted(E, queues[q])
  <2>1. Messages(queues[q]) = Inside(<<"queue", q>>) /\ <<"queue", q>> \in Box
    BY DEF Inside, Waiting, Box, TypeOK, IsQueueMap, IsMap
  <2>2. \A x \in Elements(queues[q]) : x.msg \in Messages(queues[q])
    BY DEF Elements, Messages
  <2>3. \A x \in Elements(queues[q]) : Counted(D, x) /\ x.msg \notin Messages(its)
    BY <1>11, <2>1, <2>2, CountNow DEF AllCounted, D
  <2> QED BY <1>10, <2>3 DEF AllCounted
<1>15. ASSUME NEW d \in Actors, d # c PROVE AllCounted(E, h[d].items)
  <2>1. Messages(h[d].items) = Inside(<<"held", d>>) /\ <<"held", d>> \in Box
    BY DEF Inside, Box
  <2>2. \A x \in Elements(h[d].items) : x.msg \in Messages(h[d].items)
    BY DEF Elements, Messages
  <2>3. \A x \in Elements(h[d].items) : Counted(D, x) /\ x.msg \notin Messages(its)
    BY <1>11, <1>15, <2>1, <2>2, CountNow DEF AllCounted, D
  <2> QED BY <1>10, <2>3 DEF AllCounted
<1>16. \A d \in Actors : AllCounted(E, h'[d].items)
  <2>1. AllCounted(E, Idle.items)
    BY DEF Idle, AllCounted, Elements
  <2> QED BY <1>8, <1>15, <2>1
<1>17. \A t \in DOMAIN E : t < nextId /\ E[t].msg < nextMsg
  <2>1. \A m \in Messages(its) : m < nextMsg
    <3>1. <<"held", c>> \in Box /\ Inside(<<"held", c>>) = Messages(its)
      BY DEF Box, Inside, its, r
    <3> QED BY <3>1 DEF CopyInv, Numbered
  <2>2. \A t \in DOMAIN D : t < nextId /\ D[t].msg < nextMsg
    BY DEF CountInv, D
  <2> QED BY <1>3, <1>5, <1>9, <2>1, <2>2
<1>18. IdsDrawn'
  <2>1. ASSUME NEW d \in Actors, h'[d].op = "dequeue"
        PROVE  d # c /\ h'[d] = h[d] /\ h[d].op = "dequeue"
    BY <1>8, <2>1 DEF Idle
  <2>2. ASSUME NEW d \in Actors, d # c, h[d].op = "dequeue"
        PROVE  \A t \in Elements(h[d].ids) : t < nextId /\ t \notin DOMAIN E
    BY <1>3, <1>5, <2>2 DEF CountInv, IdsDrawn, D
  <2>3. \A d \in Actors : h[d].op = "dequeue" =>
          /\ \A i, j \in DOMAIN h[d].ids : h[d].ids[i] = h[d].ids[j] => i = j
          /\ \A e \in Actors \ {d} : h[e].op = "dequeue" =>
                Elements(h[d].ids) \cap Elements(h[e].ids) = {}
    BY DEF CountInv, IdsDrawn
  <2>4. E = delivered' /\ nextId' = nextId
    BY <1>1 DEF E
  <2> QED BY <2>1, <2>2, <2>3, <2>4 DEF IdsDrawn
<1>19. /\ \A t \in DOMAIN in_flight' : Counted(E, in_flight'[t])
       /\ \A q \in DOMAIN queues' : AllCounted(E, queues'[q])
  BY <1>1, <1>6, <1>12, <1>13, <1>14
<1> QED BY <1>1, <1>16, <1>17, <1>18, <1>19 DEF CountInv, E

\* Every step keeps the counts, as long as the process does not end.
LEMMA CountNext ==
    ASSUME TypeOK, CopyInv, CountInv, [Next]_vars, ~Restart
    PROVE  CountInv'
<1>0. Idle.items = <<>> /\ Idle.op = "idle"
  BY DEF Idle
<1>1. ASSUME NEW c \in Actors, NEW r, h' = [h EXCEPT ![c] = r], r.items = <<>>, r.op # "dequeue",
             UNCHANGED <<queues, in_flight, delivered, nextMsg, nextId>>
      PROVE  CountInv'
  BY <1>1, CountKeep
<1>2. ASSUME NEW c \in Clients, Request(c) PROVE CountInv'
  <2> c \in Actors
    BY DEF Actors
  <2>1. ASSUME NEW q \in CreateNames, CreateQueue(c, q)
        PROVE  CountInv'
    <3> DEFINE r == [op |-> "create_queue", at |-> "log", q |-> q, items |-> <<>>, ids |-> <<>>]
    <3>1. /\ h' = [h EXCEPT ![c] = r] /\ r.items = <<>> /\ r.op # "dequeue"
          /\ UNCHANGED <<queues, in_flight, delivered, nextMsg, nextId>>
      BY <2>1 DEF CreateQueue, Begin, mem, history
    <3> HIDE DEF r
    <3> QED BY <1>1, <3>1
  <2>2. ASSUME NEW t \in KnownIds, Ack(c, t) \/ Nack(c, t)
        PROVE  CountInv'
    BY <2>2, CountTakeTask DEF Ack, Nack
  <2>3. ASSUME NEW t \in KnownIds, ExtendVisibility(c, t)
        PROVE  CountInv'
    <3> DEFINE r == [op |-> "extend", at |-> "log", q |-> in_flight[t].queue,
                     items |-> <<>>, ids |-> <<t>>]
    <3>1. /\ h' = [h EXCEPT ![c] = r] /\ r.items = <<>> /\ r.op # "dequeue"
          /\ UNCHANGED <<queues, in_flight, delivered, nextMsg, nextId>>
      BY <2>3 DEF ExtendVisibility, Begin, mem, history
    <3> HIDE DEF r
    <3> QED BY <1>1, <3>1
  <2>4. ASSUME NEW ids \in IdLists, AckBatch(c, ids)
        PROVE  CountInv'
    <3> DEFINE r == [op |-> "ack_batch", at |-> "log", q |-> NoName, items |-> <<>>, ids |-> ids]
    <3>1. /\ h' = [h EXCEPT ![c] = r] /\ r.items = <<>> /\ r.op # "dequeue"
          /\ UNCHANGED <<queues, in_flight, delivered, nextMsg, nextId>>
      BY <2>4 DEF AckBatch, Begin, mem, history
    <3> HIDE DEF r
    <3> QED BY <1>1, <3>1
  <2>5. CASE Disconnect(c)
    BY <1>0, <1>1, <2>5 DEF Disconnect, mem, history
  <2> QED BY <1>2, <2>1, <2>2, <2>3, <2>4, <2>5, CountQueue, CountDequeue DEF Request
<1>3. CASE UNCHANGED <<mem, h, nextMsg, nextId, delivered>>
  BY <1>3 DEF CountInv, IdsDrawn, mem
<1>4. ASSUME NEW c \in Sweepers, Cleanup(c) PROVE CountInv'
  <2>1. ASSUME NEW t, TakeTask(c, "nack", t) PROVE CountInv'
    BY <2>1, CountTakeTask DEF Actors
  <2> QED BY <1>3, <1>4, <2>1 DEF Cleanup, Scan, CleanupNack, history
<1>5. ASSUME NEW c \in Actors, Log(c) PROVE CountInv'
  <2> DEFINE r == [h[c] EXCEPT !.at = "apply"]
  <2>1. h' = [h EXCEPT ![c] = r] /\ UNCHANGED <<queues, in_flight, nextMsg, nextId, delivered>>
    BY <1>5 DEF Log, TypeOK, mem
  <2>2. r.items = h[c].items /\ r.op = h[c].op /\ r.ids = h[c].ids
    BY DEF TypeOK, Handler
  <2> HIDE DEF r
  <2> QED BY <2>1, <2>2, CountKeep
<1>6. ASSUME NEW c \in Actors, FinishAck(c) \/ FinishExtend(c) PROVE CountInv'
  <2>1. /\ h' = [h EXCEPT ![c] = Idle]
        /\ UNCHANGED <<queues, in_flight, nextMsg, nextId, delivered>>
    BY <1>6 DEF FinishAck, FinishExtend, End, mem, history
  <2> QED BY <1>0, <1>1, <2>1
<1>7. ASSUME NEW c \in Actors, FinishAckBatch(c) PROVE CountInv'
  <2>1. /\ h' = [h EXCEPT ![c] = Idle] /\ in_flight' = Without(in_flight, Elements(h[c].ids))
        /\ UNCHANGED <<queues, nextMsg, nextId, delivered>>
    BY <1>7 DEF FinishAckBatch, End
  <2>2. \A t \in DOMAIN in_flight' : t \in DOMAIN in_flight /\ in_flight'[t] = in_flight[t]
    BY <2>1 DEF Without
  <2> QED BY <1>0, <2>1, <2>2, CountKeep
<1>8. CASE UNCHANGED vars
  BY <1>3, <1>8 DEF vars, history
<1> QED BY <1>2, <1>4, <1>5, <1>6, <1>7, <1>8, CountLogFail, CountFinishPut, CountFinishDequeue
        DEF Next, Proceed

\* The inductive invariant holds throughout.
LEMMA CountAlways == MaxCrashes = 0 => (Spec => [](TypeOK /\ CountInv))
<1> SUFFICES ASSUME MaxCrashes = 0 PROVE Spec => [](TypeOK /\ CountInv)
  OBVIOUS
<1>1. Init => CountInv
  BY DEF Init, Empty, Idle, CountInv, IdsDrawn, AllCounted, Elements
<1>2. TypeOK /\ CopyInv /\ CountInv /\ [Next]_vars => CountInv'
  <2> SUFFICES ASSUME TypeOK, CopyInv, CountInv, [Next]_vars PROVE CountInv'
    OBVIOUS
  <2>1. ~Restart
    BY DEF Restart, TypeOK
  <2> QED BY <2>1, CountNext
<1> QED BY <1>1, <1>2, CopyInvariant, PTL DEF Spec

\* The counter of attempts of a message is the number of deliveries that were
\* answered, wherever the message is and whatever failed or raced in between,
\* on a server whose process does not end.
THEOREM AttemptsAreDeliveries == MaxCrashes = 0 => (Spec => []AttemptsCounted)
<1> SUFFICES ASSUME MaxCrashes = 0 PROVE Spec => []AttemptsCounted
  OBVIOUS
<1>1. TypeOK /\ CountInv => AttemptsCounted
  <2> SUFFICES ASSUME TypeOK, CountInv, NEW p \in Places
               PROVE  AttemptsAt(p) = Cardinality(DeliveriesOf(MessageAt(p)))
    BY DEF AttemptsCounted
  <2>0. ASSUME NEW x, Counted(delivered, x), MessageAt(p) = x.msg, AttemptsAt(p) = x.attempts
        PROVE  AttemptsAt(p) = Cardinality(DeliveriesOf(MessageAt(p)))
    BY <2>0 DEF Counted, DeliveriesOf
  <2>1. ASSUME NEW q \in DOMAIN queues, NEW i \in DOMAIN queues[q], p = <<"queue", q, i>>
        PROVE  AttemptsAt(p) = Cardinality(DeliveriesOf(MessageAt(p)))
    <3>1. MessageAt(p) = queues[q][i].msg /\ AttemptsAt(p) = queues[q][i].attempts
      BY <2>1 DEF MessageAt, AttemptsAt
    <3>2. Counted(delivered, queues[q][i])
      BY CountNow DEF AllCounted, Elements
    <3> QED BY <2>0, <3>1, <3>2
  <2>2. ASSUME NEW t \in DOMAIN in_flight, p = <<"flight", t, 0>>
        PROVE  AttemptsAt(p) = Cardinality(DeliveriesOf(MessageAt(p)))
    <3>1. MessageAt(p) = in_flight[t].msg /\ AttemptsAt(p) = in_flight[t].attempts
      BY <2>2 DEF MessageAt, AttemptsAt
    <3> QED BY <2>0, <3>1, CountNow
  <2>3. ASSUME NEW c \in Actors, NEW i \in DOMAIN h[c].items, p = <<"held", c, i>>
        PROVE  AttemptsAt(p) = Cardinality(DeliveriesOf(MessageAt(p)))
    <3>1. MessageAt(p) = h[c].items[i].msg /\ AttemptsAt(p) = h[c].items[i].attempts
      BY <2>3 DEF MessageAt, AttemptsAt
    <3>2. Counted(delivered, h[c].items[i])
      BY CountNow DEF AllCounted, Elements
    <3> QED BY <2>0, <3>1, <3>2
  <2> QED BY <2>1, <2>2, <2>3, PlaceInBox
<1> QED BY <1>1, CountAlways, PTL
-----------------------------------------------------------------------------
(***************************************************************************)
(* How often a message is delivered from the queue it was sent to.         *)
(***************************************************************************)
\* Every item may be delivered once more.
AllYoung(s) == \A x \in Elements(s) : x.attempts < MaxAttempts

\* So it is in a queue that is not a DLQ and in the hands of a dequeue from it.
YoungInv ==
    /\ \A q \in DOMAIN queues : q[2] = 0 => AllYoung(queues[q])
    /\ \A c \in Actors : h[c].op = "dequeue" /\ h[c].q[2] = 0 => AllYoung(h[c].items)

\* The request of c becomes r, and no queue changes but q.
YoungStep(c, r, q) ==
    /\ h' = [h EXCEPT ![c] = r]
    /\ \A x \in DOMAIN queues' : x # q => x \in DOMAIN queues /\ queues'[x] = queues[x]
    /\ q \in DOMAIN queues' /\ q[2] = 0 => AllYoung(queues'[q])
    /\ r.op = "dequeue" /\ r.q[2] = 0 => AllYoung(r.items)

\* Such a step keeps the bound of the attempts.
LEMMA YoungKept ==
    ASSUME TypeOK, YoungInv, NEW c \in Actors, NEW r, NEW q, YoungStep(c, r, q)
    PROVE  YoungInv'
<1>1. h'[c] = r /\ \A d \in Actors : d # c => h'[d] = h[d]
  BY DEF TypeOK, YoungStep
<1> QED BY <1>1 DEF YoungInv, YoungStep

\* A step that changes no queue, and after which c does not begin a dequeue.
LEMMA YoungKeep ==
    ASSUME TypeOK, YoungInv, NEW c \in Actors, NEW r, h' = [h EXCEPT ![c] = r], UNCHANGED queues,
           \/ r.op # "dequeue"
           \/ r.op = h[c].op /\ r.q = h[c].q /\ r.items = h[c].items
    PROVE  YoungInv'
<1>1. YoungStep(c, r, NoName)
  BY DEF YoungInv, YoungStep
<1> QED BY <1>1, YoungKept

\* The parts of a deque.
LEMMA YoungParts ==
    ASSUME NEW s \in Seq(Item), NEW r \in Seq(Item), NEW n \in Nat, AllYoung(s)
    PROVE  /\ AllYoung(r) => AllYoung(s \o r) /\ AllYoung(r \o s)
           /\ AllYoung(FirstOf(s, n)) /\ AllYoung(RestOf(s, n))
BY ElementsParts DEF AllYoung

\* Every request and the cleanup loop.
LEMMA YoungBegin ==
    ASSUME TypeOK, YoungInv, NEW c \in Actors, Request(c) \/ Cleanup(c)
    PROVE  YoungInv'
<1>1. ASSUME NEW op, NEW q, NEW items, NEW ids, Begin(c, op, q, items, ids), op # "dequeue",
             UNCHANGED queues
      PROVE  YoungInv'
  <2> DEFINE r == [op |-> op, at |-> "log", q |-> q, items |-> items, ids |-> ids]
  <2>1. h' = [h EXCEPT ![c] = r] /\ r.op # "dequeue"
    BY <1>1 DEF Begin
  <2> HIDE DEF r
  <2> QED BY <1>1, <2>1, YoungKeep
<1>2. ASSUME NEW op \in {"ack", "nack"}, NEW t, TakeTask(c, op, t) PROVE YoungInv'
  BY <1>1, <1>2 DEF TakeTask
<1>3. ASSUME NEW q \in ReqNames, NEW n \in 1..MaxBatch, Dequeue(c, q, n) PROVE YoungInv'
  <2> DEFINE items == FirstOf(queues[q], n)
             r == [op |-> "dequeue", at |-> "log", q |-> q, items |-> items,
                   ids |-> NewIds(Len(items))]
  <2>1. /\ h' = [h EXCEPT ![c] = r] /\ q \in DOMAIN queues /\ n \in Nat
        /\ queues' = PopFront(queues, q, n)
    BY <1>3 DEF Dequeue, Begin
  <2>2. /\ queues[q] \in Seq(Item) /\ queues'[q] = RestOf(queues[q], n)
        /\ \A x \in DOMAIN queues' : x # q => x \in DOMAIN queues /\ queues'[x] = queues[x]
    BY <2>1 DEF PopFront, TypeOK, IsQueueMap, IsMap
  <2>3. q[2] = 0 => AllYoung(queues[q])
    BY <2>1 DEF YoungInv
  <2>4. q[2] = 0 => AllYoung(items) /\ AllYoung(RestOf(queues[q], n))
    BY <2>1, <2>2, <2>3, YoungParts
  <2>5. r.items = items /\ r.q = q
    OBVIOUS
  <2> HIDE DEF r, items
  <2>6. YoungStep(c, r, q)
    BY <2>1, <2>2, <2>4, <2>5 DEF YoungStep
  <2> QED BY <2>6, YoungKept
<1>4. CASE Disconnect(c)
  <2>1. h' = [h EXCEPT ![c] = Idle] /\ UNCHANGED queues /\ Idle.op # "dequeue"
    BY <1>4 DEF Disconnect, mem, Idle
  <2> QED BY <2>1, YoungKeep
<1>5. CASE Cleanup(c)
  <2>1. CASE UNCHANGED <<queues, h>>
    BY <2>1 DEF YoungInv
  <2> QED BY <1>2, <1>5, <2>1 DEF Cleanup, Scan, CleanupNack, mem
<1>6. CASE Request(c)
  <2>1. ASSUME NEW q \in CreateNames, CreateQueue(c, q) PROVE YoungInv'
    BY <1>1, <2>1 DEF CreateQueue, mem
  <2>2. ASSUME NEW q \in ReqNames, NEW n \in 1..MaxBatch, Queue(c, q, n) PROVE YoungInv'
    BY <1>1, <2>2 DEF Queue, mem
  <2>3. ASSUME NEW t \in KnownIds, Ack(c, t) \/ Nack(c, t) PROVE YoungInv'
    BY <1>2, <2>3 DEF Ack, Nack
  <2>4. ASSUME NEW t \in KnownIds, ExtendVisibility(c, t) PROVE YoungInv'
    BY <1>1, <2>4 DEF ExtendVisibility, mem
  <2>5. ASSUME NEW ids \in IdLists, AckBatch(c, ids) PROVE YoungInv'
    BY <1>1, <2>5 DEF AckBatch, mem
  <2> QED BY <1>3, <1>4, <1>6, <2>1, <2>2, <2>3, <2>4, <2>5 DEF Request
<1> QED BY <1>5, <1>6

\* Every later stage.
LEMMA YoungProceed ==
    ASSUME TypeOK, RetryInv, YoungInv, NEW c \in Actors, Proceed(c)
    PROVE  YoungInv'
<1> USE QueueStateAssumption
<1> DEFINE r == h[c]
<1>0. /\ r.items \in Seq(Item) /\ HandlerOK(r, DOMAIN delivered) /\ Idle.op # "dequeue"
      /\ \A q \in DOMAIN queues : queues[q] \in Seq(Item)
  BY DEF TypeOK, Handler, Idle, IsQueueMap, IsMap
<1>1. CASE Log(c)
  <2> DEFINE s == [r EXCEPT !.at = "apply"]
  <2>1. h' = [h EXCEPT ![c] = s] /\ UNCHANGED queues
    BY <1>1 DEF Log, TypeOK, mem
  <2>2. s.items = r.items /\ s.op = r.op /\ s.q = r.q
    BY DEF TypeOK, Handler
  <2> HIDE DEF s
  <2> QED BY <2>1, <2>2, YoungKeep
<1>2. CASE h' = [h EXCEPT ![c] = Idle] /\ UNCHANGED queues
  BY <1>0, <1>2, YoungKeep
<1>3. CASE LogFail(c)
  <2>1. h' = [h EXCEPT ![c] = Idle] /\ Compensate(r)
    BY <1>3 DEF LogFail
  <2>2. CASE r.op = "dequeue" /\ r.q \in DOMAIN queues
    <3>1. /\ queues'[r.q] = r.items \o queues[r.q]
          /\ \A x \in DOMAIN queues' : x # r.q => x \in DOMAIN queues /\ queues'[x] = queues[x]
      BY <2>1, <2>2 DEF Compensate, PushFront, TypeOK, IsQueueMap, IsMap
    <3>2. r.q[2] = 0 => AllYoung(r.items) /\ AllYoung(queues[r.q])
      BY <2>2 DEF YoungInv
    <3>3. r.q[2] = 0 => AllYoung(r.items \o queues[r.q])
      BY <1>0, <2>2, <3>2, YoungParts, 0 \in Nat
    <3>4. YoungStep(c, Idle, r.q)
      BY <1>0, <2>1, <3>1, <3>3 DEF YoungStep
    <3> QED BY <3>4, YoungKept
  <2>3. CASE ~(r.op = "dequeue" /\ r.q \in DOMAIN queues)
    <3>1. UNCHANGED queues
      BY <2>1, <2>3 DEF Compensate, PushFront, TypeOK, IsQueueMap, IsMap
    <3> QED BY <1>2, <2>1, <3>1
  <2> QED BY <2>2, <2>3
<1>4. CASE FinishCreate(c)
  <2>1. h' = [h EXCEPT ![c] = Idle] /\ queues' = Insert(queues, r.q, <<>>)
    BY <1>4 DEF FinishCreate, End
  <2>2. /\ \A x \in DOMAIN queues' : x # r.q => x \in DOMAIN queues /\ queues'[x] = queues[x]
        /\ AllYoung(queues'[r.q])
    BY <2>1 DEF Insert, AllYoung, Elements
  <2>3. YoungStep(c, Idle, r.q)
    BY <1>0, <2>1, <2>2 DEF YoungStep
  <2> QED BY <2>3, YoungKept
<1>5. CASE FinishQueue(c)
  <2>1. h' = [h EXCEPT ![c] = Idle] /\ queues' = Enqueue(queues, r.q, r.items) /\ r.op = "queue"
    BY <1>5 DEF FinishQueue, End
  <2>2. CASE r.q \in DOMAIN queues
    <3>1. /\ queues'[r.q] = queues[r.q] \o r.items
          /\ \A x \in DOMAIN queues' : x # r.q => x \in DOMAIN queues /\ queues'[x] = queues[x]
      BY <2>1, <2>2 DEF Enqueue, PushBack, TypeOK, IsQueueMap, IsMap
    <3>2. AllYoung(r.items)
      <4>1. AllFresh(r.items)
        BY <2>1 DEF RetryInv, SortedHeld
      <4> QED BY <4>1 DEF AllFresh, AllYoung, Elements
    <3>3. r.q[2] = 0 => AllYoung(queues[r.q] \o r.items)
      BY <1>0, <2>2, <3>2, YoungParts, 0 \in Nat DEF YoungInv
    <3>4. YoungStep(c, Idle, r.q)
      BY <1>0, <2>1, <3>1, <3>3 DEF YoungStep
    <3> QED BY <3>4, YoungKept
  <2> QED BY <1>2, <2>1, <2>2 DEF Enqueue
<1>6. CASE FinishNack(c)
  <2> DEFINE item == r.items[1]
  <2>1. /\ h' = [h EXCEPT ![c] = Idle] /\ queues' = Requeue(queues, r.q, item)
        /\ r.q \in Name /\ item \in Item
    BY <1>0, <1>6 DEF FinishNack, End, HandlerOK
  <2>2. CASE item.attempts >= MaxAttempts
    <3> DEFINE d == Dlq(r.q)
    <3>1. \A x \in DOMAIN queues' : x # d => x \in DOMAIN queues /\ queues'[x] = queues[x]
      BY <2>1, <2>2 DEF Requeue, Insert
    <3>2. d[2] # 0
      BY <2>1 DEF Dlq, Name
    <3> HIDE DEF d
    <3>3. YoungStep(c, Idle, d)
      BY <1>0, <2>1, <3>1, <3>2 DEF YoungStep
    <3> QED BY <3>3, YoungKept
  <2>3. CASE ~(item.attempts >= MaxAttempts) /\ r.q \in DOMAIN queues
    <3>1. /\ queues'[r.q] = <<item>> \o queues[r.q]
          /\ \A x \in DOMAIN queues' : x # r.q => x \in DOMAIN queues /\ queues'[x] = queues[x]
      BY <2>1, <2>3 DEF Requeue, PushFront, TypeOK, IsQueueMap, IsMap
    <3>2. item.attempts < MaxAttempts
      BY <2>1, <2>3 DEF Item
    <3>3. AllYoung(<<item>>) /\ <<item>> \in Seq(Item)
      BY <2>1, <3>2 DEF AllYoung, Elements
    <3> HIDE DEF item
    <3>4. r.q[2] = 0 => AllYoung(<<item>> \o queues[r.q])
      BY <1>0, <2>3, <3>3, YoungParts, 0 \in Nat DEF YoungInv
    <3>5. YoungStep(c, Idle, r.q)
      BY <1>0, <2>1, <3>1, <3>4 DEF YoungStep
    <3> QED BY <3>5, YoungKept
  <2> QED BY <1>2, <2>1, <2>2, <2>3 DEF Requeue
<1>7. CASE FinishDequeue(c) \/ FinishAck(c) \/ FinishExtend(c) \/ FinishAckBatch(c)
  BY <1>2, <1>7 DEF FinishDequeue, FinishAck, FinishExtend, FinishAckBatch, End, mem
<1> QED BY <1>1, <1>3, <1>4, <1>5, <1>6, <1>7 DEF Proceed

\* A dequeue that is answered stays within the bound: the deliveries of its
\* messages are counted, and what it took could be delivered once more.
LEMMA BoundFinishDequeue ==
    ASSUME TypeOK, CountInv, CountInv', YoungInv, DeliveryBound, NEW c \in Actors, FinishDequeue(c)
    PROVE  DeliveryBound'
<1> USE QueueStateAssumption
<1> DEFINE r   == h[c]
           ids == r.ids
           its == r.items
           D   == delivered
           E   == delivered'
<1>1. /\ r.op = "dequeue" /\ in_flight' = Deliver(in_flight, r.q, its, ids) /\ UNCHANGED nextId
      /\ E = [t \in DOMAIN D \cup Elements(ids) |->
                IF t \in Elements(ids)
                THEN [msg |-> its[Position(ids, t)].msg, queue |-> r.q] ELSE D[t]]
  BY DEF FinishDequeue, End
<1>2. /\ its \in Seq(Item) /\ ids \in Seq(Nat) /\ DOMAIN its = DOMAIN ids
      /\ \A t \in Elements(ids) : t \notin DOMAIN D
      /\ \A t \in DOMAIN E : t \in Nat /\ t < nextId
      /\ nextId \in Nat
  <2>1. its \in Seq(Item) /\ ids \in Seq(Nat) /\ Len(its) = Len(ids)
    BY <1>1 DEF TypeOK, Handler, HandlerOK
  <2>2. \A t \in Elements(ids) : t \in Nat /\ t \notin DOMAIN D
    BY <1>1, <2>1, ElementsType DEF CountInv, IdsDrawn
  <2>3. \A t \in DOMAIN E : t < nextId
    BY <1>1 DEF CountInv
  <2> QED BY <1>1, <2>1, <2>2, <2>3, Drawn
<1> SUFFICES ASSUME NEW m \in 0..MaxMsgs - 1
             PROVE  Cardinality({t \in DOMAIN E : E[t].msg = m /\ E[t].queue[2] = 0}) <= MaxAttempts
  <2>1. \A m \in 0..MaxMsgs - 1 :
          {t \in {u \in DOMAIN E : E[u].msg = m} : E[t].queue[2] = 0}
            = {t \in DOMAIN E : E[t].msg = m /\ E[t].queue[2] = 0}
    OBVIOUS
  <2> QED BY <2>1 DEF DeliveryBound, DeliveriesOf
<1> DEFINE S == {t \in DOMAIN E : E[t].msg = m /\ E[t].queue[2] = 0}
           T == {t \in DOMAIN E : E[t].msg = m}
<1>3. CASE \A t \in Elements(ids) : ~(E[t].msg = m /\ E[t].queue[2] = 0)
  <2>1. S = {t \in DeliveriesOf(m) : D[t].queue[2] = 0}
    BY <1>1, <1>2, <1>3 DEF DeliveriesOf
  <2> QED BY <2>1 DEF DeliveryBound
<1>4. ASSUME NEW u \in Elements(ids), E[u].msg = m, E[u].queue[2] = 0
      PROVE  Cardinality(S) <= MaxAttempts
  <2> DEFINE x == its[Position(ids, u)]
  <2>1. Position(ids, u) \in DOMAIN its
    BY <1>2, PositionType
  <2>2. x \in Elements(its) /\ x \in Item /\ r.q[2] = 0
    BY <1>1, <1>2, <1>4, <2>1 DEF Elements
  <2>3. x.attempts \in Nat /\ x.attempts < MaxAttempts
    BY <1>1, <2>2 DEF YoungInv, AllYoung, Item
  <2>4. u \in DOMAIN in_flight' /\ in_flight'[u].msg = m /\ in_flight'[u].attempts = x.attempts + 1
    BY <1>1, <1>4 DEF Deliver
  <2> HIDE DEF x
  <2>5. Cardinality(T) = x.attempts + 1
    BY <2>4 DEF CountInv, Counted
  <2>6. IsFiniteSet(T)
    <3>1. T \in SUBSET (0..nextId)
      BY <1>2
    <3>2. IsFiniteSet(0..nextId)
      BY <1>2, FS_Interval
    <3> HIDE DEF T
    <3> QED BY <3>1, <3>2, FS_Subset
  <2>7. S \in SUBSET T
    OBVIOUS
  <2> HIDE DEF S, T
  <2>8. Cardinality(S) <= Cardinality(T) /\ Cardinality(S) \in Nat
    BY <2>6, <2>7, FS_Subset, FS_CardinalityType
  <2> QED BY <2>3, <2>5, <2>8
<1> QED BY <1>3, <1>4

\* A message is handed out at most MaxAttempts times from the queue it was sent
\* to, whoever nacks it and whatever fails or races, on a server whose process
\* does not end.
THEOREM BoundedDeliveries == MaxCrashes = 0 => (Spec => []DeliveryBound)
<1> USE QueueStateAssumption
<1> SUFFICES ASSUME MaxCrashes = 0 PROVE Spec => []DeliveryBound
  OBVIOUS
<1>1. Init => YoungInv /\ DeliveryBound
  <2> SUFFICES ASSUME Init PROVE YoungInv /\ DeliveryBound
    OBVIOUS
  <2>1. YoungInv
    BY DEF Init, Empty, Idle, YoungInv
  <2>2. \A m \in 0..MaxMsgs - 1 : {t \in DeliveriesOf(m) : delivered[t].queue[2] = 0} = {}
    BY DEF Init, DeliveriesOf
  <2>3. Cardinality({}) = 0
    BY FS_EmptySet
  <2> QED BY <2>1, <2>2, <2>3 DEF DeliveryBound
<1>2. TypeOK /\ RetryInv /\ CountInv /\ CountInv' /\ YoungInv /\ DeliveryBound /\ [Next]_vars
        => YoungInv' /\ DeliveryBound'
  <2> SUFFICES ASSUME TypeOK, RetryInv, CountInv, CountInv', YoungInv, DeliveryBound, [Next]_vars
               PROVE  YoungInv' /\ DeliveryBound'
    OBVIOUS
  <2>1. ~Restart
    BY DEF Restart, TypeOK
  <2>0. ASSUME UNCHANGED delivered PROVE DeliveryBound'
    <3>1. \A m : DeliveriesOf(m)' = DeliveriesOf(m)
      BY <2>0 DEF DeliveriesOf
    <3>2. \A m : {t \in DeliveriesOf(m)' : delivered'[t].queue[2] = 0}
                   = {t \in DeliveriesOf(m) : delivered[t].queue[2] = 0}
      BY <2>0, <3>1
    <3> QED BY <3>2 DEF DeliveryBound
  <2>2. CASE UNCHANGED vars
    BY <2>0, <2>2 DEF YoungInv, vars, mem, history
  <2>3. CASE Next
    <3>1. YoungInv'
      BY <2>1, <2>3, YoungBegin, YoungProceed DEF Next, Actors
    <3>3. UNCHANGED delivered \/ \E c \in Actors : FinishDequeue(c)
      BY <2>1, <2>3 DEF Next, Request, Cleanup, Proceed, CreateQueue, Queue, Dequeue, Ack, Nack,
           TakeTask, ExtendVisibility, AckBatch, Disconnect, Scan, CleanupNack, Log, LogFail,
           FinishCreate, FinishQueue, FinishAck, FinishNack, FinishExtend, FinishAckBatch, history
    <3> QED BY <2>0, <3>1, <3>3, BoundFinishDequeue
  <2> QED BY <2>2, <2>3
<1> QED BY <1>1, <1>2, CountAlways, RetryAlways, TypeCorrect, PTL DEF Spec
-----------------------------------------------------------------------------
(***************************************************************************)
(* The refinement of TaskService.  Each lemma compares what the mapping of *)
(* StorageRefinement shows before and after a step.                        *)
(***************************************************************************)
\* The task that an ack or a nack has removed.
TaskOf(r) == [msg |-> r.items[1].msg, attempts |-> r.items[1].attempts, queue |-> r.q]

\* What the mapping shows of a queue, and of a task.
ShownQueues ==
    /\ AbstractWaiting = [q \in DOMAIN queues |-> AbstractWaiting[q]]
    /\ \A q \in DOMAIN queues :
          (\A c \in Actors : ~(h[c].op = "dequeue" /\ h[c].q = q)) => AbstractWaiting[q] = queues[q]
    /\ \A c \in Actors : h[c].op = "dequeue" /\ h[c].q \in DOMAIN queues =>
          AbstractWaiting[h[c].q] = h[c].items \o queues[h[c].q]

ShownTasks ==
    /\ AbstractLeases = [t \in DOMAIN AbstractLeases |-> AbstractLeases[t]]
    /\ \A t : t \in DOMAIN AbstractLeases <=>
          t \in DOMAIN in_flight \/ \E c \in Actors : h[c].op \in {"ack", "nack"} /\ t = h[c].ids[1]
    /\ \A t \in DOMAIN in_flight : AbstractLeases[t] = in_flight[t]
    /\ \A c \in Actors : h[c].op \in {"ack", "nack"} => AbstractLeases[h[c].ids[1]] = TaskOf(h[c])

\* A dequeue has its queue alone, so its items are in front of it.
LEMMA QueuesShown ==
    ASSUME TypeOK, OneDequeue
    PROVE  ShownQueues
<1>1. AbstractWaiting = [q \in DOMAIN queues |-> AbstractWaiting[q]]
  BY DEF AbstractWaiting
<1>2. \A q \in DOMAIN queues : AbstractWaiting[q] = PoppedFrom(q) \o queues[q]
  BY DEF AbstractWaiting
<1>3. \A q \in DOMAIN queues : queues[q] \in Seq(Item)
  BY DEF TypeOK, IsQueueMap, IsMap
<1>4. ASSUME NEW q \in DOMAIN queues, \A c \in Actors : ~(h[c].op = "dequeue" /\ h[c].q = q)
      PROVE  AbstractWaiting[q] = queues[q]
  <2>1. {c \in Actors : h[c].op = "dequeue" /\ h[c].q = q} = {}
    BY <1>4
  <2>2. PoppedFrom(q) = <<>>
    BY <2>1 DEF PoppedFrom
  <2> QED BY <1>2, <1>3, <2>2
<1>5. ASSUME NEW c \in Actors, h[c].op = "dequeue", h[c].q \in DOMAIN queues
      PROVE  AbstractWaiting[h[c].q] = h[c].items \o queues[h[c].q]
  <2>1. {d \in Actors : h[d].op = "dequeue" /\ h[d].q = h[c].q} = {c}
    BY <1>5 DEF OneDequeue
  <2>2. (CHOOSE d \in {c} : TRUE) = c
    OBVIOUS
  <2>3. PoppedFrom(h[c].q) = h[c].items
    BY <2>1, <2>2 DEF PoppedFrom
  <2> QED BY <1>2, <1>5, <2>3
<1> QED BY <1>1, <1>4, <1>5 DEF ShownQueues

\* The id an ack or a nack holds is not in flight, and no other one holds it.
LEMMA TakerId ==
    ASSUME TypeOK, IdsApart, NEW c \in Actors, h[c].op \in {"ack", "nack"}
    PROVE  /\ h[c].ids[1] \in Elements(h[c].ids)
           /\ h[c].ids[1] \notin DOMAIN in_flight
           /\ \A d \in Actors : h[d].op \in {"ack", "nack"} /\ h[d].ids[1] = h[c].ids[1] => d = c
<1>1. \A d \in Actors : h[d].op \in {"ack", "nack"} => h[d].ids[1] \in Elements(h[d].ids)
  <2> TAKE d \in Actors
  <2>1. h[d].op \in {"ack", "nack"} => h[d].ids \in Seq(Nat) /\ Len(h[d].ids) = 1
    BY DEF TypeOK, Handler, HandlerOK
  <2> QED BY <2>1 DEF Elements
<1>2. h[c].ids[1] \notin DOMAIN in_flight
  BY <1>1 DEF IdsApart, Holding
<1>3. \A d \in Actors \ {c} : h[d].op \in {"ack", "nack"} => Elements(h[c].ids) \cap Elements(h[d].ids) = {}
  BY DEF IdsApart, Holding
<1> QED BY <1>1, <1>2, <1>3

\* No two acks or nacks hold the same id, and none holds one that is in flight.
LEMMA TasksShown ==
    ASSUME TypeOK, IdsApart
    PROVE  ShownTasks
<1>1. /\ AbstractLeases = [t \in DOMAIN AbstractLeases |-> AbstractLeases[t]]
      /\ DOMAIN AbstractLeases = DOMAIN in_flight \cup {h[c].ids[1] : c \in Takers}
  BY DEF AbstractLeases
<1>2. \A t : t \in DOMAIN AbstractLeases <=>
          t \in DOMAIN in_flight \/ \E c \in Actors : h[c].op \in {"ack", "nack"} /\ t = h[c].ids[1]
  BY <1>1 DEF Takers
<1>3. \A t \in DOMAIN in_flight : AbstractLeases[t] = in_flight[t]
  BY DEF AbstractLeases
<1>4. ASSUME NEW c \in Actors, h[c].op \in {"ack", "nack"}
      PROVE  AbstractLeases[h[c].ids[1]] = TaskOf(h[c])
  <2>2. h[c].ids[1] \notin DOMAIN in_flight
    BY <1>4, TakerId
  <2>3. \A d \in Takers : h[d].ids[1] = h[c].ids[1] => d = c
    BY <1>4, TakerId DEF Takers
  <2>4. c \in Takers
    BY <1>4 DEF Takers
  <2>5. (CHOOSE d \in Takers : h[d].ids[1] = h[c].ids[1]) = c
    BY <2>3, <2>4
  <2>6. h[c].ids[1] \in {h[d].ids[1] : d \in Takers}
    BY <2>4
  <2> QED BY <2>2, <2>5, <2>6 DEF AbstractLeases, TaskOf
<1> QED BY <1>1, <1>2, <1>3, <1>4 DEF ShownTasks

\* A step of c that changes the queues of P only, where c dequeues from no
\* other one.
LEMMA QueuesAfterStep ==
    ASSUME TypeOK, ShownQueues, ShownQueues', NEW c \in Actors, NEW r, NEW P,
           h' = [h EXCEPT ![c] = r],
           h[c].op = "dequeue" => h[c].q \in P, r.op = "dequeue" => r.q \in P,
           \A q : q \notin P => (q \in DOMAIN queues' <=> q \in DOMAIN queues),
           \A q \in DOMAIN queues : q \notin P => queues'[q] = queues[q]
    PROVE  \A q \in DOMAIN queues : q \notin P => AbstractWaiting'[q] = AbstractWaiting[q]
<1> SUFFICES ASSUME NEW q \in DOMAIN queues, q \notin P
             PROVE  AbstractWaiting'[q] = AbstractWaiting[q]
  OBVIOUS
<1>1. \A d \in Actors : h'[d] = IF d = c THEN r ELSE h[d]
  BY DEF TypeOK
<1>2. q \in DOMAIN queues' /\ queues'[q] = queues[q]
  OBVIOUS
<1>3. CASE \A d \in Actors : ~(h[d].op = "dequeue" /\ h[d].q = q)
  <2>1. \A d \in Actors : ~(h'[d].op = "dequeue" /\ h'[d].q = q)
    BY <1>1, <1>3
  <2>2. AbstractWaiting'[q] = queues'[q]
    BY <1>2, <2>1 DEF ShownQueues
  <2>3. AbstractWaiting[q] = queues[q]
    BY <1>3 DEF ShownQueues
  <2> QED BY <1>2, <2>2, <2>3
<1>4. ASSUME NEW d \in Actors, h[d].op = "dequeue", h[d].q = q
      PROVE  AbstractWaiting'[q] = AbstractWaiting[q]
  <2>1. h'[d] = h[d]
    BY <1>1, <1>4
  <2>2. AbstractWaiting[q] = h[d].items \o queues[q]
    BY <1>4 DEF ShownQueues
  <2>3. AbstractWaiting'[q] = h'[d].items \o queues'[q]
    BY <1>2, <1>4, <2>1 DEF ShownQueues
  <2> QED BY <1>2, <2>1, <2>2, <2>3
<1> QED BY <1>3, <1>4

\* A step of c that changes the tasks of T only, where c takes no other one.
LEMMA TasksAfterStep ==
    ASSUME TypeOK, ShownTasks, ShownTasks', NEW c \in Actors, NEW r, NEW T,
           h' = [h EXCEPT ![c] = r],
           h[c].op \in {"ack", "nack"} => h[c].ids[1] \in T, r.op \in {"ack", "nack"} => r.ids[1] \in T,
           \A t : t \notin T => (t \in DOMAIN in_flight' <=> t \in DOMAIN in_flight),
           \A t \in DOMAIN in_flight : t \notin T => in_flight'[t] = in_flight[t]
    PROVE  \A t : t \notin T =>
              /\ t \in DOMAIN AbstractLeases' <=> t \in DOMAIN AbstractLeases
              /\ t \in DOMAIN AbstractLeases => AbstractLeases'[t] = AbstractLeases[t]
<1> SUFFICES ASSUME NEW t, t \notin T
             PROVE  /\ t \in DOMAIN AbstractLeases' <=> t \in DOMAIN AbstractLeases
                    /\ t \in DOMAIN AbstractLeases => AbstractLeases'[t] = AbstractLeases[t]
  OBVIOUS
<1>1. \A d \in Actors : h'[d] = IF d = c THEN r ELSE h[d]
  BY DEF TypeOK
<1>2. CASE t \in DOMAIN in_flight
  <2>1. t \in DOMAIN in_flight' /\ in_flight'[t] = in_flight[t]
    BY <1>2
  <2>2. AbstractLeases[t] = in_flight[t] /\ t \in DOMAIN AbstractLeases
    BY <1>2 DEF ShownTasks
  <2>3. AbstractLeases'[t] = in_flight'[t] /\ t \in DOMAIN AbstractLeases'
    BY <2>1 DEF ShownTasks
  <2> QED BY <2>1, <2>2, <2>3
<1>3. ASSUME NEW d \in Actors, h[d].op \in {"ack", "nack"}, t = h[d].ids[1]
      PROVE  /\ t \in DOMAIN AbstractLeases' /\ t \in DOMAIN AbstractLeases
             /\ AbstractLeases'[t] = AbstractLeases[t]
  <2>1. h'[d] = h[d]
    BY <1>1, <1>3
  <2>2. AbstractLeases[t] = TaskOf(h[d]) /\ t \in DOMAIN AbstractLeases
    BY <1>3 DEF ShownTasks
  <2>3. AbstractLeases'[t] = TaskOf(h'[d]) /\ t \in DOMAIN AbstractLeases'
    BY <1>3, <2>1 DEF ShownTasks
  <2> QED BY <2>1, <2>2, <2>3
<1>4. CASE t \notin DOMAIN in_flight /\ ~(\E d \in Actors : h[d].op \in {"ack", "nack"} /\ t = h[d].ids[1])
  <2>1. t \notin DOMAIN in_flight' /\ ~(\E d \in Actors : h'[d].op \in {"ack", "nack"} /\ t = h'[d].ids[1])
    BY <1>1, <1>4
  <2>2. t \notin DOMAIN AbstractLeases
    BY <1>4 DEF ShownTasks
  <2>3. t \notin DOMAIN AbstractLeases'
    BY <2>1 DEF ShownTasks
  <2> QED BY <2>2, <2>3
<1> QED BY <1>2, <1>3, <1>4

\* What the requests are known to be when the mapping is compared over a step.
RefInv ==
    /\ NoLossInv /\ Apart /\ OneDequeue /\ SortedHeld /\ IdsDrawn
    /\ ShownQueues /\ ShownTasks

\* A step that shows nothing.
Hidden == /\ AbstractWaiting' = AbstractWaiting
          /\ AbstractLeases' = AbstractLeases
          /\ acked' = acked

\* What a step may show.
Allowed == Service!Next \/ ForfeitedAck \/ RacedAckBatch

LEMMA RefParts ==
    ASSUME RefInv
    PROVE  /\ TypeOK /\ CreateFresh /\ IdsApart /\ QueuesExist
           /\ Apart /\ OneDequeue /\ SortedHeld /\ IdsDrawn /\ ShownQueues /\ ShownTasks
           /\ DOMAIN AbstractWaiting = DOMAIN queues
           /\ \A q \in DOMAIN queues : queues[q] \in Seq(Item) /\ q \in Name
           /\ \A c \in Actors : h[c] \in Handler /\ HandlerOK(h[c], DOMAIN delivered)
           /\ \A c \in Actors : h[c].items \in Seq(Item) /\ h[c].ids \in Seq(Nat)
<1>1. TypeOK /\ ShownQueues
  BY DEF RefInv, NoLossInv
<1>2. DOMAIN AbstractWaiting = DOMAIN queues
  BY <1>1 DEF ShownQueues
<1>3. \A q \in DOMAIN queues : queues[q] \in Seq(Item) /\ q \in Name
  BY <1>1 DEF TypeOK, IsQueueMap, IsMap
<1>4. \A c \in Actors : h[c] \in Handler /\ HandlerOK(h[c], DOMAIN delivered)
  BY <1>1 DEF TypeOK
<1>5. \A c \in Actors : h[c].items \in Seq(Item) /\ h[c].ids \in Seq(Nat)
  BY <1>4 DEF Handler
<1> QED BY <1>1, <1>2, <1>3, <1>4, <1>5 DEF RefInv, NoLossInv

\* The queues look the same after the step when those of P do.
LEMMA QueuesSame ==
    ASSUME RefInv, RefInv', NEW c \in Actors, NEW r, NEW P, h' = [h EXCEPT ![c] = r],
           h[c].op = "dequeue" => h[c].q \in P, r.op = "dequeue" => r.q \in P,
           DOMAIN queues' = DOMAIN queues,
           \A q \in DOMAIN queues : q \notin P => queues'[q] = queues[q],
           \A q \in DOMAIN queues : q \in P => AbstractWaiting'[q] = AbstractWaiting[q]
    PROVE  AbstractWaiting' = AbstractWaiting
<1>1. TypeOK /\ ShownQueues /\ ShownQueues'
  BY DEF RefInv, NoLossInv
<1>2. \A q \in DOMAIN queues : q \notin P => AbstractWaiting'[q] = AbstractWaiting[q]
  BY <1>1, QueuesAfterStep
<1>3. /\ AbstractWaiting = [q \in DOMAIN queues |-> AbstractWaiting[q]]
      /\ AbstractWaiting' = [q \in DOMAIN queues' |-> AbstractWaiting'[q]]
  BY <1>1 DEF ShownQueues
<1> QED BY <1>2, <1>3

\* The tasks look the same after the step when those of T do.
LEMMA TasksSame ==
    ASSUME RefInv, RefInv', NEW c \in Actors, NEW r, NEW T, h' = [h EXCEPT ![c] = r],
           h[c].op \in {"ack", "nack"} => h[c].ids[1] \in T, r.op \in {"ack", "nack"} => r.ids[1] \in T,
           \A t : t \notin T => (t \in DOMAIN in_flight' <=> t \in DOMAIN in_flight),
           \A t \in DOMAIN in_flight : t \notin T => in_flight'[t] = in_flight[t],
           \A t \in T : /\ t \in DOMAIN AbstractLeases' /\ t \in DOMAIN AbstractLeases
                        /\ AbstractLeases'[t] = AbstractLeases[t]
    PROVE  AbstractLeases' = AbstractLeases
<1>1. TypeOK /\ ShownTasks /\ ShownTasks'
  BY DEF RefInv, NoLossInv
<1>2. \A t : t \notin T =>
              /\ t \in DOMAIN AbstractLeases' <=> t \in DOMAIN AbstractLeases
              /\ t \in DOMAIN AbstractLeases => AbstractLeases'[t] = AbstractLeases[t]
  BY <1>1, TasksAfterStep
<1>3. DOMAIN AbstractLeases' = DOMAIN AbstractLeases
  BY <1>2
<1>4. \A t \in DOMAIN AbstractLeases : AbstractLeases'[t] = AbstractLeases[t]
  BY <1>2
<1>5. /\ AbstractLeases = [t \in DOMAIN AbstractLeases |-> AbstractLeases[t]]
      /\ AbstractLeases' = [t \in DOMAIN AbstractLeases' |-> AbstractLeases'[t]]
  BY <1>1 DEF ShownTasks
<1> QED BY <1>3, <1>4, <1>5

\* The request holds the same before and after a step that leaves the maps
\* alone.
LEMMA QuietStep ==
    ASSUME RefInv, RefInv', NEW c \in Actors, NEW r, h' = [h EXCEPT ![c] = r],
           UNCHANGED <<queues, in_flight, acked>>,
           \/ h[c].op \notin {"dequeue", "ack", "nack"} /\ r.op \notin {"dequeue", "ack", "nack"}
           \/ r.op = h[c].op /\ r.q = h[c].q /\ r.items = h[c].items /\ r.ids = h[c].ids
    PROVE  Hidden
<1>1. h'[c] = r /\ ShownQueues /\ ShownQueues' /\ ShownTasks /\ ShownTasks'
  BY DEF RefInv, NoLossInv, TypeOK
<1>2. AbstractWaiting' = AbstractWaiting
  <2> DEFINE P == IF h[c].op = "dequeue" THEN {h[c].q} ELSE {}
  <2>1. ASSUME NEW q \in DOMAIN queues, q \in P
        PROVE  AbstractWaiting'[q] = AbstractWaiting[q]
    <3>1. h[c].op = "dequeue" /\ q = h[c].q /\ h'[c].op = "dequeue" /\ h'[c].q = q /\ h'[c].items = h[c].items
      BY <1>1, <2>1
    <3>2. AbstractWaiting[q] = h[c].items \o queues[q]
      BY <1>1, <3>1 DEF ShownQueues
    <3>3. AbstractWaiting'[q] = h'[c].items \o queues'[q]
      BY <1>1, <3>1 DEF ShownQueues
    <3> QED BY <3>1, <3>2, <3>3
  <2>2. (h[c].op = "dequeue" => h[c].q \in P) /\ (r.op = "dequeue" => r.q \in P)
    OBVIOUS
  <2> HIDE DEF P
  <2> QED BY <2>1, <2>2, QueuesSame
<1>3. AbstractLeases' = AbstractLeases
  <2> DEFINE T == IF h[c].op \in {"ack", "nack"} THEN {h[c].ids[1]} ELSE {}
  <2>1. ASSUME NEW t \in T
        PROVE  /\ t \in DOMAIN AbstractLeases' /\ t \in DOMAIN AbstractLeases
               /\ AbstractLeases'[t] = AbstractLeases[t]
    <3>1. /\ h[c].op \in {"ack", "nack"} /\ t = h[c].ids[1] /\ h'[c].op \in {"ack", "nack"} /\ t = h'[c].ids[1]
          /\ h'[c].q = h[c].q /\ h'[c].items = h[c].items
      BY <1>1, <2>1
    <3>2. t \in DOMAIN AbstractLeases /\ AbstractLeases[t] = TaskOf(h[c])
      BY <1>1, <3>1 DEF ShownTasks
    <3>3. t \in DOMAIN AbstractLeases' /\ AbstractLeases'[t] = TaskOf(h'[c])
      BY <1>1, <3>1 DEF ShownTasks
    <3> QED BY <3>1, <3>2, <3>3 DEF TaskOf
  <2>2. (h[c].op \in {"ack", "nack"} => h[c].ids[1] \in T) /\ (r.op \in {"ack", "nack"} => r.ids[1] \in T)
    OBVIOUS
  <2> HIDE DEF T
  <2> QED BY <2>1, <2>2, TasksSame
<1> QED BY <1>2, <1>3 DEF Hidden

\* The items that a dequeue pops are still in front.
LEMMA DequeueHidden ==
    ASSUME RefInv, RefInv', NEW c \in Actors, NEW q, NEW n \in Nat, Dequeue(c, q, n)
    PROVE  Hidden
<1> DEFINE items == FirstOf(queues[q], n)
           r == [op |-> "dequeue", at |-> "log", q |-> q, items |-> items, ids |-> NewIds(Len(items))]
<1>1. /\ h[c] = Idle /\ h' = [h EXCEPT ![c] = r] /\ q \in DOMAIN queues /\ ~QueueLocked(q)
      /\ queues' = PopFront(queues, q, n) /\ UNCHANGED <<in_flight, acked>>
  BY DEF Dequeue, Begin, history
<1>2. h[c].op = "idle" /\ r.op = "dequeue" /\ r.q = q /\ r.items = items
  BY <1>1 DEF Idle
<1> HIDE DEF r
<1>3. TypeOK /\ ShownQueues /\ ShownQueues' /\ queues[q] \in Seq(Item) /\ h'[c] = r
  BY <1>1, RefParts DEF RefInv, TypeOK
<1>4. /\ DOMAIN queues' = DOMAIN queues /\ queues'[q] = RestOf(queues[q], n)
      /\ \A x \in DOMAIN queues : x # q => queues'[x] = queues[x]
  BY <1>1 DEF PopFront
<1>5. AbstractWaiting[q] = queues[q]
  BY <1>1, <1>3 DEF ShownQueues, QueueLocked
<1>6. AbstractWaiting'[q] = h'[c].items \o queues'[q]
  <2>1. h'[c].op = "dequeue" /\ h'[c].q = q /\ q \in DOMAIN queues'
    BY <1>1, <1>2, <1>3, <1>4
  <2> QED BY <1>3, <2>1 DEF ShownQueues
<1>7. items \o RestOf(queues[q], n) = queues[q]
  BY <1>3, SplitConcat
<1>8. AbstractWaiting'[q] = AbstractWaiting[q]
  BY <1>2, <1>3, <1>4, <1>5, <1>6, <1>7
<1>9. AbstractWaiting' = AbstractWaiting
  <2> DEFINE P == {q}
  <2>1. /\ h[c].op = "dequeue" => h[c].q \in P
        /\ r.op = "dequeue" => r.q \in P
        /\ \A x \in DOMAIN queues : x \notin P => queues'[x] = queues[x]
        /\ \A x \in DOMAIN queues : x \in P => AbstractWaiting'[x] = AbstractWaiting[x]
    BY <1>2, <1>4, <1>8
  <2> HIDE DEF P
  <2> QED BY <1>1, <1>4, <2>1, QueuesSame
<1>10. AbstractLeases' = AbstractLeases
  <2> DEFINE T == {}
  <2>1. /\ h[c].op \in {"ack", "nack"} => h[c].ids[1] \in T
        /\ r.op \in {"ack", "nack"} => r.ids[1] \in T
        /\ \A t : t \notin T => (t \in DOMAIN in_flight' <=> t \in DOMAIN in_flight)
        /\ \A t \in DOMAIN in_flight : t \notin T => in_flight'[t] = in_flight[t]
        /\ \A t \in T : /\ t \in DOMAIN AbstractLeases' /\ t \in DOMAIN AbstractLeases
                        /\ AbstractLeases'[t] = AbstractLeases[t]
    BY <1>1, <1>2
  <2> HIDE DEF T
  <2> QED BY <1>1, <2>1, TasksSame
<1> QED BY <1>1, <1>9, <1>10 DEF Hidden

\* The task that an ack or a nack removes is still leased.
LEMMA TakeTaskHidden ==
    ASSUME RefInv, RefInv', NEW c \in Actors, NEW op \in {"ack", "nack"}, NEW t, TakeTask(c, op, t)
    PROVE  Hidden
<1> DEFINE task == in_flight[t]
           item == [msg |-> task.msg, attempts |-> task.attempts]
           r == [op |-> op, at |-> "log", q |-> task.queue, items |-> <<item>>, ids |-> <<t>>]
<1>1. /\ h[c] = Idle /\ h' = [h EXCEPT ![c] = r] /\ t \in DOMAIN in_flight
      /\ in_flight' = Without(in_flight, {t}) /\ UNCHANGED <<queues, acked>>
  BY DEF TakeTask, Begin
<1>2. /\ h[c].op = "idle" /\ r.op = op /\ r.ids[1] = t
      /\ r.items[1].msg = task.msg /\ r.items[1].attempts = task.attempts /\ r.q = task.queue
  BY <1>1 DEF Idle
<1> HIDE DEF r
<1>3. TypeOK /\ ShownTasks /\ ShownTasks' /\ IdsApart /\ task \in Task /\ h'[c] = r
  BY <1>1, RefParts DEF RefInv, TypeOK, IsFlightMap, IsMap
<1>4. TaskOf(r) = task
  BY <1>2, <1>3 DEF TaskOf, Task
<1>5. DOMAIN in_flight' = DOMAIN in_flight \ {t} /\ \A x \in DOMAIN in_flight' : in_flight'[x] = in_flight[x]
  BY <1>1 DEF Without
<1>6. AbstractWaiting' = AbstractWaiting
  <2> DEFINE P == {}
  <2>1. /\ h[c].op = "dequeue" => h[c].q \in P
        /\ r.op = "dequeue" => r.q \in P
        /\ \A x \in DOMAIN queues : x \notin P => queues'[x] = queues[x]
        /\ \A x \in DOMAIN queues : x \in P => AbstractWaiting'[x] = AbstractWaiting[x]
    BY <1>1, <1>2
  <2> HIDE DEF P
  <2> QED BY <1>1, <2>1, QueuesSame
<1>7. t \in DOMAIN AbstractLeases /\ AbstractLeases[t] = task
  BY <1>1, <1>3 DEF ShownTasks
<1> DEFINE T == {t}
<1>8. /\ h[c].op \in {"ack", "nack"} => h[c].ids[1] \in T
      /\ r.op \in {"ack", "nack"} => r.ids[1] \in T
      /\ \A x : x \notin T => (x \in DOMAIN in_flight' <=> x \in DOMAIN in_flight)
      /\ \A x \in DOMAIN in_flight : x \notin T => in_flight'[x] = in_flight[x]
  BY <1>2, <1>5
<1>9. AbstractLeases' = AbstractLeases
  <2>1. t \in DOMAIN AbstractLeases' /\ AbstractLeases'[t] = TaskOf(h'[c])
    BY <1>2, <1>3 DEF ShownTasks
  <2>2. \A x \in T : /\ x \in DOMAIN AbstractLeases' /\ x \in DOMAIN AbstractLeases
                     /\ AbstractLeases'[x] = AbstractLeases[x]
    BY <1>3, <1>4, <1>7, <2>1
  <2> HIDE DEF T
  <2> QED BY <1>1, <1>8, <2>2, TasksSame
<1> QED BY <1>1, <1>6, <1>9 DEF Hidden

\* A failing append puts everything back where the mapping shows it, except
\* for an ack.
LEMMA LogFailHidden ==
    ASSUME RefInv, RefInv', NEW c \in Actors, LogFail(c), h[c].op # "ack"
    PROVE  Hidden
<1>1. h' = [h EXCEPT ![c] = Idle] /\ Compensate(h[c]) /\ acked' = acked
  BY DEF LogFail, history
<1>2. /\ TypeOK /\ IdsApart /\ QueuesExist /\ OneDequeue
      /\ ShownQueues /\ ShownQueues' /\ ShownTasks /\ ShownTasks'
  BY RefParts DEF RefInv
<1>3. \A d \in Actors : h'[d] = IF d = c THEN Idle ELSE h[d]
  BY <1>1, <1>2 DEF TypeOK
<1>4. Idle.op = "idle"
  BY DEF Idle
<1>5. AbstractWaiting' = AbstractWaiting
  <2> DEFINE P == IF h[c].op = "dequeue" THEN {h[c].q} ELSE {}
  <2>1. /\ h[c].op = "dequeue" => queues' = PushFront(queues, h[c].q, h[c].items)
        /\ h[c].op # "dequeue" => queues' = queues
    BY <1>1 DEF Compensate
  <2>2. DOMAIN queues' = DOMAIN queues
    BY <2>1 DEF PushFront
  <2>3. \A q \in DOMAIN queues : q \notin P => queues'[q] = queues[q]
    BY <2>1 DEF PushFront
  <2>4. ASSUME NEW q \in DOMAIN queues, q \in P PROVE AbstractWaiting'[q] = AbstractWaiting[q]
    <3>1. h[c].op = "dequeue" /\ q = h[c].q
      BY <2>4
    <3>2. queues'[q] = h[c].items \o queues[q]
      BY <2>1, <3>1 DEF PushFront
    <3>3. \A d \in Actors : ~(h'[d].op = "dequeue" /\ h'[d].q = q)
      BY <1>2, <1>3, <1>4, <3>1 DEF OneDequeue
    <3>4. AbstractWaiting[q] = h[c].items \o queues[q]
      BY <1>2, <3>1 DEF ShownQueues
    <3>5. AbstractWaiting'[q] = queues'[q]
      BY <1>2, <2>2, <3>3 DEF ShownQueues
    <3> QED BY <3>2, <3>4, <3>5
  <2>5. (h[c].op = "dequeue" => h[c].q \in P) /\ (Idle.op = "dequeue" => Idle.q \in P)
    BY <1>4
  <2> HIDE DEF P
  <2> QED BY <1>1, <2>2, <2>3, <2>4, <2>5, QueuesSame
<1>6. AbstractLeases' = AbstractLeases
  <2> DEFINE T == IF h[c].op = "nack" THEN {h[c].ids[1]} ELSE {}
  <2>1. /\ h[c].op = "nack" => in_flight' = Insert(in_flight, h[c].ids[1], TaskOf(h[c]))
        /\ h[c].op # "nack" => in_flight' = in_flight
    BY <1>1 DEF Compensate, TaskOf
  <2>2. /\ \A t : t \notin T => (t \in DOMAIN in_flight' <=> t \in DOMAIN in_flight)
        /\ \A t \in DOMAIN in_flight : t \notin T => in_flight'[t] = in_flight[t]
    BY <2>1 DEF Insert
  <2>3. ASSUME NEW t \in T
        PROVE  /\ t \in DOMAIN AbstractLeases' /\ t \in DOMAIN AbstractLeases
               /\ AbstractLeases'[t] = AbstractLeases[t]
    <3>1. h[c].op = "nack" /\ t = h[c].ids[1]
      BY <2>3
    <3>2. t \in DOMAIN in_flight' /\ in_flight'[t] = TaskOf(h[c])
      BY <2>1, <3>1 DEF Insert
    <3>3. t \in DOMAIN AbstractLeases /\ AbstractLeases[t] = TaskOf(h[c])
      BY <1>2, <3>1 DEF ShownTasks
    <3>4. t \in DOMAIN AbstractLeases' /\ AbstractLeases'[t] = in_flight'[t]
      BY <1>2, <3>2 DEF ShownTasks
    <3> QED BY <3>2, <3>3, <3>4
  <2>4. (h[c].op \in {"ack", "nack"} => h[c].ids[1] \in T) /\ (Idle.op \in {"ack", "nack"} => Idle.ids[1] \in T)
    BY <1>4
  <2> HIDE DEF T
  <2> QED BY <1>1, <2>2, <2>3, <2>4, TasksSame
<1> QED BY <1>1, <1>5, <1>6 DEF Hidden

\* The last stage of a request c that is no dequeue changes the queue p, which no
\* dequeue has: the mapping shows the same change.
LEMMA QueueChanged ==
    ASSUME RefInv, RefInv', NEW c \in Actors, h' = [h EXCEPT ![c] = Idle], h[c].op # "dequeue",
           NEW p, ~QueueLocked(p), NEW new, queues' = Insert(queues, p, new)
    PROVE  /\ AbstractWaiting' = Insert(AbstractWaiting, p, new)
           /\ DOMAIN AbstractWaiting = DOMAIN queues
           /\ p \in DOMAIN queues => AbstractWaiting[p] = queues[p]
<1>1. TypeOK /\ ShownQueues /\ ShownQueues' /\ DOMAIN AbstractWaiting = DOMAIN queues
  BY RefParts DEF RefInv
<1>2. \A d \in Actors : h'[d] = IF d = c THEN Idle ELSE h[d]
  BY <1>1 DEF TypeOK
<1>3. Idle.op # "dequeue"
  BY DEF Idle
<1>4. /\ \A d \in Actors : ~(h[d].op = "dequeue" /\ h[d].q = p)
      /\ \A d \in Actors : ~(h'[d].op = "dequeue" /\ h'[d].q = p)
  BY <1>2, <1>3 DEF QueueLocked
<1>5. DOMAIN queues' = DOMAIN queues \cup {p} /\ queues'[p] = new
      /\ \A q \in DOMAIN queues : q # p => queues'[q] = queues[q]
  BY DEF Insert
<1>6. p \in DOMAIN queues => AbstractWaiting[p] = queues[p]
  BY <1>1, <1>4 DEF ShownQueues
<1>7. AbstractWaiting'[p] = new
  BY <1>1, <1>4, <1>5 DEF ShownQueues
<1>8. \A q \in DOMAIN queues : q # p => AbstractWaiting'[q] = AbstractWaiting[q]
  <2> DEFINE P == {p}
  <2>1. /\ h[c].op = "dequeue" => h[c].q \in P
        /\ Idle.op = "dequeue" => Idle.q \in P
        /\ \A q : q \notin P => (q \in DOMAIN queues' <=> q \in DOMAIN queues)
        /\ \A q \in DOMAIN queues : q \notin P => queues'[q] = queues[q]
    BY <1>3, <1>5
  <2>2. \A q : q # p => q \notin P
    OBVIOUS
  <2> HIDE DEF P
  <2>3. \A q \in DOMAIN queues : q \notin P => AbstractWaiting'[q] = AbstractWaiting[q]
    BY <1>1, <2>1, QueuesAfterStep
  <2> QED BY <2>2, <2>3
<1>9. AbstractWaiting' = [q \in DOMAIN queues' |-> AbstractWaiting'[q]]
  BY <1>1 DEF ShownQueues
<1>10. AbstractWaiting' = Insert(AbstractWaiting, p, new)
  BY <1>1, <1>5, <1>7, <1>8, <1>9 DEF Insert
<1> QED BY <1>1, <1>6, <1>10

\* The last stage of a request that is no ack and no nack leaves the tasks
\* alone.
LEMMA TasksKept ==
    ASSUME RefInv, RefInv', NEW c \in Actors, h' = [h EXCEPT ![c] = Idle], h[c].op \notin {"ack", "nack"},
           UNCHANGED in_flight
    PROVE  AbstractLeases' = AbstractLeases
<1> DEFINE T == {}
<1>1. /\ h[c].op \in {"ack", "nack"} => h[c].ids[1] \in T
      /\ Idle.op \in {"ack", "nack"} => Idle.ids[1] \in T
      /\ \A t : t \notin T => (t \in DOMAIN in_flight' <=> t \in DOMAIN in_flight)
      /\ \A t \in DOMAIN in_flight : t \notin T => in_flight'[t] = in_flight[t]
      /\ \A t \in T : /\ t \in DOMAIN AbstractLeases' /\ t \in DOMAIN AbstractLeases
                      /\ AbstractLeases'[t] = AbstractLeases[t]
  BY DEF Idle
<1> HIDE DEF T
<1> QED BY <1>1, TasksSame

\* The last stage of a request that is no dequeue leaves the queues alone.
LEMMA QueuesKept ==
    ASSUME RefInv, RefInv', NEW c \in Actors, h' = [h EXCEPT ![c] = Idle], h[c].op # "dequeue",
           UNCHANGED queues
    PROVE  AbstractWaiting' = AbstractWaiting
<1> DEFINE P == {}
<1>1. /\ h[c].op = "dequeue" => h[c].q \in P
      /\ Idle.op = "dequeue" => Idle.q \in P
      /\ DOMAIN queues' = DOMAIN queues
      /\ \A q \in DOMAIN queues : q \notin P => queues'[q] = queues[q]
      /\ \A q \in DOMAIN queues : q \in P => AbstractWaiting'[q] = AbstractWaiting[q]
  BY DEF Idle
<1> HIDE DEF P
<1> QED BY <1>1, QueuesSame

\* Tasks of T leave the map, or their ack or nack ends.
LEMMA TasksDropped ==
    ASSUME RefInv, RefInv', NEW c \in Actors, h' = [h EXCEPT ![c] = Idle], NEW T,
           h[c].op \in {"ack", "nack"} => T = {h[c].ids[1]},
           h[c].op \notin {"ack", "nack"} => T \subseteq DOMAIN in_flight,
           in_flight' = Without(in_flight, T)
    PROVE  T \subseteq DOMAIN AbstractLeases /\ AbstractLeases' = Without(AbstractLeases, T)
<1>1. TypeOK /\ IdsApart /\ ShownTasks /\ ShownTasks'
  BY RefParts DEF RefInv
<1>2. \A d \in Actors : h'[d] = IF d = c THEN Idle ELSE h[d]
  BY <1>1 DEF TypeOK
<1>3. Idle.op \notin {"ack", "nack"}
  BY DEF Idle
<1>4. DOMAIN in_flight' = DOMAIN in_flight \ T /\ \A t \in DOMAIN in_flight' : in_flight'[t] = in_flight[t]
  BY DEF Without
<1>5. T \subseteq DOMAIN AbstractLeases
  BY <1>1 DEF ShownTasks
<1>6. \A t \in T : ~(\E d \in Actors : h'[d].op \in {"ack", "nack"} /\ t = h'[d].ids[1])
  BY <1>1, <1>2, <1>3, TakerId
<1>7. \A t \in T : t \notin DOMAIN AbstractLeases'
  BY <1>1, <1>4, <1>6 DEF ShownTasks
<1>8. \A t : t \notin T =>
              /\ t \in DOMAIN AbstractLeases' <=> t \in DOMAIN AbstractLeases
              /\ t \in DOMAIN AbstractLeases => AbstractLeases'[t] = AbstractLeases[t]
  <2>1. /\ h[c].op \in {"ack", "nack"} => h[c].ids[1] \in T
        /\ Idle.op \in {"ack", "nack"} => Idle.ids[1] \in T
        /\ \A t : t \notin T => (t \in DOMAIN in_flight' <=> t \in DOMAIN in_flight)
        /\ \A t \in DOMAIN in_flight : t \notin T => in_flight'[t] = in_flight[t]
    BY <1>3, <1>4
  <2> QED BY <1>1, <2>1, TasksAfterStep
<1>9. DOMAIN AbstractLeases' = DOMAIN AbstractLeases \ T
      /\ \A t \in DOMAIN AbstractLeases' : AbstractLeases'[t] = AbstractLeases[t]
  BY <1>7, <1>8
<1>10. AbstractLeases' = [t \in DOMAIN AbstractLeases' |-> AbstractLeases'[t]]
  BY <1>1 DEF ShownTasks
<1>11. AbstractLeases' = Without(AbstractLeases, T)
  BY <1>9, <1>10 DEF Without
<1> QED BY <1>5, <1>11

\* A push to a queue of a map inserts its new contents.
LEMMA PushIsInsert ==
    ASSUME NEW f, NEW D, f = [x \in D |-> f[x]], NEW q \in D, NEW items
    PROVE  /\ PushBack(f, q, items) = Insert(f, q, f[q] \o items)
           /\ PushFront(f, q, items) = Insert(f, q, items \o f[q])
<1>1. DOMAIN f = D
  OBVIOUS
<1>2. PushBack(f, q, items) = Insert(f, q, f[q] \o items)
  BY <1>1 DEF PushBack, Insert
<1>3. PushFront(f, q, items) = Insert(f, q, items \o f[q])
  BY <1>1 DEF PushFront, Insert
<1> QED BY <1>2, <1>3

\* FinishCreate is Create.
LEMMA FinishCreateIsCreate ==
    ASSUME RefInv, RefInv', NEW c \in Actors, FinishCreate(c)
    PROVE  Service!Next
<1> DEFINE q == h[c].q
<1>1. /\ h[c].op = "create_queue" /\ h' = [h EXCEPT ![c] = Idle] /\ ~QueueLocked(q)
      /\ queues' = Insert(queues, q, <<>>) /\ UNCHANGED <<in_flight, acked>>
  BY DEF FinishCreate, End, history
<1>2. q \notin DOMAIN queues
  BY <1>1, RefParts DEF CreateFresh
<1> HIDE DEF q
<1>3. AbstractWaiting' = Insert(AbstractWaiting, q, <<>>) /\ DOMAIN AbstractWaiting = DOMAIN queues
  BY <1>1, <1>2, QueueChanged
<1>4. AbstractLeases' = AbstractLeases
  BY <1>1, TasksKept
<1>5. q \in DOMAIN AbstractWaiting' \ DOMAIN AbstractWaiting
  BY <1>2, <1>3 DEF Insert
<1>6. AbstractWaiting' = Service!Insert(AbstractWaiting, q, <<>>)
  BY <1>3 DEF Insert, Service!Insert
<1>7. Service!Create
  BY <1>1, <1>4, <1>5, <1>6 DEF Service!Create
<1> QED BY <1>7 DEF Service!Next

\* The mapping shows no message that is not in the maps or in the hands of a
\* dequeue or a nack, so none that an enqueue is about to add.
LEMMA ShownMessages ==
    ASSUME RefInv, NEW c \in Actors, h[c].op = "queue"
    PROVE  Messages(h[c].items) \cap (Pending(AbstractWaiting) \cup Flying(AbstractLeases)) = {}
<1>1. /\ TypeOK /\ Apart /\ ShownQueues /\ ShownTasks /\ DOMAIN AbstractWaiting = DOMAIN queues
      /\ \A q \in DOMAIN queues : queues[q] \in Seq(Item) /\ q \in Name
      /\ \A d \in Actors : h[d] \in Handler /\ HandlerOK(h[d], DOMAIN delivered)
      /\ \A d \in Actors : h[d].items \in Seq(Item) /\ h[d].ids \in Seq(Nat)
  BY RefParts
<1>2. <<"held", c>> \in Box /\ Inside(<<"held", c>>) = Messages(h[c].items)
  BY DEF Box, Inside
<1>3. ASSUME NEW q \in DOMAIN queues PROVE Messages(h[c].items) \cap Messages(queues[q]) = {}
  <2>1. <<"queue", q>> \in Box /\ Inside(<<"queue", q>>) = Messages(queues[q])
    BY <1>1 DEF Box, Inside, Waiting
  <2>2. <<"held", c>> # <<"queue", q>>
    OBVIOUS
  <2> QED BY <1>1, <1>2, <2>1, <2>2 DEF Apart
<1>4. ASSUME NEW d \in Actors, d # c PROVE Messages(h[c].items) \cap Messages(h[d].items) = {}
  <2>1. <<"held", d>> \in Box /\ Inside(<<"held", d>>) = Messages(h[d].items)
    BY DEF Box, Inside
  <2>2. <<"held", c>> # <<"held", d>>
    BY <1>4
  <2> QED BY <1>1, <1>2, <2>1, <2>2 DEF Apart
<1>5. Messages(h[c].items) \cap Flying(in_flight) = {}
  <2>1. <<"flight", 0>> \in Box /\ Inside(<<"flight", 0>>) = Flying(in_flight)
    BY DEF Box, Inside
  <2>2. <<"held", c>> # <<"flight", 0>>
    OBVIOUS
  <2> QED BY <1>1, <1>2, <2>1, <2>2 DEF Apart
<1>6. ASSUME NEW q \in DOMAIN AbstractWaiting
      PROVE  Messages(h[c].items) \cap Messages(AbstractWaiting[q]) = {}
  <2>1. q \in DOMAIN queues
    BY <1>1
  <2>2. CASE \A d \in Actors : ~(h[d].op = "dequeue" /\ h[d].q = q)
    BY <1>1, <1>3, <2>1, <2>2 DEF ShownQueues
  <2>3. ASSUME NEW d \in Actors, h[d].op = "dequeue", h[d].q = q
        PROVE  Messages(h[c].items) \cap Messages(AbstractWaiting[q]) = {}
    <3>1. AbstractWaiting[q] = h[d].items \o queues[q] /\ d # c
      BY <1>1, <2>1, <2>3 DEF ShownQueues
    <3>2. Messages(h[d].items \o queues[q]) \subseteq Messages(h[d].items) \cup Messages(queues[q])
      BY <1>1, <2>1, ConcatDistinct
    <3> QED BY <1>3, <1>4, <2>1, <3>1, <3>2
  <2> QED BY <2>2, <2>3
<1>7. ASSUME NEW t \in DOMAIN AbstractLeases
      PROVE  AbstractLeases[t].msg \notin Messages(h[c].items)
  <2>1. CASE t \in DOMAIN in_flight
    BY <1>1, <1>5, <2>1 DEF ShownTasks, Flying
  <2>2. ASSUME NEW d \in Actors, h[d].op \in {"ack", "nack"}, t = h[d].ids[1]
        PROVE  AbstractLeases[t].msg \notin Messages(h[c].items)
    <3>1. AbstractLeases[t] = TaskOf(h[d]) /\ d # c
      BY <1>1, <2>2 DEF ShownTasks
    <3>2. AbstractLeases[t].msg = h[d].items[1].msg
      BY <3>1 DEF TaskOf
    <3>3. h[d].items \in Seq(Item) /\ Len(h[d].items) = 1
      BY <1>1, <2>2 DEF HandlerOK
    <3>4. h[d].items[1].msg \in Messages(h[d].items)
      BY <3>3 DEF Messages
    <3> QED BY <1>4, <3>1, <3>2, <3>4
  <2> QED BY <1>1, <2>1, <2>2 DEF ShownTasks
<1>8. Messages(h[c].items) \cap Pending(AbstractWaiting) = {}
  BY <1>6 DEF Pending
<1>9. Messages(h[c].items) \cap Flying(AbstractLeases) = {}
  BY <1>7 DEF Flying
<1> QED BY <1>8, <1>9

\* FinishQueue is Accept.
LEMMA FinishQueueIsAccept ==
    ASSUME RefInv, RefInv', NEW c \in Actors, FinishQueue(c)
    PROVE  Service!Next
<1> DEFINE q     == h[c].q
           items == h[c].items
           W     == AbstractWaiting
<1>1. /\ h[c].op = "queue" /\ h' = [h EXCEPT ![c] = Idle] /\ ~QueueLocked(q)
      /\ queues' = Enqueue(queues, q, items) /\ UNCHANGED <<in_flight, acked>>
  BY DEF FinishQueue, End
<1>2. /\ q \in DOMAIN queues /\ queues[q] \in Seq(Item) /\ items \in Seq(Item)
      /\ AllFresh(items) /\ ShownQueues /\ TypeOK
  BY <1>1, RefParts DEF QueuesExist, SortedHeld
<1>3. Messages(items) \cap (Pending(W) \cup Flying(AbstractLeases)) = {}
  BY <1>1, ShownMessages
<1>4. AbstractLeases' = AbstractLeases
  BY <1>1, TasksKept
<1> HIDE DEF q, items
<1>5. queues' = Insert(queues, q, queues[q] \o items)
  <2>1. queues = [x \in DOMAIN queues |-> queues[x]]
    BY <1>2 DEF TypeOK, IsQueueMap, IsMap
  <2> QED BY <1>1, <1>2, <2>1, PushIsInsert DEF Enqueue
<1>6. /\ AbstractWaiting' = Insert(W, q, queues[q] \o items)
      /\ DOMAIN W = DOMAIN queues /\ W[q] = queues[q]
  BY <1>1, <1>2, <1>5, QueueChanged
<1>7. W = [x \in DOMAIN queues |-> W[x]]
  BY <1>2 DEF ShownQueues
<1> HIDE DEF W
<1>8. AbstractWaiting' = PushBack(W, q, items)
  BY <1>2, <1>6, <1>7, PushIsInsert
<1>9. AbstractWaiting'[q] = W[q] \o items /\ W[q] \in Seq(Item)
  BY <1>2, <1>6 DEF Insert
<1>10. SubSeq(AbstractWaiting'[q], Len(W[q]) + 1, Len(AbstractWaiting'[q])) = items
  BY <1>2, <1>9, SuffixOf
<1>11. AbstractWaiting' = Service!PushBack(W, q, items)
  BY <1>8 DEF PushBack, Service!PushBack
<1>12. Service!Messages(items) \cap (Service!Pending(W) \cup Service!Flying(AbstractLeases)) = {}
  BY <1>3 DEF Pending, Flying, Messages, Service!Pending, Service!Flying, Service!Messages
<1>13. q \in DOMAIN W /\ \A i \in DOMAIN items : items[i].attempts = 0
  BY <1>2, <1>6 DEF AllFresh
<1>14. Service!Accept
  BY <1>1, <1>4, <1>10, <1>11, <1>12, <1>13 DEF Service!Accept, W
<1> QED BY <1>14 DEF Service!Next

\* Where Requeue puts an item, it puts it whatever the other queues hold.
LEMMA RequeueIsInsert ==
    ASSUME NEW f, NEW g, NEW D, f = [x \in D |-> f[x]], g = [x \in D |-> g[x]],
           NEW q \in D, NEW item, NEW p, p = (IF item.attempts >= MaxAttempts THEN Dlq(q) ELSE q),
           p \in D => f[p] = g[p]
    PROVE  \E new : Requeue(f, q, item) = Insert(f, p, new) /\ Requeue(g, q, item) = Insert(g, p, new)
<1>1. DOMAIN f = D /\ DOMAIN g = D
  OBVIOUS
<1>2. CASE item.attempts >= MaxAttempts
  <2> DEFINE new == Append(IF p \in D THEN f[p] ELSE <<>>, item)
  <2>1. Requeue(f, q, item) = Insert(f, p, new)
    BY <1>1, <1>2 DEF Requeue
  <2>2. Requeue(g, q, item) = Insert(g, p, new)
    BY <1>1, <1>2 DEF Requeue
  <2> HIDE DEF new
  <2> QED BY <2>1, <2>2
<1>3. CASE ~(item.attempts >= MaxAttempts)
  <2>1. p = q /\ Requeue(f, q, item) = PushFront(f, q, <<item>>) /\ Requeue(g, q, item) = PushFront(g, q, <<item>>)
    BY <1>1, <1>3 DEF Requeue
  <2>2. /\ PushFront(f, q, <<item>>) = Insert(f, q, <<item>> \o f[q])
        /\ PushFront(g, q, <<item>>) = Insert(g, q, <<item>> \o g[q])
    BY PushIsInsert
  <2> QED BY <2>1, <2>2
<1> QED BY <1>2, <1>3

\* FinishNack is Return.
LEMMA FinishNackIsReturn ==
    ASSUME RefInv, RefInv', NEW c \in Actors, FinishNack(c)
    PROVE  Service!Next
<1> DEFINE q    == h[c].q
           item == h[c].items[1]
           t    == h[c].ids[1]
           p    == IF item.attempts >= MaxAttempts THEN Dlq(q) ELSE q
           W    == AbstractWaiting
           L    == AbstractLeases
<1>1. /\ h[c].op = "nack" /\ h' = [h EXCEPT ![c] = Idle] /\ ~QueueLocked(p)
      /\ queues' = Requeue(queues, q, item) /\ UNCHANGED <<in_flight, acked>>
  BY DEF FinishNack, End, history
<1>2. TypeOK /\ IdsApart /\ QueuesExist /\ ShownQueues /\ ShownTasks /\ h[c].items \in Seq(Item)
      /\ HandlerOK(h[c], DOMAIN delivered)
  BY RefParts
<1>3. q \in DOMAIN queues /\ Len(h[c].items) = 1
  BY <1>1, <1>2 DEF QueuesExist, Holding, HandlerOK
<1>4. item \in Item
  BY <1>2, <1>3
<1>5. L[t] = TaskOf(h[c])
  BY <1>1, <1>2 DEF ShownTasks
<1>6. L[t].queue = q /\ L[t].msg = item.msg /\ L[t].attempts = item.attempts
  BY <1>5 DEF TaskOf
<1>7. item = [msg |-> item.msg, attempts |-> item.attempts]
  BY <1>4 DEF Item
<1>8. t \in DOMAIN L /\ L' = Without(L, {t})
  <2>1. t \notin DOMAIN in_flight
    BY <1>1, <1>2, TakerId
  <2>2. in_flight = [x \in DOMAIN in_flight |-> in_flight[x]]
    BY <1>2 DEF TypeOK, IsFlightMap, IsMap
  <2>3. in_flight' = Without(in_flight, {t})
    BY <1>1, <2>1, <2>2 DEF Without
  <2> DEFINE T == {t}
  <2>4. (h[c].op \in {"ack", "nack"} => T = {h[c].ids[1]}) /\ t \in T /\ in_flight' = Without(in_flight, T)
    BY <2>3
  <2>5. T = {t}
    OBVIOUS
  <2> HIDE DEF T, t
  <2>6. T \subseteq DOMAIN AbstractLeases /\ AbstractLeases' = Without(AbstractLeases, T)
    BY <1>1, <2>4, TasksDropped
  <2> QED BY <2>4, <2>5, <2>6
<1>9. W = [x \in DOMAIN queues |-> W[x]] /\ queues = [x \in DOMAIN queues |-> queues[x]]
  BY <1>2 DEF ShownQueues, TypeOK, IsQueueMap, IsMap
<1>10. p \in DOMAIN queues => W[p] = queues[p]
  BY <1>1, <1>2 DEF ShownQueues, QueueLocked
<1> HIDE DEF q, item, t, W, L
<1>11. PICK new : Requeue(queues, q, item) = Insert(queues, p, new) /\ Requeue(W, q, item) = Insert(W, p, new)
  <2> DEFINE D == DOMAIN queues
  <2>1. /\ queues = [x \in D |-> queues[x]] /\ W = [x \in D |-> W[x]] /\ q \in D
        /\ p = (IF item.attempts >= MaxAttempts THEN Dlq(q) ELSE q)
        /\ p \in D => queues[p] = W[p]
    BY <1>3, <1>9, <1>10
  <2> HIDE DEF D, p
  <2> QED BY <2>1, RequeueIsInsert
<1> HIDE DEF p
<1>12. AbstractWaiting' = Insert(AbstractWaiting, p, new)
  BY <1>1, <1>11, QueueChanged
<1>13. AbstractWaiting' = Requeue(W, q, item)
  BY <1>11, <1>12 DEF W
<1>14. \A f, x, i : Requeue(f, x, i) = Service!Requeue(f, x, i)
  BY DEF Requeue, Service!Requeue, Insert, Service!Insert, PushFront, Service!PushFront, Dlq, Service!Dlq
<1>15. AbstractWaiting' = Service!Requeue(W, L[t].queue, [msg |-> L[t].msg, attempts |-> L[t].attempts])
  BY <1>6, <1>7, <1>13, <1>14
<1>16. AbstractLeases' = Service!Without(L, {t})
  BY <1>8 DEF Without, Service!Without, L
<1>17. L[t].queue \in DOMAIN W
  BY <1>3, <1>6, <1>9
<1>18. Service!Return
  BY <1>1, <1>8, <1>15, <1>16, <1>17 DEF Service!Return, W, L
<1> QED BY <1>18 DEF Service!Next

\* Tasks that are leased are gone, and answered Ok.
LEMMA DropIsSettle ==
    ASSUME NEW S, S \subseteq DOMAIN AbstractLeases, S # {},
           AbstractLeases' = Without(AbstractLeases, S), AbstractWaiting' = AbstractWaiting,
           acked' = acked \cup S
    PROVE  Service!Next
<1>1. AbstractLeases' = Service!Without(AbstractLeases, S)
  BY DEF Without, Service!Without
<1>2. S \in (SUBSET DOMAIN AbstractLeases) \ {{}}
  OBVIOUS
<1>3. Service!Settle
  BY <1>1, <1>2 DEF Service!Settle
<1> QED BY <1>3 DEF Service!Next

\* The lease of an ack ends with it.
LEMMA AckGone ==
    ASSUME RefInv, RefInv', NEW c \in Actors, h[c].op = "ack", h' = [h EXCEPT ![c] = Idle],
           UNCHANGED <<queues, in_flight>>
    PROVE  /\ AbstractWaiting' = AbstractWaiting
           /\ {h[c].ids[1]} \subseteq DOMAIN AbstractLeases
           /\ AbstractLeases' = Without(AbstractLeases, {h[c].ids[1]})
           /\ Elements(h[c].ids) = {h[c].ids[1]}
<1>1. TypeOK /\ IdsApart /\ HandlerOK(h[c], DOMAIN delivered) /\ h[c].ids \in Seq(Nat)
  BY RefParts
<1>2. h[c].ids[1] \notin DOMAIN in_flight
  BY <1>1, TakerId
<1>3. in_flight = [x \in DOMAIN in_flight |-> in_flight[x]]
  BY <1>1 DEF TypeOK, IsFlightMap, IsMap
<1>4. in_flight' = Without(in_flight, {h[c].ids[1]})
  BY <1>2, <1>3 DEF Without
<1> DEFINE T == {h[c].ids[1]}
<1>5. T = {h[c].ids[1]} /\ in_flight' = Without(in_flight, T)
  BY <1>4
<1> HIDE DEF T
<1>6. T \subseteq DOMAIN AbstractLeases /\ AbstractLeases' = Without(AbstractLeases, T)
  BY <1>5, TasksDropped
<1>7. AbstractWaiting' = AbstractWaiting
  BY QueuesKept
<1>8. Elements(h[c].ids) = {h[c].ids[1]}
  <2>1. Len(h[c].ids) = 1
    BY <1>1 DEF HandlerOK
  <2> QED BY <1>1, <2>1 DEF Elements
<1> QED BY <1>5, <1>6, <1>7, <1>8

\* FinishAck is Settle of its task.
LEMMA FinishAckIsSettle ==
    ASSUME RefInv, RefInv', NEW c \in Actors, FinishAck(c)
    PROVE  Service!Next
<1>1. /\ h[c].op = "ack" /\ h' = [h EXCEPT ![c] = Idle] /\ UNCHANGED <<queues, in_flight>>
      /\ acked' = acked \cup Elements(h[c].ids)
  BY DEF FinishAck, End, mem
<1>2. /\ AbstractWaiting' = AbstractWaiting
      /\ {h[c].ids[1]} \subseteq DOMAIN AbstractLeases
      /\ AbstractLeases' = Without(AbstractLeases, {h[c].ids[1]})
      /\ Elements(h[c].ids) = {h[c].ids[1]}
  BY <1>1, AckGone
<1> DEFINE S == {h[c].ids[1]}
<1>3. /\ S \subseteq DOMAIN AbstractLeases /\ S # {} /\ acked' = acked \cup S
      /\ AbstractLeases' = Without(AbstractLeases, S) /\ AbstractWaiting' = AbstractWaiting
  BY <1>1, <1>2
<1> HIDE DEF S
<1> QED BY <1>3, DropIsSettle

\* An ack that fails or is dropped is a ForfeitedAck.
LEMMA AckForfeited ==
    ASSUME RefInv, RefInv', NEW c \in Actors, h[c].op = "ack", LogFail(c) \/ Disconnect(c)
    PROVE  ForfeitedAck
<1>1. h' = [h EXCEPT ![c] = Idle] /\ acked' = acked
  BY DEF LogFail, Disconnect, history
<1>2. UNCHANGED <<queues, in_flight>>
  BY DEF LogFail, Disconnect, Compensate, mem
<1>3. AbstractWaiting' = AbstractWaiting /\ AbstractLeases' = Without(AbstractLeases, {h[c].ids[1]})
  BY <1>1, <1>2, AckGone
<1> QED BY <1>1, <1>3 DEF ForfeitedAck

\* FinishAckBatch is Settle of all its tasks, unless it is a RacedAckBatch.
LEMMA FinishAckBatchShown ==
    ASSUME RefInv, RefInv', NEW c \in Actors, FinishAckBatch(c)
    PROVE  Allowed \/ Hidden
<1>1. /\ h[c].op = "ack_batch" /\ h' = [h EXCEPT ![c] = Idle]
      /\ in_flight' = Without(in_flight, Elements(h[c].ids)) /\ UNCHANGED queues
      /\ acked' = acked \cup Elements(h[c].ids)
  BY DEF FinishAckBatch, End
<1> DEFINE S == Elements(h[c].ids) \cap DOMAIN in_flight
<1>2. in_flight' = Without(in_flight, S) /\ S \subseteq DOMAIN in_flight
  BY <1>1 DEF Without
<1>3. S = Elements(h[c].ids) \cap DOMAIN in_flight
  OBVIOUS
<1> HIDE DEF S
<1>4. S \subseteq DOMAIN AbstractLeases /\ AbstractLeases' = Without(AbstractLeases, S)
  BY <1>1, <1>2, TasksDropped
<1>5. AbstractWaiting' = AbstractWaiting
  BY <1>1, QueuesKept
<1>6. CASE ~(Elements(h[c].ids) \subseteq DOMAIN in_flight)
  BY <1>3, <1>4, <1>5, <1>6 DEF RacedAckBatch, Allowed
<1>7. CASE Elements(h[c].ids) \subseteq DOMAIN in_flight /\ S # {}
  <2>1. acked' = acked \cup S
    BY <1>1, <1>3, <1>7
  <2> QED BY <1>4, <1>5, <1>7, <2>1, DropIsSettle DEF Allowed
<1>8. CASE Elements(h[c].ids) \subseteq DOMAIN in_flight /\ S = {}
  <2>1. acked' = acked
    BY <1>1, <1>3, <1>8
  <2>2. AbstractLeases = [x \in DOMAIN AbstractLeases |-> AbstractLeases[x]]
    BY RefParts DEF ShownTasks
  <2>3. AbstractLeases' = AbstractLeases
    BY <1>4, <1>8, <2>2 DEF Without
  <2> QED BY <1>5, <2>1, <2>3 DEF Hidden
<1> QED BY <1>6, <1>7, <1>8

\* What FinishDequeue does to what the mapping shows.
Leased(q, items, ids) ==
    /\ q \in DOMAIN AbstractWaiting /\ queues[q] \in Seq(Item)
    /\ items \in Seq(Item) /\ ids \in Seq(Nat) /\ Len(ids) = Len(items)
    /\ AbstractWaiting[q] = items \o queues[q]
    /\ AbstractWaiting' = [AbstractWaiting EXCEPT ![q] = queues[q]]
    /\ AbstractWaiting = [x \in DOMAIN AbstractWaiting |-> AbstractWaiting[x]]
    /\ AbstractLeases' = Deliver(AbstractLeases, q, items, ids)
    /\ AbstractLeases = [x \in DOMAIN AbstractLeases |-> AbstractLeases[x]]
    /\ \A t \in Elements(ids) : t \notin DOMAIN AbstractLeases \cup acked
    /\ acked' = acked
    /\ \A i, j \in DOMAIN ids : ids[i] = ids[j] => i = j

LEMMA DequeueShown ==
    ASSUME RefInv, RefInv', NEW c \in Actors, FinishDequeue(c), NEW q, NEW items, NEW ids,
           q = h[c].q, items = h[c].items, ids = h[c].ids
    PROVE  Leased(q, items, ids)
<1>1. /\ h[c].op = "dequeue" /\ h' = [h EXCEPT ![c] = Idle] /\ UNCHANGED <<queues, acked>>
      /\ in_flight' = Deliver(in_flight, q, items, ids)
  BY DEF FinishDequeue, End
<1>2. /\ TypeOK /\ IdsApart /\ QueuesExist /\ OneDequeue
      /\ ShownQueues /\ ShownTasks /\ ShownQueues' /\ ShownTasks'
      /\ DOMAIN AbstractWaiting = DOMAIN queues
      /\ items \in Seq(Item) /\ ids \in Seq(Nat) /\ HandlerOK(h[c], DOMAIN delivered)
  BY RefParts DEF RefInv
<1>3. q \in DOMAIN queues /\ queues[q] \in Seq(Item) /\ Len(ids) = Len(items)
  BY <1>1, <1>2, RefParts DEF QueuesExist, Holding, HandlerOK
<1>4. \A d \in Actors : h'[d] = IF d = c THEN Idle ELSE h[d]
  BY <1>1, <1>2 DEF TypeOK
<1>5. Idle.op = "idle"
  BY DEF Idle
<1>6. AbstractWaiting[q] = items \o queues[q]
  BY <1>1, <1>2, <1>3 DEF ShownQueues
<1>7. AbstractWaiting'[q] = queues[q]
  <2>1. \A d \in Actors : ~(h'[d].op = "dequeue" /\ h'[d].q = q)
    BY <1>1, <1>2, <1>4, <1>5 DEF OneDequeue
  <2>2. q \in DOMAIN queues' /\ queues'[q] = queues[q]
    BY <1>1, <1>3
  <2> QED BY <1>2, <2>1, <2>2 DEF ShownQueues
<1>8. \A x \in DOMAIN queues : x # q => AbstractWaiting'[x] = AbstractWaiting[x]
  <2> DEFINE P == {q}
  <2>1. /\ h[c].op = "dequeue" => h[c].q \in P
        /\ Idle.op = "dequeue" => Idle.q \in P
        /\ \A x : x \notin P => (x \in DOMAIN queues' <=> x \in DOMAIN queues)
        /\ \A x \in DOMAIN queues : x \notin P => queues'[x] = queues[x]
    BY <1>1, <1>5
  <2>2. \A x : x # q => x \notin P
    OBVIOUS
  <2> HIDE DEF P
  <2>3. \A x \in DOMAIN queues : x \notin P => AbstractWaiting'[x] = AbstractWaiting[x]
    BY <1>1, <1>2, <2>1, QueuesAfterStep
  <2> QED BY <2>2, <2>3
<1>9. /\ AbstractWaiting = [x \in DOMAIN queues |-> AbstractWaiting[x]]
      /\ AbstractWaiting' = [x \in DOMAIN queues |-> AbstractWaiting'[x]]
  BY <1>1, <1>2 DEF ShownQueues
<1>10. AbstractWaiting' = [AbstractWaiting EXCEPT ![q] = queues[q]]
  BY <1>7, <1>8, <1>9
<1>11. /\ \A t \in Elements(ids) : t \notin DOMAIN in_flight
       /\ \A i, j \in DOMAIN ids : ids[i] = ids[j] => i = j
       /\ \A d \in Actors : h[d].op \in {"ack", "nack"} => Elements(ids) \cap Elements(h[d].ids) = {}
  BY <1>1, <1>2 DEF IdsApart, Holding
<1>12. \A t \in Elements(ids) : t \notin DOMAIN AbstractLeases
  <2> SUFFICES ASSUME NEW t \in Elements(ids), t \in DOMAIN AbstractLeases PROVE FALSE
    OBVIOUS
  <2>1. PICK d \in Actors : h[d].op \in {"ack", "nack"} /\ t = h[d].ids[1]
    BY <1>2, <1>11 DEF ShownTasks
  <2>2. t \in Elements(h[d].ids)
    BY <1>2, <2>1, TakerId
  <2> QED BY <1>11, <2>1, <2>2
<1>13. AbstractLeases' = Deliver(AbstractLeases, q, items, ids)
  <2> DEFINE T == Elements(ids)
             New(t) == [msg |-> items[Position(ids, t)].msg,
                        attempts |-> items[Position(ids, t)].attempts + 1, queue |-> q]
  <2>1. /\ DOMAIN in_flight' = DOMAIN in_flight \cup T
        /\ \A t \in T : in_flight'[t] = New(t)
        /\ \A t \in DOMAIN in_flight : t \notin T => in_flight'[t] = in_flight[t]
    BY <1>1 DEF Deliver
  <2>2. /\ h[c].op \in {"ack", "nack"} => h[c].ids[1] \in T
        /\ Idle.op \in {"ack", "nack"} => Idle.ids[1] \in T
        /\ \A t : t \notin T => (t \in DOMAIN in_flight' <=> t \in DOMAIN in_flight)
    BY <1>1, <1>5, <2>1
  <2>3. \A f : Deliver(f, q, items, ids) = [t \in DOMAIN f \cup T |-> IF t \in T THEN New(t) ELSE f[t]]
    BY DEF Deliver
  <2> HIDE DEF T, New
  <2>4. \A t : t \notin T =>
              /\ t \in DOMAIN AbstractLeases' <=> t \in DOMAIN AbstractLeases
              /\ t \in DOMAIN AbstractLeases => AbstractLeases'[t] = AbstractLeases[t]
    <3>1. TypeOK /\ ShownTasks /\ ShownTasks' /\ h' = [h EXCEPT ![c] = Idle]
      BY <1>1, <1>2
    <3>2. \A t \in DOMAIN in_flight : t \notin T => in_flight'[t] = in_flight[t]
      BY <2>1
    <3> QED BY <2>2, <3>1, <3>2, TasksAfterStep
  <2>5. \A t \in T : t \in DOMAIN AbstractLeases' /\ AbstractLeases'[t] = New(t)
    BY <1>2, <2>1 DEF ShownTasks
  <2>6. DOMAIN AbstractLeases' = DOMAIN AbstractLeases \cup T
    BY <2>4, <2>5
  <2>7. AbstractLeases' = [t \in DOMAIN AbstractLeases' |-> AbstractLeases'[t]]
    BY <1>2 DEF ShownTasks
  <2>8. \A t \in DOMAIN AbstractLeases' : AbstractLeases'[t] = IF t \in T THEN New(t) ELSE AbstractLeases[t]
    BY <2>4, <2>5, <2>6
  <2> QED BY <2>3, <2>6, <2>7, <2>8
<1>14. AbstractLeases = [x \in DOMAIN AbstractLeases |-> AbstractLeases[x]]
  BY <1>2 DEF ShownTasks
<1>15. \A t \in Elements(ids) : t \notin acked
  BY <1>1, <1>2, RefParts DEF IdsDrawn, TypeOK
<1> QED BY <1>1, <1>2, <1>3, <1>6, <1>9, <1>10, <1>11, <1>12, <1>13, <1>14, <1>15 DEF Leased

\* FinishDequeue is Lease.
LEMMA FinishDequeueIsLease ==
    ASSUME RefInv, RefInv', NEW c \in Actors, FinishDequeue(c)
    PROVE  Service!Next \/ Hidden
<1> SUFFICES ASSUME NEW q, NEW items, NEW ids, q = h[c].q, items = h[c].items, ids = h[c].ids
             PROVE  Service!Next \/ Hidden
  OBVIOUS
<1> DEFINE W     == AbstractWaiting
           L     == AbstractLeases
           n     == Len(items)
           s     == queues[q]
           new   == DOMAIN AbstractLeases' \ (DOMAIN L \cup acked)
<1>1. /\ q \in DOMAIN W /\ s \in Seq(Item)
      /\ items \in Seq(Item) /\ ids \in Seq(Nat) /\ Len(ids) = n
      /\ W[q] = items \o s
      /\ AbstractWaiting' = [W EXCEPT ![q] = s]
      /\ W = [x \in DOMAIN W |-> W[x]]
      /\ AbstractLeases' = Deliver(L, q, items, ids)
      /\ L = [x \in DOMAIN L |-> L[x]]
      /\ \A t \in Elements(ids) : t \notin DOMAIN L \cup acked
      /\ acked' = acked
      /\ \A i, j \in DOMAIN ids : ids[i] = ids[j] => i = j
  <2>1. Leased(q, items, ids)
    BY DequeueShown
  <2> QED BY <2>1 DEF Leased
<1> HIDE DEF W, L, s
<1>2. n \in Nat /\ Len(s) \in Nat /\ Len(items \o s) = n + Len(s) /\ DOMAIN ids = 1..n
  BY <1>1
<1>3. Least(n, Len(items \o s)) = n
  BY <1>2 DEF Least
<1>4. FirstOf(items \o s, n) = items /\ RestOf(items \o s, n) = s
  <2>1. items \in Seq(Item) /\ s \in Seq(Item)
    BY <1>1
  <2>2. SubSeq(items \o s, 1, n) = items
    BY <2>1, PrefixOf
  <2>3. SubSeq(items \o s, n + 1, Len(items \o s)) = s
    BY <2>1, SuffixOf
  <2> QED BY <1>3, <2>2, <2>3 DEF FirstOf, RestOf
<1>5. CASE n = 0
  <2>1. items = <<>> /\ Elements(ids) = {}
    BY <1>1, <1>2, <1>5 DEF Elements
  <2>2. AbstractWaiting' = W
    BY <1>1, <2>1
  <2>3. AbstractLeases' = L
    BY <1>1, <2>1 DEF Deliver
  <2> QED BY <1>1, <2>2, <2>3 DEF W, L, Hidden
<1>6. CASE n # 0
  <2>1. n \in 1..Len(W[q])
    BY <1>1, <1>2, <1>6
  <2>2. Elements(ids) \subseteq new
    BY <1>1 DEF Deliver
  <2> HIDE DEF new, n
  <2>3. ids \in [1..n -> new]
    <3>1. ids \in Seq(Nat) /\ DOMAIN ids = 1..n /\ Len(ids) = n
      BY <1>1, <1>2
    <3>2. ids \in [1..Len(ids) -> Nat]
      BY <3>1
    <3>3. \A i \in 1..n : ids[i] \in new
      BY <2>2, <3>1 DEF Elements
    <3> QED BY <3>1, <3>2, <3>3
  <2>4. AbstractWaiting' = PopFront(W, q, n)
    BY <1>1, <1>4 DEF PopFront
  <2>5. AbstractWaiting' = Service!PopFront(W, q, n)
    BY <2>4 DEF Service!PopFront, PopFront, Service!RestOf, RestOf, Service!Least, Least
  <2>6. Service!FirstOf(W[q], n) = items
    BY <1>1, <1>4 DEF Service!FirstOf, FirstOf, Service!Least, Least
  <2>7. Service!Deliver(L, q, items, ids) = Deliver(L, q, items, ids)
    BY DEF Service!Deliver, Deliver, Service!Elements, Elements, Service!Position, Position
  <2>8. AbstractLeases' = Service!Deliver(L, q, Service!FirstOf(W[q], n), ids)
    BY <1>1, <2>6, <2>7
  <2>9. \A i, j \in 1..n : ids[i] = ids[j] => i = j
    BY <1>1, <1>2
  <2>10. /\ q \in DOMAIN AbstractWaiting /\ n \in 1..Len(AbstractWaiting[q])
         /\ ids \in [1..n -> DOMAIN AbstractLeases' \ (DOMAIN AbstractLeases \cup acked)]
         /\ AbstractWaiting' = Service!PopFront(AbstractWaiting, q, n)
         /\ AbstractLeases' = Service!Deliver(AbstractLeases, q, Service!FirstOf(AbstractWaiting[q], n), ids)
         /\ acked' = acked
    BY <1>1, <2>1, <2>3, <2>5, <2>8 DEF new, W, L
  <2>11. Service!Lease
    BY <2>9, <2>10 DEF Service!Lease
  <2> QED BY <2>11 DEF Service!Next
<1> QED BY <1>5, <1>6

\* A request starts, or its client leaves.
LEMMA RequestRefines ==
    ASSUME RefInv, RefInv', CalmConfig, NEW c \in Clients, Request(c)
    PROVE  Allowed \/ Hidden
<1>0. c \in Actors
  BY DEF Actors
<1>1. ASSUME NEW op \in {"create_queue", "queue", "extend", "ack_batch"}, NEW q, NEW items, NEW ids,
             Begin(c, op, q, items, ids), UNCHANGED <<queues, in_flight, acked>>
      PROVE  Hidden
  <2> DEFINE r == [op |-> op, at |-> "log", q |-> q, items |-> items, ids |-> ids]
  <2>1. h[c] = Idle /\ h' = [h EXCEPT ![c] = r] /\ r.op = op
    BY <1>1 DEF Begin
  <2>2. h[c].op \notin {"dequeue", "ack", "nack"} /\ r.op \notin {"dequeue", "ack", "nack"}
    BY <2>1 DEF Idle
  <2> HIDE DEF r
  <2> QED BY <1>0, <1>1, <2>1, <2>2, QuietStep
<1>2. ASSUME NEW q \in CreateNames, CreateQueue(c, q)
      PROVE  Hidden
  BY <1>1, <1>2 DEF CreateQueue, mem, history
<1>3. ASSUME NEW q \in ReqNames, NEW n \in 1..MaxBatch, Queue(c, q, n)
      PROVE  Hidden
  BY <1>1, <1>3 DEF Queue, mem, history
<1>4. ASSUME NEW q \in ReqNames, NEW n \in 1..MaxBatch, Dequeue(c, q, n)
      PROVE  Hidden
  BY <1>0, <1>4, DequeueHidden
<1>5. ASSUME NEW t \in KnownIds, Ack(c, t) \/ Nack(c, t)
      PROVE  Hidden
  BY <1>0, <1>5, TakeTaskHidden DEF Ack, Nack
<1>6. ASSUME NEW t \in KnownIds, ExtendVisibility(c, t)
      PROVE  Hidden
  BY <1>1, <1>6 DEF ExtendVisibility, mem, history
<1>7. ASSUME NEW ids \in IdLists, AckBatch(c, ids)
      PROVE  Hidden
  BY <1>1, <1>7 DEF AckBatch, mem, history
<1>8. ASSUME Disconnect(c)
      PROVE  Allowed \/ Hidden
  <2>1. /\ h[c].op \notin {"dequeue", "nack"} /\ h' = [h EXCEPT ![c] = Idle]
        /\ UNCHANGED <<queues, in_flight, acked>>
    BY <1>8 DEF Disconnect, CalmConfig, mem, history
  <2>2. Idle.op \notin {"dequeue", "ack", "nack"}
    BY DEF Idle
  <2>3. CASE h[c].op = "ack"
    BY <1>0, <1>8, <2>3, AckForfeited DEF Allowed
  <2>4. CASE h[c].op # "ack"
    BY <1>0, <2>1, <2>2, <2>4, QuietStep
  <2> QED BY <2>3, <2>4
<1> QED BY <1>2, <1>3, <1>4, <1>5, <1>6, <1>7, <1>8 DEF Request

\* A step of the cleanup loop.
LEMMA CleanupHidden ==
    ASSUME RefInv, RefInv', NEW c \in Sweepers, Cleanup(c)
    PROVE  Hidden
<1>0. c \in Actors
  BY DEF Actors
<1>1. ASSUME UNCHANGED <<queues, in_flight, h, acked>>
      PROVE  Hidden
  BY <1>1 DEF Hidden, AbstractWaiting, AbstractLeases, PoppedFrom, Takers
<1>2. ASSUME NEW t \in todo[c], CleanupNack(c, t)
      PROVE  Hidden
  BY <1>0, <1>1, <1>2, TakeTaskHidden DEF CleanupNack, mem, history
<1>3. ASSUME NEW S \in SUBSET DOMAIN in_flight, Scan(c, S)
      PROVE  Hidden
  BY <1>1, <1>3 DEF Scan, mem, history
<1> QED BY <1>2, <1>3 DEF Cleanup

\* A request goes on.
LEMMA ProceedRefines ==
    ASSUME RefInv, RefInv', NEW c \in Actors, Proceed(c)
    PROVE  Allowed \/ Hidden
<1>1. ASSUME Log(c)
      PROVE  Hidden
  <2> DEFINE r == [h[c] EXCEPT !.at = "apply"]
  <2>1. h \in [Actors -> Handler] /\ h[c] \in Handler
    BY RefParts DEF TypeOK
  <2>2. h' = [h EXCEPT ![c] = r] /\ UNCHANGED <<queues, in_flight, acked>>
    BY <1>1, <2>1 DEF Log, mem
  <2>3. r.op = h[c].op /\ r.q = h[c].q /\ r.items = h[c].items /\ r.ids = h[c].ids
    BY <2>1 DEF Handler
  <2> HIDE DEF r
  <2> QED BY <2>2, <2>3, QuietStep
<1>2. ASSUME FinishExtend(c)
      PROVE  Hidden
  <2>1. /\ h[c].op \notin {"dequeue", "ack", "nack"} /\ h' = [h EXCEPT ![c] = Idle]
        /\ UNCHANGED <<queues, in_flight, acked>>
    BY <1>2 DEF FinishExtend, End, mem, history
  <2>2. Idle.op \notin {"dequeue", "ack", "nack"}
    BY DEF Idle
  <2> QED BY <2>1, <2>2, QuietStep
<1>3. ASSUME LogFail(c)
      PROVE  Allowed \/ Hidden
  BY <1>3, AckForfeited, LogFailHidden DEF Allowed
<1>4. ASSUME FinishCreate(c) \/ FinishQueue(c) \/ FinishNack(c) \/ FinishAck(c)
      PROVE  Allowed
  BY <1>4, FinishCreateIsCreate, FinishQueueIsAccept, FinishNackIsReturn, FinishAckIsSettle DEF Allowed
<1>5. ASSUME FinishDequeue(c)
      PROVE  Allowed \/ Hidden
  BY <1>5, FinishDequeueIsLease DEF Allowed
<1> QED BY <1>1, <1>2, <1>3, <1>4, <1>5, FinishAckBatchShown DEF Proceed

\* Initially nothing waits, nothing is leased and nothing is settled.
LEMMA InitRefines == Init => Service!Init
<1> SUFFICES ASSUME Init PROVE Service!Init
  OBVIOUS
<1>1. DOMAIN queues = {} /\ DOMAIN in_flight = {} /\ (\A c \in Actors : h[c].op = "idle") /\ acked = {}
  BY DEF Init, Empty, Idle
<1>2. Takers = {}
  BY <1>1 DEF Takers
<1>3. AbstractWaiting = [q \in {} |-> <<>>]
  BY <1>1 DEF AbstractWaiting
<1>4. DOMAIN in_flight \cup {h[c].ids[1] : c \in Takers} = {}
  BY <1>1, <1>2
<1>5. AbstractLeases = [t \in {} |-> <<>>]
  BY <1>4 DEF AbstractLeases
<1> QED BY <1>1, <1>3, <1>5 DEF Service!Init, Service!Empty

\* Linearizability but for two kinds of acknowledgement: interleaved requests,
\* with appends that fail and clients that disconnect, show one operation of
\* the abstract service TaskService at a time, each at once and completely, an
\* ack answered Ok for a task that was leased up to then.  The exceptions,
\* proved to be the only ones and with what exactly they show, are an ack whose
\* append fails or whose client leaves (ForfeitedAck), and an ack_batch that
\* has lost some of its tasks (RacedAckBatch).  CalmConfig says what else is
\* excluded.
THEOREM OperationsAtomic == CalmConfig => (Spec => Linearizable)
<1> SUFFICES ASSUME CalmConfig PROVE Spec => Linearizable
  OBVIOUS
<1>1. MaxCrashes = 0
  BY DEF CalmConfig
<1>2. Spec => []NoLossInv
  BY NoLossAlways
<1>3. Spec => [](TypeOK /\ CopyInv)
  BY <1>1, CopyInvariant
<1>4. Spec => []RetryInv
  BY RetryAlways
<1>5. Spec => [](TypeOK /\ CountInv)
  BY <1>1, CountAlways
<1>6. NoLossInv /\ CopyInv /\ RetryInv /\ CountInv => RefInv
  BY QueuesShown, TasksShown DEF NoLossInv, CopyInv, RetryInv, CountInv, RefInv
<1>7. RefInv /\ RefInv' /\ [Next]_vars
         => [Service!Next \/ ForfeitedAck \/ RacedAckBatch]_(Service!svars)
  <2> SUFFICES ASSUME RefInv, RefInv', [Next]_vars
               PROVE  Allowed \/ Hidden
    BY DEF Service!svars, Allowed, Hidden
  <2>1. ~Restart
    BY <1>1, RefParts DEF Restart, TypeOK
  <2>2. CASE UNCHANGED vars
    BY <2>2 DEF vars, mem, history, Hidden, AbstractWaiting, AbstractLeases, PoppedFrom, Takers
  <2> QED BY <2>1, <2>2, RequestRefines, CleanupHidden, ProceedRefines DEF Next
<1> QED BY <1>2, <1>3, <1>4, <1>5, <1>6, <1>7, InitRefines, PTL DEF Spec, Linearizable
=============================================================================
