------------------------------ MODULE ApiProofs -----------------------------
(***************************************************************************)
(* Proofs about the HTTP interface, for any names, values and number of    *)
(* deliveries and any limit of attempts.                                   *)
(***************************************************************************)
EXTENDS Api, TLAPS

USE ApiAssumption
-----------------------------------------------------------------------------
(***************************************************************************)
(* The formats.                                                            *)
(***************************************************************************)
\* What the way through the two formats makes of a value.
LEMMA RoundTrip ==
    ASSUME NEW v \in Values, NEW f \in Formats, NEW a \in Formats, Survives(v, f, a)
    PROVE  Decode(a, Encode(f, v)) = v
<1> USE DEF Number, Of
<1> DEFINE body == Encode(f, v)
<1>1. /\ body.format = f /\ body.value = v
      /\ body.first = IF f = "json" THEN JsonByte(v) ELSE MsgpackByte(v)
  BY DEF Encode
<1>2. \/ \E n \in 0..999 : v = Number(n)
      \/ v \in {Of("null"), Of("true"), Of("string"), Of("array"), Of("object")}
  BY ValuesAssumption
<1>3. v # Failed
  BY <1>2 DEF Failed
<1> HIDE DEF body
<1>4. CASE f = "json" /\ a = "json"
  <2>1. FromJson(body) = v
    BY <1>1, <1>4 DEF FromJson
  <2> QED BY <1>3, <1>4, <2>1 DEF Decode, body
<1>5. CASE f = "msgpack" /\ a = "json"
  <2>1. FromMsgpack(body) = v
    BY <1>1, <1>5 DEF FromMsgpack
  <2>2. ~(v.kind = "int" /\ v.n \in 48..57)
    BY <1>5 DEF Survives
  <2>3. body.first \notin 48..57
    BY <1>1, <1>2, <1>5, <2>2 DEF MsgpackByte
  <2>4. FromJson(body) = Failed
    BY <1>1, <1>5, <2>3 DEF FromJson
  <2> QED BY <1>3, <1>5, <2>1, <2>4 DEF Decode, OrNull, body
<1>6. CASE f = "msgpack" /\ a = "msgpack"
  <2>1. FromMsgpack(body) = v
    BY <1>1, <1>6 DEF FromMsgpack
  <2>2. v # Number(91) /\ v # Number(123)
    BY <1>6 DEF Survives
  <2>3. body.first \notin {123, 91}
    BY <1>1, <1>2, <1>6, <2>2 DEF MsgpackByte
  <2> QED BY <1>3, <1>6, <2>1, <2>3 DEF Decode, OrNull, body
<1>7. CASE f = "json" /\ a = "msgpack"
  <2>1. FromJson(body) = v /\ body.first = JsonByte(v)
    BY <1>1, <1>7 DEF FromJson
  <2>2. v.kind \in {"object", "array"}
    BY <1>7 DEF Survives
  <2>3. body.first \in {123, 91}
    BY <2>1, <2>2 DEF JsonByte
  <2> QED BY <1>3, <1>7, <2>1, <2>3 DEF Decode, OrNull, body
<1> QED BY <1>4, <1>5, <1>6, <1>7 DEF Formats
-----------------------------------------------------------------------------
(***************************************************************************)
(* The invariant.                                                          *)
(***************************************************************************)
QueueName == [len : Nat, plain : BOOLEAN]

\* The dead letter queues after n deliveries that failed.
LevelOf(n) == IF n < MaxAttempts THEN 0 ELSE n - MaxAttempts + 1

\* The message: its body has been encoded and what a consumer got decoded, and
\* the name of its queue has grown by four for every dead letter queue; the
\* last delivery of a message in flight has not failed yet.
ItemOK(it) ==
    /\ it = [at |-> it.at, queue |-> it.queue, first |-> it.first, attempts |-> it.attempts,
             body |-> it.body, got |-> it.got]
    /\ it.at \in {"queue", "flight"} /\ it.attempts \in 0..MaxFailures
    /\ it.queue \in QueueName /\ it.first \in QueueName
    /\ ValidName(it.first) /\ it.queue.plain = it.first.plain
    /\ \E f \in Formats, v \in Values : it.body = Encode(f, v)
    /\ it.got # Nothing =>
        \/ it.got = [at |-> "bytes", value |-> it.body.value]
        \/ \E a \in Formats : it.got = [at |-> a, value |-> Decode(a, it.body)]
    /\ it.at = "queue" => it.queue.len = it.first.len + 4 * LevelOf(it.attempts)
    /\ it.at = "flight" => /\ it.attempts >= 1
                           /\ it.queue.len = it.first.len + 4 * LevelOf(it.attempts - 1)

ApiInv ==
    /\ mode \in {"standalone", "leader", "follower"}
    /\ queues \subseteq QueueName
    /\ item # Nothing => ItemOK(item) /\ item.queue \in queues

\* A name is a record of its fields.
LEMMA NameFields ==
    ASSUME NEW q \in QueueName
    PROVE  /\ q.len \in Nat /\ q.plain \in BOOLEAN
           /\ Dlq(q) \in QueueName /\ Dlq(q).len = q.len + 4 /\ Dlq(q).plain = q.plain
BY DEF QueueName, Dlq

\* A request that changes nothing.
LEMMA AnswerOK ==
    ASSUME ApiInv, NEW s, AnswerOnly(s)
    PROVE  ApiInv'
BY DEF AnswerOnly, ApiInv, ItemOK, QueueName, ValidName

\* The error paths of a handler change nothing.
LEMMA FailuresOK ==
    ASSUME ApiInv, WriteFails \/ \E s : AppendFails(s)
    PROVE  ApiInv'
BY AnswerOK DEF WriteFails, AppendFails

\* A queue is created.
LEMMA CreateOK ==
    ASSUME ApiInv, NEW q \in Names, CreateQueue(q)
    PROVE  ApiInv'
<1>1. CASE (\E s : AnswerOnly(s)) \/ WriteFails \/ \E s : AppendFails(s)
  BY <1>1, AnswerOK, FailuresOK
<1>2. CASE queues' = queues \cup {q} /\ UNCHANGED <<mode, item>>
  <2>1. q \in QueueName
    BY DEF QueueName
  <2>2. queues' \subseteq QueueName /\ queues \subseteq queues'
    BY <1>2, <2>1 DEF ApiInv
  <2>3. item' # Nothing => ItemOK(item') /\ item'.queue \in queues'
    BY <1>2, <2>2 DEF ApiInv
  <2> QED BY <1>2, <2>2, <2>3 DEF ApiInv
<1> QED BY <1>1, <1>2 DEF CreateQueue

\* A message is accepted.
LEMMA StoreOK ==
    ASSUME ApiInv, NEW q \in Names, ValidName(q), NEW f \in Formats, NEW v \in Values,
           Store(q, Encode(f, v))
    PROVE  ApiInv'
<1>1. CASE (\E s : AnswerOnly(s)) \/ WriteFails \/ \E s : AppendFails(s)
  BY <1>1, AnswerOK, FailuresOK
<1>2. CASE /\ q \in queues /\ UNCHANGED <<mode, queues>>
           /\ item' = [at |-> "queue", queue |-> q, first |-> q, attempts |-> 0,
                       body |-> Encode(f, v), got |-> Nothing]
  <2>1. q \in QueueName /\ q.len \in Nat
    BY NameFields DEF QueueName
  <2>2. LevelOf(0) = 0 /\ 0 \in 0..MaxFailures
    BY DEF LevelOf
  <2>3. q.len = q.len + 4 * LevelOf(0)
    BY <2>1, <2>2
  <2>4. /\ item'.at = "queue" /\ item'.queue = q /\ item'.first = q /\ item'.attempts = 0
        /\ item'.body = Encode(f, v) /\ item'.got = Nothing
        /\ item' = [at |-> item'.at, queue |-> item'.queue, first |-> item'.first,
                    attempts |-> item'.attempts, body |-> item'.body, got |-> item'.got]
    BY <1>2
  <2>5. ItemOK(item')
    BY <1>2, <2>1, <2>2, <2>3, <2>4 DEF ItemOK
  <2> QED BY <1>2, <2>4, <2>5 DEF ApiInv
<1> QED BY <1>1, <1>2 DEF Store

\* A message is delivered.
LEMMA FetchOK ==
    ASSUME ApiInv, NEW q, NEW as, NEW v, NEW e, Fetch(q, as, v, e),
           \/ as = "bytes" /\ v = item.body.value
           \/ as \in Formats /\ v = Decode(as, item.body)
    PROVE  ApiInv'
<1>1. CASE (\E s : AnswerOnly(s)) \/ WriteFails \/ \E s : AppendFails(s)
  BY <1>1, AnswerOK, FailuresOK
<1>2. CASE /\ item # Nothing /\ item.at = "queue" /\ item.attempts < MaxFailures
           /\ UNCHANGED <<mode, queues>>
           /\ item' = [item EXCEPT !.at = "flight", !.attempts = @ + 1,
                                   !.got = [at |-> as, value |-> v]]
  <2>1. ItemOK(item) /\ item.queue \in queues
    BY <1>2 DEF ApiInv
  <2>2. /\ item'.at = "flight" /\ item'.queue = item.queue /\ item'.first = item.first
        /\ item'.attempts = item.attempts + 1 /\ item'.body = item.body
        /\ item'.got = [at |-> as, value |-> v]
        /\ item' = [at |-> item'.at, queue |-> item'.queue, first |-> item'.first,
                    attempts |-> item'.attempts, body |-> item'.body, got |-> item'.got]
    BY <1>2, <2>1 DEF ItemOK
  <2>3. /\ item.attempts + 1 \in 0..MaxFailures /\ item.attempts + 1 >= 1
        /\ (item.attempts + 1) - 1 = item.attempts
    BY <1>2, <2>1 DEF ItemOK
  <2>4. ItemOK(item')
    <3>1. \/ item'.got = [at |-> "bytes", value |-> item'.body.value]
          \/ \E a \in Formats : item'.got = [at |-> a, value |-> Decode(a, item'.body)]
      BY <2>2
    <3>2. /\ item'.attempts \in 0..MaxFailures /\ item'.attempts >= 1
          /\ item'.queue.len = item'.first.len + 4 * LevelOf(item'.attempts - 1)
      BY <1>2, <2>1, <2>2, <2>3 DEF ItemOK
    <3> QED BY <2>1, <2>2, <3>1, <3>2 DEF ItemOK
  <2>5. item'.queue \in queues'
    BY <1>2, <2>1, <2>2
  <2> QED BY <1>2, <2>4, <2>5 DEF ApiInv
<1> QED BY <1>1, <1>2 DEF Fetch, Waits

\* A message is acknowledged.
LEMMA AckOK ==
    ASSUME ApiInv, AckTask \/ AckBatch
    PROVE  ApiInv'
<1>1. CASE (\E s : AnswerOnly(s)) \/ WriteFails \/ \E s : AppendFails(s)
  BY <1>1, AnswerOK, FailuresOK
<1>2. CASE item' = Nothing /\ UNCHANGED <<mode, queues>>
  BY <1>2 DEF ApiInv
<1> QED BY <1>1, <1>2 DEF AckTask, AckBatch

\* A message goes back to its queue or on to the next dead letter queue.
LEMMA NackOK ==
    ASSUME ApiInv, NackTask
    PROVE  ApiInv'
<1>1. CASE (\E s : AnswerOnly(s)) \/ WriteFails \/ \E s : AppendFails(s)
  BY <1>1, AnswerOK, FailuresOK
<1>2. CASE /\ InFlight /\ item' = [item EXCEPT !.at = "queue", !.queue = Target]
           /\ queues' = queues \cup {Target} /\ UNCHANGED mode
  <2>1. ItemOK(item) /\ item.queue \in queues /\ item.at = "flight"
    BY <1>2 DEF ApiInv, InFlight
  <2>2. /\ item'.at = "queue" /\ item'.queue = Target /\ item'.first = item.first
        /\ item'.attempts = item.attempts /\ item'.body = item.body /\ item'.got = item.got
        /\ item' = [at |-> item'.at, queue |-> item'.queue, first |-> item'.first,
                    attempts |-> item'.attempts, body |-> item'.body, got |-> item'.got]
    BY <1>2, <2>1 DEF ItemOK
  <2>3. /\ item.queue \in QueueName /\ item.attempts \in Nat /\ item.attempts >= 1
        /\ item.first.len \in Nat /\ item.queue.len \in Nat
        /\ item.queue.len = item.first.len + 4 * LevelOf(item.attempts - 1)
    BY <2>1, NameFields DEF ItemOK
  <2>4. Target \in QueueName /\ Target.plain = item.queue.plain
    BY <2>3, NameFields DEF Target
  <2>5. Target.len = item.first.len + 4 * LevelOf(item.attempts)
    <3>1. CASE item.attempts >= MaxAttempts
      <4>1. Target.len = item.queue.len + 4
        BY <2>3, <3>1, NameFields DEF Target
      <4>2. LevelOf(item.attempts) = LevelOf(item.attempts - 1) + 1 /\ LevelOf(item.attempts - 1) \in Nat
        BY <2>3, <3>1 DEF LevelOf
      <4> QED BY <2>3, <4>1, <4>2
    <3>2. CASE ~(item.attempts >= MaxAttempts)
      <4>1. Target.len = item.queue.len
        BY <3>2 DEF Target
      <4>2. LevelOf(item.attempts) = LevelOf(item.attempts - 1)
        BY <2>3, <3>2 DEF LevelOf
      <4> QED BY <2>3, <4>1, <4>2
    <3> QED BY <3>1, <3>2
  <2>6. ItemOK(item')
    BY <2>1, <2>2, <2>4, <2>5 DEF ItemOK
  <2> QED BY <1>2, <2>2, <2>4, <2>6 DEF ApiInv
<1> QED BY <1>1, <1>2 DEF NackTask

\* The invariant holds throughout.
LEMMA ApiAlways == Spec => []ApiInv
<1>1. Init => ApiInv
  BY DEF Init, ApiInv
<1>2. ApiInv /\ [Next]_vars => ApiInv'
  <2> SUFFICES ASSUME ApiInv, [Next]_vars PROVE ApiInv'
    OBVIOUS
  <2>1. CASE UNCHANGED vars
    BY <2>1 DEF vars, ApiInv, ItemOK, QueueName, ValidName
  <2>2. CASE \E s : AnswerOnly(s)
    BY <2>2, AnswerOK
  <2>3. CASE RaftRoute
    <3>1. CASE mode' \in {"leader", "follower"} /\ UNCHANGED <<queues, item>>
      BY <3>1 DEF ApiInv, ItemOK, QueueName, ValidName
    <3> QED BY <2>2, <2>3, <3>1 DEF RaftRoute
  <2>4. ASSUME NEW q \in Names, NEW f \in Formats, NEW v \in Values,
               EnqueueTask(q, f, v) \/ QueueBatch(q, f, v)
        PROVE  ApiInv'
    BY <2>2, <2>4, StoreOK DEF EnqueueTask, QueueBatch
  <2>5. ASSUME NEW q, DequeueTask(q) PROVE ApiInv'
    BY <2>2, <2>5, FetchOK DEF DequeueTask
  <2>6. ASSUME NEW q, NEW f \in Formats, DequeueBatch(q, f) PROVE ApiInv'
    BY <2>2, <2>6, FetchOK DEF DequeueBatch
  <2>7. CASE HeartbeatTask
    BY <2>2, <2>7, FailuresOK DEF HeartbeatTask
  <2>8. CASE Next
    BY <2>2, <2>3, <2>4, <2>5, <2>6, <2>7, <2>8, CreateOK, AckOK, NackOK DEF Next, Request
  <2> QED BY <2>1, <2>8
<1> QED BY <1>1, <1>2, PTL DEF Spec
-----------------------------------------------------------------------------
(***************************************************************************)
(* The theorems.                                                           *)
(***************************************************************************)
\* Type correctness: the queue of the message exists, also when it is a dead
\* letter queue that nobody has created.
THEOREM TypeCorrect == Spec => []TypeOK
<1>1. ApiInv => TypeOK
  BY DEF ApiInv, ItemOK, TypeOK, QueueName
<1> QED BY <1>1, ApiAlways, PTL

\* A message that waits is in a queue that exists and whose name a client may
\* ask for, as long as the name of its first queue has room for one "_dlq" per
\* failure past the limit, for any limit of attempts and number of failures.
THEOREM FetchableWithRoom == Spec => []Fetchable
<1>1. ApiInv => Fetchable
  <2> SUFFICES ASSUME ApiInv, item # Nothing, item.at = "queue",
                      item.first.len + 4 * Level <= 128
               PROVE  ValidName(item.queue) /\ item.queue \in queues
    BY DEF Fetchable
  <2>1. /\ ValidName(item.first) /\ item.queue.plain = item.first.plain
        /\ item.queue \in QueueName /\ item.first \in QueueName /\ item.attempts \in Nat
        /\ item.queue.len = item.first.len + 4 * LevelOf(item.attempts)
        /\ item.queue \in queues
    BY DEF ApiInv, ItemOK
  <2>2. Level = LevelOf(item.attempts) /\ LevelOf(item.attempts) \in Nat
    BY <2>1 DEF Level, LevelOf
  <2>3. item.queue.len \in Nat /\ item.first.len \in Nat
    BY <2>1, NameFields
  <2> QED BY <2>1, <2>2, <2>3 DEF ValidName
<1> QED BY <1>1, ApiAlways, PTL

\* A consumer gets the value the producer sent, when the value is one that
\* survives the two formats, at every delivery and on either route.
THEOREM ValuesSurvive == Spec => []ValuePreserved
<1>1. ApiInv => ValuePreserved
  <2> SUFFICES ASSUME ApiInv, item # Nothing, item.got # Nothing,
                      Survives(item.body.value, item.body.format, item.got.at)
               PROVE  item.got.value = item.body.value
    BY DEF ValuePreserved
  <2>1. PICK f \in Formats, v \in Values : item.body = Encode(f, v)
    BY DEF ApiInv, ItemOK
  <2>2. item.body.value = v /\ item.body.format = f
    BY <2>1 DEF Encode
  <2>3. CASE item.got = [at |-> "bytes", value |-> item.body.value]
    BY <2>3
  <2>4. ASSUME NEW a \in Formats, item.got = [at |-> a, value |-> Decode(a, item.body)]
        PROVE  item.got.value = item.body.value
    <3>1. item.got.at = a /\ item.got.value = Decode(a, Encode(f, v))
      BY <2>1, <2>4
    <3> QED BY <2>2, <3>1, RoundTrip
  <2> QED BY <2>3, <2>4 DEF ApiInv, ItemOK
<1> QED BY <1>1, ApiAlways, PTL
=============================================================================
