-------------------------------- MODULE Api ---------------------------------
(***************************************************************************)
(* The HTTP interface around the storage: the password, the check of queue *)
(* names, the formats of batches, the status codes, and the routes under   *)
(* /raft.                                                                  *)
(*                                                                         *)
(* One message goes through the server, one request after the other.  Its  *)
(* value stands for a serde_json::Value, a body for the bytes of an        *)
(* encoding: who wrote it, the value, and the first byte, by which the     *)
(* code tells the formats apart.  The appends of a standalone server may   *)
(* fail, and in a cluster Raft may have stopped.                           *)
(***************************************************************************)
EXTENDS Integers, Sequences, FiniteSets

CONSTANTS
    Names,         \* names clients use: [len : Nat, plain : BOOLEAN]
    Values,        \* values clients send
    MaxAttempts,   \* deliveries before the DLQ: 5
    MaxFailures    \* bound: deliveries of the message

ASSUME ApiAssumption ==
    /\ Names \subseteq [len : Nat, plain : BOOLEAN]
    /\ MaxAttempts \in Nat \ {0} /\ MaxFailures \in Nat

VARIABLES
    mode,    \* "standalone", or in a cluster "leader" or "follower"
    queues,  \* the names of the queues
    item,    \* the message, or Nothing
    reply    \* the last answer

vars == <<mode, queues, item, reply>>

Nothing == [at |-> "nowhere"]
Formats == {"json", "msgpack"}
-----------------------------------------------------------------------------
(***************************************************************************)
(* Values and their encodings.  serde_json and rmp_serde are external; the *)
(* operators say what they make of the bytes that reach them here.         *)
(***************************************************************************)
Number(n) == [kind |-> "int", n |-> n]
Of(k)     == [kind |-> k, n |-> 0]
Null      == Of("null")

\* Numbers of up to three digits, and the other kinds of JSON values.
ASSUME ValuesAssumption ==
    Values \subseteq {Number(n) : n \in 0..999}
                     \cup {Of(k) : k \in {"null", "true", "string", "array", "object"}}

LeadingDigit(n) == CHOOSE d \in 0..9 : \E p \in {1, 10, 100} : n >= p /\ n < 10 * p /\ d = n \div p

\* The first byte of the JSON text of a value.
JsonByte(v) ==
    CASE v.kind = "object" -> 123
      [] v.kind = "array"  -> 91
      [] v.kind = "string" -> 34
      [] v.kind = "null"   -> 110
      [] v.kind = "true"   -> 116
      [] v.kind = "int"    -> 48 + (IF v.n = 0 THEN 0 ELSE LeadingDigit(v.n))

\* The first byte of its MessagePack form: a number below 128 is one byte, all
\* other values begin with a byte above 127.
MsgpackByte(v) == IF v.kind = "int" /\ v.n < 128 THEN v.n ELSE 192

Encode(format, v) ==
    [format |-> format, value |-> v,
     first |-> IF format = "json" THEN JsonByte(v) ELSE MsgpackByte(v)]

Failed == [kind |-> "error", n |-> 0]

\* serde_json::from_slice: of the MessagePack forms only the single bytes that
\* are digits are JSON.
FromJson(body) ==
    IF body.format = "json" THEN body.value
    ELSE IF body.first \in 48..57 THEN Number(body.first - 48) ELSE Failed

\* rmp_serde::from_slice: reads the first value and does not look further, so
\* that JSON text is the number of its first character.
FromMsgpack(body) == IF body.format = "msgpack" THEN body.value ELSE Number(body.first)

OrNull(v) == IF v = Failed THEN Null ELSE v

\* Fault: the format is guessed from the bytes for either kind of answer.
DecodeGuess(accept, body) ==
    IF body.first \in {123, 91} THEN OrNull(FromJson(body)) ELSE OrNull(FromMsgpack(body))

\* What dequeue_batch makes of a stored body.
Decode(accept, body) ==
    IF accept = "msgpack"
    THEN IF body.first \in {123, 91} THEN OrNull(FromJson(body)) ELSE OrNull(FromMsgpack(body))
    ELSE IF FromJson(body) # Failed THEN FromJson(body) ELSE OrNull(FromMsgpack(body))
-----------------------------------------------------------------------------
(***************************************************************************)
(* Names and passwords.                                                    *)
(***************************************************************************)
\* Fault: the bound is off by one.
ValidShort(q) == q.len >= 1 /\ q.len < 128 /\ q.plain

\* validate_queue_name
ValidName(q) == q.len >= 1 /\ q.len <= 128 /\ q.plain

\* format!("{}_dlq", name); nack does not check the name.
Dlq(q) == [q EXCEPT !.len = @ + 4]

\* auth_middleware.  The calls of the other nodes (network.rs) have no header.
Authorized(header) == header = "right"

Answer(status, value) == [status |-> status, value |-> value]

\* An answer to a request that has changed nothing.
AnswerOnly(status) ==
    /\ reply' = Answer(status, Null)
    /\ UNCHANGED <<mode, queues, item>>
-----------------------------------------------------------------------------
(***************************************************************************)
(* The handlers.                                                           *)
(***************************************************************************)
Init ==
    /\ mode \in {"standalone", "follower"}
    /\ queues = {} /\ item = Nothing
    /\ reply = Answer(0, Null)

\* client_write without an answer of the state machine: this node does not
\* lead, or its Raft has stopped.
WriteFails ==
    \/ mode = "follower" /\ AnswerOnly(503)
    \/ mode # "standalone" /\ AnswerOnly(500)

\* The append of a standalone server fails, in an operation that then leaves
\* the storage as it was.
AppendFails(status) == mode = "standalone" /\ AnswerOnly(status)

Serves == mode # "follower"

CreateQueue(q) ==
    \/ ~ValidName(q) /\ AnswerOnly(400)
    \/ ValidName(q) /\ (WriteFails \/ AppendFails(400))
    \/ ValidName(q) /\ Serves /\ q \in queues /\ AnswerOnly(400)
    \/ /\ ValidName(q) /\ Serves /\ q \notin queues
       /\ queues' = queues \cup {q}
       /\ reply' = Answer(201, Null)
       /\ UNCHANGED <<mode, item>>

\* A body is stored.  Only one message at a time is followed.
Store(q, body) ==
    \/ WriteFails \/ AppendFails(404)
    \/ Serves /\ q \notin queues /\ AnswerOnly(404)
    \/ /\ Serves /\ q \in queues /\ item = Nothing
       /\ item' = [at |-> "queue", queue |-> q, first |-> q, attempts |-> 0,
                   body |-> body, got |-> Nothing]
       /\ reply' = Answer(200, Null)
       /\ UNCHANGED <<mode, queues>>

\* enqueue hands the bytes of the producer through, here those of a value.
EnqueueTask(q, format, v) ==
    \/ ~ValidName(q) /\ AnswerOnly(400)
    \/ ValidName(q) /\ Store(q, Encode(format, v))

\* queue_batch stores every value in the format of the request, unless the
\* body does not parse.
QueueBatch(q, contentType, v) ==
    \/ AnswerOnly(400)
    \/ ValidName(q) /\ Store(q, Encode(contentType, v))

Waits(q) == item # Nothing /\ item.at = "queue" /\ item.queue = q

\* A message is fetched, as the value v; empty is the answer when the queue is.
\* A dequeue whose append fails puts the item back.
Fetch(q, as, v, empty) ==
    \/ WriteFails
    \/ Waits(q) /\ AppendFails(404)
    \/ Serves /\ q \notin queues /\ AnswerOnly(404)
    \/ Serves /\ q \in queues /\ ~Waits(q) /\ AnswerOnly(empty)
    \/ /\ Serves /\ q \in queues /\ Waits(q) /\ item.attempts < MaxFailures
       /\ item' = [item EXCEPT !.at = "flight", !.attempts = @ + 1,
                               !.got = [at |-> as, value |-> v]]
       /\ reply' = Answer(200, v)
       /\ UNCHANGED <<mode, queues>>

\* dequeue hands the bytes through: the consumer reads the producer's value.
DequeueTask(q) ==
    \/ ~ValidName(q) /\ AnswerOnly(400)
    \/ ValidName(q) /\ Fetch(q, "bytes", item.body.value, 204)

\* dequeue_batch.  With a count of 0 it takes nothing.
DequeueBatch(q, accept) ==
    \/ ~ValidName(q) /\ AnswerOnly(400)
    \/ ValidName(q) /\ Serves /\ q \in queues /\ AnswerOnly(200)
    \/ ValidName(q) /\ Fetch(q, accept, Decode(accept, item.body), 200)

InFlight == item # Nothing /\ item.at = "flight"

\* ack, nack: the queue in the path is not looked at.  An ack has removed the
\* task before its append; when that fails, the task is gone and the answer is
\* that of a task that was not found.
AckTask ==
    \/ WriteFails
    \/ Serves /\ ~InFlight /\ AnswerOnly(404)
    \/ /\ Serves /\ InFlight
       /\ item' = Nothing
       /\ \/ reply' = Answer(200, Null)
          \/ mode = "standalone" /\ reply' = Answer(404, Null)
       /\ UNCHANGED <<mode, queues>>

\* ack_batch appends first.  With an empty list it is answered Ok.
AckBatch ==
    \/ WriteFails \/ AppendFails(404)
    \/ Serves /\ AnswerOnly(200)
    \/ Serves /\ ~InFlight /\ AnswerOnly(404)
    \/ /\ Serves /\ InFlight
       /\ item' = Nothing
       /\ reply' = Answer(200, Null)
       /\ UNCHANGED <<mode, queues>>

\* Where a nack puts the item.
Target == IF item.attempts >= MaxAttempts THEN Dlq(item.queue) ELSE item.queue

\* Fault: the dead letter queue is not created.
NackNoDlq ==
    \/ WriteFails \/ AppendFails(404)
    \/ Serves /\ ~InFlight /\ AnswerOnly(404)
    \/ /\ Serves /\ InFlight
       /\ item' = [item EXCEPT !.at = "queue", !.queue = Target]
       /\ reply' = Answer(200, Null)
       /\ UNCHANGED <<mode, queues>>

\* A nack whose append fails restores the task.  The queue of the task is there:
\* no operation removes one.
NackTask ==
    \/ WriteFails \/ AppendFails(404)
    \/ Serves /\ ~InFlight /\ AnswerOnly(404)
    \/ /\ Serves /\ InFlight
       /\ item' = [item EXCEPT !.at = "queue", !.queue = Target]
       /\ queues' = queues \cup {Target}
       /\ reply' = Answer(200, Null)
       /\ UNCHANGED mode

\* consumed_at is left to the module Visibility.
HeartbeatTask ==
    \/ WriteFails \/ AppendFails(404)
    \/ Serves /\ AnswerOnly(IF InFlight THEN 200 ELSE 404)

\* raft_append, raft_vote, raft_snapshot and the other routes under /raft hand
\* the call to Raft, after which the node may have another role.
RaftRoute ==
    \/ mode = "standalone" /\ AnswerOnly(503)
    \/ /\ mode # "standalone"
       /\ mode' \in {"leader", "follower"}
       /\ \E status \in {200, 500} : reply' = Answer(status, Null)
       /\ UNCHANGED <<queues, item>>

Request(header) ==
    \/ ~Authorized(header) /\ AnswerOnly(401)
    \/ /\ Authorized(header)
       /\ \/ RaftRoute
          \/ \E q \in Names : CreateQueue(q)
          \/ \E q \in Names, f \in Formats, v \in Values :
                  EnqueueTask(q, f, v) \/ QueueBatch(q, f, v)
          \/ \E q \in Names \cup queues : DequeueTask(q)
          \/ \E q \in Names \cup queues, f \in Formats : DequeueBatch(q, f)
          \/ AckTask \/ AckBatch \/ NackTask \/ HeartbeatTask

Next == \E header \in {"right", "wrong", "none"} : Request(header)

Spec == Init /\ [][Next]_vars
-----------------------------------------------------------------------------
\* The values of the variables; the queue of the message exists, also the dead
\* letter queues that nobody has created.
TypeOK ==
    /\ mode \in {"standalone", "leader", "follower"}
    /\ queues \subseteq [len : Nat, plain : BOOLEAN]
    /\ item # Nothing => item.queue \in queues /\ item.attempts \in 0..MaxFailures

\* The values for which the interface keeps what docs/API.md says of the two
\* formats: from JSON to JSON all; from MessagePack to JSON all but the numbers
\* whose byte is a digit; from MessagePack to MessagePack all but the numbers
\* whose byte is a bracket; from JSON to MessagePack objects and arrays.
Survives(v, contentType, accept) ==
    CASE accept = "bytes"                              -> TRUE
      [] contentType = "json" /\ accept = "json"       -> TRUE
      [] contentType = "msgpack" /\ accept = "json"    -> ~(v.kind = "int" /\ v.n \in 48..57)
      [] contentType = "msgpack" /\ accept = "msgpack" -> v # Number(91) /\ v # Number(123)
      [] contentType = "json" /\ accept = "msgpack"    -> v.kind \in {"object", "array"}

\* A consumer gets the value the producer sent, when it is one of those, at
\* every delivery, whichever of the routes they used, also after failures and
\* from a dead letter queue.  Other values arrive altered, against docs/API.md.
ValuePreserved ==
    item # Nothing /\ item.got # Nothing
        /\ Survives(item.body.value, item.body.format, item.got.at)
        => item.got.value = item.body.value

\* How many dead letter queues a message has been through.
Level == IF item.attempts < MaxAttempts THEN 0 ELSE item.attempts - MaxAttempts + 1

\* A message that waits, in a dead letter queue too, is in a queue whose name a
\* client may ask for, as long as the name of its first queue leaves room for
\* one "_dlq" for each failure past the limit.  Where there is no room the
\* README's "Process DLQ tasks like any other queue" does not hold.
Fetchable ==
    item # Nothing /\ item.at = "queue" /\ item.first.len + 4 * Level <= 128
        => ValidName(item.queue) /\ item.queue \in queues
=============================================================================
