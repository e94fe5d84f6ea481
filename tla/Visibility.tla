----------------------------- MODULE Visibility -----------------------------
(***************************************************************************)
(* The visibility timeout of a standalone server: consumed_at, heartbeats, *)
(* and the cleanup loop that nacks expired tasks.  Time is the only thing  *)
(* MemoryStorage leaves out; here requests are atomic, but for a heartbeat *)
(* that waits for the log and a cleanup pass that goes through its list.   *)
(* Appends to the log may fail, and then leave nothing in the file.        *)
(*                                                                         *)
(* Clocks are ages: the time since consumed_at.  An age stops at MaxAge,   *)
(* beyond which nothing depends on it.                                     *)
(***************************************************************************)
EXTENDS Naturals, FiniteSets

CONSTANTS
    Msgs,          \* messages, all of one queue
    MaxAttempts,   \* deliveries before the DLQ: 5
    Timeout,       \* OXIDEQ_TASK_TIMEOUT
    MaxBeats,      \* bound: heartbeats per delivery
    MaxCrashes     \* bound: restarts

MaxAge == Timeout + 1

ASSUME VisibilityAssumption ==
    /\ MaxAttempts \in Nat \ {0} /\ Timeout \in Nat
    /\ MaxBeats \in Nat /\ MaxCrashes \in Nat

VARIABLES
    place,      \* per message: "queue", "flight", "dlq", "acked", or "dropped"
                \* by an ack whose append failed
    attempts,   \* per message, delivery_attempts
    age,        \* per message in flight, now - consumed_at
    beat,       \* the messages whose heartbeat waits for the log
    todo,       \* expired_ids of the cleanup pass
    beats, crashes,
    held,       \* time since the delivery, for the properties
    beatAge     \* time since the last heartbeat answered Ok, for the properties

vars == <<place, attempts, age, beat, todo, beats, crashes, held, beatAge>>

\* The id of the task of m: every delivery draws a new one.
Id(m) == <<m, attempts[m]>>

InFlight == {m \in Msgs : place[m] = "flight"}

Older(a) == IF a < MaxAge THEN a + 1 ELSE a

Init ==
    /\ place = [m \in Msgs |-> "queue"]
    /\ attempts = [m \in Msgs |-> 0]
    /\ age = [m \in Msgs |-> 0] /\ held = [m \in Msgs |-> 0]
    /\ beatAge = [m \in Msgs |-> MaxAge]
    /\ beats = [m \in Msgs |-> 0]
    /\ beat = {} /\ todo = {} /\ crashes = 0

Tick ==
    /\ age' = [m \in Msgs |-> Older(age[m])]
    /\ held' = [m \in Msgs |-> Older(held[m])]
    /\ beatAge' = [m \in Msgs |-> Older(beatAge[m])]
    /\ UNCHANGED <<place, attempts, beat, todo, beats, crashes>>
-----------------------------------------------------------------------------
(***************************************************************************)
(* Consumers.                                                              *)
(***************************************************************************)
\* Fault: a delivery is not counted.
DequeueUncounted(m) ==
    /\ place[m] = "queue"
    /\ place' = [place EXCEPT ![m] = "flight"]
    /\ age' = [age EXCEPT ![m] = 0]
    /\ held' = [held EXCEPT ![m] = 0]
    /\ beatAge' = [beatAge EXCEPT ![m] = MaxAge]
    /\ beats' = [beats EXCEPT ![m] = 0]
    /\ UNCHANGED <<attempts, beat, todo, crashes>>

Dequeue(m) ==
    /\ place[m] = "queue"
    /\ place' = [place EXCEPT ![m] = "flight"]
    /\ attempts' = [attempts EXCEPT ![m] = @ + 1]
    /\ age' = [age EXCEPT ![m] = 0]
    /\ held' = [held EXCEPT ![m] = 0]
    /\ beatAge' = [beatAge EXCEPT ![m] = MaxAge]
    /\ beats' = [beats EXCEPT ![m] = 0]
    /\ UNCHANGED <<beat, todo, crashes>>

\* The task is removed before the append, and not restored when that fails.
Ack(m) ==
    /\ m \in InFlight \ beat
    /\ \E p \in {"acked", "dropped"} : place' = [place EXCEPT ![m] = p]
    /\ UNCHANGED <<attempts, age, beat, todo, beats, crashes, held, beatAge>>

\* Fault: one delivery too many.
RequeueLate(m) ==
    place' = [place EXCEPT ![m] = IF attempts[m] > MaxAttempts THEN "dlq" ELSE "queue"]

\* nack: back to the queue, or to the dead letter queue.
Requeue(m) ==
    place' = [place EXCEPT ![m] = IF attempts[m] >= MaxAttempts THEN "dlq" ELSE "queue"]

\* When its append fails the task is restored as it was.
Nack(m) ==
    /\ m \in InFlight \ beat
    /\ Requeue(m) \/ UNCHANGED place
    /\ UNCHANGED <<attempts, age, beat, todo, beats, crashes, held, beatAge>>

\* extend_visibility keeps the guard of the task while it waits for the log.
Heartbeat(m) ==
    /\ m \in InFlight \ beat /\ beats[m] < MaxBeats
    /\ beat' = beat \cup {m}
    /\ beats' = [beats EXCEPT ![m] = @ + 1]
    /\ UNCHANGED <<place, attempts, age, todo, crashes, held, beatAge>>

\* Fault: the heartbeat is logged and consumed_at is not set.
HeartbeatForgotten(m) ==
    /\ m \in beat
    /\ beat' = beat \ {m}
    /\ beatAge' = [beatAge EXCEPT ![m] = 0]
    /\ UNCHANGED <<place, attempts, age, todo, beats, crashes, held>>

\* consumed_at becomes now; the requested duration is logged and not used.
HeartbeatDone(m) ==
    /\ m \in beat
    /\ beat' = beat \ {m}
    /\ age' = [age EXCEPT ![m] = 0]
    /\ beatAge' = [beatAge EXCEPT ![m] = 0]
    /\ UNCHANGED <<place, attempts, todo, beats, crashes, held>>

\* The append fails, or the client goes away.
HeartbeatLost(m) ==
    /\ m \in beat
    /\ beat' = beat \ {m}
    /\ UNCHANGED <<place, attempts, age, todo, beats, crashes, held, beatAge>>
-----------------------------------------------------------------------------
(***************************************************************************)
(* The cleanup loop.  One pass scans, which waits for the guards of the    *)
(* heartbeats, and then nacks id by id.                                    *)
(***************************************************************************)
\* Fault: a task on its last delivery is passed over.
ExpiredWithRetries == {m \in InFlight : age[m] > Timeout /\ attempts[m] < MaxAttempts}

\* scan_expired_tasks
Expired == {m \in InFlight : age[m] > Timeout}

Scan ==
    /\ todo = {} /\ beat = {}
    /\ todo' = {Id(m) : m \in Expired}
    /\ UNCHANGED <<place, attempts, age, beat, beats, crashes, held, beatAge>>

\* Fault: a task is found by its message.
CleanupNackAny(m) ==
    /\ \E n \in 1..MaxAttempts : <<m, n>> \in todo /\ todo' = todo \ {<<m, n>>}
    /\ m \in InFlight => m \notin beat
    /\ IF m \in InFlight THEN Requeue(m) ELSE UNCHANGED place
    /\ UNCHANGED <<attempts, age, beat, beats, crashes, held, beatAge>>

\* nack of one of the ids.  The task may be gone, or delivered again under
\* another id; or the append fails and the task is restored.  The loop goes on
\* with the next id in any case.
CleanupNack(m) ==
    \E n \in 1..MaxAttempts :
        /\ <<m, n>> \in todo
        /\ todo' = todo \ {<<m, n>>}
        /\ \/ m \in InFlight \ beat /\ Id(m) = <<m, n>> /\ (Requeue(m) \/ UNCHANGED place)
           \/ ~(m \in InFlight /\ Id(m) = <<m, n>>) /\ UNCHANGED place
        /\ UNCHANGED <<attempts, age, beat, beats, crashes, held, beatAge>>

\* The server restarts with its log: the replay gives every task in flight
\* the time of the restart as consumed_at, and brings the tasks back whose ack
\* is not in the log.
Restart ==
    /\ crashes < MaxCrashes
    /\ crashes' = crashes + 1
    /\ place' = [m \in Msgs |-> IF place[m] = "dropped" THEN "flight" ELSE place[m]]
    /\ age' = [m \in Msgs |-> 0]
    /\ beat' = {} /\ todo' = {}
    /\ UNCHANGED <<attempts, beats, held, beatAge>>
-----------------------------------------------------------------------------
Consumer(m) ==
    \/ Dequeue(m) \/ Ack(m) \/ Nack(m)
    \/ Heartbeat(m) \/ HeartbeatDone(m) \/ HeartbeatLost(m)

Cleanup == Scan \/ \E m \in Msgs : CleanupNack(m)

Next == Tick \/ (\E m \in Msgs : Consumer(m)) \/ Cleanup \/ Restart

\* Time passes, the cleanup loop runs until the server is shut down, a
\* heartbeat gets its answer from the log.  Consumers may stop at any time, and
\* any append may fail.
Fairness ==
    /\ WF_vars(Tick)
    /\ WF_vars(Cleanup)
    /\ \A m \in Msgs : WF_vars(HeartbeatDone(m) \/ HeartbeatLost(m))

Spec == Init /\ [][Next]_vars /\ Fairness
-----------------------------------------------------------------------------
\* The values of the variables; no message is delivered more than MaxAttempts
\* times.
TypeOK ==
    /\ place \in [Msgs -> {"queue", "flight", "dlq", "acked", "dropped"}]
    /\ attempts \in [Msgs -> 0..MaxAttempts]
    /\ age \in [Msgs -> 0..MaxAge] /\ held \in [Msgs -> 0..MaxAge]
    /\ beatAge \in [Msgs -> 0..MaxAge]
    /\ beat \subseteq InFlight
    /\ todo \subseteq Msgs \X (1..MaxAttempts)
    /\ beats \in [Msgs -> 0..MaxBeats] /\ crashes \in 0..MaxCrashes

\* The cleanup loop takes no task from its consumer before Timeout has passed
\* since this very delivery, although the list it works on may be older than
\* the delivery.
NotBeforeTimeout ==
    [][\A m \in Msgs : CleanupNack(m) /\ place'[m] # place[m] => held[m] > Timeout]_vars

\* No scan finds a task expired within Timeout after a heartbeat that was
\* answered Ok.
ScanRespectsHeartbeat ==
    [][\A m \in Msgs : Id(m) \in todo' \ todo => beatAge[m] > Timeout]_vars

\* The assumption behind the two properties below: the log recovers.  When the
\* cleanup loop comes to the nack of a message again and again, the append does
\* not fail every time.  The code does not guarantee it: on a disk that stays
\* full every pass restores every task, and none ever leaves in_flight.
LogRecovers ==
    \A m \in Msgs : SF_vars(CleanupNack(m) /\ place'[m] # place[m])

\* If the log recovers, a task that its consumer has abandoned comes back: a
\* task in flight does not stay in flight, through heartbeats, lost answers,
\* cleanup passes whose nack fails, and restarts.
AbandonedReturns ==
    LogRecovers => \A m \in Msgs : place[m] = "flight" ~> place[m] # "flight"

\* If the log recovers and somebody keeps polling the queue, every message
\* leaves the queue and the flight for good: it is acknowledged, or dropped by
\* an ack whose append failed, or in the dead letter queue.
EventuallySettled ==
    LogRecovers /\ (\A m \in Msgs : WF_vars(Dequeue(m))) =>
        \A m \in Msgs : <>[](place[m] \in {"acked", "dropped", "dlq"})
=============================================================================
