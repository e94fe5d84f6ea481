-------------------------- MODULE VisibilityProofs --------------------------
(***************************************************************************)
(* What the visibility timeout promises, for any number of messages, any   *)
(* Timeout and any MaxAttempts: the number of deliveries is bounded, and   *)
(* neither the scan nor the list it leaves behind takes a task too early.  *)
(***************************************************************************)
EXTENDS Visibility, TLAPS

USE VisibilityAssumption

(***************************************************************************)
(* The inductive invariant.                                                *)
(***************************************************************************)
\* A message that waits in the queue may be delivered once more, and one in
\* flight has been delivered.
Deliverable ==
    \A m \in Msgs : /\ place[m] = "queue" => attempts[m] < MaxAttempts
                    /\ place[m] \in {"flight", "dropped"} => attempts[m] > 0

\* consumed_at is no earlier than the delivery and than the last heartbeat that
\* was answered Ok: a heartbeat and a restart only make a task younger.
Younger == \A m \in Msgs : age[m] <= held[m] /\ age[m] <= beatAge[m]

\* An id on the list of the cleanup pass is that of an earlier delivery, or of
\* the present one, and then this delivery is older than Timeout.
Listed ==
    \A m \in Msgs : \A n \in 1..MaxAttempts : <<m, n>> \in todo =>
        /\ n <= attempts[m]
        /\ m \in InFlight /\ n = attempts[m] => held[m] > Timeout

VisibilityInv == TypeOK /\ Deliverable /\ Younger /\ Listed
-----------------------------------------------------------------------------
\* Init establishes the invariant: nothing is in flight and no list exists.
LEMMA VisibilityInit == Init => VisibilityInv
<1> SUFFICES ASSUME Init PROVE VisibilityInv
    OBVIOUS
<1>1. TypeOK
    BY DEF Init, TypeOK, MaxAge, InFlight
<1>2. Deliverable /\ Younger /\ Listed
    BY DEF Init, Deliverable, Younger, Listed, MaxAge
<1> QED
    BY <1>1, <1>2 DEF VisibilityInv

\* A clock that ages stays within its bound, does not go back, and two clocks
\* that age together keep their order.
LEMMA OlderClock ==
    ASSUME NEW a \in 0..MaxAge, NEW b \in 0..MaxAge
    PROVE  /\ Older(a) \in 0..MaxAge /\ Older(a) >= a
           /\ a <= b => Older(a) <= Older(b)
BY DEF Older, MaxAge

\* Every step keeps the values of the variables in their sets, and with it the
\* bound on the number of deliveries: a message comes back to the queue only
\* below MaxAttempts.
LEMMA TypeStep == VisibilityInv /\ [Next]_vars => TypeOK' /\ Deliverable'
<1> SUFFICES ASSUME TypeOK, Deliverable, [Next]_vars
             PROVE  TypeOK' /\ Deliverable'
    BY DEF VisibilityInv
<1>1. CASE Tick
    <2>1. \A m \in Msgs : Older(age[m]) \in 0..MaxAge /\ Older(held[m]) \in 0..MaxAge
                          /\ Older(beatAge[m]) \in 0..MaxAge
        BY OlderClock DEF TypeOK
    <2> QED
        BY <1>1, <2>1 DEF Tick, TypeOK, Deliverable, InFlight
<1>2. ASSUME NEW m \in Msgs, Dequeue(m) PROVE TypeOK' /\ Deliverable'
    BY <1>2 DEF Dequeue, TypeOK, Deliverable, InFlight, MaxAge
<1>3. ASSUME NEW m \in Msgs, Ack(m) PROVE TypeOK' /\ Deliverable'
    BY <1>3 DEF Ack, TypeOK, Deliverable, InFlight
<1>4. ASSUME NEW m \in Msgs, Nack(m) PROVE TypeOK' /\ Deliverable'
    BY <1>4 DEF Nack, Requeue, TypeOK, Deliverable, InFlight
<1>5. ASSUME NEW m \in Msgs, Heartbeat(m) PROVE TypeOK' /\ Deliverable'
    BY <1>5 DEF Heartbeat, TypeOK, Deliverable, InFlight
<1>6. ASSUME NEW m \in Msgs, HeartbeatDone(m) PROVE TypeOK' /\ Deliverable'
    BY <1>6 DEF HeartbeatDone, TypeOK, Deliverable, InFlight, MaxAge
<1>7. ASSUME NEW m \in Msgs, HeartbeatLost(m) PROVE TypeOK' /\ Deliverable'
    BY <1>7 DEF HeartbeatLost, TypeOK, Deliverable, InFlight
<1>8. CASE Scan
    BY <1>8 DEF Scan, Expired, Id, TypeOK, Deliverable, InFlight
<1>9. ASSUME NEW m \in Msgs, CleanupNack(m) PROVE TypeOK' /\ Deliverable'
    <2>1. /\ todo' \subseteq todo
          /\ (m \in InFlight \ beat /\ Requeue(m)) \/ UNCHANGED place
          /\ UNCHANGED <<attempts, age, beat, beats, crashes, held, beatAge>>
        BY <1>9 DEF CleanupNack
    <2>2. CASE m \in InFlight \ beat /\ Requeue(m)
        BY <2>1, <2>2 DEF Requeue, TypeOK, Deliverable, InFlight
    <2>3. CASE UNCHANGED place
        BY <2>1, <2>3 DEF TypeOK, Deliverable, InFlight
    <2> QED
        BY <2>1, <2>2, <2>3
<1>10. CASE Restart
    BY <1>10 DEF Restart, TypeOK, Deliverable, InFlight, MaxAge
<1>11. CASE UNCHANGED vars
    BY <1>11 DEF vars, TypeOK, Deliverable, InFlight
<1> QED
    BY <1>1, <1>2, <1>3, <1>4, <1>5, <1>6, <1>7, <1>8, <1>9, <1>10, <1>11
       DEF Next, Consumer, Cleanup

\* Every step keeps consumed_at behind the delivery and the heartbeats.
LEMMA YoungerStep == VisibilityInv /\ [Next]_vars => Younger'
<1> SUFFICES ASSUME TypeOK, Younger, [Next]_vars PROVE Younger'
    BY DEF VisibilityInv
<1>1. CASE Tick
    BY <1>1, OlderClock DEF Tick, TypeOK, Younger
<1>2. ASSUME NEW m \in Msgs, Consumer(m) PROVE Younger'
    BY <1>2 DEF Consumer, Dequeue, Ack, Nack, Heartbeat, HeartbeatDone, HeartbeatLost,
                TypeOK, Younger, MaxAge
<1>3. CASE Cleanup
    BY <1>3 DEF Cleanup, Scan, CleanupNack, Younger
<1>4. CASE Restart
    BY <1>4 DEF Restart, TypeOK, Younger
<1>5. CASE UNCHANGED vars
    BY <1>5 DEF vars, Younger
<1> QED
    BY <1>1, <1>2, <1>3, <1>4, <1>5 DEF Next

\* Every step keeps the list of the cleanup pass harmless: a delivery after the
\* scan draws a new id, and the scan lists only tasks older than Timeout.
LEMMA ListedStep == VisibilityInv /\ [Next]_vars => Listed'
<1> SUFFICES ASSUME TypeOK, Deliverable, Younger, Listed, [Next]_vars PROVE Listed'
    BY DEF VisibilityInv
<1>1. CASE Tick
    <2>1. \A m \in Msgs : held'[m] >= held[m] /\ held'[m] \in 0..MaxAge
        BY <1>1, OlderClock DEF Tick, TypeOK
    <2> QED
        BY <1>1, <2>1 DEF Tick, TypeOK, Listed, InFlight, MaxAge
<1>2. ASSUME NEW m \in Msgs, Dequeue(m) PROVE Listed'
    BY <1>2 DEF Dequeue, TypeOK, Listed, InFlight
<1>3. ASSUME NEW m \in Msgs, Ack(m) \/ Nack(m) PROVE Listed'
    BY <1>3 DEF Ack, Nack, Requeue, TypeOK, Listed, InFlight
<1>4. ASSUME NEW m \in Msgs, Heartbeat(m) \/ HeartbeatDone(m) \/ HeartbeatLost(m)
      PROVE  Listed'
    BY <1>4 DEF Heartbeat, HeartbeatDone, HeartbeatLost, TypeOK, Listed, InFlight
<1>5. CASE Scan
    <2>1. ASSUME NEW m \in Msgs, NEW n \in 1..MaxAttempts, <<m, n>> \in todo'
          PROVE  n = attempts[m] /\ age[m] > Timeout
        BY <1>5, <2>1 DEF Scan, Expired, Id
    <2> QED
        BY <1>5, <2>1 DEF Scan, TypeOK, Younger, Listed, InFlight, MaxAge
<1>6. ASSUME NEW m \in Msgs, CleanupNack(m) PROVE Listed'
    BY <1>6 DEF CleanupNack, Requeue, TypeOK, Listed, InFlight
<1>7. CASE Restart
    BY <1>7 DEF Restart, Listed
<1>8. CASE UNCHANGED vars
    BY <1>8 DEF vars, Listed, InFlight
<1> QED
    BY <1>1, <1>2, <1>3, <1>4, <1>5, <1>6, <1>7, <1>8 DEF Next, Consumer, Cleanup

\* The invariant holds in every state.
LEMMA VisibilityInvariant == Spec => []VisibilityInv
<1>1. VisibilityInv /\ [Next]_vars => VisibilityInv'
    BY TypeStep, YoungerStep, ListedStep DEF VisibilityInv
<1> QED
    BY <1>1, VisibilityInit, PTL DEF Spec

\* The values of the variables; in particular no message is delivered more than
\* MaxAttempts times, whoever nacks it and however often the server restarts.
THEOREM TypeCorrect == Spec => []TypeOK
<1>1. VisibilityInv => TypeOK
    BY DEF VisibilityInv
<1> QED
    BY <1>1, VisibilityInvariant, PTL

\* The cleanup loop takes no task before Timeout has passed since the delivery
\* the task stands for, although it works on a list that may be older.
THEOREM NeverTooEarly == Spec => NotBeforeTimeout
<1>1. VisibilityInv =>
        \A m \in Msgs : CleanupNack(m) /\ place'[m] # place[m] => held[m] > Timeout
    <2> SUFFICES ASSUME VisibilityInv, NEW m \in Msgs, CleanupNack(m),
                        place'[m] # place[m]
                 PROVE  held[m] > Timeout
        OBVIOUS
    <2>1. PICK n \in 1..MaxAttempts :
            <<m, n>> \in todo /\ m \in InFlight /\ Id(m) = <<m, n>>
        BY DEF CleanupNack
    <2> QED
        BY <2>1 DEF VisibilityInv, Listed, Id
<1> QED
    BY <1>1, VisibilityInvariant, PTL DEF NotBeforeTimeout

\* A scan lists no task within Timeout after a heartbeat that was answered Ok.
THEOREM HeartbeatHonoured == Spec => ScanRespectsHeartbeat
<1>1. VisibilityInv /\ [Next]_vars =>
        \A m \in Msgs : Id(m) \in todo' \ todo => beatAge[m] > Timeout
    <2> SUFFICES ASSUME TypeOK, Younger, [Next]_vars, NEW m \in Msgs,
                        Id(m) \in todo' \ todo
                 PROVE  beatAge[m] > Timeout
        BY DEF VisibilityInv
    <2>1. Scan
        BY DEF Next, Tick, Consumer, Dequeue, Ack, Nack, Heartbeat, HeartbeatDone,
               HeartbeatLost, Cleanup, CleanupNack, Restart, vars
    <2>2. age[m] > Timeout
        BY <2>1 DEF Scan, Expired, Id
    <2> QED
        BY <2>2 DEF TypeOK, Younger, MaxAge
<1> QED
    BY <1>1, VisibilityInvariant, PTL DEF Spec, ScanRespectsHeartbeat
=============================================================================
