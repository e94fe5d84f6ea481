------------------------------- MODULE Server -------------------------------
(***************************************************************************)
(* A standalone server with a log, as a set of tasks on the worker threads *)
(* of the tokio runtime: which task waits for which guard, for the mutex   *)
(* of the log, for the file, or for a thread; and how the server drains    *)
(* its requests and stops.                                                 *)
(*                                                                         *)
(* A task that waits for the mutex or for the file is suspended and leaves *)
(* its thread.  A task that waits for a DashMap guard blocks its thread.   *)
(* An operation is the list of what it waits for, in the order of the code *)
(* (memory.rs); MemoryStorage has what it does to the maps.                *)
(*                                                                         *)
(* All keys of a map are in one shard here, the case in which all requests *)
(* meet, as those for one queue do.                                        *)
(***************************************************************************)
EXTENDS Naturals, Sequences, FiniteSets, Functions

CONSTANTS
    Requests,     \* the HTTP requests
    Cleaner,      \* the task of the cleanup loop
    Workers,      \* the number of worker threads
    FailingOps    \* the operations whose append to the log may fail

ASSUME ServerAssumption ==
    /\ Cleaner \notin Requests
    /\ Workers \in Nat \ {0}

Tasks == Requests \cup {Cleaner}

VARIABLES
    op,      \* per task, its operation; "none" before it starts, "done" after
    todo,    \* per task, the steps that are left
    at,      \* per task: "idle", "ready", "running", "mutex" or "file"
    guards,  \* per task, the guards it keeps
    wal,     \* the tasks at the mutex: the owner, then who waits for it
    tls,     \* whether the server runs with HTTPS
    phase    \* "up", "draining" or "stopped"

tasks == <<op, todo, at, guards, wal>>
vars  == <<tasks, tls, phase>>
-----------------------------------------------------------------------------
(***************************************************************************)
(* The operations.  A guard that is kept is dropped when the operation     *)
(* returns, another one at once.                                           *)
(***************************************************************************)
Guard(map, mode, kept) == [do |-> "guard", map |-> map, mode |-> mode, kept |-> kept]

Look(map)   == Guard(map, "read", FALSE)
Change(map) == Guard(map, "write", FALSE)
Keep(map)   == Guard(map, "write", TRUE)
Lock        == [do |-> "lock"]
Write      == [do |-> "append"]
Unlock      == [do |-> "unlock"]

\* create_queue, queue and queue_batch.
QueueSteps  == <<Look("queues"), Lock, Write, Unlock, Change("queues")>>

\* Fault: the tasks are inserted before the mutex is given back.
DequeueStepsLocked == <<Keep("queues"), Lock, Write, Change("in_flight"), Unlock>>

\* dequeue and dequeue_batch.
DequeueSteps  == <<Keep("queues"), Lock, Write, Unlock, Change("in_flight")>>
AckSteps      == <<Change("in_flight"), Lock, Write, Unlock>>
NackSteps     == <<Change("in_flight"), Lock, Write, Unlock, Change("queues")>>
ExtendSteps   == <<Keep("in_flight"), Lock, Write, Unlock>>
AckBatchSteps == <<Look("in_flight"), Lock, Write, Unlock, Change("in_flight")>>

\* get_stats, which GET /stats and GET /health call: in_flight is counted once
\* for all and again for each queue, with the guard of the queue in hand.
StatsSteps    == <<Look("in_flight"), Guard("queues", "read", TRUE), Look("in_flight")>>

\* cleanup_expired_tasks that finds one task.
CleanupSteps  == <<Look("in_flight")>> \o NackSteps

Steps(o) ==
    CASE o = "queue"     -> QueueSteps
      [] o = "dequeue"   -> DequeueSteps
      [] o = "ack"       -> AckSteps
      [] o = "nack"      -> NackSteps
      [] o = "extend"    -> ExtendSteps
      [] o = "ack_batch" -> AckBatchSteps
      [] o = "stats"     -> StatsSteps
      [] o = "cleanup"   -> CleanupSteps

Ops == {"queue", "dequeue", "ack", "nack", "extend", "ack_batch", "stats"}

\* Fault: a failed dequeue looks its queue up again to restore the items.
AfterFailureAgain(o) ==
    IF o \in {"nack", "cleanup"} THEN <<Change("in_flight"), Unlock>>
    ELSE IF o = "dequeue" THEN <<Unlock, Change("queues")>> ELSE <<Unlock>>

\* Fault: an append that has failed is tried again with the mutex in hand.
AfterFailureRetry(o) == <<Lock, Write, Unlock>>

\* What is left when the append has failed.  The mutex guard is a temporary of
\* the `if let` and lives until the block that compensates has ended: a nack
\* puts its task back with the mutex in hand.
AfterFailure(o) ==
    IF o \in {"nack", "cleanup"} THEN <<Change("in_flight"), Unlock>> ELSE <<Unlock>>
-----------------------------------------------------------------------------
Init ==
    /\ op = [t \in Tasks |-> "none"] /\ todo = [t \in Tasks |-> <<>>]
    /\ at = [t \in Tasks |-> "idle"] /\ guards = [t \in Tasks |-> {}]
    /\ wal = <<>> /\ tls \in BOOLEAN /\ phase = "up"

Running == {t \in Tasks : at[t] = "running"}

\* A thread that is not taken.  Only such a thread runs the driver of the
\* runtime, which sees timers, signals and closed connections.
FreeWorker == Cardinality(Running) < Workers

\* The guards that keep a task from taking the guard g; its own do as well.
InTheWay(g) ==
    {t \in Tasks : \E k \in guards[t] :
        k.map = g.map /\ (k.mode = "write" \/ g.mode = "write")}

\* The task returns, or its future is dropped: it leaves its thread, its guards
\* and the mutex, which goes to the next task in line.
Leave(t, next) ==
    LET i    == CHOOSE i \in DOMAIN wal : wal[i] = t
        rest == IF t \in Range(wal)
                THEN SubSeq(wal, 1, i - 1) \o SubSeq(wal, i + 1, Len(wal))
                ELSE wal
    IN  /\ op' = [op EXCEPT ![t] = next]
        /\ todo' = [todo EXCEPT ![t] = <<>>]
        /\ guards' = [guards EXCEPT ![t] = {}]
        /\ wal' = rest
        /\ at' = [s \in Tasks |->
                    IF s = t THEN "idle"
                    ELSE IF rest # <<>> /\ s = Head(rest) /\ at[s] = "mutex" THEN "ready"
                    ELSE at[s]]

After(t) == IF t = Cleaner THEN "none" ELSE "done"

Start(t, o) ==
    /\ op[t] = "none"
    /\ op' = [op EXCEPT ![t] = o]
    /\ todo' = [todo EXCEPT ![t] = Steps(o)]
    /\ at' = [at EXCEPT ![t] = "ready"]
    /\ UNCHANGED <<guards, wal, tls, phase>>

\* A request comes in.
Arrive(r, o) == phase = "up" /\ Start(r, o)

\* The interval of the cleanup loop.
Tick == Start(Cleaner, "cleanup")

\* A woken task gets a thread.
Poll(t) ==
    /\ at[t] = "ready" /\ FreeWorker
    /\ at' = [at EXCEPT ![t] = "running"]
    /\ UNCHANGED <<op, todo, guards, wal, tls, phase>>
-----------------------------------------------------------------------------
(***************************************************************************)
(* The steps of a task that has a thread.                                  *)
(***************************************************************************)
Next1(t, do) == at[t] = "running" /\ todo[t] # <<>> /\ Head(todo[t]).do = do

Rest(t) == todo' = [todo EXCEPT ![t] = Tail(@)]

TakeGuard(t) ==
    /\ Next1(t, "guard")
    /\ InTheWay(Head(todo[t])) = {}
    /\ guards' = [guards EXCEPT ![t] = @ \cup {g \in {Head(todo[t])} : g.kept}]
    /\ Rest(t)
    /\ UNCHANGED <<op, at, wal, tls, phase>>

\* The first look-up finds no such queue or task, an empty queue, or no expired
\* task.
NotFound(t) ==
    /\ Next1(t, "guard") /\ todo[t] = Steps(op[t]) /\ op[t] # "stats"
    /\ InTheWay(Head(todo[t])) = {}
    /\ Leave(t, After(t))
    /\ UNCHANGED <<tls, phase>>

\* wal.lock().await: the mutex is given in the order in which tasks ask.
TakeMutex(t) ==
    /\ Next1(t, "lock")
    /\ wal' = wal \o <<t>>
    /\ at' = [at EXCEPT ![t] = IF wal = <<>> THEN "running" ELSE "mutex"]
    /\ Rest(t)
    /\ UNCHANGED <<op, guards, tls, phase>>

\* The write to the file runs on another thread.
BeginAppend(t) ==
    /\ Next1(t, "append")
    /\ at' = [at EXCEPT ![t] = "file"]
    /\ UNCHANGED <<op, todo, guards, wal, tls, phase>>

EndAppend(t) ==
    /\ at[t] = "file"
    /\ at' = [at EXCEPT ![t] = "ready"]
    /\ \/ Rest(t)
       \/ op[t] \in FailingOps /\ todo' = [todo EXCEPT ![t] = AfterFailure(op[t])]
    /\ UNCHANGED <<op, guards, wal, tls, phase>>

GiveMutex(t) ==
    /\ Next1(t, "unlock")
    /\ wal' = Tail(wal)
    /\ at' = [s \in Tasks |-> IF Len(wal) > 1 /\ s = wal[2] THEN "ready" ELSE at[s]]
    /\ Rest(t)
    /\ UNCHANGED <<op, guards, tls, phase>>

Return(t) ==
    /\ at[t] = "running" /\ todo[t] = <<>>
    /\ Leave(t, After(t))
    /\ UNCHANGED <<tls, phase>>

\* The client closes its connection while its request is suspended.
Disconnect(r) ==
    /\ at[r] \in {"ready", "mutex", "file"} /\ FreeWorker
    /\ Leave(r, "done")
    /\ UNCHANGED <<tls, phase>>
-----------------------------------------------------------------------------
(***************************************************************************)
(* Shutdown.                                                               *)
(***************************************************************************)
\* SIGTERM or Ctrl+C: the token is cancelled and no request is taken any more.
Signal ==
    /\ phase = "up" /\ FreeWorker
    /\ phase' = "draining"
    /\ UNCHANGED <<tasks, tls>>

\* The cleanup loop sees the token between two passes.
CleanupEnds ==
    /\ phase = "draining" /\ op[Cleaner] = "none"
    /\ op' = [op EXCEPT ![Cleaner] = "done"]
    /\ UNCHANGED <<todo, at, guards, wal, tls, phase>>

\* run_server returns and main ends once all requests have been answered.
Drained ==
    /\ phase = "draining"
    /\ \A r \in Requests : at[r] = "idle"
    /\ phase' = "stopped"
    /\ UNCHANGED <<tasks, tls>>

\* With HTTPS it returns ten seconds after the signal at the latest.
Deadline ==
    /\ phase = "draining" /\ tls /\ FreeWorker
    /\ phase' = "stopped"
    /\ UNCHANGED <<tasks, tls>>
-----------------------------------------------------------------------------
Step(t) ==
    \/ TakeGuard(t) \/ NotFound(t) \/ TakeMutex(t)
    \/ BeginAppend(t) \/ GiveMutex(t) \/ Return(t)

Next ==
    /\ phase # "stopped"
    /\ \/ \E r \in Requests, o \in Ops : Arrive(r, o)
       \/ \E r \in Requests : Disconnect(r)
       \/ \E t \in Tasks : Poll(t) \/ Step(t) \/ EndAppend(t)
       \/ Tick \/ Signal \/ CleanupEnds \/ Drained \/ Deadline

\* A woken task is polled while there is a free thread, a thread that can go on
\* does, the file answers, and the server that may stop stops.
Fairness ==
    /\ \A t \in Tasks : /\ WF_vars(phase # "stopped" /\ Poll(t))
                        /\ WF_vars(phase # "stopped" /\ Step(t))
                        /\ WF_vars(phase # "stopped" /\ EndAppend(t))
    /\ WF_vars(Drained \/ Deadline)

Spec == Init /\ [][Next]_vars /\ Fairness
-----------------------------------------------------------------------------
\* The values of the variables.  A task that is not at work holds nothing, the
\* owner of the mutex never waits for it, and everyone behind the owner does.
TypeOK ==
    /\ op \in [Tasks -> Ops \cup {"cleanup", "none", "done"}]
    /\ at \in [Tasks -> {"idle", "ready", "running", "mutex", "file"}]
    /\ Cardinality(Running) <= Workers
    /\ \A t \in Tasks : at[t] = "idle" =>
          todo[t] = <<>> /\ guards[t] = {} /\ t \notin Range(wal)
    /\ \A i \in DOMAIN wal : at[wal[i]] = "mutex" <=> i > 1
    /\ tls \in BOOLEAN /\ phase \in {"up", "draining", "stopped"}

\* Whom a task waits for: who keeps the guard it needs, or owns the mutex.
WaitsFor(t) ==
    IF at[t] = "mutex" THEN {Head(wal)}
    ELSE IF Next1(t, "guard") THEN InTheWay(Head(todo[t])) ELSE {}

\* No tasks wait for each other in a circle, although guards of either map are
\* kept across the wait for the mutex and the mutex is asked for with guards in
\* hand.
NoWaitCycle ==
    \A S \in (SUBSET Tasks) \ {{}} : \E t \in S : WaitsFor(t) \cap S = {}

\* Every request is answered, whatever the others wait for and whoever
\* disconnects, unless the server stops first.  This needs a thread for every
\* task and that no append of a nack fails (those of the other operations may):
\* with fewer threads see HealthAnswered, with failing nacks NoWaitCycle.
Answered ==
    \A r \in Requests : op[r] \in Ops ~> (op[r] = "done" \/ phase = "stopped")

\* After a signal the server stops.
ShutsDown == phase = "draining" ~> phase = "stopped"

\* GET /health gets an answer.
HealthAnswered ==
    \A r \in Requests : op[r] = "stats" ~> (op[r] = "done" \/ phase = "stopped")
=============================================================================
