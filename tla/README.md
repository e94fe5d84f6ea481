# A TLA+ verification of OxideQ

OxideQ is an HTTP task queue written in Rust: named FIFO queues, tasks that are
leased to consumers and acknowledged, retries, dead letter queues, an optional
write-ahead log, and a cluster mode on top of Raft (the `openraft` crate).  This
directory holds TLA+ models of its core, the TLC configurations that check them,
and TLAPS proofs.  Paths below are relative to the repository's `src/` directory.

## 1. Inventory

| Part | State | Operations |
| --- | --- | --- |
| `storage/memory.rs`, `InMemoryStorage` | `queues: DashMap<String, VecDeque<QueueItem>>`, `in_flight: DashMap<String, InFlightTask>`, `wal: Option<Mutex<WalManager>>` | `create_queue`, `queue`, `dequeue`, `ack`, `nack`, `extend_visibility`, `cleanup_expired_tasks`, the batch forms, `get_stats`, `new_persistent`, snapshot data |
| `storage/wal/*`, `WalManager` | an append-only file of JSON lines | `append` (write, flush), `replay` |
| `lib.rs` | the router's `AppState`, a cleanup task | one handler per route; in cluster mode each write goes through `raft.client_write` |
| `replication/combined_storage.rs`, `CombinedStorage` | a sled database (trees `logs`, `store`), the state machine, `last_applied_log` in memory | log: append, delete conflicts, purge, read; vote; apply; snapshots |
| `replication/network.rs` | an HTTP client | append, vote and snapshot RPCs |
| `main.rs`, `server`, `shutdown`, `tls`, `telemetry` | environment, a cancellation token | start, drain, stop |
| tokio, `DashMap`, hyper (external) | worker threads, the lock of each shard, open connections | poll, block, suspend, drop a future |

**How the parts interact.**  A request runs on any thread of the tokio runtime.
In standalone mode its handler calls `InMemoryStorage` directly; the storage has no
lock of its own: the maps are locked per shard for one access at a time, and the log has a
mutex that is taken only for one append.  The cleanup task scans `in_flight` every
`OXIDEQ_CLEANUP_INTERVAL` seconds and nacks what it found.  In cluster mode a
handler submits a `ClientRequest` to Raft, which appends it to the log that
`CombinedStorage` keeps and then calls `apply_to_state_machine`, which runs the
same storage operations without a write-ahead log.

**What is hard.**
* Every operation is a sequence of separate map accesses around one
  `wal.lock().await.append(..).await`.  Some look first and change later
  (`create_queue`, `ack_batch`, `queue`), some change first and undo when the
  append fails (`dequeue`, `nack`), `ack` changes first and does not undo.
* `dequeue` and `extend_visibility` keep a `DashMap` guard across the append.
* The order of the log entries is the order of the appends, not of the changes,
  and a `Dequeued` entry carries no payload: the replay relies on positions.
* A handler whose connection closes is dropped where it waits.
* The cleanup task works on a list that is older than what it finds.
* A process may end between any two stages, or in the middle of a line.
* In cluster mode the log is applied again after a restart, with new task ids.
* A `DashMap` access that meets a guard blocks its worker thread; the task that keeps
  the guard is suspended and needs a thread to go on.
* The format of a stored body is guessed when it is read, and the names that `nack` makes
  are not validated.

**What makes each part correct.**

| Part | Properties |
| --- | --- |
| storage | an accepted message is never lost and never in two places; an acknowledged one is gone; retries go first; a message is delivered at most `MaxAttempts` times before the DLQ |
| log | the replay gives back what was in memory, loses nothing accepted, brings nothing acknowledged back, keeps the order |
| visibility | no task is taken away before its timeout, a heartbeat counts, an abandoned task comes back, every message is settled in the end |
| storage, as a whole | concurrent requests behave like operations that take effect one after the other |
| cluster | applying the log again neither loses nor doubles a message; every entry is one operation; an acknowledged message stays gone |
| runtime | no circle of waiting tasks; every request is answered; after a signal the server stops |
| HTTP interface | a consumer gets the value that was sent; a message that waits can be fetched, also from a dead letter queue |

The places where each can go wrong are listed as `hazards` in `PROJECT.json`.

## 2. Modules

```
QueueState ── Wal ── MemoryStorage ── StorageRefinement ─┬─ MCMemoryStorage
    │          │          │                              └─ DeliveryProofs
    │          │          └─ MemoryStorageProofs ── NoLossProofs ──┘
    │          └─ StorageLemmas ───┴─ ClusterProofs
    ├─ TaskService   (INSTANCEd by StorageRefinement and ClusterNode)
    └─ ClusterNode ─┬─ MCClusterNode
                    └─ ClusterProofs
Visibility ─┬─ MCVisibility          Server ─┬─ MCServer          Api ─┬─ MCApi
            └─ VisibilityProofs              └─ ServerProofs           └─ ApiProofs
```

### QueueState
The two maps as functions on their keys and the elementary changes made to them:
`Deliver` (the tasks a dequeue makes), `Enqueue`, `Requeue` (what `nack` does with
a failed task).  A payload is the identity of a message, a task id a number that is
never drawn twice (a version 4 UUID).  A queue name is a pair of a base name and the number of
`_dlq` suffixes, so that `Dlq` is what `format!("{}_dlq", ..)` does.

### Wal
The entries (`WalOp`: only enqueues carry payloads) and the loop of `new_persistent`
(`ReplayOp`).  Replaying is a left fold, so a file is represented by the state its complete
entries replay to and by how it ends: clean, a last line without its newline, or a
line that does not parse.  `Recover` is `replay(path).unwrap_or_default()`.

### MemoryStorage
`InMemoryStorage` under concurrent requests.  A request of an actor `c` is a record
`h[c]` and has three stages: the first action of the operation (`CreateQueue`,
`Queue`, `Dequeue`, `Ack`, `Nack`, `ExtendVisibility`, `AckBatch`) does what the
code does before the append, `Log` or `LogFail` is the append, and `Finish...` is
the rest.  The single and the batch form of an operation are one action with a
count.  What a request has taken out of the maps is in `h[c].items`.

* The guards held across the append are `QueueLocked` and `TaskLocked`.  They are per
  key; `DashMap` locks the shard of the key, so the program has fewer
  interleavings than the model.
* A request that fails before it changes anything (unknown queue or id, empty
  queue) is not a step.
* `ack_batch` checks its ids one after the other; the model does it at once.
  Nothing is lost by this: a check that an id is in flight can only become false
  afterwards (an id is drawn once; the one id that returns is that of a nack whose append
  failed, and it returns to the same task), and what
  happens between two checks may as well happen after all of them.  The same
  holds for the removals after the append.
* `Scan` may find any set of tasks, because time is not in this module.
* `LogFail` is an append that returns an error (`"walfail"`), which may leave a
  part of a line when `"tear"` is allowed; `Disconnect` drops the handler of a
  client at the append, which either was cancelled or goes on, in the operations of `DropOps`; `Restart` ends the
  process at any point, with `"cut"` also in the middle of the line an append is writing,
  and replays the file.
* `due`, `acked`, `removed`, `delivered` are history variables.  `acked` has every id for which an `ack` or
  `ack_batch` was answered Ok, `removed` the messages whose task such a request really took out of `in_flight`;
  for an `ack_batch` that has lost a race the two differ.  A message is *due* from the
  moment its enqueue answers Ok until an ack removes its task from memory or an ack_batch of it
  is in the log.  When a crash leaves a part of the line of an ack, the client has no
  answer and the message is not due any more (`Unanswered`).

### TaskService and StorageRefinement
`TaskService` is what the `Storage` trait promises (`storage/mod.rs`): a queue is created
and never replaced, messages join the end of a queue, a consumer leases the ones that have
waited longest, settles tasks it holds and is told Ok for exactly those (`settled`), or returns one, which goes to the front of its queue or to the end
of the dead letter queue.  Every operation is one step and none fails, and a settled id is never leased again.

`StorageRefinement` maps the concurrent storage to it.  Items a `dequeue` has popped are still
*waiting*, in front, until it puts them in flight; a task an `ack` or a `nack` has removed is still *leased* until the ack is
answered or its item is queued; `settled` is `acked`.  So an append that fails must come out as no step at all: `dequeue` has to put
its items back in their order and `nack` the same task under the same id.
`Linearizable` says that every step is, under this mapping, nothing or a step of `TaskService`, with two exceptions
where the code does not implement it.  Both are actions of `StorageRefinement`, so that the property says how far they go: `ForfeitedAck`, an ack
whose append fails or whose client leaves, takes its one task away with no Ok; `RacedAckBatch`, an
`ack_batch` not all of whose tasks are still in flight, removes the others and is answered Ok for all.  The second is what the run `ack_batch_race` shows.
In `ClusterNode` the state machine itself is the mapping (`AppliesOperations`), acks need no exception, and a restart,
which empties the state machine, is the one step that is excepted.

### Visibility
`consumed_at`, heartbeats and the cleanup loop with clocks.  Clocks are ages that
stop at `MaxAge`, one more than the timeout: nothing compares an age with anything larger, so the cap does not merge states that differ.
Requests are atomic, except that a heartbeat waits for the log (holding the
guard of its task) and a cleanup pass nacks id by id.  Appends may fail: a nack, of a client or of the cleanup
loop, then restores its task, and the loop goes on with the next id; an ack leaves the message `"dropped"`, gone from
memory and still in the log, so that a restart brings it back.

### ClusterNode
A node in cluster mode.  Handlers append an entry (`ClientWrite`) and wait for its
index; `Apply` carries out the next entry on the state machine, drawing new
ids for a dequeue, and answers whoever waits; `Restart` keeps the log and nothing else; `Purge`
deletes applied entries.  openraft is external.  The model is a cluster of one
voter, the one `/raft/init` makes: an entry is committed when it is on disk, and
applied in order.  No entry reaches a second node at this commit, because the
`/raft` routes sit behind `auth_middleware` (`lib.rs:741-751`) and `network.rs` sends
no password (section 4), so that a model of several nodes would show states this program does not reach.

### Server
The tasks of a standalone server with a log: requests and the cleanup loop, on `Workers`
threads.  An operation is the list of what it waits for, in the order of the code: guards
of the two maps (`Look` and `Change` for one access, `Keep` for one that lives until the
operation returns), the mutex of the log, the append.  A task that waits for the mutex or
the file is suspended and leaves its thread (`at` is `"mutex"` or `"file"`); one that waits for a guard
keeps its thread (`"running"`).  `Disconnect` drops a suspended request with all it holds.
`Signal`, `CleanupEnds`, `Drained` and `Deadline` are the shutdown: over HTTP `run_server` returns when
all requests are answered, over HTTPS after ten seconds at the latest.

* All keys of a map are in one shard.  Guards are only ever kept in the order queues before `in_flight` before
  the mutex, with the one exception that `AfterFailure` shows, so more shards only
  take waits away.
* Timers, signals and closed connections are seen by the driver of the runtime, which an
  idle worker thread runs (`FreeWorker`).

### Api
The HTTP interface around one message, request after request: `auth_middleware`,
`validate_queue_name`, the formats of `queue_batch` and `dequeue_batch`, the status codes of the handlers and the
`/raft` routes.  A name is a length and
whether its characters are allowed; a body is the value, who encoded it, and its first byte, by
which `dequeue_batch` tells the formats apart.  `Encode` and `Decode` are the conversions; what `serde_json`
and `rmp_serde` make of each other's bytes is external.  `enqueue` and `dequeue` hand bytes through and have no conversion.
`Store` and `Fetch` are what the single and the batch routes have in common.  `WriteFails` is a `client_write` that returns an error, `AppendFails` an
append of a standalone server that fails in an operation which then leaves everything as it was; an `ack` whose append fails
is not one of these: it is answered 404 after it has removed the task (`storage/memory.rs:265-269`, `lib.rs:235`).  The branch of
`nack` for a queue that does not exist (`storage/memory.rs:314`) is not reached, because no operation removes a queue.
A node of a cluster starts as a follower and may have another role after any call to Raft.

## 3. Runs

Passing runs:

| Run | What it shows | Bounds |
| --- | --- | --- |
| `mem_interleave` | `Linearizable`, `NoLoss`, `SingleCopy`, `RemovedGone`, `RetriesFirst`, `AttemptsCounted`, `TypeOK` under every interleaving of two clients and the cleanup loop, with appends that fail and clients that disconnect | 2 messages, 2 ids, batches of 2, `MaxAttempts` 2, one creator |
| `wal_serial` | `RecoveryExact`, `DurableLive`, `DurableAck`, `FreshInOrder`, `DeliveryBound` with requests one at a time (one actor is client and cleanup loop) | 3 messages, 3 ids, batches of 2, 2 crashes, failing appends that leave nothing in the file, lines cut short by a crash |
| `visibility` | `NotBeforeTimeout`, `ScanRespectsHeartbeat`, `AbandonedReturns`, `EventuallySettled`, `TypeOK` | 2 tasks, timeout 1, 1 heartbeat per delivery, 1 restart, appends of acks, nacks and heartbeats that fail |
| `cluster` | `AppliesOperations`, `NoLoss`, `SingleCopy`, `AckedGoneTillRestart`, `TypeOK` when the log is purged and applied again | 2 messages, 6 entries before the restart, 1 restart |
| `server` | `NoWaitCycle`, `Answered`, `ShutsDown`, `TypeOK` | 2 requests of any kind and the cleanup loop, 3 threads, disconnects, failing appends except those of a nack |
| `api` | `ValuePreserved`, `Fetchable`, `TypeOK` | 1 message, 4 deliveries with `MaxAttempts` 2, names of length 0, 124, 125, 128 and 129, values around every boundary of the first byte, failing appends |

Runs that find a property violated, each of them a statement of the documentation
or of a comment that the code does not keep (quoted under `findings`):

| Run | Violated | How |
| --- | --- | --- |
| `ack_batch_race` | `AckedGone` | a nack takes a task between the check and the removal of an `ack_batch`, which is answered Ok; the message is queued again |
| `wal_order` | `DurableLive` | two enqueues are logged in one order and take effect in the other; the id of a dequeue is replayed onto the other message, and its ack loses it |
| `wal_torn` | `NoLoss` | half a last line empties the storage at the next start |
| `disconnect` | `NoLoss` | a client leaves while its dequeue waits for the log |
| `cluster_ack_replay` | `AckedGone` | acks in the log name ids that the second application never draws; the property looks when the whole log has been applied, past the Ack entries |
| `server_stall` | `HealthAnswered` | two threads, both blocked by a guard whose owner waits for a thread |

These runs, and the race of two creates in section 4, also delimit the passing ones: `mem_interleave` has one client that
creates queues, base names only, and nobody disconnects during a dequeue or a nack; `wal_serial` runs
one request at a time, and `RecoveryExact` and `DurableLive` speak of files that parse; `NoLoss` of
`cluster` is about nodes whose log still holds what they have to apply (`LogReaches`); `server`
has a thread for every task, so that a guard blocks nobody but those who want it,
and its nacks do not fail (see the cycle in section 4).

**Why the bounds are enough.**  The races of the storage are between two requests
and the cleanup loop about one task or one queue; a third client repeats what the second
does.  Two messages are needed for order and batches, three where the order of
more than a batch matters.  Two attempts separate the first delivery, a retry and
the move to the DLQ; a third id lets one message be delivered once more than that.
Two crashes replay a log that was
written after a replay.  A cluster log of six entries holds an election,
a create, an enqueue of two, a dequeue, a nack and another dequeue or an ack, and the
election after a restart comes on top.  A circle of waiting tasks needs one task per
guard or mutex, of which there are three.  Names of 124 and 125 characters are the last that has a readable dead letter
queue and the first that has none.  Every bound is a
constant that a configuration names.

**Fairness.**  In `Visibility` time passes (`Tick`), the cleanup
loop goes on (a tokio task that runs until shutdown, `lib.rs:674-706`), and a heartbeat gets
an answer from the log (`append` returns, with or without an error).  Consumers are under no obligation, for they may die
while holding a task.  The code does not guarantee that an append ever succeeds, so that is no part of the fairness: `AbandonedReturns` and `EventuallySettled`
have it as an explicit premise, `LogRecovers`, strong fairness of the cleanup nacks that do requeue their task.  Without it both are
false: on a disk that stays full every pass restores every task.  `EventuallySettled` also has as its premise that somebody keeps polling,
for without it a message may stay in its queue.
In `Server` a woken task is polled when a thread is free and a thread that can go on does (the
scheduler of tokio), the file answers (the write runs on a thread of the blocking pool), and
a server that may stop stops.  Nobody is obliged to send, to disconnect or to signal.  Requests are a
finite burst: each runs once, so that a guard that is free is not taken away from a thread over
and over, which the locks of `DashMap` would not exclude.

**Faults.**  Definitions whose comment begins with "Fault" are not used by any
specification; each is a plausible mistake in the definition that follows it, and the `mutants` of
`PROJECT.json` say which property notices it.

## 4. Behaviour worth knowing

The models follow the code in these points, which no run singles out.  Where a passage of the documentation says otherwise it is quoted;
these are disagreements too, and the properties of the passing runs are stated for what is left of the promise.

* `create_queue` looks the name up, waits for the log and inserts an empty deque, which replaces what is there
  (`storage/memory.rs:159-173`): of two creates of one name at the same time both return Ok, and the second drops every message
  accepted after the first.  `storage/mod.rs:35` promises "an error if the queue already exists".  With both
  clients among the `Creators` of `mem_interleave`, `NoLoss` and `Linearizable` are violated.
* `extend_visibility` sets `consumed_at` to now and does not use its duration
  (`storage/memory.rs:340`), so a heartbeat gives the task `OXIDEQ_TASK_TIMEOUT` more seconds
  and not `OXIDEQ_HEARTBEAT_DURATION`, as `docs/API.md:234` has it.
* `nack` compares the attempts of a message over its whole life with the limit
  (`storage/memory.rs:299`).  A message in `q_dlq` is at the limit, so its first failure
  there moves it to `q_dlq_dlq`, although `README.md:363` says to process a DLQ "like any other queue".
* An ack whose append fails is answered 404 and has taken effect in
  memory; the message comes back at the next restart (`storage/memory.rs:265-269`).  `docs/API.md:199` knows 404 as
  "Task not found or already expired".
* A nack of the cleanup loop whose append fails leaves its task in flight until a later scan (`storage/memory.rs:291-295`, `353`).
* The replay starts the clock of every task in flight at the time of the
  restart (`storage/memory.rs:102`).
* In cluster mode nothing but the Raft log is on disk.  After `purge_logs_upto`
  the effect of the purged entries is lost at the next restart, because
  `get_current_snapshot` returns `None`; and Nack entries, like the Ack entries of
  `cluster_ack_replay`, find nothing when the log is applied again, so that a message may be delivered more than
  `MaxAttempts` times.  For the same reason the second application does not create a dead letter queue that a nack had created: an enqueue into it,
  answered Ok before, is refused then, and its message is lost (`combined_storage.rs:207`).
* The cleanup loop nacks the ids of its scan without looking at `consumed_at` again
  (`storage/memory.rs:351-356`): a heartbeat that is answered Ok in between does not keep the task, although
  `storage/mod.rs:93` says that it "prevents the task from being re-queued by the background
  cleanup process".  `NotBeforeTimeout` is therefore about the time of the scan.
* When the append of a nack fails, the guard of the mutex is a temporary of the `if let` and lives
  through the block that inserts the task again (`storage/memory.rs:283-295`).  With an `extend_visibility` that keeps
  the shard and waits for the mutex, each waits for the other for ever, and then everybody who
  needs the log or the shard waits as well.  With `"nack"` in `FailingOps`, `Server` violates `NoWaitCycle`.
* `get_drain_timeout_secs` (`shutdown/mod.rs:64`) is not called.  Over HTTP the drain
  has no limit, over HTTPS it is ten seconds (`server/mod.rs:53`), although
  `shutdown/mod.rs:3` speaks of a "configurable drain timeout".
* The dead letter queue of a queue whose name has more than 124 characters cannot be read over HTTP: `nack` creates it, and
  `validate_queue_name` refuses its name.  A message also outgrows the limit by failing in
  dead letter queues.  `README.md:363` says "Process DLQ tasks like any other queue" without a limit; `Fetchable` says this
  for the messages whose first name leaves room for the suffixes, and for no other does it hold.
* `docs/API.md:242` offers MessagePack for the bodies and answers of all batch endpoints, and the example of `docs/API.md:253-260`
  sends a string.  The code keeps this only for the values `Survives` lists, and `ValuePreserved` is about those.  The others arrive as something else: a number from 48 to 57 sent in MessagePack and read as JSON is one digit, the numbers 91 and 123
  read as MessagePack are `null`, and a JSON string, number, `true` or `null` read as MessagePack is the
  number of its first character.
* A cluster of several nodes cannot be formed at this commit, although `README.md:276-343` describes how to: `network.rs` sends no password,
  the `/raft` routes answer 401 (`Api!Authorized`), and nothing listens on the port 9001 of `README.md:80-100` (`OXIDEQ_RAFT_ADDR` is
  read and not used, `main.rs:67-69`).
* An append that fails is answered 404 by most handlers, as if the queue or the task were not there; only after an ack
  has anything changed.

## 5. Proofs

Every theorem is about all values of the constants that satisfy the named assumptions of the
modules: any number of clients, cleanup loops, queues, messages, ids, batches and threads, any
limit of attempts and any timeout.  Those assumptions say what kind of value a constant is, and
that `MaxAttempts` is not 0 and the parameters of `Api` are what JSON offers (numbers from 0 to
999 stand for its integers, `ValuesAssumption`).  Further hypotheses are part of the theorem's statement.

| Theorem | Statement | Inductive invariant |
| --- | --- | --- |
| `MemoryStorageProofs!TypeCorrect` | `Spec => []TypeOK` | `TypeOK` |
| `MemoryStorageProofs!RetriedFirst` | `Spec => []RetriesFirst` | `RetryInv` |
| `MemoryStorageProofs!SentInOrder` | `Spec /\ []SerialSends => []FreshInOrder` | `OrderInv` |
| `NoLossProofs!NothingLost` | `CalmConfig => (Spec => []NoLoss)` | `NoLossInv` |
| `NoLossProofs!RecoversExactly`, `AcceptedSurvives`, `AckedNeverReturns` | `WholeAppends => (Spec /\ []OneAtATime => []RecoveryExact)`, `.. []DurableLive`, `.. []DurableAck` | `LogInv` |
| `DeliveryProofs!OneCopy`, `RemovedStaysGone` | `MaxCrashes = 0 => (Spec => []SingleCopy)`, `.. []RemovedGone` | `CopyInv` |
| `DeliveryProofs!AttemptsAreDeliveries` | `MaxCrashes = 0 => (Spec => []AttemptsCounted)` | `CountInv` |
| `DeliveryProofs!BoundedDeliveries` | `MaxCrashes = 0 => (Spec => []DeliveryBound)` | `YoungInv` |
| `DeliveryProofs!OperationsAtomic` | `CalmConfig => (Spec => Linearizable)` | `RefInv` |
| `VisibilityProofs!TypeCorrect`, `NeverTooEarly`, `HeartbeatHonoured` | `Spec => []TypeOK`, `NotBeforeTimeout`, `ScanRespectsHeartbeat` | `VisibilityInv` |
| `ClusterProofs!TypeCorrect`, `OneCopy`, `AckedStaysGone` | `Spec => []TypeOK`, `[]SingleCopy`, `[]AckedGoneTillRestart` | `NodeInv` |
| `ClusterProofs!NothingLost` | `Spec /\ []PlainSends => []NoLoss` | `ReplayInv` |
| `ClusterProofs!AtomicOperations` | `Spec => AppliesOperations` | `NodeInv` |
| `ServerProofs!TypeCorrect`, `NoDeadlock` | `Spec => []TypeOK`, `NacksAppend => (Spec => []NoWaitCycle)` | `LockInv` |
| `ApiProofs!TypeCorrect`, `ValuesSurvive`, `FetchableWithRoom` | `Spec => []TypeOK`, `[]ValuePreserved`, `[]Fetchable` | `ApiInv` |

**The concurrent storage.**  `TypeOK` says, besides the types, what a request holds in each stage
(`HandlerOK`), without which `FinishDequeue` could not pair its ids with its items.

`NoLoss` is not inductive: from a state where a task names a queue that does not exist, or where a request holds
an id that is in flight as well, a step may lose a message.  `NoLossInv` adds `CreateFresh` (the queue a running create will insert does
not exist yet, so the insert replaces nothing; this is where the single creator is needed), `IdsApart` (an id is in flight or
held by one request, so neither `Deliver` nor the insert that undoes a nack replaces a task) and `QueuesExist` (the queue that
a task or a held item goes back to exists, so `Requeue` never drops).  `CalmConfig` excludes what loses messages:
two clients that create queues, creates of names that are dead letter queues, disconnects during a dequeue or a nack,
and crashes.  In a dequeue or a nack the handler has something in its hands that is dropped with it; the proof
shows that these two are the only ones.

`SingleCopy` and `RemovedGone` follow from `CopyInv`, which regards every queue, the map `in_flight` and the hands of every request as
a box: no box holds a message twice, no two boxes share one, all of them hold numbers below `nextMsg`, and none
one that an answered ack has removed.  Nothing but the absence of crashes is assumed, because what loses a message doubles none.
`CountInv` needs `CopyInv`: a second copy would miss the delivery that the first one counts.  It also says that the ids in the hands of a
dequeue have not been delivered (`IdsDrawn`).  `BoundedDeliveries` rests on the count: an item in a base queue is below the limit (`YoungInv`),
so its next delivery, counted, is within it.

`OperationsAtomic` is the refinement of `TaskService` under the mapping of `StorageRefinement`.  `RefInv` collects what the invariants above say:
a dequeue has its queue alone (`OneDequeue`) and ids are apart, so that the mapping is well defined (`ShownQueues`, `ShownTasks`: each queue is shown with the items of its one dequeue in
front, each held id with the task of its one ack or nack); the queues of tasks and items exist; what an enqueue adds is nowhere else (`Apart`) and fresh.
The steps of a request are then compared before and after: the first stages, the append and its failure show nothing, except that
the failure of an ack is `ForfeitedAck`; `FinishCreate`, `FinishQueue`, `FinishDequeue`, `FinishNack` and `FinishAck` are `Create`, `Accept`, `Lease`, `Return` and `Settle`, and `FinishAckBatch`
is `Settle` of all its ids when they are all in flight and `RacedAckBatch` otherwise.
The hypothesis is that of `NothingLost`: a create that replaces a queue, or a disconnect that drops items, is no operation of the service.

`RetriedFirst` and `SentInOrder` include crashes and torn appends, because `RetryInv` and `OrderInv` speak of the log as well: the state its
entries replay to is ordered like the queues in memory, and each replay step keeps it so.  `RetryInv` needs that a dequeue has its queue
alone (`OneDequeue`, the guard kept across the append) and that the items it holds fit in front of it.  `SerialSends` is one enqueue at a time, the others
at will: two enqueues that overlap may be numbered in one order and take effect in the other.

The three theorems about restarts follow from `LogInv`, which relates the log to memory while every line of it parses.  `Settled`: the state it replays to holds every
message once, all that is due and nothing that is acknowledged, and every id that a client knows still stands for the message it was delivered with.
`Mirror`: with no request running that state is memory, and with one it is memory on one side of its operation, before the append (`ToLog`, with
`QueuesBefore`, `FlightBefore`) or after it (`Logged`, with `QueuesAfter`, `FlightAfter`).  In one direction only the log may hold more: an ack whose append failed has
dropped its task in memory and not in the log, and so the tasks of memory are a part of those of the log.
`OneAtATime` (one request runs at a time, the rest wait) is needed because the log and memory are changed in different orders otherwise, which `wal_order` shows.
`WholeAppends` is a server with a log in which no failing append leaves a part of a line (`wal_torn` shows what that does) and nobody disconnects; a crash in the middle
of an append is included.  The facts about one operation on a state that holds every message once (`Keeps` and its lemmas) are in
`StorageLemmas`, where `ClusterProofs` uses them for the entries of the Raft log.

**Cluster.**  `NodeInv` says that the log has no gaps, that the tasks in flight have ids that were drawn and queues that exist, that no message is twice in the
state machine, that each message was sent by one entry and is not in the state machine while that entry is still to be applied, and that until
the first restart an acknowledged message is nowhere; the ids that ack entries have settled were drawn before (`SettledDrawn`), so that no later delivery, in any life of the node, gives one out again.
`ReplayInv` follows the messages of every enqueue entry through any number of restarts.  The proof of `NothingLost` has found its hypothesis
`PlainSends` (no client sends into a dead letter queue): without it `NoLoss` is false, see section 4.
`AtomicOperations` is the refinement of `TaskService`, one case per operation of an entry.

**Runtime.**  `LockInv` says that what a task has still to do keeps the discipline of the operations: after a guard of `queues` that it keeps
it asks at most for one of `in_flight`, and the mutex of the log is released before the next guard.  A set of tasks that wait for each other would have a
task that holds the last lock in this order, and that one waits for nothing another task keeps.
`NacksAppend` excludes the failing append of a nack, the one place that breaks the order (section 4).

**Visibility and HTTP.**  `VisibilityInv` adds that `consumed_at` is never older than the delivery and the last heartbeat, and that a list entry of the
cleanup pass names an earlier delivery or one that has expired.  `ApiInv` follows the length of the name through the dead letter queues and the
body through `Encode` and `Decode` (`RoundTrip`).  In `Visibility` a message dropped by a failed ack counts as delivered, because a restart puts it back in flight.

**Only model-checked.**
* Liveness (`AbandonedReturns`, `EventuallySettled`, `Answered`, `ShutsDown`): outside the prover's reach.
* `SingleCopy`, `RemovedGone`, `AttemptsCounted` and `DeliveryBound` of a standalone server that restarts: with two requests at a time they are false
  (`wal_order`); `DeliveryBound` is checked with one request at a time.
* What the replay computes for every log is an induction over the log, out of reach too; the step `ReplayOp`, to which the model of the file
  reduces it, is not.

## 6. Not modelled

* The wording of answers, the numbers in the statistics and the limits on the size of bodies.
* Reading certificates (`tls`) and setting up logs (`telemetry`): done once at the start, no state.
* The loss of file data that was flushed and not synced: it is decided by the machine and not by this code.
* Several Raft nodes: votes, conflicting entries (`delete_conflict_logs_since`), installing snapshots.  The code for them is there and no call reaches it
  (section 4).  Snapshots that a node builds for itself are read by nobody, because
  `get_current_snapshot` returns `None`.
* The parsing of environment variables.  Two values of them end the cleanup loop or make every
  task expire at once; they are listed under `hazards`.

## 7. Plan

Done, in this order: `QueueState`, `Wal`, `MemoryStorage`, `Visibility`,
`ClusterNode`, the proofs of `TypeCorrect` and `NothingLost`, `TaskService` with the two refinements,
`Server`, `Api`, the proofs of the safety properties of `Visibility`, `ClusterNode`, `Server` and `Api`, of the
refinement of `TaskService` by `ClusterNode`, and of the properties of the storage in section 5, restarts and the
refinement of `TaskService` included.

To come: a theorem for `DeliveryBound` across restarts with one request at a time, on top of `LogInv`.

Should the `/raft` routes become reachable for other nodes, the next module is a composition of several `ClusterNode`s
with ids of their own and with snapshots that are built while entries are applied.
