# pyfilament in TLA+

A model of the parts of pyfilament that coordinate: the distributed semaphore in
Redis, the token bucket, the task queue, the life of a task run, and its row in
the database with the rows above and below it. Source paths are relative to
the repository, whose code is under `src/filament/`.

## The system and its parts

| part | code | state it keeps | operations | modelled by |
|---|---|---|---|---|
| distributed semaphore | `redis/semaphore.py` | zset of holders, list of waiters, zset of heartbeats, a release channel | `acquire` (heartbeat task, four scripts, a subscription), `release`, `extend` | `RedisSemaphore`, `LeasePool` |
| task run | `types/task_run.py` | events, result, exception, try, cancel scope | `call`, `_call`, `cancel`, the monitor, the heartbeat | `TaskRun` |
| row of a run | `state/*.py`, `db/*.py` | state, run_count, heartbeat, parent, result | `initialize_task_run_state`, `transition_state`, `set_heartbeat`, `set_task_result`, `is_canceled` | `TaskRun` (one row), `TaskRows` (a forest) |
| cancelling a row | `api/resolvers/task.py`, `hooks.py`, `cli/cli_cleanup.py` | none | `cancel_task_run` and its cascade, `stonith`, `delete_old_task_runs` | `TaskRows`; `TaskRun` (one row against its run) |
| result cache | `logic/cache_utils.py` | a key per call, with a ttl | `exists`, `get`, `set` | answers in `TaskRun` |
| token bucket | `redis/token_bucket.py` | tokens, time of the last refill | `acquire` | `TokenBucket`, `EagerBucket`; an await of `TaskRun` |
| task queue | `queue/*.py`, `queue/types/*.py` | a stream with a consumer group, a result key, two channels | `request`, `serve`, results, cancellation, clean-up | `TaskQueue`, `RemoteCall` |
| configuration | `types/task_config.py`, `constants.py` | options, fixed per run | none | the record `Config` |

A worker or a caller awaits `FilamentTaskRun.call()`. It creates the row, opens a
task group and starts in it the heartbeat, the poll of the row, the cancel
monitor and `_call`. `_call` enters, from the outside in, the handlers that record
FAILURE and CANCELLED, the retry loop, the semaphore, the token bucket, the
deadline, the cache, RUNNING/SUCCESS, and the task's function. All of them talk
to the row through `transition_state`, a SELECT followed by a COMMIT in a session
that shields itself from cancellation. The API, a hook and the clean-up script
write the same row. The semaphore and the token bucket are shared by all runs of
one function, on all workers.

What is hard: every `await` is a place where another actor acts or a
cancellation is delivered; anyio's cancellation is level-triggered, so cleanup
code is cancelled too unless it is shielded; the clocks of the clients are read
before a request and rounded; a request of a client that has died may still run;
pub/sub messages reach only those who already listen; a row is read in one
statement and written in another.

What makes the parts correct, in short:

* semaphore: never more than `max_leases` callers within their ttl; a lease is not
  taken early; first come, first served among the living; everyone alive is served;
* run: its row, its `run_count` and its lease agree with what it did, however it was
  cut across; SUCCESS is not unmade where nothing can follow it; it ends when it is
  told to or when its deadline passes;
* cancellation: a request to cancel is acted upon;
* bucket: no more is handed out than the capacity, the rate times the time, and what one lag of
  the clocks adds (which clocks that differ do exceed, see below); everyone is answered;
* queue: a run is served at most once, its result is stored before its message leaves the
  group, nothing that is still needed is trimmed, and no answer belongs to another run;
* rows: a row or a type is inserted once, a cascade reaches all that is below, a deletion
  leaves no row without its parent, and transactions that meet come to an end.

## Modules

### RedisSemaphore

One client is one `RedisSemaphore` object; the three keys are `holders`,
`heartbeats` (functions from clients to scores) and `waiters` (a sequence). `pc` names
the request a client has in flight. Each Lua script is one action
(`EnsureInQueue`, `CleanupStaleClients`, `AcquireAndDequeue`/`AcquireRefused`,
`ExtendClient`, `RemoveClient`), so is each read of
`_wait_for_release_or_expiry` (`PeekHolders`, `PeekFront`, `PeekBeat`), its
subscription (`Subscribe`) and its two ends (`WaitTimeout`, and `Publish` of another
client). `Heartbeat` is the loop of `_start_heartbeat`; `LastHeartbeat` a ZADD that was in
flight when the loop was cancelled. `Stop` lets a client be cancelled or die at any
await; a request it has in flight is lost or still runs, and a cancelled `__aexit__`
sends its release script but does not publish. `extend` takes a ttl of its own, one of
`ExtendTtls`. A stopped client does not come back: a
process that restarts makes a new object with a new client id.

Time is relative to the present and counted in half steps of the grid (a tenth of
a second) to which `now()` rounds down and `now(ceil=True)` up; `phase` says
whether the present is on the grid. A script runs with a reading up to `MaxLag` half
steps old. Below `Oldest` scores are not told apart: no clock reading is
older. `promised` is a history variable: what remains of the ttl a caller was granted,
counted from the clock reading with which it asked. The clocks of the clients are
assumed to run together; a skew between hosts would act like a greater lag in one
direction and is not modelled in the other.

The subscription's `get_message` loop, and a message that arrives within one loop turn of
the deadline, are one step. `acquire(timeout)` is never used with a timeout in the code;
a caller's own deadline is a `Stop`.

### LeasePool

What the semaphore promises: callers enter while fewer than `MaxLeases` callers are inside
and within their ttl; one whose ttl has run out has lapsed, is still inside and counts
no more, and may come back if `extend` finds its lease still there. `RedisSemaphore`
implements it under `inside <- Inhabitants, lapsed <- Lapsed`.

### TaskRun

One run. `host` is `call()`, `pc` is `_call`: one label per await, in the order in which
the context managers nest. `Leave`, `LeaveTimed` and `TryRaises` are the unwinding of
those managers; `raised` is the exception on its way. A state event is `ReadRow` and then
`Recorded...`, each of which also takes the code that follows up to the next await;
`RecordFails` is a failing event with the exception that replaces it at each place. `scope` is the
task group's cancel scope. Awaits are guarded by `~scope` when they end well and
`Interrupt`, `...Breaks` and `BackoffCancelled` take the other way; events, being shielded, are
not guarded. `Expire` passes the deadline at any moment in the timed block; a `CancelledError`
becomes a `TimeoutError` only if the deadline and no scope around it is the reason,
as in anyio's `fail_after`. `Finish` is the finally clause up to `_done_event.set()`, for which
`call()` waits after the group (`JoinGroup`, then `AwaitDone`). Its first line awaits `aclose()` of an
anyio memory stream, which is that stream's `close()` and has no checkpoint (unlike a trio
channel's), so a cancellation is not delivered there; `tests/test_cancel_state.py` relies on
it, for the run it cancels must return to whoever awaits it. That `_done_event` is set on every way
is what ends a cancelled run: `FinishUnlessCancelled`, the clause with a checkpoint, is the mutant that
breaks `Terminates`. `ApiRead` and `ApiCommit` are `cancel_task_run` in another
process. What the semaphore, the bucket and the cache answer is nondeterministic here:
`LeaseLapses` stands for a clean-up by another client. `Config` has the options that
change control flow; `retryable` stands for `retry_exceptions` and `no_retry_exceptions`,
`faults` for the stores that may fail in a behaviour.

Not in it: the stream of an async generator, the heartbeat's timestamp (only its
failure), `result_json`, `propagate` (which chooses between raising and returning the
exception); other rows are in `TaskRows`.

### TokenBucket

`tokens` is the key of the tokens; of the other key, the time of the last refill, the
model keeps how long ago it is (`since`), because only differences matter. The script is
one action, `LuaAcquire`; the client's time is floored to the second and read before the
request, or by a host that lags behind, so it is up to `MaxLag` seconds old and may lie
before the time stored by another: then `math.max(0, ...)` refills nothing and the stored
time moves back, which lets some seconds count again. The readings of one client (`last`) go
forward; those of several hosts need not agree. `ReadAvailable` is the GET for the
waiting time, after which others may have come; `Sleeps` gives the whole seconds that
may begin in that time. A cancelled caller's script may still run (`"orphan"`). `burst`, `net` and
`taken` are history: `burst` is the greatest excess over `Rate` for each second, over all
stretches of time that end now, `net` the same if the seconds by which readings set the stored time
back count as well. `RateLimited` bounds `burst`, and is violated; `RateBound` bounds `net`, which
says that nothing else lets a stretch exceed the limit. A full bucket, `Idle` seconds ago, is not told apart
from one of longer ago.

### EagerBucket

What a bucket promises, without a stored time: it gains `Rate` tokens with every second
until it is full, a caller takes what is there, and with clocks that differ by `Drift` every
call may find up to `Rate * Drift` tokens again, however often; it does not bound the rate then. `TokenBucket` implements it with the level it
would have now, `AtMost(tokens + since * Rate, Capacity)`.

### TaskQueue

A requester is a `FilamentRemoteTaskRun.call()`, a worker a `FilamentRemoteTaskType.serve()`;
each Redis command of either is an action, in the order of the code: the clean-up of a
requester (`PendingRange`, `AckStale`, `DeleteStale` in a loop, `OldestPending`, `Trim`), `Add`,
`Subscribe`, the messages it receives; a worker's `SetupQueue`, `Dequeue`, `StoreChunk` and
`PublishPartial`, `StoreResult`, `PublishComplete`, `Acknowledge`, beside which `ListenForCancel`
subscribes to the other channel. The stream is the set of its entries with their
ids; the group has the last id delivered and the entries pending. A message reaches
those who have subscribed. `GrowOld` lets messages pass the stale age at any moment after
delivery, so also while they are served (`time_since_delivered` is in milliseconds, the
age in seconds). `Leave`, `Shutdown` and `Crash` are the faults; a cancelled requester may or may not
get as far as to publish `cancelled`, which depends on how asyncio delivers the cancellation.
XPENDING's summary is one with the range that follows; a batch of a hundred pending
messages, the ttl of the result key and a failing Redis are not modelled.

### RemoteCall

What a requester may rely on: its run is queued, served at most once, ends with one
outcome, and an answer is that outcome, after the end; only a run whose caller has gone
ends as cancelled. It leaves open whether an answer comes. `TaskQueue` implements it.

### TaskRows

`row` holds the committed rows, with state and parent; a transaction (`agenda`, `seen`,
`changed`) is `cancel_task_run` for the API or a hook (`CancelRequested`), `Stonith` or
`DeleteOldTaskRuns`. The agenda is the recursion's stack: what is still to be visited, loaded or
deleted, in order. `CancelRow` is the UPDATE of one row, which autoflush sends with the SELECT of
its children; `LoadChildren` and `DeleteRow` are `delete_task_run` before and after its
recursion. SQLAlchemy does not read a loaded row again, which `seen` models: a run may end
while the cascade still takes it for running. Written rows are locked until `Commit` or
`Rollback`; `Refused` says when the database ends a transaction, namely when two wait for
each other or a statement cannot succeed. Beside this, initialisers run
`initialize_task_run_state`, request and call at the same time if a run is started
immediately, under the two semaphores (`Enter`, `Select`, `InsertType`, `InsertRun`,
`LeaveLock`), whose leases may run out (`Lapse`); and runs record their state with a SELECT
(`ReadState`) and an UPDATE of its own transaction (`WriteState`). `late` and `deleted` are history.

The choice of rows by stonith and by the clean-up is free (any that is not over; any child, or
any row where `skip_root_tasks` is off, `skipRoots`), since neither heartbeats nor ages are modelled; batches are one transaction each.

## Runs

| run | instance | shows |
|---|---|---|
| `semaphore_lease` | 2 clients, both may die; 1 lease; ttl 1, heartbeat ttl 2, lag 1, one extension; extension ttl 1 or 2; late heartbeats | `TypeOK`, `LeaseCapacity`, `LeaseHonoured`, `MutualExclusion`, `OnePlace`, `KeepsPlace`, refinement of `LeasePool` |
| `semaphore_live` | 2 clients, one may die; 1 lease; ttl 2, lag 1, one extension; fairness | `EventuallyServed` |
| `task_run` | 53 configurations, canceller active | `TypeOK`, `OutcomeRecorded`, `LeaseScoped`, `RunsCounted`, `SuccessKept` |
| `task_run_live` | configurations of the same families; fairness | `Terminates` |
| `task_run_retry` | plain runs, no failing store | violates the comment `do not attempt to retry if cancelled` |
| `task_run_cancel` | plain runs, no failing store | violates what `cancel()` is for |
| `task_run_api_cancel` | plain runs, canceller active | violates "API-triggered task cancellations" |
| `token_bucket` | 3 callers of 2, 3 and 5 tokens, up to 3 rounds; capacity 4, rate 2, lag 2; fairness | `TypeOK`, `RateBound`, refinement of `EagerBucket`, `Served` |
| `token_bucket_limit` | the same callers; capacity 4, rate 2, lag 1 | violates "token-bucket ... limits" |
| `task_queue` | the four worlds of `AllWorlds`; fairness | `TypeOK`, `NothingTrimmed`, `AckedWithResult`, `ChunksInOrder`, refinement of `RemoteCall`, `EventuallyDelivered`, `ListenersAnswered` |
| `task_queue_answered` | 2 requesters, 1 worker, no fault; fairness | violates the test that a request is answered |
| `task_rows` | the six worlds of `AllWorlds`; fairness | `TypeOK`, `InsertedOnce`, `RowBeforeRun`, `CascadeWhole`, `NoOrphan`, `SessionsEnd` |

Bounds. Two clients suffice for every race between a clean-up, a grant and an
extension, because each names one victim and one beneficiary; what needs a third, a queue with
a middle or a full zset of several leases beside a waiter, is left to the theorems, which hold for
every number of clients and leases (`KeepsPlaceCorrect`, `CapacityCorrect`). Times of one and two grid steps are the smallest for which rounding, lag
and expiry overlap; heartbeats there expire during a wait. `MaxLag` and `MaxExtends` are the
bounds of the model. `task_run` has runs with one and with two tries: the second is the first
that can find a leaked lease, a RETRYING row, or a cancellation that came before it; for its
safety properties `TaskRun_proofs` lifts that bound. `CHECK_DEADLOCK` is off for `TaskRun` because a run
that has ended does nothing more.

`token_bucket` has one caller above the capacity, one that leaves less than the other
needs, and a lag that is long enough to refill the bucket; three rounds suffice for a
caller to find the bucket as two others left it. `TaskQueue` and `TaskRows` take
a *world* as their initial choice: who takes part and which faults may occur, so that each fault
has as many actors as it needs without all of them at once. `Trimming` has three
requesters whose clean-ups interleave around a message nobody can read; `Failing` two workers of
which one may crash or be shut down; `Leaving` a caller that goes, while another waits;
`Streaming` three chunks, so that two can be overwritten before one is read. `Forests` has
two transactions over three rows, as a chain and, with foreign keys, as a fork;
`Latecomers` one transaction, which may delete a root, and a row that is created while it runs; `Creations` new rows and a new
type under the semaphores, with and without lapsing leases. Three rows are the least for which
a row is a child and a parent, or has a sibling; two transactions are the least that wait
for each other. `CHECK_DEADLOCK` is off for `TaskQueue` and `TaskRows`, whose
requests and rows come to an end.

Fairness. A client's requests are answered and its heartbeat task is scheduled
(`WF` of `Step` and `Heartbeat`), and time passes. No fairness is assumed of callers:
they need not leave, extend, or start. In `semaphore_live` heartbeats are sent when
they are due (`TimelyBeats`), as `heartbeat_interval` is a fraction of `heartbeat_ttl`;
without it a client could be popped from the queue for ever. For `TaskRun`, `Progress` is fair:
each await ends, the semaphore's because of `EventuallyServed`; the deadline passes, the
monitor and the poll run. The task's function is *not* assumed to end, only to
react to a cancellation in the end (`Interrupt`). For the bucket, requests are answered, sleeps
end and time passes; callers come at most `Rounds` times, since without a bound on the
others a caller could starve, there being no queue. In `TaskQueue` the commands of a requester and of a
worker are fair, and a served run ends, which is an assumption on the functions that are served: each
ends by itself, or its deadline or a cancellation ends it, and then `call()` returns (`Terminates` of
`TaskRun`). Being told to stop is not enough, since a run may miss that (`CancelHonoured`). A worker whose function
never ends reads nothing more; workers that may crash or leave are not relied upon. In `TaskRows`, initialisers and transactions proceed,
and a statement that cannot succeed is refused; runs need do nothing.

Each property has a mutant: a definition with a plausible bug, kept next to the one it
replaces (`FloorUp`, `CanAcquireOneMore`, `RetriesOffByOne`, ...), that breaks it.

## What the runs found

* **A cancelled run may retry.** `task_run.py:216` says not to, but only a `CancelledError` is
  recognised there. If the function raises something else once its scope is cancelled, or a
  deadline's TIMEOUT is being recorded when the cancellation arrives, the loop records
  RETRYING, then RUNNING, and calls the function again.
* **`cancel()` may be lost.** `_start_cancel_monitor` returns without effect if the event is set
  before it starts: a run that is cancelled while `before_call` waits for its semaphores
  runs on.
* **A cancellation through the API may be lost.** `transition_state` writes its state over
  CANCELLED; a run cancelled before RUNNING is committed goes on, and the poll sees RUNNING.
* **A remote run may never be answered.** `FilamentRemoteTaskRun.call()` adds the run to the
  stream before its listener subscribes, and the listener never reads the result key by itself. If a
  worker is done by then, its `complete` reaches nobody: the result is stored, the requester waits.
* **The rate may be exceeded.** The script of the token bucket stores the caller's clock even if it is
  behind the stored time. Two callers whose clocks differ by a second, or whose readings fall on both
  sides of one because they are floored, may take turns: each time the later one finds that second's
  tokens again. Beyond that nothing exceeds the limit (`RateBound`).
* Not violations of what is documented, but visible in the models: the message of a
  crashed worker is never served again, only dropped as stale; the first request for a function
  fails if no worker has created the group yet (`PendingRange`); without foreign keys (SQLite) a
  child inserted while its parent is being deleted stays as an orphan, and one inserted after
  the cascade has read its parent's children is not cancelled (`late`).

## Theorems

`RedisSemaphore_proofs` proves, for every number of clients, leases, ttl, lag and
extension, from `ClientsAssumption` (finitely many clients) and `NumbersAssumption`
(natural numbers):

* `TypeCorrect`: `Spec => []TypeOK`, by one step per action (`TypeNext`).
* `CapacityCorrect`: `Spec => []LeaseCapacity`. Inductive with `TypeOK`: only `AcquireAndDequeue` adds
  a holder, under its own ZCARD; `ExtendClient` only renews one.
* `LeaseHonouredCorrect`: `Spec => []LeaseHonoured`. This is the strengthening on which exclusion
  rests: a caller with promised time is recorded with at least that much. It is
  inductive because a grant rounds up (`GrantFacts`), a clean-up rounds down
  (`CleanupFacts`) and a Tick ages both alike (`Ageing`).
* `MutualExclusionCorrect`: the callers within their ttl are then a subset of the holders,
  which are at most `MaxLeases`.
* `Refinement`: `Spec => LeasePoolSpec`; every action maps to `Enter`, `Lapse`, `Renew`, `Quit` or a
  stutter (`PoolStep`), with the two invariants to show there is room.

`RedisSemaphoreQueue_proofs` goes on from there with the queue. `DropSilentSuffix` shows that the
pop loop removes a prefix of waiters without a heartbeat and nobody else; `QueueStep` that
every step leaves the queue alone, appends its client (`Joins`), takes the head who is granted a
lease (`Granted`) or removes such a prefix (`Swept`). From these four cases follow:

* `OnePlaceCorrect`: `Spec => []OnePlace`. The last conjunct of `OnePlace`, that a recorded holder
  is not (or not any more) inside `acquire()`, makes it inductive: without it the client
  that is about to queue might already be a holder. `NoReturn` shows that no client comes back.
* `KeepsPlaceCorrect`: `Spec => KeepsPlace`, an action property, from `QueueStep` and `TypeOK` alone.

`TokenBucket_proofs`, for every set of callers, request, capacity, rate and lag, from
`BucketAssumption`:

* `TypeCorrect`: `Spec => []TypeOK`; the tokens stay in `0..Capacity` because a refill is cut at the
  capacity and never negative (`RefillFacts`).
* `RateBoundCorrect`: `Spec => []RateBound`. Not inductive by itself: the strengthening (`Credit`)
  says that, unless `net` is 0, it, the tokens left and those that the time since the stored refill
  still brings stay together within `Capacity + Rate * MaxLag`. A grant moves tokens into `net`, a second moves
  `Rate` from `net` into the time, and a reading that sets the stored time back moves as much
  from `net` into the time as it will bring again. It is not a limit on the rate, which the code does
  not keep: it says that set-backs alone break it. `Products` states the few facts on products
  that the solver needs.
* `Refinement`: `Spec => EagerBucketSpec` (`EagerStep`): a refusal is a `Take(0)` or a stutter of the
  abstract bucket, a grant a `Take`, a `Tick` a `Second`.

`TaskQueue_proofs`, for every set of requesters and workers, any number of chunks and any
combination of faults, from `QueueAssumption`:

* `TypeCorrect`: `Spec => []TypeOK`. It is not inductive alone, since a listener reads what a message
  announces: `Announced` says that it is stored, `Working` that a worker's next step agrees with the
  key of the run it serves and that no other worker serves that run, and `Ids` that the group
  delivers in the order of the ids, from which the latter follows. `InvNext` proves the
  three together with the types.
* `NothingTrimmedCorrect`: `Spec => []NothingTrimmed`. Its strengthening (`Trims`) is about a clean-up
  between its reading and its command: what it is about to delete it has acknowledged, and what
  it keeps as the oldest pending message is not newer than any message then or later pending or undelivered.
* `AckedCorrect`: `Spec => []AckedWithResult`, from `Working`: a worker acknowledges
  after the key of its run holds a final result, which nobody overwrites.

* `ChunksInOrderCorrect`: `Spec => []ChunksInOrder`. A worker overwrites one key with chunk after
  chunk, and a listener that is told of one reads whichever is there; that it never reads an
  older one twice needs a count (`Ordered`): what a requester has been given is not newer than
  what is stored (`Kept`), and the chunks it was given together with the messages it has not
  read are at most as many as the chunks stored, one less while the worker still has to announce
  one (`AllTold`, `Due`).
* `Refinement`: `Spec => RemoteCallSpec`. `CallerMoves` and `ServiceMoves` reduce a step to the one
  request it is about, `CallStep` maps each action: `Request` to `Ask`, `Add` to `Queue`, `Dequeue` to `Serve`,
  the storing of a final result to `End`, `ReceiveComplete` to `Answer`, a departure to `GiveUp`, all
  others to stutters. It rests on `Inv`: no second worker serves a run, and a message is only of
  a result that is stored.

`TaskRun_proofs`, for every configuration, so for any number of tries, from
`ConfigsAssumption` (the configurations are of the type `Config`). `Inv` adds to the types what a
run carries from one await to the next, and each part is kept by a lemma with one step per action:

* `Control`: which event is being recorded says which exception is on its way, and a try is only
  repeated while one is left. Without it a `commit` might end in any state.
* `OutcomeRecordedCorrect`: `Spec => []OutcomeRecorded`. `Outcome` says it already of the places before
  the end: what a transaction has read is still the row's state, unless a canceller has had the last
  word, and a try that succeeded left SUCCESS or CACHED in the row.
* `LeaseScopedCorrect`: `Spec => []LeaseScoped`. `Leases` says of every place of a try whether a lease can
  be held there; the property alone says nothing of the awaits between acquire and body.
* `RunsCountedCorrect`: `Spec => []RunsCounted`. `Counted` says in addition that the row is not RUNNING
  when RUNNING is to be recorded, because a transition to the same state is not counted, and that the
  run_count a transaction has read is still the row's when it commits.
* `SuccessKeptCorrect`: `Spec => SuccessKept`, an action property, from `Control` and `Final`: after
  SUCCESS nothing is left to go wrong without a cache and a semaphore.
* `TypeCorrect`: `Spec => []TypeOK`, which needs `Control` for the bound on the tries.

`TaskRows_proofs`, for every set of runs, forest of rows, set of transactions and order of
what they do, from `RowsAssumption`: finitely many runs; the semaphore of the type is none of
the runs'; and the rows that are there at the beginning have their parents (`RootedIn`). `TailAt`,
`ConcatAt` and `EachRow` state what the agenda operations do position by position; `RowSteps`
says that a step inserts one row, deletes what one transaction has written, or keeps which rows there are;
`SessionSteps` that it is of one transaction at most.

* `TypeCorrect`: `Spec => []TypeOK`. A commit writes rows that must still be there: `Locked`, that
  transactions have written disjoint sets of rows, which stay as long as they hold them.
* `InsertedOnceCorrect`: `Spec => []InsertedOnce`. `Guarded` ties who is inside a semaphore to where
  initialisers are, `Alone` says that one is alone there while no lease runs out, and that what it has not
  found is still missing when it comes to the INSERT.
* `RowBeforeRunCorrect`: `Spec => []RowBeforeRun`, from `Registered`, which says the same from the moment
  the row is found or inserted; it needs no semaphore and holds when leases lapse.
* `CascadeWholeCorrect`: `Spec => []CascadeWhole`. `Cascading` is the property in the middle of a cascade:
  a child of a written row that is neither written, over nor late is still on the agenda. It also
  needs that nobody else inserts a child unnoticed below a row that has been read (`ChildrenNext`).
* `NoOrphanCorrect`: `Spec => []NoOrphan`. `Ascending` says that a row's children stand before the row
  on a deletion's agenda, `DeletedBelow` that the children of a deleted row have been deleted or are late
  where no foreign key is enforced, `Below` that a row's parent does not change.

All these strengthenings were checked by TLC on the configurations of the runs before they were
proved. Only model-checked: `EventuallyServed`, `Terminates`, `Served`, `EventuallyDelivered`,
`ListenersAnswered` and `SessionsEnd`, because liveness under fairness is out of the prover's
reach. Every invariant, action property and refinement that a passing run checks is also a theorem;
the five violated properties are refuted by their runs. What the theorems leave to the model
is its abstraction: the transcription from the code, and for the semaphore and the bucket the
grid of time.

## Plan

1. `ConcurrencyLimit`: runs of one function composed with the semaphore, with the ttl that
   `task_run.py` gives it and the deadline that starts later.
2. What the theorems say together: the promises of `LeasePool`, `EagerBucket` and `RemoteCall`
   as theorems about these modules, to be used by their clients in place of the details.

Not planned: registries, call stack, event dispatch, API queries, logging, user interface,
migrations, deployment (see `PROJECT.json` for the reasons).
