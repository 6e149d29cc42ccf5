# Specifications of client-go

TLA+ modules for the concurrent core of client-go: the path from the API server
through the reflector, the `DeltaFIFO` and the shared informer to the handlers,
the work queues controllers take their work from, the watchers that survive
interruptions, the indexed store under the informers, and leader election.
`PROJECT.json` lists components, runs, the source lines each definition models, the
hazards of the code and the theorems.

## 1. The system

client-go is a library. Its own logic, as opposed to generated clients and
request plumbing, is what turns a lossy list/watch connection into a local cache
and into work for controllers:

```
 API server --list/watch--> Reflector --Add/Update/Delete/Replace/Resync--> DeltaFIFO
                                                                               | Pop
      handlers <-- processorListener <-- sharedProcessor <-- processDeltas <---+
         |                                                        |
         | Add / AddAfter / AddRateLimited                        v
         v                                              Indexer (knownObjects)
     workqueue --Get--> worker --Done/Forget--> workqueue
 LeaderElector (beside all this) --Get/Create/Update--> Lease on the API server
```

### Inventory

| component | state | operations | what is hard | what makes it correct |
|---|---|---|---|---|
| `workqueue.Type` | queue, dirty, processing, shuttingDown, drain, one condition variable | Add, Get, Done, ShutDown, ShutDownWithDrain | Add during processing; two kinds of waiters on one condition variable | an item is with one worker at a time, no Add and no wake-up is lost, shutdown reaches everybody |
| `delayingType` | channel, heap, timer, heartbeat, stopCh, stopOnce | AddAfter, waitingLoop, ShutDown | full channel, overlapping delays, loop and shutdown race | nothing early, nothing lost, nobody blocked for ever |
| rate limiters | failure counters, token bucket | When, Forget | overflow, several limiters without a common lock | delays bounded and growing |
| `ParallelizeUntil` | channel of chunks, wait group | call | chunk boundaries, cancellation | each piece once, then return |
| `DeltaFIFO` | items, queue, populated, initialPopulationCount, closed | Add, Update, Delete, Replace, Resync, AddIfNotPresent, Pop, Close | relist against queue and store, deduplication, failed pops | store and queue together say what the server said last |
| `controller` | - | processLoop, processDeltas | retry of what failed | the same |
| `LeaderElector`, `LeaseLock` | observed record and time, lease version | acquire, renew, release | clocks, late and unanswered requests, restarts | one leader at a time |
| `Reflector` | last resource version, its availability, temporary store of a watch-list | list, watchList, watch, resync | stale answers, forgotten versions, refused events, starting over | while it watches the store is the snapshot of the version it resumes from; it never goes back and catches up |
| `sharedIndexInformer` and its listeners | indexer, handlers, buffers, four locks, sync trackers | AddEventHandler, RemoveEventHandler, HandleDeltas, Run, HasSynced | locks held across channel sends, late handlers, shutdown | each handler is told a history of the indexer without a gap; HasSynced is not early; everybody returns |
| `RetryWatcher`, `Until` | last resource version, stop and result channels | doReceive, send, Stop | interruption between delivery and bookkeeping, Stop at any point | every change once, in order, or an error |
| `eventProcessor` | buffer, condition variable, done channel | push, takeBatch, writeBatch, stop | a signal without the lock | events in order; run exits after stop |
| `threadSafeMap` with `storeIndex` | items, indexers, indices | Add, Update, Delete, Replace, AddIndexers, Index, ByIndex, IndexKeys, ListIndexFuncValues | indices kept by differences, a shortcut for unchanged values, loops in map order | an index finds exactly the stored objects with a value |
| `FIFO`, `Heap`, other caches, `flowcontrol`, `certificate`, `rest` retry, `transport` caches, `pager`, `record` | see PROJECT.json | | | |
| `kubernetes`, `informers`, `listers`, `applyconfigurations` | generated code, not modelled | | | |

Interactions: a reflector calls the DeltaFIFO under its lock; Pop runs the
processing of a delta, and so the distribution to handlers, under the same lock;
handlers and workers meet only in the work queue. The delaying queue embeds the
work queue, the rate-limiting queue embeds the delaying queue.

## 2. Plan

1. Core: WorkSet, WorkQueue, WorkQueueProofs; DelayingQueue; RateLimiter;
   Parallelize; DeltaFIFO and its theorems; LeaderElection. **Done.**
2. WatchServer and Reflector, composed with DeltaFIFO. **Done.**
3. SharedInformer. **Done.**
4. RetryWatcher on WatchServer; EventProcessor. **Done.**
5. ThreadSafeStore. **Done.**
6. Proofs of the safety properties of all modules. **Done**, see section 5.
7. Left: MultiLock under LeaderElection, handlers that call the informer,
   flowcontrol.Backoff, FIFO.

## 3. Modules

| module | models | extends |
|---|---|---|
| `WorkSet` | the promise of `workqueue/doc.go`: a set of pending items, what each worker holds | |
| `WorkQueue` | `queue.go` | instantiates WorkSet |
| `QueueLemmas` | lemmas about sequences without duplicates, least and largest elements | |
| `DelayingQueue` | `delaying_queue.go` | WorkQueue |
| `WorkQueueProofs` | theorems about WorkQueue and DelayingQueue | DelayingQueue, QueueLemmas |
| `RateLimiter` | `default_rate_limiters.go` | |
| `Parallelize` | `parallelizer.go` | |
| `HelperProofs` | theorems about Parallelize and RateLimiter | Parallelize, RateLimiter, QueueLemmas |
| `DeltaFIFO` | `delta_fifo.go`, `processLoop` and `processDeltas` of `controller.go` | |
| `LeaderElection` | `leaderelection.go`, `leaselock.go` | |
| `LeaderElectionProofs` | theorems about LeaderElection | LeaderElection |
| `WatchServer` | the API server's resource versions, list and watch, external, from how the clients use them | |
| `Reflector` | `reflector.go` | DeltaFIFO, instantiates WatchServer |
| `DeltaFIFOProofs` | theorems about DeltaFIFO and Reflector | Reflector, QueueLemmas |
| `SharedInformer` | `shared_informer.go`, `Run` of `controller.go`, `synctrack.SingleFileTracker` | |
| `MCSharedInformer` | the handlers and scenarios of the run | SharedInformer |
| `SharedInformerProofs` | theorems about SharedInformer | SharedInformer, QueueLemmas |
| `RetryWatcher` | `retrywatcher.go`, `until.go` | WatchServer |
| `EventProcessor` | `informerwatcher.go` | |
| `WatchProofs` | theorems about RetryWatcher and EventProcessor | RetryWatcher, EventProcessor |
| `ThreadSafeStore` | `thread_safe_store.go` | |
| `MCThreadSafeStore` | the index functions of the run | ThreadSafeStore |
| `ThreadSafeStoreProofs` | theorems about ThreadSafeStore | ThreadSafeStore |

Definitions whose comment starts with "Mutant" are deliberately wrong variants;
no specification uses them. Each property is known to fail for one of them.

### WorkQueue

Variables carry the names of the fields of `Type`. Each critical section of the
mutex is one action; `cond.Wait` ends an action with the goroutine in `"wait"`.
`Signal` wakes any one waiter, worker or drainer, as `sync.Cond` may;
`Broadcast` wakes all. A worker is a goroutine that alternates Get and Done, as
the documentation requires; a drainer calls ShutDownWithDrain once. Go does not
wake waiters spuriously, and neither does the model. Metrics are left out.

### DelayingQueue

The embedded queue is the whole of WorkQueue; its steps are `BaseStep`.
`waitingLoop` is cut where other goroutines can act: `LoopTop` (shutdown test and
reading the clock), `AddReady` (one ready entry, with the Add it calls),
`SetTimer`, and the cases of the `select` (`SelectStop`, `Heartbeat`,
`TimerFires`, `Receive` with the `Drained` that follows it). The heap is the
function from items to times, since an item has at most one entry. `AddAfter` is
the call up to its `select`, `AddAfterSend` and `AddAfterStop` its two outcomes.
`owed` is a history of the requests accepted and not yet honoured; a shutdown
cancels what is owed.

### RateLimiter and Parallelize

`RateLimiter` puts all limiters together the way the constructors allow.
Durations are integers of `Width` bits, products are exact as they are in
float64 for a base delay of at most 53 bits times a power of two, and the constant
MaxInt64 is rounded up as the conversion in the code does. The one product that is
out of range and passes the comparison becomes the smallest or the largest duration,
depending on the machine. A base delay of 0 is left out. Powers of two are the
recursive function `Pow2`, about which the proofs can reason. `Parallelize` chooses the arguments in Init; a panic of
doWorkPiece is not modelled.

### DeltaFIFO

Every method runs under `f.lock`, so each is one action. A delta is a Put (the
four types processDeltas treats alike), a Deleted, or an Unknown
(DeletedFinalStateUnknown). `Enqueue` is queueActionLocked for the keys of one
call; the order in which new keys enter the queue is any order where the code
ranges over a map or over the list it is given (list first, deletions second).
Objects that the transformer refuses are actions of their own (`ActionRefused`,
`ReplaceRefused`, and Resync of a part). `PopProcess`, `PopRequeue`,
`PopError` and `PopDrop` are the outcomes of process: success, ErrRequeue, and a
failure at some delta (the earlier ones are applied) with and without
RetryOnError. `Failures` says which of them a run allows; processDeltas itself
never asks for a requeue, a requeue stands for a Process that returns ErrRequeue
before it touches the store. `want` is a history of what the
producer asked for, `initial` of the keys of the first Replace, `failed` of the
keys whose processing failed since the producer last asked for something, and
`readded` of the keys AddIfNotPresent has put back; the properties that a failed
Pop really breaks are stated for the other keys. The bound `MaxDeltas` limits the
deltas in the whole queue.

### LeaderElection

A try is a Get and then a Create or an Update. The server carries a request out
or not, and the client gets the answer or an error, in separate steps; a request
can outlive its sender in `late`. Resource versions are the set `fresh` of
clients that have the current one; the comparison of raw records is the set
`seen`. A Get is answered in one step: an answer that is outdated on arrival only
makes the Update fail and the observation later. Time is an integer common to all
clients, timers of a leader are urgent, and a try lasts at most `MaxTry`.
`RecordedDuration` is LeaseDuration after the cut to whole seconds, and a renewal
in the second of the last one leaves the raw record as it was. `LeaderElectionAssumption`
is what NewLeaderElector checks; `LeaseOutlastsLead` is the relation between the
durations that it does not check and that keeps two clients from leading at once, a
hypothesis of the theorems that need it. `Stop` covers
crashes and every return of Run, `Restart` a new process with the same identity.
OnNewLeader, the health check, metrics and `MultiLock` are left out.

### WatchServer and Reflector

`log[v]` is the change that made resource version `v`; a list is answered with the
objects of some version no older than asked, and a watch cannot start from a
version that was compacted. The actions of Reflector follow `ListAndWatch`: `List`,
`ListExpired` (the second list of one call), `SyncWith`; `InitialConnect`,
`InitialEvent`, `InitialChange`, `InitialBookmark` and their failures for
watchList, whose stream goes on as the watch; `InitialEventSkipped` and
`InitialChangeSkipped` for an event before the bookmark that watchHandler only logs; `Watch`, `Event`, `Bookmark`,
`WatchCloses` and `WatchGone` for watch and watchHandler; `Unsupported` is the
fallback to list. Events of the stream are put in the DeltaFIFO by its own actions,
a Replace can be refused half-way, and the consumer pops in between. `wrong` is a
history of the objects whose last event the store refused or watchHandler skipped, which
is what the code accepts; `missed` is the same for temporaryStore and becomes `wrong`
when watchList replaces the store, which then loses the object or gets an older one.
An event, a list or a watch-list that brings the object ends it. The properties are
about the other objects, and, as those of DeltaFIFO, not about keys whose processing
has failed. A resync may come from the goroutine of an earlier call of
ListAndWatch that has not seen its cancel channel.

Left out: the stop channel (nothing is checked after it), backoff durations,
pagination, panics of a list.

### SharedInformer

Who holds one of the four locks follows from where the goroutines are:
`StartedLockFree`, `QueueLockFree` (Pop keeps the queue's lock while the deltas are
processed), `BlockDeltasFree`, and `CanRLock`/`CanLock` for listenersLock, where a
writer that waits keeps new readers out as `sync.RWMutex` does. `Pop`,
`HandleDeltas`, `Distribute`, `Send` and `PopReturns` are the loop; one item may
have several deltas. `AddEventHandler` goes through `AddBlocksDeltas`, `addListener`
and one `Replay` per object; RemoveEventHandler and HasSynced are cut the same way
where they wait for a lock. A listener's channel addCh is open, closed or not yet
read (`goroutines`), `buf` is what pop holds, `handling` what run has given to the
handler. A handler may panic, which skips Finished. Which deltas come is left open:
first those of the initial list, then any; DeltaFIFO and Reflector say which really
do. Which listeners a resync reaches is left open too, since the clock decides it.

The constant `ResyncBeforeStart` is FALSE: the resync timer does not fire before the
goroutine of sharedProcessor.run has run for the first time. Resync periods are at
least a second when they come from AddEventHandler, so the scheduler would have to
hold that goroutine back for so long. Handlers do not call the informer. Both
restrictions are needed, see "Where code and comments disagree".

### RetryWatcher and EventProcessor

RetryWatcher keeps the event that is being sent (`sending`) apart from
lastResourceVersion, which is set after the delivery, and the context apart from
stopChan, which another goroutine ties together (`Cancel`). Until reads, and returns
at any time with its deferred Stop. EventProcessor separates the test in takeBatch's
loop, the registration of `cond.Wait` and the sleep; an event is the number of its
push, and `written` is a history of what the reader has received.

### ThreadSafeStore

Every method runs under one lock. The writers are cut into the rounds of their
loops, since Replace and updateIndices range over maps, in any order: `Update`,
`Delete` and `ReplaceKey` call updateIndices, `UpdateIndex` is its round for one
indexer, `Return` and `ReplaceReturns` unlock. An Index is a function on the values
it has an entry for, so that an empty set left behind is visible; the list an index
function returns is the set of its values (repeated values change nothing but which
branch is taken, and both have the same effect then). The methods that read are
operators, used when no writer has the lock. Left out: an index function that
returns an error, which panics, and GetIndexers, which gives its caller the map of
indexers itself without the lock.

## 4. Runs

| run | instance | shows |
|---|---|---|
| `workqueue` | 3 items, 3 workers, 1 drainer | bookkeeping, no lost wake-up, exit of the workers, return of the drain, refinement of WorkSet with its fairness |
| `delaying` | 2 items, 1 caller, channel of 1, times to 2, both shutdowns | no request lost, none early, timer armed; delayed items are added, AddAfter returns, the loop ends |
| `rate_limiter` | 6-bit durations, base 3 | bounds and growth past the overflow |
| `parallelize` | up to 3 workers, 4 pieces, chunks of up to 3 | each piece once, return |
| `delta_fifo` | 2 keys, 2 objects, 3 deltas in the queue; requeues, failed pops retried or dropped | Faithful and the other invariants under failures, every delta popped |
| `delta_fifo_retry` | 1 key | violated: a retry brings a deleted object back |
| `reflector` | 2 keys, 2 changes on the server, 2 deltas in the queue | the store is the snapshot of the version the watch resumes from, never older, catches up |
| `shared_informer` | 2 handlers and 1 delta, or 1 handler and 3 deltas; 1 key, 2 objects | coherent histories, no send on a closed channel, HasSynced not early; every call and Run return, handlers catch up |
| `retry_watcher` | 2 objects, 4 changes on the server | every event once and in order, Stop ends it, gone versions end in an error |
| `event_processor` | 2 events | violated: stop's signal is lost and run never exits |
| `thread_safe_store` | 2 keys, 3 objects, 2 indexers (one or several values), any set of them at the start | the indices find exactly the stored objects, no empty sets |
| `leader_election` | 2 clients, second of 2, lease 7 (cut to 6), deadline 2, period 1, try 1, time to 9 | at most one leader, no early takeover, safe release |

The type invariants are proved (section 5) and can be added to the configurations as
INVARIANT; the runs spend their properties on behaviour. The inductive invariants of the proofs were checked on
the instances of the runs before they were proved.

Why these bounds are enough to be interesting. The work queue needs two items for
a queue with an order, a third so that a signal can be outstanding for each of two
others, and as many workers as items. In the delaying queue a
channel of one fills up with one request and blocks the next; two delays and two
items give a heap whose order matters. Durations small enough to overflow after
few failures pass the boundary several times. In DeltaFIFO two deltas of a key
are what deduplication looks at, a third lets another key be queued meanwhile or
deltas wait for their retry, two objects are what makes a stale one visible. For
the reflector two changes are a create and an update, a delete, or a change
elsewhere, each before or after any step of a list, a watch-list or a resumed watch;
the safety properties were also checked with three (1.9 million states). The shared
informer is checked in two scenarios, among which Init chooses (`Scenarios`). Two handlers
around one delta, of the initial list or after it, are what it takes for one to be
registered while the other is served. One handler through three deltas is told of an
addition and then of updates, resyncs and a deletion, in several orders and with
several of them in its buffer, and it may be registered, removed and synced in between.
The safety properties, which are proved for any number of deltas, were also
checked with two handlers and two deltas, and with two keys, so that a replay takes
several sends; liveness with 1 handler, 2 keys and 3 deltas. Four changes let RetryWatcher be interrupted before,
between and after events, with a compaction in between. The store's two keys
share values or not, and its objects have two values, one or none for the second indexer and the same
or another one for the first, which is what the shortcut of updateIndices looks at.
For leader election the lease is the shortest that `LeaseOutlastsLead` admits and the time
allows for a full lease, a takeover and the old leader's last deadline; with a
lease one second shorter TLC finds two leaders in the same instance.

The models bound time, failures and the number of deltas with constants named
`Max...`, those of SharedInformer with `Scenarios`; deadlock is not checked where time stops at the bound (`DelayingQueue`,
`LeaderElection`), where everything may come to an end (`Parallelize`,
`SharedInformer`, `RetryWatcher`, `EventProcessor`).

### Fairness

- A goroutine that can run does so, and gets the mutex in the end (Go's mutexes
  are starvation-free): WF of Get, DrainLoop, the steps of waitingLoop, Pop.
- A worker calls Done on what Get gave it, as the documentation of Get demands:
  WF of Done.
- A `select` with several ready cases chooses among them at random, so a case that
  is ready again and again is taken: SF of Receive and AddAfterSend.
- Time passes and the heartbeat ticks: WF of Tick and Heartbeat.
- `process` does not ask for ever for the same key to be requeued: SF of
  PopProcess for each key.
- Reflector: requests are answered, and a relist is not answered from a stale cache
  for ever; CatchesUp assumes in addition that faults (a failed request, a closed
  watch, an event refused or skipped, in a watch-list too) end at some point, `<>[][~Fault]_allVars`. Strong fairness
  of SyncWith and Event is due to the bound on the FIFO, which they wait for.
  SeesAll of RetryWatcher likewise assumes that interruptions end.
- SharedInformer: handlers return; strong fairness only where a lock may be used again
  and again by others: startedLock by HasSynced polls, the read side of listenersLock
  by resyncs. A `sync.Mutex` hands over to a waiter after a millisecond and a
  `sync.RWMutex` lets the waiting readers in before the next writer.
- EventProcessor: run and the second half of stop are scheduled; nobody has to read.

Nothing is assumed of producers, of shutdown calls or of process succeeding on the
first attempt.

### Where code and comments disagree

Shown by a run:

- `delta_fifo.go:392`: AddIfNotPresent after a failed Pop can queue an object that
  was deleted in between; its comment calls the retry safe. Only consumers with
  RetryOnError are concerned (`delta_fifo_retry`).
- `informerwatcher.go:98`: stop signals without the lock; when that falls between the
  test and the wait of takeBatch, the goroutine of run is never woken again
  (`event_processor`).

Not kept as runs; each is found by changing one constant or adding one line:

- `queue.go:234`: Done signals one goroutine when processing becomes empty; with
  `Drainers = {d1, d2}` EveryDrainReturns is violated, one of the two callers of
  ShutDownWithDrain never returns, although every item was done.
- `queue.go:266`: ShutDownWithDrain returns although items are still queued, if
  none is being processed; its comment says it waits for all existing items.
- `default_rate_limiters.go:98`: a backoff of exactly 2^63 passes the comparison
  that is to prevent the overflow; with `BaseDelay = 2` BackoffCapped is violated.
  The default base delays are not powers of two.
- `shared_informer.go:775`: with `ResyncBeforeStart = TRUE` CallsReturn is violated:
  the loop sends to a listener that is not started yet and holds listenersLock for
  reading, shouldResync waits for the write lock, and sharedProcessor.run, which would
  start the listener, waits behind it. It takes a resync period that elapses before
  that goroutine runs.
- `shared_informer.go:816`: sharedProcessor.run waits for the handlers with
  listenersLock held, so a handler that calls AddEventHandler or RemoveEventHandler
  during the shutdown waits for ever.
- `reflector.go:812`: the comment of relistResourceVersion says that a relist is not
  older than what the reflector has seen. When a Replace fails after some objects, those
  are in the store while lastSyncResourceVersion is the old one, so that the next list
  may be older than they are; NeverOlder compares with lastSyncResourceVersion.
- `reflector.go:675`: when Replace fails, watchList returns without stopping its watch.
- `retrywatcher.go:109`: a Gone status that Watch itself returns, not in an event, is
  retried for ever.

## 5. Proofs

Every safety property that a run checks is also a theorem, for every value of the
constants that the named assumptions admit. A theorem module states an inductive
invariant, proves that every action keeps each of its parts, and derives the properties
from it. AnswerBounded of RateLimiter and EventsInOrder and AwakeForEvents of
EventProcessor are theorems that no run checks.

### WorkQueueProofs

For any set of items, any finite set of workers and any drainers
(`WorkQueueAssumption`):

- `TypeCorrect`, `QueueCorrect`, `StingyCorrect`: from the inductive invariant
  `Books`, the conjunction of TypeOK, QueueIsDirtyNotProcessing and Stingy. None of
  the three is inductive alone: Done must know that what a worker holds is in
  processing and with no other worker, and Get that the head of the queue is not.
- `NoLostWakeupCorrect`: `Wakeups` adds to NoLostWakeup that a parked drainer has
  seen the shutdown. This is what keeps a Signal from going to a drainer while a
  worker needs it: drainers wait only after the shutdown, and the shutdown's
  Broadcast has left no worker parked. The argument counts the workers on their way
  to the queue (`ReadyCounts`).
- `DrainerHasCauseCorrect`, under the assumption of at most one drainer, without
  which it is false (`EveryDrainReturns` fails there, section 4).
- `Refinement`: every step of WorkQueue is a step of WorkSet or a stutter.

For the delaying queue, with any callers, delays and capacity of the channel
(`DelayingQueueAssumption`):

- `DelayingUsesQueue`: DelayingSpec implies the specification of WorkQueue, as every
  step either is one of the embedded queue or leaves it alone. So the theorems above,
  the refinement of WorkSet included, hold of the delaying queue.
- `NoRequestLostCorrect`, `TimerArmedCorrect` and `NeverEarlyCorrect`, from `Delayed`:
  to the two invariants it adds that the clock an iteration of the loop has read is not
  ahead of the time, that stopCh is closed only after the queue is shut down, and that
  what is in the channel and in the heap stands for a request that is still owed (or,
  in the channel, is a second copy of one whose time has come). The last part is what
  NeverEarly needs, the first what keeps the entries that `AddReady` takes from being
  early.

### HelperProofs

For any number of workers and pieces and any chunk size (`ParallelizeAssumption`):
`AtMostOnceCorrect` and `AllDoneOnReturnCorrect`. The invariant `Shared` says of each
piece that it is queued, left to one worker, or worked on once, no two of these, and that
it is none of them only after a cancellation. `CeilDiv` and `OneChunk` are the
arithmetic: the chunks that ceilDiv counts start within the pieces, cover them and do
not overlap. That workers are started whenever there is a chunk is part of the
invariant: without it a call with pieces could return at once.

For the rate limiters, with durations of any width (`RateLimiterAssumption`):

- `LimiterTypeCorrect` and `AnswerBoundedCorrect` hold for every base delay: MaxOf starts
  from 0 and WithMaxWait caps, so that even a negative delay of the exponential limiter
  does not reach the caller of this combination. The invariant `Answers` says it of the
  answer at every step of MaxOf's loop.
- `BackoffCappedCorrect` and `BackoffGrowsCorrect` have the hypothesis `NotPowerOfTwo`.
  It cannot be left out (section 4), and TLC's instance satisfies it. `NeverExact` turns
  it into what is needed: no number of failures makes the backoff exactly 2^(Width-1).
  `CappedGrows` says that the capped delay grows with the failures on both sides of the
  overflow, and the invariant `LastDelays` that the last delay of an item is the one of
  its count.
- The facts about powers of two (`Pow2Unfolds`, `Pow2Adds`, ...) need induction over the
  naturals, which is carried out by hand: a set of counterexamples would have a least
  element (`HasMinimum` of QueueLemmas). `TableExists` and `TablesAgree` show in the same
  way that the recursive definition of Pow2 defines a function.

### DeltaFIFOProofs

For any finite set of keys and any objects (`DeltaFIFOAssumption`):

- `TypeCorrect` and `QueueCorrect`: in every configuration the queue lists exactly
  the keys that have deltas, each once, so that Pop never finds a key without
  deltas and no key is forgotten. The inductive invariant is `Shape`, TypeOK with
  QueueMatchesItems and RetryHasDeltas (what processLoop retries has deltas): popping
  the head needs that it has deltas, an enqueue that the new keys are not in the
  queue, AddIfNotPresent that what it adds back is not empty.
- `FaithfulCorrect`: whatever Failures a Process has, the queue and the known objects
  together say what the producer asked for last, except for a key whose processing
  failed since. The invariant `FaithfulInv` adds `RetryIsObsolete`: when processLoop
  holds deltas of a key that is not failed any more, newer ones are queued, so that
  AddIfNotPresent adds nothing.
- `ConsumerAwakeCorrect`: the consumer never sleeps on a queue that has a key or is
  closed.
- `DeltasReplayableCorrect` and `TombstoneIsLatestCorrect`: the invariant
  `AllReplayable` says of every prefix of a key's deltas that it can be applied to what
  the client knows; both follow from it, and it survives deduplication, which drops one
  of two deletions, and the application of the first deltas only.
- `SyncCountCorrect`: the keys of the first Replace that are not popped yet are the first
  ones of the queue, as many as initialPopulationCount.

For the reflector, with any number of changes on the server (`ReflectorAssumption`):

- `ReflectorUsesFIFO`: ReflectorSpec implies the specification of DeltaFIFO, so that the
  theorems above hold of the queue behind a reflector.
- `StoreIsSnapshotCorrect`, `NeverOlderCorrect` and `ReflectorTypeCorrect`, from
  `ReflectorInv`: the invariants of the FIFO with `Streaming` (the temporary store of a
  watch-list holds the objects of the version of its stream, apart from those in `missed`), `Forward` (no list and no stream
  is behind lastSyncResourceVersion) and `Synced` (what the producer asked the FIFO for is
  the snapshot of lastSyncResourceVersion, and what a stream has passed over since is not
  of these objects). What is asked for becomes what the client has by Faithful. The last
  change of an object exists because the order on Nat is well founded (`HasMaximum`).

### LeaderElectionProofs

For any clients and every configuration that NewLeaderElector accepts
(`LeaderElectionAssumption`): `TypeCorrect` and `NoEarlyTakeoverCorrect`, from the
invariant `Lawful` (`LawfulCorrect`). Besides the types it has `InTime` (a try is not
older than MaxTry, a round of renew not past its deadline), `InOrder` (no record is from
the future, and those of a client are not from after the start of its present try),
`Informed` (who has the current version or record believes what the lease says, and
observed it after it was written), `Unanswered` (until the answer to a claim that was
carried out comes, its sender has no version) and `Justified` (what the server would
carry out takes the lease from nobody before it expired).

`AtMostOneLeaderCorrect` and `ReleaseIsSafeCorrect` have the hypothesis
`LeaseOutlastsLead`, RecordedDuration >= Second + MaxTry + RetryPeriod + RenewDeadline,
which NewLeaderElector does not check. It makes the lease of a client that leads, or is
about to, outlast its lead; the run's instance satisfies it with equality, and with a
lease one second shorter the property is false. Under it `Election` is invariant: Lawful
with `HolderLeads` (who leads holds the lease, for longer than it may lead). The late
requests are why the parts speak of `late` too.

### SharedInformerProofs

For any handlers, keys and objects and any number of deltas: `CoherentCorrect`,
`NoSendOnClosedCorrect`, `SyncedMeansDeliveredCorrect` and `InformerTypeCorrect`, from the
invariant `Informed`:

- `Phases`, `Working`, `Blocked`, `Fresh`: what the locks give. blockDeltas keeps the loop
  and a registration apart, startedLock keeps a registration from outliving the stop, and
  a handler that is not registered yet has been told nothing.
- `Counted` and `Answered`: the counter of the sync tracker is at least the number of
  initial objects in the buffer and with the handler (it may be more, after a panic), and
  between the two questions HasSynced asks no initial object can come. Together they give
  SyncedMeansDelivered.
- `Viewed` and `Chained`: what a handler has been told and will be told by its buffer is
  `View`, the indexer apart from the objects still to be replayed and the delta still to
  be sent to it, and each notification continues the one before it. Coherent is what is
  left of it when blockDeltas is free. `AppendTells` and `AfterTail` say what add and
  Dispatch do to the last notification about a key.

### WatchProofs

`EveryEventInOrderCorrect` and `WatcherTypeCorrect`, for any objects and any number of
changes (`RetryWatcherAssumption`): `Ahead` says that the stream is ahead of
lastResourceVersion only by changes that the watch does not report and by the event that
is being sent. A watch that is started again at lastResourceVersion so repeats and skips
nothing.

For the event processor, with any number of events: `OrderCorrect`, what the reader has
received is the sequence of pushes without a gap. The invariant `Continued` says that
the batch continues what was written and the buffer continues the batch; it needs that
a batch is given up only when run is about to return. `AwakeForEventsCorrect`: run never
sleeps on a buffer with events. Its invariant `Unattended` is that run holds the lock from
the test in takeBatch until it is on the list of waiters, so that no push comes between;
stop, which does not take the lock, has no such theorem.

### ThreadSafeStoreProofs

For any keys, objects, indexers and index functions (`ThreadSafeStoreAssumption`):
`IndexExactCorrect` and `StoreTypeCorrect`, from `Indexed`. While a
writer is in its loops an index is not what the items say, so that the invariant says
which object each index still has for each key (`IndexedAs`): the old one until
updateIndices visits the indexer, none until Replace visits the key. `LoopState` ties the
arguments of updateIndices to the items, `NoEmptySet` is what ListIndexFuncValues needs, and
`Unused`, that a name without an indexer has an empty index, what AddIndexers needs.
`DeleteKey` and `AddKey` say what the two operations do to one Index; `RoundMovesKey`
covers the round that is skipped as well: the key already is in the set of the value.

### Only model-checked

All liveness properties and the fairness part of ImplementsWorkSet: liveness and ENABLED
are outside the proof system.

## 6. Not modelled

Almost all lines of this repository are generated: the typed clients, informers,
listers and apply configurations have no state of their own, and the map cannot and
should not cover them. What is hand-written and keeps state, and is not modelled, is
listed with status `not_modelled` in PROJECT.json with the reasons given
there. Within modelled components: metrics, logging and tracing; read-only methods;
KeyError paths, which change nothing; DeltaFIFO without knownObjects; panics in
callbacks; clients with different election configurations or clock rates.
