# TLA+ models of the zpc asynchronous runtime

zpc is a header-mostly C++ library for heterogeneous parallel programming. Most
of it is numerical and data-parallel code; the part in which correctness depends
on the order of steps of several threads is the asynchronous runtime under
`include/zensim/execution`. These modules model that part, TLC checks them on
small instances, and TLAPS proves the main results for every instance.

## 1. The system

| Component | State | Operations | Interacts with |
|---|---|---|---|
| `AsyncEvent` (`AsyncRuntime.hpp`) | status, callback vector, mutex, condition variable | `complete`, `mark_*`, `on_complete`, `wait`, `wait_for`, `status` | runs callbacks of its users on the completing thread |
| `AsyncRuntime` | executor registry; per submission: `inFlight`, event, stop token, dependency count | `submit`, `resume`, `dispatch`, `run_step` | events of prerequisites call it back; hands submissions to executors |
| `AsyncInlineExecutor` | none | `submit` runs the step in the caller | called by `dispatch`, also from inside callbacks |
| `AsyncThreadPoolExecutor` | queue (4096), `_running`, `_stop`, workers | `submit`, `worker_loop`, `shutdown` | moodycamel queue, `ManagedThread`, futex |
| `AsyncNativeQueueExecutor` | device queue descriptor | `submit`: step, record, sync | device API callbacks |
| Parking lot, `Futex`, `Mutex`, `ConditionVariable` (`ConcurrencyPrimitive.cpp`) | hashed wait queues with a waiter count, a word, an epoch | `parkFor`, `unpark`, `wait_for`, `wake`, `lock`, `unlock`, `notify_*` | below everything else |
| `AsyncScheduler`, `TaskGraph` | per-worker queues and status words, global queue, `_remainingJobs`, node dependency counts | `enqueue`, `wait`, `shutdown`, `worker_loop_`, steal | coroutines, execution graph |
| Awaitables | `AsyncFlag` word and continuation | `signal`, `await_suspend` | event, scheduler |
| `AsyncResourceManager` | entries: lease count, retired, dirty, maintenance in flight | `acquire`, `Lease::reset`, `touch`, `mark_dirty`, `schedule_maintenance`, `schedule_stale_maintenance`, `collect_retired` | submits maintenance to `AsyncRuntime` |
| `AsyncMemoryPool` | slabs, lock-free free list, thread caches | `acquire`, `release` of `AsyncObjectPool` | the scheduler's edges |
| `SpscQueue`, `ConcurrentQueue` | ring indices | `try_enqueue`, `try_dequeue` | pool, scheduler |
| `ExecutionGraph`, `CpuGraphExecutor` | passes, resources; compiled order, edges and lanes; dependency counts | `addPass`, `compile`, `executeInline`, `execute` | `AsyncScheduler` |
| Runtime C ABI | engine handle, signal registry | `submit`, `query_event`, `cancel`, native-queue submit | `AsyncRuntime` |

What is hard here: a callback runs on whatever thread finishes the event, inside
that thread's own operation, and may dispatch (and, inline, run) further
submissions from there; `submit()` races with the prerequisites it registers
with; `resume()` and `cancel` act on a status that may be stale; the thread pool
is shut down while others enqueue; waiting is built from a hand-written mutex
and condition variable; leases, retirement and collection of a resource meet in
single atomics without a common lock; free slots are popped from a stack that
others push to; a graph's passes are launched by whoever finishes last.
`PROJECT.json` lists these hazards line by line.

What makes the parts correct: an event's end is final and each callback runs
exactly once, after it; waiting returns; a submission runs only after its
prerequisites, on one thread at a time, and ends; what is queued is drained
before the pool is gone. A resource has one maintenance at a time, keeps its
payload under a valid lease and loses it in the end; a pooled object has one
owner; a queue hands out what was put in, in order; a compiled graph orders
every conflict and no more is run than was declared.

## 2. Modules

**`CompletionEvent`** is what an event promises: a status that stays terminal,
and callbacks that are invoked once and only afterwards. It knows no thread.

**`AsyncEvent`** is `zs::AsyncEvent` with the `Mutex` and `ConditionVariable` it
uses. Threads have a program counter; the accesses inside the critical sections
are separate steps. `t_lock ... t_run` is `transition()`, `o_lock ... o_invoke`
is `on_complete()`, `w_pred ... w_timeout` is `wait()` and `wait_for()`. The
critical sections have to be open because `wait()` calls the condition variable
*without holding the mutex*: it releases a mutex somebody else may hold and
re-takes it without ever releasing it. `Unlock` stores 0 whoever holds the word,
as `Mutex::unlock` does. A callback is named by the thread that registers it.

**`AsyncRuntime`** is the runtime with both executors. Each thread has a call
stack of frames, innermost first, because callbacks and inline steps nest: a
frame is one program point (`register`, `record`, `count`, `dispatch`, `admit`,
..., `finish`, `notify`, `clear`) with the submission it is about. One action
executes the next atomic access of a thread's top frame, so that every
interleaving between atomic accesses of different threads is there. `ExecOps`
are the program points between the compare-and-swap that sets `inFlight` and the
store that clears it. Events are atomic here, which `AsyncEvent` justifies as
long as nobody blocks on them (section 4); the pool's queue is the vendored
moodycamel queue and appears as a bag of limited capacity.

**`ParkingLot`** is the parking lot below the locks and the futex: `parkFor()`
(`p_*` program points), `unpark()` (`u_*`), and its callers `Mutex`,
`await_change()`, `await_equal()` and the emulated `Futex`. There is one wait
queue to which every address hashes, so that colliding addresses are always
present. Nodes live in heap cells: `unpark()` deletes a node whose waiter still
holds a pointer to it, and reading it gives what the memory holds. The constant
`Reuse` says whether the allocator may hand such memory out again at once; the
passing runs set it to FALSE and `lot_reuse` shows what happens when it is TRUE.
A node's own mutex and condition variable make "test `_signaled` or sleep" and
"set `_signaled` and notify" atomic; memory is sequentially consistent. The
native Linux and Windows paths and `notify_one` are left out.

**`AsyncScheduler`** is the work-stealing scheduler with the `TaskGraph` it runs.
As in `AsyncRuntime` a thread has a stack of frames and an action is one access
to shared state: `worker_loop_`, `process_`, `enqueue_`, `wake_any_worker_` and
the clients' calls are disjunctions of their program points. `Atomic::wait()` is
a test of the value, a snapshot of the condition variable's epoch and a sleep;
a notification ends the sleep of a thread past its snapshot and is lost on one
before it, which is all that the epoch counter does, so no counter is kept.
Clients run a script of calls, the graph's nodes and edges are constants
(`addNode()` and `addEdge()` precede `submit()`), and `Suspends` says how often a
body suspends: a node that suspends returns to its worker's queue, a coroutine
enqueues itself through `co_await schedule()`.

**`AsyncResourceManager`** has users, whose program points are those of
`acquire()` and `Lease::reset()`; keepers, which register, schedule, sweep,
collect and finally destroy the manager; and one job per ticket, the step that
`schedule_maintenance()` submits. The points of a job are its accesses to the
entry's atomics: `m_clean`, `m_retire`, `m_unclaim`, `m_leases`, `m_destroy`. The
runtime appears by what it may do to a submission: run the step, run it again
after a suspension, or end it without running it (`JobDrop`), in which case
`maintenanceInFlight` stays set, as in the code. `_mutex` is visible only while
`collect_retired()` holds it; the other sections under it are one step each.

**`ExecutionGraph`** is `compile()` as operators: `touches`, `Pairs` and `rawEdges`
(the hazards, an edge per pair of accesses), `bestIdx`, `SortStep`, `SortTurns` and
`Sort` (Kahn's algorithm with priorities; `SortTurns` is the state after each turn of
the loop), `chooseLane`, `putOnLane`, `laneStates` and `assignLanes`, `crossLane`.
Loops are recursive functions of the number of turns made. `Conflict` says without all
this what an edge is for: an access of one pass and a later one of another name the
same resource and one of them writes; an access without a mode counts as a read for
those declared after it, as `classify_hazard()` tests only the second mode for it. A
symmetric `Conflict` is wrong there (the proof of `CompileRefuses` needs the
distinction), and a scene of `MCCpuGraphExecutor` has such a pass.
**`CpuGraphExecutor`** builds a
graph by `addPass` from a set of declarations, compiles it, and executes it
inline or on the workers of a scheduler, which runs each enqueued job once. The
history variable `overtaken` records that the loop over the roots took a pass
that a job had just released.

**`BoundedFifo`** is what a queue between two threads promises; **`SpscQueue`** is
the ring buffer of `ConcurrentQueue.hpp`, with its chunked cells and counters
that wrap at `Modulus` (2^64 in the code), and implements it. **`AsyncMemoryPool`**
is `AsyncObjectPool`: a thread cache, the shared free list as a sequence with
`pop_()` in three steps (head, next, compare-exchange), `grow_()` under its mutex,
flushes. A next read from a slot that has left the stack may be anything; when a
compare-exchange installs a wrong one the model records `corrupt` and stops.
**`ObjectHandoff`** composes the two: a producer and a consumer acquire and
release pooled objects and pass pointers to them through the queue, so that slots
migrate between the caches.

`MCAsyncEvent`, `MCAsyncRuntime`, `MCParkingLot`, `MCAsyncScheduler`,
`MCAsyncResourceManager`, `MCCpuGraphExecutor` and `MCObjectHandoff` instantiate
them for TLC; `AsyncEventProofs`, `AsyncRuntimeProofs`, `AsyncResourceManagerProofs`,
`SpscQueueProofs`, `ObjectHandoffProofs`, `ParkingLotProofs`, `AsyncSchedulerProofs`
and `CpuGraphExecutorProofs` hold the theorems. An
operator whose name ends in `_Something`, with a comment that begins with
"Mutant", is a wrong form of the one after it: each property is known to fail
when one of them takes its place.

## 3. What TLC checks

Passing runs:

| Run | Instance | Shows |
|---|---|---|
| `event_callbacks` | 2 completers and 2 registrars; or a completer and a `wait_for()`; or a registrar and a `wait_for()` | `TypeOK`, `FinalStatus`, `NoStrandedCallback`, `Refines` (implements `CompletionEvent`), and under fairness `CallbackFires` and `BlockedByWaitOnly`: every `transition()`, `on_complete()` and `wait_for()` returns, also one that misses the notification or whose event never ends, unless a wait that has returned keeps the mutex for good |
| `runtime_chain` | 3 submissions (pooled and cancellable; inline after it and a client's event; pooled after both), 2 clients, 1 worker | `LiveStep`, `PrerequisitesFirst`, `CountsPrerequisites`, and under fairness `SubmissionSettles` |
| `runtime_pool` | 2 pooled submissions, one of which suspends and is resumed, 2 clients, 2 workers, queue of one entry, shutdown | `StepExclusion`, and under fairness `DrainedOnShutdown`, `ShutdownReturns` |
| `lot_wakeups` | two mutexes that collide in the wait queue, 2 threads each; or an `await_change()`, an `await_equal()` with its mask, a timed wait and a waker on one word | `CountExact`: a zero `_count` may be trusted without the lock; `NoLostWakeup`; `WakeNotWasted`: a wake is never answered by a timeout; under fairness `LockReturns`, `AwaitReturns` |
| `sched_graph` | 2 workers; a client submits a join of two nodes, enqueues a function for worker 1, waits | `CountsJobs`, `NodeOnce`, `DepsFirst`, `WaitDrains`, and under fairness `DrainReturns`: `wait()` polls, so no lost wakeup matters to it |
| `sched_pause` | 1 worker with room for one job, 2 clients that enqueue for it, schedule a chain twice, pause, resume, shut down; a node and a coroutine that suspend | `Conserved`, `ZeroIsIdle` (what `wait()` relies on), `PauseHolds` |
| `resources` | 1 resource, 2 users, 1 keeper, 2 tickets, an eviction and a refresh as requests | `TypeOK`; `OneMaintenance`; `LeaseHonoured`: neither the end of a maintenance nor collection destroys a payload under a lease that answered `valid()`; under fairness `RetiredReclaimed` |
| `graph` | every graph of up to 4 passes from 8 declarations over 2 resources; executed up to 3 passes, inline or by 2 workers | `CompileAnswers`: valid exactly when there are passes and none conflicts with itself; `LanesSuffice`: timelines and cross-lane edges order every conflict and cannot wait for each other; `PriorityFirst`; `ConflictsInOrder`, `EventIsLast`; under fairness `GraphCompletes` |
| `handoff` | 1 producer, 1 consumer, 3 slots, 2 cells, counters modulo 4 | `CellsLive`, `OneOwner`, `SinglePopperSafe`, `FifoRefined` (implements `BoundedFifo`) |

Runs that show a disagreement between the code and what the repository says of it
(each has an entry under `findings`):

| Run | Property | What happens |
|---|---|---|
| `event_wait_lost` | `WaitReturns` | `wait()` tests the status, the event finishes and notifies, `wait()` then snapshots the new epoch and sleeps for ever |
| `lot_reuse` | `AwaitReturns` | `unpark()` deletes the node of a waiter that has not looked at it yet; the memory becomes another waiter's node and the first one sleeps on it |
| `sched_wait_early` | `WaitDrains` | in the test's diamond, a successor is run before it is counted: the counter is zero while its sibling is still to be enqueued, and `wait()` returns |

The passing runs say under which use the properties hold; the models also show
where that use ends. An event that a `wait()` or `wait_for()` slept on stays locked
(they unlock and re-lock a mutex they do not hold), so that `CallsReturn` fails and
`BlockedByWaitOnly` says that nothing else makes a call hang; with two completers
besides, the early unlock lets both pass the check and `FinalStatus` fails. A
submission that is resumed loses `PrerequisitesFirst` (`resume()` accepts a pending
one) and `LiveStep` (it dispatches on a status it read earlier). A graph whose join
is added after its predecessors loses `NodeOnce`, because `submit()` still looks for
ready nodes while workers make them ready. A node that suspends is counted twice:
`CountsJobs` and `DrainReturns` fail, and `ZeroIsIdle` still holds, as zero then
comes late or never. A pass that the root loop of `CpuGraphExecutor` overtakes runs
twice and completes the event early: `ConflictsInOrder` and `EventIsLast` are about
the other executions.

The models show four more limits, of which no document speaks. `release_lease()`
may destroy a payload under a lease that has answered `valid()`, because it acts on
a count it read before the resource was retired; `LeaseHonoured` is about the two
other places that destroy one. `exclusiveLane` does not keep later passes off a
lane. With two threads that pop, the pool's compare-exchange can install a stale
next (`SinglePopperSafe` says that one is safe), and `acquire()` may return null
after another thread took what `grow_()` made. `PROJECT.json` has a hazard for each.

Smaller things that the models show and no document of the repository rules out:
a `resume()` between the store of `suspended` and the store that clears `inFlight`
is dropped; a cancelled submission that was suspended ends without another run of
its step; `resume()` and `shutdown()` of the scheduler notify once, so that a
worker between its test and its epoch snapshot misses it; with every worker of the
pool spinning on a full queue inside a callback nobody dequeues;
`schedule_maintenance()` tests `retired` before it claims the busy flag, so that
`maintain()` may be given a null payload; a `mark_dirty()` during a maintenance is
lost; the manager's destructor destroys payloads that leases and jobs still use.

`TypeOK` is checked for the event and the resource manager; those of the runtime,
the scheduler and the graph executor are proved only (`TypeCorrect`,
`SchedulerTypes`, `GraphTypes`), and the other modules state theirs to document
their variables.

**Bounds.** Two completers and two registrars give every pair of racing
operations; the mutex makes a third of a kind wait like the second. `MaxCalls`
bounds the transitions per completer and is large enough for one before and one
after the terminal one. In the runtime, two clients and a worker give three
threads, enough for a submitting, a completing and an executing one; the join
submission has two prerequisites, the smallest number for which counting can go
wrong, one of which is itself a dependent. `MaxRuns` bounds how often a step
suspends, `MaxResumes` how often clients resume; two resumes are what a
double-resume race needs, and the proofs of section 4 cover any number. `Capacity = 1` in `runtime_pool` makes the
retry loop on a full queue happen, in the clients; elsewhere there is room for all.
In the parking lot `MaxRounds` bounds the critical sections or stores of a
thread, `Desired` is the value the waker stores, and there are as many
`Cells` as nodes can exist at once. In the scheduler a join is the smallest graph
in which two workers race for a successor, a hinted function is what there is to
steal, and a `LocalCap` of 1 with two clients makes displacement happen.
For a resource, two leases, two tickets and one step of the epoch (`MaxEpoch`, with
`staleAfterEpochs` 1) let a maintenance end, and a second one be asked for, while
a lease is taken and another released. A graph of four passes has two independent
chains, a diamond and a pass with two predecessors on different lanes; three
executed passes on two workers have a join, a fork and doubled edges (`MaxPasses`,
`MaxRun`). In `handoff` a slab of three (`BlocksPerSlab`, `MaxSlabs` 1) lets a slot be
popped and pushed again while another thread holds its address, the queue of two
cells in chunks of one is full and empty, and `Modulus` 4 makes both counters wrap
several times; sizes of the code differ by these constants alone.

**Fairness.** A thread inside a call and a worker in its loop keep taking steps
(weak fairness per thread: the operating system schedules them, and no step of
theirs waits except a lock, a full queue and a join). Clients are never obliged
to call. `Mutex::lock` is only promised to succeed if the mutex stays free, as
newcomers may overtake. In the parking lot a thread inside a call keeps taking
steps and leaves its critical section; spurious wakeups and new calls get no
fairness. The scheduler's workers run and its clients go on with their scripts.
A resource's leases are scoped objects and are released in the end, jobs past
`maintain()` go on, and somebody calls `collect_retired()` again and again (strong
fairness, as the mutex may be taken each time by others); nothing makes a suspended
job resume. An executing graph's client and the workers go on.
All runs switch deadlock checking off, since the system rests when every call has returned.

## 4. What TLAPS proves

All for arbitrary sets of threads, submissions, resources, wait-queue users, graphs and
slots, and for every capacity, chunk size and modulus of the counters.

*`AsyncEventProofs`.* `TypeCorrect` holds with waiters. For an event nobody
blocks on (`Waiters = {}`, which is what the findings above make necessary):
`NoCallbackStranded`, `StatusIsFinal`, and `ImplementsCompletionEvent`, the step
simulation of `CompletionEvent`. The inductive invariant `IInv` says that the
mutex really excludes (`LockHeld`), that what a thread found under the lock still
holds when it acts on it (`CheckedUnderLock`), that a callback is held in one
place (`OneHolder`), and that callbacks leave the vector only once the event is
terminal (`RunWhenTerminal`). Without `LockHeld` the check and the store of
`transition()` cannot be related.

*`AsyncRuntimeProofs`.* `TypeCorrect` and `StepsExclude`, with any
prerequisites, resumes, cancellations and shutdown. `StepExclusion` alone is not
inductive: a step that is about to start, or queued, has to be excluded too. The
invariant `Ownership` says that `inFlight` has one owner: either one frame at an
`ExecOps` point of one stack (`OwnedFrames`, `OneOwner`), or one entry of the
queue (`OwnedEntries`). The lemmas `Replaced` and `Origin` say where each frame
of a new stack comes from; `OwnerKeeps` carries ownership through every step
that neither takes nor gives it up; four lemmas treat the steps that do
(`DispatchOwns`, `EnqueueOwns`, `DequeueOwns`, `ClearOwns`).

The second part of the module is about what the callbacks of prerequisites achieve. The
lemmas `StepOrigin`, `StepKeeps` and `StepSets` describe a step by the frames it
takes off a stack and puts there, for any set of frames; everything else is stated
with `Some`, `AtMostOne` and `Elsewhere` over such sets. `CallbacksCountOnce`
(`CountsPrerequisites`) needs no hypothesis: the callback of a submission on a
prerequisite is in one place at a time (`CarriedOnce`) - a `register` frame, the
event's vector, a `notify`, `record` or `count` frame - every step but the decrement
hands it on (`HandsOn`, `HandsAll`), and the decrement takes one away from both sides
(`CountHands`). `WaitsForPrerequisites` (`PrerequisitesFirst`) adds `OrderInv`: a
callback that is no longer held was noted, after the prerequisite had ended
(`CountedNoted`), so the last one finds all of them noted (`LastClears`), and
whatever is being launched, queued or suspended was cleared then (`FramesFit`,
`WaitedFor`); ends are final and notes stay (`Grows`). `StepsAreLive` (`LiveStep`)
adds `LiveInv`: while a callback is held nothing launched the submission
(`Launched`), a pending submission is launched, executed or marked by one frame or
queue entry only, and whoever executes one that is no longer pending does so under a
stop request and therefore never reaches its step (`LiveIn`). The last two take
`Resumable = {}`, because `resume()` accepts a pending submission and both properties
fail then (section 3). `UnresumedWaits` and `UnresumedLives` say the same without that
hypothesis of each submission that nobody resumes, whatever is done to the others;
`cancel`, which resumes a suspended submission by itself, is allowed in all of them.

*`AsyncResourceManagerProofs`.* `TypeCorrect`, `MaintenanceExclusive`
(`OneMaintenance`) and the action property `LeaseSafe` (`LeaseHonoured`). The
inductive invariant says that `leaseCount` is the number of users between the
increment and the decrement (`LeasesCounted`, by cardinality: it is what keeps the
count from going below zero); that `maintenanceInFlight` has one owner, which is a
keeper between the exchange and `submit()` (`Claimed`) or a live job
(`OneMaintenance`); that a lease that answered `valid()` is still held
(`SureHold`); and that whoever is about to destroy a payload has seen the resource
retired and then no lease (`DestroyersSaw`). The order in the code is the argument:
a lease is counted before it is tested, and a job retires before it counts
(`ZeroUnleased`); after that no lease of the resource can answer `valid()` again
(`UnleasedStep`). `ClaimStep`, `SubmitStep` and `JobClaims` treat the three
places where the flag changes hands.

*`SpscQueueProofs`.* `CellsAlwaysLive` (`CellsLive`) and `ImplementsFifo`
(`FifoRefined`): every step of either thread is a step of `BoundedFifo` or a stutter.
The invariant relates the two counters to the cells: the number of items never
exceeds the capacity, also across the test of one side and the store of the other
(`Fits`), and the cells from the tail on hold live objects, exactly as many as the
counters say and one more while the producer has written but not published
(`CellsMatch`). The arithmetic is in `SlotsDistinct` and `SlotShift`: no two of
`Capacity` consecutive positions share a cell, across the wrap of the counter as
well, which needs `Modulus % Capacity = 0`; 2^64 and the power-of-two sizes of the
code satisfy it, and `try_enqueue` depends on it.

*`ObjectHandoffProofs`.* `EverySlotHasOneOwner` (`OneOwner`), `OnePopperNeverCorrupts`
(`SinglePopperSafe`), `UsesQueue` (what the producer and the consumer do to the queue
are steps of `SpscQueue`, so its theorems hold there: `HandoffThroughFifo`). The
invariant `HInv` adds to the queue's that the pool's mutex admits one growing thread
(`Steps`), that the free list and the queue have no slot twice (`NoRepeats`) and that
each slot is in one of the places free list, cache, queue, hand (`Sorted`), all as
long as no compare-exchange has gone wrong. `OnePopper` says why one popper is safe:
a slot that it has read is still on the stack, and what lies below it is what it read,
since others only push above (`Current`).

*`ParkingLotProofs`.* `CountIsExact` (`CountExact`) and `WakeIsNotWasted`
(`WakeNotWasted`) from `LotInv`: the lock of the wait queue has one holder
(`Locking`), the nodes in the queue are live and each is that of a thread that waits
on it, unless it is just being woken (`NodesFit`, `Pointers`), and what an `unpark()`
has still to visit is in the queue (`Walks`). `NobodyIsForgotten` (`NoLostWakeup`)
adds that a `Mutex` is 1 while held by its one holder (`Mutexes`), that a walk has
every node ahead that it is to wake (`Sees`) and the wakes for them (`Budgets`), and
that the thread an `unlock()` is waking is where it will look at the word, or has it,
or wakes the next one (`Woken`). These take `~Reuse`, since all of it rests on a
waiter's pointer meaning its own node, which `lot_reuse` shows to fail otherwise.
`NobodyIsForgotten` also takes `WakesAll`: the callers of `wake()` pass a count no
less than the nodes there are and a mask with the waiters' bit, without which a futex
waiter may be left out on purpose; `MutexForgetsNobody` does without it for the
threads that lock. `MutualExclusion` of `Mutex` itself needs neither hypothesis: it
comes from the exchange on the word alone.

*`AsyncSchedulerProofs`.* `SchedulerTypes` (`TypeOK`) and `PauseLetsOneThrough`
(`PauseHolds`) from `SchedInv`, with any graph and any calls. A worker's stack ends
in the frame of `worker_loop_()`, with calls above it only where the loop makes them
(`Stacks`), and a worker that has taken a job since `pause()` is at none of the
points that lead to the next one: it comes past the test of `_pauseState` only when
its stop is requested, and leaves then (`PauseKept`). `PauseHolds` alone is not
inductive, as it does not say who may still look for work.
`NodesRunOnce` (`NodeOnce`) and `PredecessorsFirst` (`DepsFirst`) add `GraphInv`: a
node is in one queue, once, or claimed by one frame, or neither (`Claimed`);
`_numDeps` is the number of predecessors that have not returned and of workers that
have yet to decrement it for one that has (`Counted`); whatever is queued or claimed
is ready (`QueuesOK`, `FramesOK`), except in the list that `submit()` still has to go
through, whose nodes nobody has touched yet; a worker is in one `process_()`
(`OneProcess`), so that two decrements owed to one node are owed by two workers; and
before `submit()` no node is anywhere (`Before`). Of two predecessors that end at
once, one takes `_numDeps` to zero, and only that one enqueues the node. The
hypothesis `GraphRules` says that the lists of successors and predecessors are those
of one graph without repeated edges, that each node was added before its predecessors,
that the graph is submitted once, and that no node is passed to `schedule()`. The
order of `addNode()` matters because `submit()` tests `_numDeps` while workers lower
it: in the other order it finds a node at zero that a worker is enqueueing, and
`NodeOnce` fails (section 3). The graph of `sched_graph` satisfies `GraphRules`.
The other four are about sums over all queues and stacks. `SumFunction` of the
community modules is a recursive function over the subsets of its domain; `SumIs`
finds its value for any additive function of subsets, by an induction on the number of
elements, again over a set (`PartsInduction`), and `SumChange` says how it changes
with one summand. On these rest `TotalPut` (a stack's top frame is replaced),
`QueueChange` (a push or a pop) and `FramesCounted` (frames counted thread by thread
are all frames). Every frame is worth something to the counter: one at `e_count` is a
job pushed and not counted, one in `process_()` or at `e_spill` a job counted and in no
queue (`Worth`). `Gap` is `_remainingJobs` with those corrections, less what is queued.
Every step of every thread leaves it alone (`Steady` for those that also leave every
function in its place, `RunSame`, `BodyIs`, `BeginAdds` for the rest), but one: the
second count of a node that suspended raises it (`AgainMore`). So `Gap` is never
negative, which is `NothingLeftAtZero` (`ZeroIsIdle`), with no hypothesis at all; and it
stays zero while no node suspends, which is `JobsCounted` (`CountsJobs`). Its hypothesis,
`Suspends[n] = 0` for every node, is the condition under which the property holds, and
that of the run `sched_graph`; functions and coroutines may suspend as they like. A
notification may move a sleeping worker, but no frame that counts (`NotifiedSame`).
`FunctionsPlaced` follows the frames and queue entries of one function in the same way
(`Where`, `Share`): it is in one place from the start of its `enqueue()` to the return
of its body, with no hypothesis on graphs. `EnqueuedOnce`, that no two calls bring
the same job, only names the calls apart: for a coroutine it is a rule of the
language, as a suspended one may be resumed once. `JobsConserved` (`Conserved`) adds,
from `GraphInv` and its hypothesis, that no node is in two places.

*`CpuGraphExecutorProofs`.* Every safety property of the run `graph`, for any
declarations, any number of passes, resources and workers. The first part is about
the value of `compile()` for any graph that `addPass` can build (`Built`), without
states. What a loop computes is a recursive function, and the facts about it come by
`Induction` and `UpTo`, which take the *set* of the numbers with a property: the
library's induction theorems take an operator, which the provers cannot instantiate.
`Recursion` gives the function its defining equation; `Laid` and `Picks` say where the
elements of a flattened and of a filtered sequence come from. On these rest:
`RawEdgesAre`, which joins two passes exactly when they conflict and never backwards;
`SortIs`, by the loop invariant `Kahn` (the ready passes are those not yet sorted that
wait for nobody, and in-degrees count those still waited for), so that the sort gets
stuck on a self-edge alone, since of the passes left the first one declared waits for
none but itself; and `AssignLanesIs`, by the invariant `Placed` (each pass sorted so
far is on one lane, of its class). `CompileValid`, `CompileOrders`,
`CompilePriorities` and `CompileLanes` collect what they say of the answer, and
`CompileRefuses` (`CompileAnswers`), `PrioritiesHold` (`PriorityFirst`) and
`LanesAreEnough` (`LanesSuffice`) say it of every state.
The second part is about executions: `ConflictsOrdered` (`ConflictsInOrder`),
`EventLast` (`EventIsLast`) and `GraphTypes`, from `ExecInv`. Inline, the passes before
the loop's position have run and no other has (`Serial`). On the workers, unless the
root loop has overtaken a released pass (without that hypothesis both properties fail,
section 3): a pass is launched at most once, and once exactly when it has no
predecessor and the root loop has come by, or has one and its counter is zero
(`Launches`); the counter of a pass is the number of edges into it that are not
released yet, each of which a pass that has not returned or a job in its loop over
successors still holds (`Counted`); and `remaining` is the number of passes whose job
has not reached its end (`Ending`). An edge between conflicting passes therefore keeps
the later one from being launched until the earlier one has returned. The counts are
cardinalities of sets of edges, since two passes may share several.

The assumptions on the constants are `EventAssumption`, `RuntimeAssumption`,
`ResourceAssumption`, `QueueAssumption`, `PoolAssumption`, `HandoffAssumption`,
`LotAssumption`, `SchedulerAssumption` and `GraphAssumption`: the thread sets are
disjoint, declarations are passes, prerequisite sets, the users of the
resource manager, the threads of the parking lot, the scheduler's clients and its
functions are finite, the subsets are
subsets, the scripts and the graph's lists are sequences, an address is a mutex or a futex, sizes are positive and divide each other
as the code's do. TLC evaluates each of them in a passing run.

Every safety invariant that a passing run checks is proved. Only model-checked:
liveness, which needs fairness; and the action property `WaitDrains`, which does not
hold for every graph (`sched_wait_early`) and for the join of `sched_graph` depends on
which worker runs what. `NothingLeftAtZero` is the part of it that always holds.

## 5. Not modelled, and the plan

Left out of the modelled parts: the executor registry, reference counts, the
idle workers' bounded futex sleep, the order of callbacks within one event
(any order is allowed), duplicates in a prerequisite vector, the pool's
destructor and several pools on one thread cache, `size_approx()`, a full queue
with pooled dependents.

Not modelled at all, as `PROJECT.json` says component by component: `AsyncFlag`
(two threads access a plain handle, which has no defined outcome to model), the
C ABI and the native-queue executor (record validation and device callbacks in
front of the modelled runtime), the event of the older header, which nothing
includes, and the numerical, geometric, simulation and device code that makes up
most of the repository: it is data-parallel floating-point code or a wrapper of
device APIs, with no state machine of its own.

What is left is liveness, which the prover cannot treat, and a hypothesis on graphs,
weaker than having no two successors, under which `WaitDrains` could be proved.
