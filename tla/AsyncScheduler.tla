---------------------------- MODULE AsyncScheduler ----------------------------
(*******************************************************************************)
(* zs::AsyncScheduler (execution/AsyncScheduler.hpp), the work-stealing        *)
(* scheduler, and the TaskGraph that is run on it (ZpcTaskGraph.hpp).          *)
(*                                                                             *)
(* A thread has a stack of frames, innermost first: workers run worker_loop_   *)
(* at the bottom, clients the calls of their script, and both reach            *)
(* enqueue_ and wake_any_worker_ from several places.  An action is the        *)
(* next access to shared state of a thread's top frame.                        *)
(*                                                                             *)
(* Atomic::wait() is a test of the value, the snapshot of the condition        *)
(* variable's epoch, and a sleep that ends when the epoch has moved;           *)
(* notify_*() moves the epoch and takes no lock.  A notification therefore     *)
(* ends the sleep of a thread past its snapshot and is not noticed by one      *)
(* before it.  The mutex in Atomic is only taken by waiters, who only read.    *)
(*                                                                             *)
(* The queues are moodycamel queues, which keep no order between producers:    *)
(* bags of limited capacity.                                                   *)
(*******************************************************************************)
EXTENDS Integers, Sequences, FiniteSets, SequencesExt, Functions

CONSTANTS N,          \* number of workers
          Clients,
          Script,     \* the calls each client makes, in order
          Order,      \* the graph's nodes in the order of addNode()
          Fns,        \* functions and coroutines that are enqueued
          Succs,      \* the successors of each node, in list order
          Preds,      \* the predecessors of each node, in list order
          Suspends,   \* how often the body of each job suspends before it returns
          LocalCap,   \* capacity of a worker's queue
          GlobalCap,  \* capacity of the global queue
          NoJob

Workers == 1..N
Threads == Workers \cup Clients
Nodes   == ToSet(Order)
Jobs    == Nodes \cup Fns

Call == [op : {"enqueue"}, job : Fns, to : 0..N] \cup [op : {"schedule"}, job : Nodes]
        \cup [op : {"submit", "wait", "pause", "resume", "shutdown"}]

ASSUME SchedulerAssumption ==
    /\ N \in Nat \ {0}
    /\ IsFiniteSet(Clients) /\ Clients \cap Workers = {} /\ 0 \notin Clients
    /\ IsFiniteSet(Fns)
    /\ Nodes \cap Fns = {} /\ NoJob \notin Jobs
    /\ Order \in Seq(Nodes)
    /\ Script \in [Clients -> Seq(Call)]
    /\ Succs \in [Nodes -> Seq(Nodes)] /\ Preds \in [Nodes -> Seq(Nodes)]
    /\ Suspends \in [Jobs -> Nat]
    /\ LocalCap \in Nat \ {0} /\ GlobalCap \in Nat \ {0}

VARIABLES queue,      \* queue[0] is _globalQueue, queue[w] a worker's localQueue
          status,     \* Worker::status: 0 asleep, 1 looking for work, 2 woken
          pauseState, \* _pauseState
          steal,      \* _stealCounter, modulo N
          remaining,  \* _remainingJobs; a size_t below zero is not zero either
          stop,       \* workers whose stop was requested
          numDeps,    \* CoroTaskNode::_numDeps
          state,      \* CoroTaskNode::_state
          stack,
          at,         \* the next call of each client's script
          runs,       \* history: how often each job's body was entered
          finished,   \* history: jobs whose body has returned
          late        \* history: jobs each worker has taken since pause()

vars == <<queue, status, pauseState, steal, remaining, stop, numDeps, state, stack, at, runs,
          finished, late>>
graphVars == <<numDeps, state>>
history   == <<runs, finished, late>>

\* The program points of worker_loop_, process_, enqueue_, wake_any_worker_ and
\* of the clients' calls.
LoopOps    == {"top", "mark", "paused", "p_stop", "p_test", "p_snap", "p_asleep", "stopped",
               "local", "global", "steal", "scan", "cas", "test", "snap", "asleep", "gone"}
ProcessOps == {"run", "body", "succ", "again", "finish"}
EnqueueOps == {"e_hint", "e_local", "e_full", "e_spill", "e_global", "e_count", "e_store", "e_notify"}
WakeOps    == {"wake", "w_notify"}
ClientOps  == {"s_next", "schedule", "s_load", "wait", "pause", "resume", "r_notify", "unpause",
               "u_notify", "request_stop", "stop_store", "stop_notify", "join"}

Frames == [op : LoopOps \cup ProcessOps \cup EnqueueOps \cup WakeOps \cup ClientOps,
           job : Jobs \cup {NoJob}, to : 0..N, todo : Seq(Nodes), pos : 1..(N + 1)]

TypeOK ==
    /\ queue \in [0..N -> [Jobs -> Nat]]
    /\ status \in [Workers -> 0..2] /\ pauseState \in 0..1
    /\ steal \in 0..(N - 1) /\ remaining \in Int
    /\ stop \subseteq Workers
    /\ numDeps \in [Nodes -> Int]
    /\ state \in [Nodes -> {"idle", "planned", "running", "done"}]
    /\ stack \in [Threads -> Seq(Frames)]
    /\ at \in [Clients -> Nat]
    /\ runs \in [Jobs -> Nat] /\ finished \subseteq Jobs
    /\ late \in [Workers -> Nat]

Frame(op)       == [op |-> op, job |-> NoJob, to |-> 0, todo |-> <<>>, pos |-> 1]
JobFrame(op, j) == [Frame(op) EXCEPT !.job = j]

\* The constructor starts the workers; addEdge() has counted the dependencies.
Init ==
    /\ queue = [q \in 0..N |-> [j \in Jobs |-> 0]]
    /\ status = [w \in Workers |-> 2] /\ pauseState = 0 /\ steal = 0
    /\ remaining = 0 /\ stop = {}
    /\ numDeps = [n \in Nodes |-> Len(Preds[n])]
    /\ state = [n \in Nodes |-> "idle"]
    /\ stack = [t \in Threads |-> IF t \in Workers THEN <<Frame("top")>> ELSE <<>>]
    /\ at = [c \in Clients |-> 1]
    /\ runs = [j \in Jobs |-> 0] /\ finished = {}
    /\ late = [w \in Workers |-> 0]

-----------------------------------------------------------------------------
(* Stacks, sleep and queues.                                                *)

At(t, op) == stack[t] # <<>> /\ Head(stack[t]).op = op
Top(t)    == Head(stack[t])

\* The stacks after t's top frame has become fs.
Replaced(t, fs) == [stack EXCEPT ![t] = fs \o Tail(@)]
Become(t, fs)   == stack' = Replaced(t, fs)
Goto(t, op)     == Become(t, <<[Top(t) EXCEPT !.op = op]>>)

\* notify_one() or notify_all(): the threads of S asleep at one program point
\* go back to test the value they wait for.
Notified(stacks, S, asleep, test) ==
    [t \in Threads |->
        IF t \in S /\ stacks[t] # <<>> /\ Head(stacks[t]).op = asleep
        THEN <<Frame(test)>> ELSE stacks[t]]

\* t notifies the worker asleep on its status word and goes on with fs.
NotifyWorker(t, w, fs) == stack' = Notified(Replaced(t, fs), {w}, "asleep", "test")
NotifyPaused(t, fs)    == stack' = Notified(Replaced(t, fs), Workers, "p_asleep", "p_test")

Size(q)     == SumFunction(queue[q])
Empty(q)    == \A j \in Jobs : queue[q][j] = 0
Push(q, j)  == queue' = [queue EXCEPT ![q][j] = @ + 1]
Pop(q, j)   == queue[q][j] > 0 /\ queue' = [queue EXCEPT ![q][j] = @ - 1]

\* enqueue() of j for worker to; 0 is no hint, or one out of range.
EnqueueFrame(j, to) == [JobFrame(IF to = 0 THEN "e_global" ELSE "e_hint", j) EXCEPT !.to = to]

-----------------------------------------------------------------------------
(* worker_loop_().                                                          *)

shared == <<queue, status, pauseState, steal, remaining, stop>>

LoopTop(w) ==
    /\ At(w, "top")
    /\ Goto(w, IF w \in stop THEN "gone" ELSE "mark")
    /\ UNCHANGED <<shared, graphVars, at, history>>

LoopMark(w) ==
    /\ At(w, "mark")
    /\ status' = [status EXCEPT ![w] = 1]
    /\ Goto(w, "paused")
    /\ UNCHANGED <<queue, pauseState, steal, remaining, stop, graphVars, at, history>>

\* Mutant: the pause is not looked at.
LoopPaused_Unasked(w) ==
    /\ At(w, "paused") /\ Goto(w, "stopped")
    /\ UNCHANGED <<shared, graphVars, at, history>>

\* while (_pauseState.load() != 0 && !self.stop_requested()) _pauseState.wait(1)
LoopPaused(w) ==
    /\ \/ At(w, "paused") /\ Goto(w, IF pauseState # 0 THEN "p_stop" ELSE "stopped")
       \/ At(w, "p_stop") /\ Goto(w, IF w \in stop THEN "stopped" ELSE "p_test")
       \/ At(w, "p_test") /\ Goto(w, IF pauseState # 1 THEN "paused" ELSE "p_snap")
       \/ At(w, "p_snap") /\ Goto(w, "p_asleep")
    /\ UNCHANGED <<shared, graphVars, at, history>>

LoopStopped(w) ==
    /\ At(w, "stopped")
    /\ Goto(w, IF w \in stop THEN "gone" ELSE "local")
    /\ UNCHANGED <<shared, graphVars, at, history>>

\* Take a job out of q and process it; afterwards the loop starts over.
Take(w, q) ==
    /\ \E j \in Jobs : Pop(q, j) /\ Become(w, <<JobFrame("run", j), Frame("top")>>)
    /\ late' = [late EXCEPT ![w] = @ + pauseState]
    /\ UNCHANGED <<steal, runs, finished>>

LoopLocal(w) ==
    /\ At(w, "local")
    /\ \/ Take(w, w)
       \/ Empty(w) /\ Goto(w, "global") /\ UNCHANGED <<queue, steal, history>>
    /\ UNCHANGED <<status, pauseState, remaining, stop, graphVars, at>>

LoopGlobal(w) ==
    /\ At(w, "global")
    /\ \/ Take(w, 0)
       \/ Empty(0) /\ Goto(w, IF N > 1 THEN "steal" ELSE "cas") /\ UNCHANGED <<queue, steal, history>>
    /\ UNCHANGED <<status, pauseState, remaining, stop, graphVars, at>>

Bump == steal' = (steal + 1) % N

\* try_steal_(): a counter says where to start, .to is that worker (less one) and
\* .pos the offset (plus one).
LoopSteal(w) ==
    /\ At(w, "steal")
    /\ Bump
    /\ Become(w, <<[Frame("scan") EXCEPT !.to = steal]>>)
    /\ UNCHANGED <<queue, status, pauseState, remaining, stop, graphVars, at, history>>

LoopScan(w) ==
    /\ At(w, "scan")
    /\ LET f == Top(w)
           victim == ((f.to + f.pos - 1) % N) + 1
       IN \/ /\ f.pos <= N /\ victim # w
             /\ Take(w, victim)
          \/ /\ f.pos <= N /\ (victim = w \/ Empty(victim))
             /\ Become(w, <<[f EXCEPT !.pos = @ + 1]>>)
             /\ UNCHANGED <<queue, steal, history>>
          \/ /\ f.pos > N
             /\ Become(w, <<Frame("cas")>>)
             /\ UNCHANGED <<queue, steal, history>>
    /\ UNCHANGED <<status, pauseState, remaining, stop, graphVars, at>>

\* Announce the sleep, unless somebody has stored 2 meanwhile.
LoopCas(w) ==
    /\ At(w, "cas")
    /\ \/ status[w] = 1 /\ status' = [status EXCEPT ![w] = 0] /\ Goto(w, "test")
       \/ status[w] # 1 /\ Goto(w, "top") /\ UNCHANGED status
    /\ UNCHANGED <<queue, pauseState, steal, remaining, stop, graphVars, at, history>>

\* worker.status.wait(0)
LoopWait(w) ==
    /\ \/ At(w, "test") /\ Goto(w, IF status[w] # 0 THEN "top" ELSE "snap")
       \/ At(w, "snap") /\ Goto(w, "asleep")
    /\ UNCHANGED <<shared, graphVars, at, history>>

worker_loop_(w) ==
    \/ LoopTop(w)    \/ LoopMark(w)  \/ LoopPaused(w) \/ LoopStopped(w) \/ LoopLocal(w)
    \/ LoopGlobal(w) \/ LoopSteal(w) \/ LoopScan(w)   \/ LoopCas(w)     \/ LoopWait(w)

-----------------------------------------------------------------------------
(* process_().                                                              *)

Run(w) ==
    /\ At(w, "run")
    /\ LET j == Top(w).job IN
       /\ runs' = [runs EXCEPT ![j] = @ + 1]
       /\ state' = IF j \in Nodes THEN [state EXCEPT ![j] = "running"] ELSE state
    /\ Goto(w, "body")
    /\ UNCHANGED <<shared, numDeps, at, finished, late>>

\* The body suspends or returns.  A node that suspended goes to the worker's own
\* queue; a coroutine suspends in co_await schedule(), which enqueues it.
Body(w) ==
    /\ At(w, "body")
    /\ LET j == Top(w).job IN
       \/ /\ runs[j] <= Suspends[j]
          /\ Become(w, IF j \in Nodes THEN <<EnqueueFrame(j, w), Frame("again")>>
                       ELSE <<EnqueueFrame(j, 0), Frame("finish")>>)
          /\ UNCHANGED <<state, finished>>
       \/ /\ runs[j] > Suspends[j]
          /\ finished' = finished \cup {j}
          /\ state' = IF j \in Nodes THEN [state EXCEPT ![j] = "done"] ELSE state
          /\ Become(w, <<IF j \in Nodes THEN [Frame("succ") EXCEPT !.todo = Succs[j]]
                         ELSE Frame("finish")>>)
    /\ UNCHANGED <<shared, numDeps, at, runs, late>>

\* Mutant: off by one, the last dependency but one decides.
Successor_OffByOne(w) ==
    /\ At(w, "succ")
    /\ LET f == Top(w)
           rest == [f EXCEPT !.todo = Tail(@)]
       IN \/ f.todo = <<>> /\ Goto(w, "finish") /\ UNCHANGED numDeps
          \/ /\ f.todo # <<>>
             /\ LET n == Head(f.todo) IN
                /\ numDeps' = [numDeps EXCEPT ![n] = @ - 1]
                /\ Become(w, IF numDeps[n] = 2 THEN <<EnqueueFrame(n, 0), rest>> ELSE <<rest>>)
    /\ UNCHANGED <<shared, state, at, history>>

\* Mutant: the job is counted as done before its successor is enqueued.
Successor_FinishFirst(w) ==
    /\ At(w, "succ")
    /\ LET f == Top(w) IN
       \/ f.todo = <<>> /\ Goto(w, "finish") /\ UNCHANGED numDeps
       \/ /\ f.todo # <<>>
          /\ LET n == Head(f.todo) IN
             /\ numDeps' = [numDeps EXCEPT ![n] = @ - 1]
             /\ Become(w, IF numDeps[n] = 1 THEN <<Frame("finish"), EnqueueFrame(n, 0)>>
                          ELSE <<Frame("finish")>>)
    /\ UNCHANGED <<shared, state, at, history>>

\* Whoever takes a successor's last dependency enqueues it.
Successor(w) ==
    /\ At(w, "succ")
    /\ LET f == Top(w)
           rest == [f EXCEPT !.todo = Tail(@)]
       IN \/ f.todo = <<>> /\ Goto(w, "finish") /\ UNCHANGED numDeps
          \/ /\ f.todo # <<>>
             /\ LET n == Head(f.todo) IN
                /\ numDeps' = [numDeps EXCEPT ![n] = @ - 1]
                /\ Become(w, IF numDeps[n] = 1 THEN <<EnqueueFrame(n, 0), rest>> ELSE <<rest>>)
    /\ UNCHANGED <<shared, state, at, history>>

\* A suspended node is counted once more than enqueue_() has counted it.
Again(w) ==
    /\ At(w, "again")
    /\ remaining' = remaining + 1
    /\ Goto(w, "finish")
    /\ UNCHANGED <<queue, status, pauseState, steal, stop, graphVars, at, history>>

Finish(w) ==
    /\ At(w, "finish")
    /\ remaining' = remaining - 1
    /\ Become(w, <<>>)
    /\ UNCHANGED <<queue, status, pauseState, steal, stop, graphVars, at, history>>

process_(w) == Run(w) \/ Body(w) \/ Successor(w) \/ Again(w) \/ Finish(w)

-----------------------------------------------------------------------------
(* enqueue_() and wake_any_worker_().                                       *)

\* A hint is followed by the worker itself and for a worker that sleeps.
EnqueueHint(t) ==
    /\ At(t, "e_hint")
    /\ IF t = Top(t).to \/ status[Top(t).to] = 0 THEN Goto(t, "e_local")
       ELSE Become(t, <<EnqueueFrame(Top(t).job, 0)>>)
    /\ UNCHANGED <<shared, graphVars, at, history>>

PushLocal(t) ==
    /\ At(t, "e_local")
    /\ LET f == Top(t) IN
       \/ Size(f.to) < LocalCap  /\ Push(f.to, f.job) /\ Goto(t, "e_count")
       \/ Size(f.to) >= LocalCap /\ Goto(t, "e_full") /\ UNCHANGED queue
    /\ UNCHANGED <<status, pauseState, steal, remaining, stop, graphVars, at, history>>

\* Mutant: the displaced job is dropped.
Displace_Dropped(t) ==
    /\ At(t, "e_full")
    /\ LET f == Top(t)
           retry == [f EXCEPT !.op = "e_local"]
       IN \/ \E j \in Jobs : Pop(f.to, j) /\ Become(t, <<retry>>)
          \/ Empty(f.to) /\ Become(t, <<retry>>) /\ UNCHANGED queue
    /\ UNCHANGED <<status, pauseState, steal, remaining, stop, graphVars, at, history>>

\* Make room: a job of the full queue is to go to the global one.
Displace(t) ==
    /\ At(t, "e_full")
    /\ LET f == Top(t)
           retry == [f EXCEPT !.op = "e_local"]
       IN \/ \E j \in Jobs : Pop(f.to, j) /\ Become(t, <<JobFrame("e_spill", j), retry>>)
          \/ Empty(f.to) /\ Become(t, <<retry>>) /\ UNCHANGED queue
    /\ UNCHANGED <<status, pauseState, steal, remaining, stop, graphVars, at, history>>

\* These two spin while the global queue is full.
Spill(t) ==
    /\ At(t, "e_spill")
    /\ Size(0) < GlobalCap
    /\ Push(0, Top(t).job)
    /\ Become(t, <<Frame("wake")>>)
    /\ UNCHANGED <<status, pauseState, steal, remaining, stop, graphVars, at, history>>

PushGlobal(t) ==
    /\ At(t, "e_global")
    /\ Size(0) < GlobalCap
    /\ Push(0, Top(t).job)
    /\ Goto(t, "e_count")
    /\ UNCHANGED <<status, pauseState, steal, remaining, stop, graphVars, at, history>>

\* Mutant: a job in a worker's own queue is not counted.
Count_GlobalOnly(t) ==
    /\ At(t, "e_count")
    /\ remaining' = IF Top(t).to = 0 THEN remaining + 1 ELSE remaining
    /\ IF Top(t).to = 0 THEN Become(t, <<Frame("wake")>>) ELSE Goto(t, "e_store")
    /\ UNCHANGED <<queue, status, pauseState, steal, stop, graphVars, at, history>>

\* The job is counted when others can already have run it.
Count(t) ==
    /\ At(t, "e_count")
    /\ remaining' = remaining + 1
    /\ IF Top(t).to = 0 THEN Become(t, <<Frame("wake")>>) ELSE Goto(t, "e_store")
    /\ UNCHANGED <<queue, status, pauseState, steal, stop, graphVars, at, history>>

\* wake_worker_(): store, then notify.
WakeStore(t) ==
    /\ At(t, "e_store")
    /\ status' = [status EXCEPT ![Top(t).to] = 2]
    /\ Goto(t, "e_notify")
    /\ UNCHANGED <<queue, pauseState, steal, remaining, stop, graphVars, at, history>>

WakeNotify(t) ==
    /\ At(t, "e_notify")
    /\ NotifyWorker(t, Top(t).to, IF N > 1 THEN <<Frame("wake")>> ELSE <<>>)
    /\ UNCHANGED <<shared, graphVars, at, history>>

enqueue_(t) ==
    \/ EnqueueHint(t) \/ PushLocal(t) \/ Displace(t)  \/ Spill(t) \/ PushGlobal(t)
    \/ Count(t)       \/ WakeStore(t) \/ WakeNotify(t)

\* Mutant: only workers that announced their sleep are notified.
WakeScan_Sleepers(t) ==
    /\ At(t, "wake")
    /\ LET i == Top(t).pos IN
       \/ /\ i <= N /\ status[i] = 0
          /\ status' = [status EXCEPT ![i] = 2]
          /\ Become(t, <<[Frame("w_notify") EXCEPT !.to = i]>>)
       \/ /\ i <= N /\ status[i] # 0
          /\ Become(t, <<[Top(t) EXCEPT !.pos = i + 1]>>)
          /\ UNCHANGED status
       \/ i > N /\ Become(t, <<>>) /\ UNCHANGED status
    /\ UNCHANGED <<queue, pauseState, steal, remaining, stop, graphVars, at, history>>

\* The first worker that announced its sleep, or the next one in turn.
WakeScan(t) ==
    /\ At(t, "wake")
    /\ LET i == Top(t).pos IN
       \/ /\ i <= N /\ status[i] = 0
          /\ status' = [status EXCEPT ![i] = 2]
          /\ Become(t, <<[Frame("w_notify") EXCEPT !.to = i]>>)
          /\ UNCHANGED steal
       \/ /\ i <= N /\ status[i] # 0
          /\ Become(t, <<[Top(t) EXCEPT !.pos = i + 1]>>)
          /\ UNCHANGED <<status, steal>>
       \/ /\ i > N
          /\ Bump
          /\ Become(t, <<[Frame("w_notify") EXCEPT !.to = steal + 1]>>)
          /\ UNCHANGED status
    /\ UNCHANGED <<queue, pauseState, remaining, stop, graphVars, at, history>>

WakeOne(t) ==
    /\ At(t, "w_notify")
    /\ NotifyWorker(t, Top(t).to, <<>>)
    /\ UNCHANGED <<shared, graphVars, at, history>>

wake_any_worker_(t) == WakeScan(t) \/ WakeOne(t)

-----------------------------------------------------------------------------
(* The clients' calls.                                                      *)

\* Mutant: submit() visits the nodes in the opposite order.
CallFrame_Reversed(call) ==
    CASE call.op = "enqueue" -> EnqueueFrame(call.job, call.to)
      [] call.op = "submit"  -> [Frame("s_next") EXCEPT !.todo = Reverse(Order)]
      [] OTHER               -> Frame(call.op)

\* The first program point of each call.
CallFrame(call) ==
    CASE call.op = "enqueue"  -> EnqueueFrame(call.job, call.to)
      [] call.op = "schedule" -> JobFrame("schedule", call.job)
      [] call.op = "submit"   -> [Frame("s_next") EXCEPT !.todo = Order]
      [] call.op = "shutdown" -> Frame("unpause")
      [] OTHER                -> Frame(call.op)

\* The next call of c's script.  submit() first makes every node idle.
Begin(c) ==
    /\ stack[c] = <<>> /\ at[c] <= Len(Script[c])
    /\ LET call == Script[c][at[c]] IN
       /\ stack' = [stack EXCEPT ![c] = <<CallFrame(call)>>]
       /\ state' = IF call.op = "submit" THEN [n \in Nodes |-> "idle"] ELSE state
    /\ at' = [at EXCEPT ![c] = @ + 1]
    /\ UNCHANGED <<shared, numDeps, history>>

\* TaskGraph::submit() schedules the nodes it finds without dependencies.
SubmitNext(c) ==
    /\ At(c, "s_next")
    /\ LET f == Top(c)
           rest == [f EXCEPT !.todo = Tail(@)]
       IN Become(c, IF f.todo = <<>> THEN <<>>
                    ELSE IF numDeps[Head(f.todo)] = 0
                    THEN <<JobFrame("schedule", Head(f.todo)), rest>> ELSE <<rest>>)
    /\ UNCHANGED <<shared, graphVars, at, history>>

\* schedule(node) claims an idle node,
Schedule(c) ==
    /\ At(c, "schedule")
    /\ LET n == Top(c).job IN
       \/ state[n] = "idle" /\ state' = [state EXCEPT ![n] = "planned"] /\ Goto(c, "s_load")
       \/ state[n] # "idle" /\ Become(c, <<>>) /\ UNCHANGED state
    /\ UNCHANGED <<shared, numDeps, at, history>>

\* and enqueues it, or schedules its predecessors instead.
ScheduleLoad(c) ==
    /\ At(c, "s_load")
    /\ LET n == Top(c).job IN
       Become(c, IF numDeps[n] = 0 THEN <<EnqueueFrame(n, 0)>>
                 ELSE [i \in DOMAIN Preds[n] |-> JobFrame("schedule", Preds[n][i])])
    /\ UNCHANGED <<shared, graphVars, at, history>>

\* wait() wakes workers until no job remains.
Wait(c) ==
    /\ At(c, "wait")
    /\ Become(c, IF remaining = 0 THEN <<>> ELSE <<Frame("wake"), Top(c)>>)
    /\ UNCHANGED <<shared, graphVars, at, history>>

Pause(c) ==
    /\ At(c, "pause")
    /\ pauseState' = 1
    /\ late' = IF pauseState = 0 THEN [w \in Workers |-> 0] ELSE late
    /\ Become(c, <<>>)
    /\ UNCHANGED <<queue, status, steal, remaining, stop, graphVars, at, runs, finished>>

Resume(c) ==
    /\ \/ /\ At(c, "resume")
          /\ pauseState' = 0
          /\ IF pauseState # 0 THEN Goto(c, "r_notify") ELSE Become(c, <<>>)
       \/ /\ At(c, "r_notify")
          /\ NotifyPaused(c, <<Frame("wake")>>)
          /\ UNCHANGED pauseState
    /\ UNCHANGED <<queue, status, steal, remaining, stop, graphVars, at, history>>

\* The next worker of a loop of shutdown(), or the loop that follows.
Advance(c, loop, next) ==
    Become(c, IF Top(c).pos < N THEN <<[Top(c) EXCEPT !.op = loop, !.pos = @ + 1]>> ELSE next)

\* shutdown(): end the pause, request every stop, wake every worker, join.
ShutdownResume(c) ==
    /\ \/ At(c, "unpause") /\ pauseState' = 0 /\ Goto(c, "u_notify")
       \/ At(c, "u_notify") /\ NotifyPaused(c, <<Frame("request_stop")>>) /\ UNCHANGED pauseState
    /\ UNCHANGED <<queue, status, steal, remaining, stop, graphVars, at, history>>

ShutdownStop(c) ==
    /\ At(c, "request_stop")
    /\ stop' = stop \cup {Top(c).pos}
    /\ Advance(c, "request_stop", <<Frame("stop_store")>>)
    /\ UNCHANGED <<queue, status, pauseState, steal, remaining, graphVars, at, history>>

ShutdownWake(c) ==
    /\ \/ /\ At(c, "stop_store")
          /\ status' = [status EXCEPT ![Top(c).pos] = 2]
          /\ Goto(c, "stop_notify")
       \/ /\ At(c, "stop_notify")
          /\ NotifyWorker(c, Top(c).pos,
                IF Top(c).pos < N THEN <<[Top(c) EXCEPT !.op = "stop_store", !.pos = @ + 1]>>
                ELSE <<Frame("join")>>)
          /\ UNCHANGED status
    /\ UNCHANGED <<queue, pauseState, steal, remaining, stop, graphVars, at, history>>

ShutdownJoin(c) ==
    /\ At(c, "join")
    /\ At(Top(c).pos, "gone")
    /\ Advance(c, "join", <<>>)
    /\ UNCHANGED <<shared, graphVars, at, history>>

shutdown(c) == ShutdownResume(c) \/ ShutdownStop(c) \/ ShutdownWake(c) \/ ShutdownJoin(c)

ClientStep(c) ==
    \/ Begin(c) \/ SubmitNext(c) \/ Schedule(c) \/ ScheduleLoad(c) \/ Wait(c)
    \/ Pause(c) \/ Resume(c)     \/ shutdown(c)

WorkerStep(w) == worker_loop_(w) \/ process_(w)
AnyStep(t)    == enqueue_(t) \/ wake_any_worker_(t)

Next ==
    \/ \E c \in Clients : ClientStep(c)
    \/ \E w \in Workers : WorkerStep(w)
    \/ \E t \in Threads : AnyStep(t)

Spec == Init /\ [][Next]_vars

\* Workers run, and so do clients, who make the calls of their scripts.  Nothing
\* is assumed of the spinning loops beyond that the operating system schedules
\* the thread.
Fairness ==
    /\ \A w \in Workers : WF_vars(WorkerStep(w) \/ AnyStep(w))
    /\ \A c \in Clients : WF_vars(ClientStep(c) \/ AnyStep(c))

FairSpec == Spec /\ Fairness

-----------------------------------------------------------------------------
(* Properties.                                                              *)

\* How often job j is somewhere on its way to a body: in a queue, about to be
\* pushed, displaced, or taken by a worker.
HoldOps == {"run", "body", "e_hint", "e_local", "e_full", "e_spill", "e_global"}
Held(t, j) == Cardinality({i \in DOMAIN stack[t] : stack[t][i].op \in HoldOps /\ stack[t][i].job = j})
Places(j)  == SumFunction([q \in 0..N |-> queue[q][j]]) + SumFunction([t \in Threads |-> Held(t, j)])

\* A client has called enqueue() with j.
Asked(j) == \E c \in Clients : \E k \in 1..(at[c] - 1) :
                Script[c][k].op = "enqueue" /\ Script[c][k].job = j

\* A job that was enqueued is in exactly one place until its body has returned,
\* and in none afterwards: displacing and stealing neither lose nor copy one.
Conserved ==
    /\ \A j \in Fns : Places(j) = IF Asked(j) /\ j \notin finished THEN 1 ELSE 0
    /\ \A n \in Nodes : Places(n) <= 1

\* The frames of all threads at the given program points.
FramesAt(ops) == UNION {{<<t, i>> : i \in {i \in DOMAIN stack[t] : stack[t][i].op \in ops}} : t \in Threads}

\* _remainingJobs is what is queued, displaced or processed, less what has been
\* pushed and not yet counted.  Zero says that all work is done only while
\* nobody is between the push and the count.
CountsJobs ==
    remaining + Cardinality(FramesAt({"e_count"}))
      = SumFunction([q \in 0..N |-> Size(q)]) + Cardinality(FramesAt(ProcessOps \cup {"e_spill"}))

\* What wait() relies on: when _remainingJobs is zero and nobody is between a push
\* and its count, no job is queued, displaced or processed.  A node that suspended
\* is counted twice, which delays zero and never hastens it.
ZeroIsIdle ==
    remaining = 0 /\ FramesAt({"e_count"}) = {}
      => (\A q \in 0..N : Empty(q)) /\ FramesAt(ProcessOps \cup {"e_spill"}) = {}

\* No node's body is entered more often than it suspends, plus once.
NodeOnce == \A n \in Nodes : runs[n] <= Suspends[n] + 1

\* A node's body is entered only after those of its predecessors have returned.
DepsFirst == \A n \in Nodes : runs[n] > 0 => ToSet(Preds[n]) \subseteq finished

\* After pause() a worker takes at most the one job it was about to look for.
PauseHolds == \A w \in Workers : late[w] <= 1

\* What c has enqueued, or submitted with a graph, by calls that have returned.
Promised(c) == UNION {CASE Script[c][k].op = "enqueue" -> {Script[c][k].job}
                        [] Script[c][k].op = "submit" -> Nodes
                        [] OTHER -> {} : k \in 1..(at[c] - 1)}

\* wait() returns only when all the work of its caller is done.
WaitDrains ==
    [][\A c \in Clients : At(c, "wait") /\ stack'[c] = <<>> => Promised(c) \subseteq finished]_vars

\* wait() returns: no wakeup that is lost leaves every worker asleep, and the
\* counter it waits for comes back to zero.  A node that suspends is counted
\* twice when it is enqueued again, and wait() stays (process_()).
DrainReturns == \A c \in Clients : At(c, "wait") ~> stack[c] = <<>>

=============================================================================
