----------------------------- MODULE AsyncRuntime -----------------------------
(***************************************************************************)
(* zs::AsyncRuntime of execution/AsyncRuntime.hpp with its two executors:  *)
(* submission with prerequisites, dispatch, inline and thread-pool         *)
(* execution, suspension and resume, cancellation, shutdown of the pool.   *)
(*                                                                         *)
(* Callbacks run synchronously on the thread that finishes an event, and   *)
(* an inline submission runs inside the call that dispatches it, so each   *)
(* thread has a call stack: a sequence of frames, the innermost first.  A  *)
(* frame is a program point of one operation and what it still has to do;  *)
(* one action executes the top frame's next atomic access.                 *)
(*                                                                         *)
(* An event is used through on_complete(), complete() and status() only,   *)
(* each atomic: module AsyncEvent justifies that for events nobody blocks  *)
(* on.  The concurrent queue is external and appears as a bag with a       *)
(* capacity (it is FIFO per producer only).  A worker's bounded sleep is   *)
(* left out: it waits at most 10 ms for a signal and then looks at the     *)
(* queue again.  A submission is one call of submit(), its executor found. *)
(***************************************************************************)
EXTENDS Integers, Sequences, FiniteSets

CONSTANTS Subs,           \* the submissions
          Externals,      \* events made with AsyncEvent::create() and completed by clients
          Prereqs,        \* the prerequisite events of each submission
          Inline,         \* the submissions for the inline executor; the others are pooled
          StopOnFailure,  \* those with stopOnPrerequisiteFailure
          Clients,        \* threads that call the runtime
          Workers,        \* the pool's threads
          Capacity,       \* how many work items the pool's queue holds
          Resumable,      \* submissions a client may resume()
          Cancellable,    \* submissions a client may cancel
          MayShutdown,    \* whether a client may shut the pool down
          MaxRuns,        \* bound: a step suspends only on its first MaxRuns - 1 runs
          MaxResumes      \* bound: calls of resume() by clients, per submission

Events  == Subs \cup Externals
Threads == Clients \cup Workers

ASSUME RuntimeAssumption ==
    /\ Subs # {}
    /\ Subs \cap Externals = {}
    /\ Prereqs \in [Subs -> SUBSET Events]
    /\ \A s \in Subs : IsFiniteSet(Prereqs[s])
    /\ Inline \subseteq Subs
    /\ StopOnFailure \subseteq Subs
    /\ Resumable \subseteq Subs
    /\ Cancellable \subseteq Subs
    /\ Clients \cap Workers = {}
    /\ Capacity \in Nat \ {0}
    /\ MayShutdown \in BOOLEAN
    /\ MaxRuns \in Nat \ {0}
    /\ MaxResumes \in Nat

VARIABLES status,     \* each event's status
          callbacks,  \* each event's registered dependents
          inFlight,   \* AsyncSubmissionState::inFlight
          stop,       \* stop or interrupt requested through the submission's token
          dep,        \* the DependencyState of each submission
          queue,      \* how often each submission is in the pool's queue
          accepting,  \* AsyncThreadPoolExecutor::_running
          stopping,   \* AsyncThreadPoolExecutor::_stop
          exited,     \* workers that have left worker_loop
          stack,      \* each thread's call stack, innermost frame first
          submitted,  \* submissions whose submit() was called
          handles,    \* submissions whose submit() has returned the handle
          runs,       \* how often each step was run
          resumes     \* how often a client called resume(), per submission

eventVars == <<status, callbacks>>
poolVars  == <<queue, accepting, stopping, exited>>
callVars  == <<submitted, handles, runs, resumes>>
vars == <<eventVars, inFlight, stop, dep, poolVars, stack, callVars>>

Statuses == {"pending", "running", "suspended", "completed", "cancelled", "failed"}
Terminal == {"completed", "cancelled", "failed"}
is_terminal(st) == st \in Terminal

\* Program points of whoever executes a submission, from the dispatch that set
\* inFlight to the store that clears it.
ExecOps  == {"admit", "prescreen", "enqueue", "screen", "start", "step", "finish", "clear"}
SubOps   == {"register", "return", "record", "count", "dispatch",
             "resume", "cancel", "request_stop", "join"}
EventOps == {"mark", "notify"}

Frames ==
    [op : ExecOps \cup SubOps, s : Subs, p : Events, st : Statuses, todo : SUBSET Events]
    \cup
    [op : EventOps, s : Events, p : Events, st : Statuses, todo : SUBSET Subs]

\* Program point op about event s; p a prerequisite, st a status to publish,
\* todo the prerequisites to register with or the dependents to call back.
Frame(op, s) == [op |-> op, s |-> s, p |-> s, st |-> "pending", todo |-> {}]
WithStatus(op, s, status_) == [Frame(op, s) EXCEPT !.st = status_]
WithPrereq(op, s, p)       == [Frame(op, s) EXCEPT !.p = p]
WithTodo(op, s, todo)      == [Frame(op, s) EXCEPT !.todo = todo]

TypeOK ==
    /\ status \in [Events -> Statuses]
    /\ callbacks \in [Events -> SUBSET Subs]
    /\ inFlight \in [Subs -> BOOLEAN]
    /\ stop \in [Subs -> BOOLEAN]
    /\ dep \in [Subs -> [remaining : Int, failed : BOOLEAN, cancelled : BOOLEAN]]
    /\ queue \in [Subs -> Nat]
    /\ accepting \in BOOLEAN /\ stopping \in BOOLEAN
    /\ exited \subseteq Workers
    /\ stack \in [Threads -> Seq(Frames)]
    /\ submitted \subseteq Subs /\ handles \subseteq Subs
    /\ runs \in [Subs -> Nat]
    /\ resumes \in [Subs -> Nat]

Init ==
    /\ status = [e \in Events |-> "pending"]
    /\ callbacks = [e \in Events |-> {}]
    /\ inFlight = [s \in Subs |-> FALSE]
    /\ stop = [s \in Subs |-> FALSE]
    /\ dep = [s \in Subs |-> [remaining |-> 0, failed |-> FALSE, cancelled |-> FALSE]]
    /\ queue = [s \in Subs |-> 0]
    /\ accepting = TRUE /\ stopping = FALSE
    /\ exited = {}
    /\ stack = [t \in Threads |-> <<>>]
    /\ submitted = {} /\ handles = {}
    /\ runs = [s \in Subs |-> 0]
    /\ resumes = [s \in Subs |-> 0]

\* Thread t is at program point op of its top frame.
At(t, op) == stack[t] # <<>> /\ Head(stack[t]).op = op
Top(t) == Head(stack[t])

\* The top frame becomes the frames fs; with none, it returns.
Become(t, fs) == stack' = [stack EXCEPT ![t] = fs \o Tail(@)]

\* An idle thread calls into the runtime.
Call(t, fs) == stack[t] = <<>> /\ stack' = [stack EXCEPT ![t] = fs]

-----------------------------------------------------------------------------
(* submit(): the submission state, the dependency count, one callback per   *)
(* prerequisite.                                                            *)

\* A prerequisite that is a submission is named by its handle's event.
Submit(c, s) ==
    /\ s \notin submitted
    /\ Prereqs[s] \cap Subs \subseteq handles
    /\ submitted' = submitted \cup {s}
    /\ dep' = [dep EXCEPT ![s].remaining = Cardinality(Prereqs[s])]
    /\ Call(c, << IF Prereqs[s] = {} THEN Frame("dispatch", s)
                   ELSE WithTodo("register", s, Prereqs[s]), Frame("return", s) >>)
    /\ UNCHANGED <<eventVars, inFlight, stop, poolVars, handles, runs, resumes>>

\* Mutant: a prerequisite that has finished already is not called back.
Register_NoLateCall(t) ==
    /\ At(t, "register")
    /\ LET f == Top(t) IN
       \/ \E p \in f.todo :
             /\ Become(t, <<WithTodo("register", f.s, f.todo \ {p})>>)
             /\ callbacks' = [callbacks EXCEPT ![p] = IF is_terminal(status[p]) THEN @ ELSE @ \cup {f.s}]
       \/ f.todo = {} /\ Become(t, <<>>) /\ UNCHANGED callbacks
    /\ UNCHANGED <<status, inFlight, stop, dep, poolVars, callVars>>

\* on_complete() of the next prerequisite: run the callback now, or push it.
Register(t) ==
    /\ At(t, "register")
    /\ LET f == Top(t) IN
       \/ \E p \in f.todo :
             LET rest == WithTodo("register", f.s, f.todo \ {p}) IN
             \/ /\ is_terminal(status[p])
                /\ Become(t, <<WithPrereq("record", f.s, p), rest>>)
                /\ UNCHANGED callbacks
             \/ /\ ~is_terminal(status[p])
                /\ Become(t, <<rest>>)
                /\ callbacks' = [callbacks EXCEPT ![p] = @ \cup {f.s}]
       \/ f.todo = {} /\ Become(t, <<>>) /\ UNCHANGED callbacks
    /\ UNCHANGED <<status, inFlight, stop, dep, poolVars, callVars>>

\* submit() hands the handle to its caller.
SubmitReturn(t) ==
    /\ At(t, "return")
    /\ handles' = handles \cup {Top(t).s}
    /\ Become(t, <<>>)
    /\ UNCHANGED <<eventVars, inFlight, stop, dep, poolVars, submitted, runs, resumes>>

\* The callback notes how the prerequisite ended,
Record(t) ==
    /\ At(t, "record")
    /\ LET s == Top(t).s  p == Top(t).p IN
       /\ dep' = [dep EXCEPT
             ![s].failed    = @ \/ (s \in StopOnFailure /\ status[p] = "failed"),
             ![s].cancelled = @ \/ (s \in StopOnFailure /\ status[p] = "cancelled")]
       /\ Become(t, <<WithPrereq("count", s, p)>>)
    /\ UNCHANGED <<eventVars, inFlight, stop, poolVars, callVars>>

\* Mutant: the count is compared after the decrement, so the last but one decides.
Count_Early(t) ==
    /\ At(t, "count")
    /\ LET s == Top(t).s IN
       /\ dep' = [dep EXCEPT ![s].remaining = @ - 1]
       /\ Become(t, IF dep[s].remaining - 1 # 1 THEN <<>>
                    ELSE IF dep[s].failed    THEN <<WithStatus("mark", s, "failed")>>
                    ELSE IF dep[s].cancelled THEN <<WithStatus("mark", s, "cancelled")>>
                    ELSE <<Frame("dispatch", s)>>)
    /\ UNCHANGED <<eventVars, inFlight, stop, poolVars, callVars>>

\* and the last one decides what becomes of the submission.
Count(t) ==
    /\ At(t, "count")
    /\ LET s == Top(t).s IN
       /\ dep' = [dep EXCEPT ![s].remaining = @ - 1]
       /\ Become(t, IF dep[s].remaining # 1 THEN <<>>
                    ELSE IF dep[s].failed    THEN <<WithStatus("mark", s, "failed")>>
                    ELSE IF dep[s].cancelled THEN <<WithStatus("mark", s, "cancelled")>>
                    ELSE <<Frame("dispatch", s)>>)
    /\ UNCHANGED <<eventVars, inFlight, stop, poolVars, callVars>>

-----------------------------------------------------------------------------
(* Events: complete() and the callbacks it runs on this thread.             *)

\* Mutant: only a completed event runs its callbacks.
Complete_OnSuccess(t, e, st, rest) ==
    \/ is_terminal(status[e]) /\ Become(t, rest) /\ UNCHANGED eventVars
    \/ /\ ~is_terminal(status[e])
       /\ status' = [status EXCEPT ![e] = st]
       /\ \/ /\ st = "completed"
             /\ callbacks' = [callbacks EXCEPT ![e] = {}]
             /\ Become(t, <<WithTodo("notify", e, callbacks[e])>> \o rest)
          \/ st # "completed" /\ Become(t, rest) /\ UNCHANGED callbacks

\* transition(st) of event e, as AsyncEvent's TransitionCheck to TransitionSwap;
\* rest is what the caller does once the callbacks have run.
Complete(t, e, st, rest) ==
    \/ is_terminal(status[e]) /\ Become(t, rest) /\ UNCHANGED eventVars
    \/ /\ ~is_terminal(status[e])
       /\ status' = [status EXCEPT ![e] = st]
       /\ \/ /\ is_terminal(st)
             /\ callbacks' = [callbacks EXCEPT ![e] = {}]
             /\ Become(t, <<WithTodo("notify", e, callbacks[e])>> \o rest)
          \/ ~is_terminal(st) /\ Become(t, rest) /\ UNCHANGED callbacks

Notify(t) ==
    /\ At(t, "notify")
    /\ LET f == Top(t) IN
       \/ \E d \in f.todo :
             Become(t, <<WithPrereq("record", d, f.s), WithTodo("notify", f.s, f.todo \ {d})>>)
       \/ f.todo = {} /\ Become(t, <<>>)
    /\ UNCHANGED <<eventVars, inFlight, stop, dep, poolVars, callVars>>

\* mark_failed() or mark_cancelled() on behalf of a prerequisite.
Mark(t) ==
    /\ At(t, "mark")
    /\ Complete(t, Top(t).s, Top(t).st, <<>>)
    /\ UNCHANGED <<inFlight, stop, dep, poolVars, callVars>>

\* A client finishes an event of its own.
CompleteExternal(c, e) ==
    /\ ~is_terminal(status[e])
    /\ \E st \in Terminal : Call(c, <<WithStatus("mark", e, st)>>)
    /\ UNCHANGED <<eventVars, inFlight, stop, dep, poolVars, callVars>>

-----------------------------------------------------------------------------
(* dispatch() and the executors.                                            *)

\* Mutant: dispatch sets inFlight without looking at it.
Dispatch_Store(t) ==
    /\ At(t, "dispatch")
    /\ LET s == Top(t).s IN
       /\ inFlight' = [inFlight EXCEPT ![s] = TRUE]
       /\ Become(t, <<Frame(IF s \in Inline THEN "screen" ELSE "admit", s)>>)
    /\ UNCHANGED <<eventVars, stop, dep, poolVars, callVars>>

\* Whoever wins the compare-and-swap submits to the executor.
Dispatch(t) ==
    /\ At(t, "dispatch")
    /\ LET s == Top(t).s IN
       \/ inFlight[s] /\ Become(t, <<>>) /\ UNCHANGED inFlight
       \/ /\ ~inFlight[s]
          /\ inFlight' = [inFlight EXCEPT ![s] = TRUE]
          /\ Become(t, <<Frame(IF s \in Inline THEN "screen" ELSE "admit", s)>>)
    /\ UNCHANGED <<eventVars, stop, dep, poolVars, callVars>>

Finish(s, st) == <<WithStatus("finish", s, st)>>

\* AsyncThreadPoolExecutor::submit: refuse once shut down,
Admit(t) ==
    /\ At(t, "admit")
    /\ LET s == Top(t).s IN
       Become(t, IF accepting THEN <<Frame("prescreen", s)>> ELSE Finish(s, "failed"))
    /\ UNCHANGED <<eventVars, inFlight, stop, dep, poolVars, callVars>>

\* or cancelled already,
Prescreen(t) ==
    /\ At(t, "prescreen")
    /\ LET s == Top(t).s IN
       Become(t, IF stop[s] THEN Finish(s, "cancelled") ELSE <<Frame("enqueue", s)>>)
    /\ UNCHANGED <<eventVars, inFlight, stop, dep, poolVars, callVars>>

\* The queue has no room for another item.
Full == Capacity <= Cardinality({s \in Subs : queue[s] > 0})

\* and retry while the queue is full, unless the pool is shutting down.
Enqueue(t) ==
    /\ At(t, "enqueue")
    /\ LET s == Top(t).s IN
       \/ /\ ~Full
          /\ queue' = [queue EXCEPT ![s] = @ + 1]
          /\ Become(t, <<>>)
       \/ /\ Full
          /\ ~accepting \/ stopping
          /\ Become(t, Finish(s, "failed"))
          /\ UNCHANGED queue
    /\ UNCHANGED <<eventVars, inFlight, stop, dep, accepting, stopping, exited, callVars>>

\* A worker takes an item, whichever the queue yields.
Dequeue(w, s) ==
    /\ w \notin exited
    /\ queue[s] > 0
    /\ queue' = [queue EXCEPT ![s] = @ - 1]
    /\ Call(w, <<Frame("screen", s)>>)
    /\ UNCHANGED <<eventVars, inFlight, stop, dep, accepting, stopping, exited, callVars>>

\* Mutant: a worker returns on the stop request whatever is queued.
WorkerExit_Undrained(w) ==
    /\ w \notin exited
    /\ stack[w] = <<>>
    /\ stopping
    /\ exited' = exited \cup {w}
    /\ UNCHANGED <<eventVars, inFlight, stop, dep, queue, accepting, stopping, stack, callVars>>

\* worker_loop returns on an empty queue once a stop was requested.
WorkerExit(w) ==
    /\ w \notin exited
    /\ stack[w] = <<>>
    /\ stopping
    /\ \A s \in Subs : queue[s] = 0
    /\ exited' = exited \cup {w}
    /\ UNCHANGED <<eventVars, inFlight, stop, dep, queue, accepting, stopping, stack, callVars>>

\* A cancelled submission is not started.
Screen(t) ==
    /\ At(t, "screen")
    /\ LET s == Top(t).s IN
       Become(t, IF stop[s] THEN Finish(s, "cancelled") ELSE <<Frame("start", s)>>)
    /\ UNCHANGED <<eventVars, inFlight, stop, dep, poolVars, callVars>>

\* Mutant: the step is run without mark_running().
Start_Unmarked(t) ==
    /\ At(t, "start")
    /\ Become(t, <<Frame("step", Top(t).s)>>)
    /\ UNCHANGED <<eventVars, inFlight, stop, dep, poolVars, callVars>>

\* mark_running()
Start(t) ==
    /\ At(t, "start")
    /\ Complete(t, Top(t).s, "running", <<Frame("step", Top(t).s)>>)
    /\ UNCHANGED <<inFlight, stop, dep, poolVars, callVars>>

\* run_step: the step returns any poll status; throwing counts as failed.
Step(t) ==
    /\ At(t, "step")
    /\ LET s == Top(t).s IN
       /\ runs' = [runs EXCEPT ![s] = @ + 1]
       /\ \/ runs[s] + 1 < MaxRuns /\ Become(t, Finish(s, "suspended"))
          \/ \E st \in Terminal : Become(t, Finish(s, st))
    /\ UNCHANGED <<eventVars, inFlight, stop, dep, poolVars, submitted, handles, resumes>>

\* finalize_async_submission: complete() with its callbacks, then inFlight.
FinishStep(t) ==
    /\ At(t, "finish")
    /\ Complete(t, Top(t).s, Top(t).st, <<Frame("clear", Top(t).s)>>)
    /\ UNCHANGED <<inFlight, stop, dep, poolVars, callVars>>

Clear(t) ==
    /\ At(t, "clear")
    /\ inFlight' = [inFlight EXCEPT ![Top(t).s] = FALSE]
    /\ Become(t, <<>>)
    /\ UNCHANGED <<eventVars, stop, dep, poolVars, callVars>>

-----------------------------------------------------------------------------
(* resume(), cancellation and shutdown.                                     *)

ResumeCall(c, s) ==
    /\ s \in Resumable \cap handles
    /\ resumes[s] < MaxResumes
    /\ resumes' = [resumes EXCEPT ![s] = @ + 1]
    /\ Call(c, <<Frame("resume", s)>>)
    /\ UNCHANGED <<eventVars, inFlight, stop, dep, poolVars, submitted, handles, runs>>

\* resume() looks at the status and dispatches in a later step.
Resume(t) ==
    /\ At(t, "resume")
    /\ LET s == Top(t).s IN
       Become(t, IF status[s] \in {"suspended", "pending"} THEN <<Frame("dispatch", s)>> ELSE <<>>)
    /\ UNCHANGED <<eventVars, inFlight, stop, dep, poolVars, callVars>>

\* request_stop() on the token's source, which is there before submit() is.
RequestStop(s) ==
    /\ ~stop[s]
    /\ stop' = [stop EXCEPT ![s] = TRUE]
    /\ UNCHANGED <<eventVars, inFlight, dep, poolVars, stack, callVars>>

\* zpc_runtime_async_cancel: request a stop, and resume a suspended submission
\* so that it sees it.
CancelCall(c, s) ==
    /\ s \in handles
    /\ ~stop[s]
    /\ stop' = [stop EXCEPT ![s] = TRUE]
    /\ Call(c, <<Frame("cancel", s)>>)
    /\ UNCHANGED <<eventVars, inFlight, dep, poolVars, callVars>>

Cancel(t) ==
    /\ At(t, "cancel")
    /\ Become(t, IF status[Top(t).s] = "suspended" THEN <<Frame("resume", Top(t).s)>> ELSE <<>>)
    /\ UNCHANGED <<eventVars, inFlight, stop, dep, poolVars, callVars>>

\* What the frames of shutdown() name: every frame names an event, these use none.
AnySub == CHOOSE s \in Subs : TRUE

\* shutdown() once: stop accepting, request the stop, join every worker.
ShutdownCall(c) ==
    /\ MayShutdown
    /\ accepting
    /\ accepting' = FALSE
    /\ Call(c, <<Frame("request_stop", AnySub)>>)
    /\ UNCHANGED <<eventVars, inFlight, stop, dep, queue, stopping, exited, callVars>>

\* Mutant: the stop request is missing.
ShutdownStop_Silent(t) ==
    /\ At(t, "request_stop")
    /\ Become(t, <<Frame("join", AnySub)>>)
    /\ UNCHANGED <<eventVars, inFlight, stop, dep, poolVars, callVars>>

ShutdownStop(t) ==
    /\ At(t, "request_stop")
    /\ stopping' = TRUE
    /\ Become(t, <<Frame("join", AnySub)>>)
    /\ UNCHANGED <<eventVars, inFlight, stop, dep, queue, accepting, exited, callVars>>

ShutdownJoin(t) ==
    /\ At(t, "join")
    /\ exited = Workers
    /\ Become(t, <<>>)
    /\ UNCHANGED <<eventVars, inFlight, stop, dep, poolVars, callVars>>

-----------------------------------------------------------------------------
\* Thread t goes on with the call it is in.
Continue(t) ==
    \/ Register(t) \/ SubmitReturn(t) \/ Record(t) \/ Count(t) \/ Notify(t) \/ Mark(t)
    \/ Dispatch(t) \/ Admit(t) \/ Prescreen(t) \/ Enqueue(t)
    \/ Screen(t) \/ Start(t) \/ Step(t) \/ FinishStep(t) \/ Clear(t)
    \/ Resume(t) \/ Cancel(t) \/ ShutdownStop(t) \/ ShutdownJoin(t)

\* A client makes a call.
ClientCall(c) ==
    \/ \E s \in Subs : Submit(c, s) \/ ResumeCall(c, s)
    \/ \E s \in Cancellable : CancelCall(c, s)
    \/ \E e \in Externals : CompleteExternal(c, e)
    \/ ShutdownCall(c)

\* An idle worker goes round its loop.
WorkerLoop(w) == WorkerExit(w) \/ \E s \in Subs : Dequeue(w, s)

Next ==
    \/ \E t \in Threads : Continue(t)
    \/ \E c \in Clients : ClientCall(c)
    \/ \E w \in Workers : WorkerLoop(w)
    \/ \E s \in Cancellable : RequestStop(s)

Spec == Init /\ [][Next]_vars

\* Threads inside a call and workers keep running; clients need not call.
Fairness ==
    /\ \A t \in Threads : WF_vars(Continue(t))
    /\ \A w \in Workers : WF_vars(WorkerLoop(w))

FairSpec == Spec /\ Fairness

-----------------------------------------------------------------------------
(* Properties.                                                              *)

\* Some thread's stack holds a frame at a program point of ops about s.
Holds(t, i, ops, s) == stack[t][i].op \in ops /\ stack[t][i].s = s
Somewhere(ops, s) == \E t \in Threads : \E i \in DOMAIN stack[t] : Holds(t, i, ops, s)

\* Mutual exclusion: however resume(), cancel and the callbacks of several
\* prerequisites race, a submission's step runs on one thread at a time (the
\* compare-and-swap on inFlight in dispatch()).
StepExclusion ==
    \A t, u \in Threads : \A i \in DOMAIN stack[t], j \in DOMAIN stack[u] :
        /\ stack[t][i].op = "step" /\ stack[u][j].op = "step"
        /\ stack[t][i].s = stack[u][j].s
        => t = u /\ i = j

\* A step runs while its event says running, never after it was finished.
LiveStep == \A s \in Subs : Somewhere({"step"}, s) => status[s] = "running"

\* The prerequisites of s have ended in a way that lets s run.
Cleared(s) == \A p \in Prereqs[s] :
    is_terminal(status[p]) /\ (s \in StopOnFailure => status[p] = "completed")

\* A submission reaches its executor only after every prerequisite finished,
\* and with stopOnPrerequisiteFailure only after every one completed.
PrerequisitesFirst == \A s \in Subs : Somewhere(ExecOps, s) \/ queue[s] > 0 => Cleared(s)

\* The prerequisites s still has to count, wherever their callback is: not yet
\* registered, in the prerequisite's vector, swapped out, or running.
Uncounted(s) == {p \in Prereqs[s] :
    \/ s \in callbacks[p]
    \/ \E t \in Threads : \E i \in DOMAIN stack[t] :
          LET f == stack[t][i] IN
          \/ f.op = "register" /\ f.s = s /\ p \in f.todo
          \/ f.op = "notify" /\ f.s = p /\ s \in f.todo
          \/ f.op \in {"record", "count"} /\ f.s = s /\ f.p = p}

\* No prerequisite's callback is lost or counted twice, also when it finishes
\* while submit() is registering with the others.
CountsPrerequisites ==
    \A s \in submitted : dep[s].remaining = Cardinality(Uncounted(s))

\* A submission ends, or suspends, once the events it depends on from outside
\* have ended: no callback chain stops half way, whoever runs it.
SubmissionSettles ==
    \A s \in Subs :
        s \in submitted /\ (\A e \in Externals : is_terminal(status[e]))
        ~> is_terminal(status[s]) \/ status[s] = "suspended"

\* What is queued while a worker is still in its loop is taken out again, also
\* when shutdown() comes before the worker looks.
DrainedOnShutdown ==
    \A s \in Subs : queue[s] > 0 /\ exited # Workers ~> queue[s] = 0

\* shutdown() returns: every worker leaves its loop and is joined.
ShutdownReturns == \A c \in Clients : At(c, "request_stop") ~> stack[c] = <<>>

-----------------------------------------------------------------------------
(* The inductive invariant behind StepExclusion.                            *)

\* A frame that executes a submission owns its inFlight flag,
OwnedFrames ==
    \A t \in Threads : \A i \in DOMAIN stack[t] :
        stack[t][i].op \in ExecOps => inFlight[stack[t][i].s] /\ queue[stack[t][i].s] = 0

\* together with no other frame of any thread,
OneOwner ==
    \A t, u \in Threads : \A i \in DOMAIN stack[t], j \in DOMAIN stack[u] :
        /\ stack[t][i].op \in ExecOps /\ stack[u][j].op \in ExecOps
        /\ stack[t][i].s = stack[u][j].s
        => t = u /\ i = j

\* and otherwise one entry of the pool's queue may own it.
OwnedEntries == \A s \in Subs : queue[s] <= 1 /\ (queue[s] = 1 => inFlight[s])

Ownership == OwnedFrames /\ OneOwner /\ OwnedEntries

=============================================================================
