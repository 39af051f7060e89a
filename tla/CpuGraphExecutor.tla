--------------------------- MODULE CpuGraphExecutor ---------------------------
(*******************************************************************************)
(* An ExecutionGraph from its first addPass() to the end of its execution, by  *)
(* executeInline() on the caller's thread or by zs::CpuGraphExecutor on the    *)
(* workers of an AsyncScheduler (execution/ExecutionGraph.hpp).                *)
(*                                                                             *)
(* The scheduler appears by what it promises: an enqueued job is run once, by  *)
(* one worker, some time later.  A job's accesses to the shared counters are   *)
(* separate steps; a counter that reaches 0 and the enqueue() that follows are *)
(* one, since only an idle worker looks at the queue.                          *)
(*******************************************************************************)
EXTENDS ExecutionGraph

CONSTANTS Decls,        \* the passes a client may declare
          MaxResources, \* bound: resources imported
          MaxPasses,    \* bound: passes declared
          MaxRun,       \* bound: passes of a graph that is executed
          Workers,      \* the scheduler's workers
          NoPass

ASSUME GraphAssumption ==
    /\ Decls \subseteq Pass
    /\ MaxResources \in Nat /\ MaxPasses \in Nat /\ MaxRun \in Nat
    /\ NoPass \notin Nat

VARIABLES graph,
          compiled,
          phase,     \* what the client has come to
          loop,      \* the client's position in sortedPassIndices
          deps,      \* per pass, predecessors still counted
          remaining, \* passes whose job has not reached its end
          queue,     \* per pass, jobs enqueued and not begun
          job,       \* what each worker does
          event,     \* completionEvent is completed
          begun,     \* history: per pass, how often its callback was entered
          ended,     \* history: per pass, how often its callback returned
          overtaken  \* history: the root loop took a pass that a job had released for a root

vars == <<graph, compiled, phase, loop, deps, remaining, queue, job, event, begun, ended, overtaken>>

building == <<graph, compiled>>
counters == <<deps, remaining, queue>>
history  == <<begun, ended, overtaken>>

Passes == DOMAIN graph.passes

Idle == [pass |-> NoPass, at |-> "idle", todo |-> {}]

TypeOK ==
    /\ graph \in [resources : 0..MaxResources, passes : Seq(Decls)]
    /\ ToSet(compiled.sorted) \subseteq Passes
    /\ phase \in {"build", "compiled", "inline", "body", "ran", "roots", "returned"}
    /\ loop \in 1..(MaxPasses + 1)
    /\ deps \in [Passes -> Int] /\ queue \in [Passes -> Nat] /\ remaining \in Int
    /\ job \in [Workers -> [pass : Passes \cup {NoPass}, at : {"idle", "body", "succs"},
                            todo : SUBSET (DOMAIN compiled.edges)]]
    /\ event \in BOOLEAN /\ overtaken \in BOOLEAN
    /\ begun \in [Passes -> Nat] /\ ended \in [Passes -> Nat]

Zero == [p \in Passes |-> 0]

Init ==
    /\ graph = [resources |-> 0, passes |-> <<>>]
    /\ compiled = NoGraph
    /\ phase = "build" /\ loop = 1
    /\ deps = <<>> /\ remaining = 0 /\ queue = <<>>
    /\ job = [w \in Workers |-> Idle]
    /\ event = FALSE
    /\ begun = <<>> /\ ended = <<>> /\ overtaken = FALSE

-----------------------------------------------------------------------------
(* Building and compiling.                                                  *)

importResource ==
    /\ phase = "build" /\ graph.resources < MaxResources
    /\ graph' = [graph EXCEPT !.resources = @ + 1]
    /\ UNCHANGED <<compiled, phase, loop, counters, job, event, history>>

\* A client has no other handles than those importResource() returned.
addPass ==
    /\ phase = "build" /\ Len(graph.passes) < MaxPasses
    /\ \E d \in Decls :
          /\ \A a \in ToSet(d.accesses) : a.resource <= graph.resources
          /\ graph' = [graph EXCEPT !.passes = Append(@, d)]
    /\ deps' = Append(deps, 0) /\ queue' = Append(queue, 0)
    /\ begun' = Append(begun, 0) /\ ended' = Append(ended, 0)
    /\ UNCHANGED <<compiled, phase, loop, remaining, job, event, overtaken>>

Compile ==
    /\ phase = "build"
    /\ compiled' = compile(graph)
    /\ phase' = "compiled"
    /\ UNCHANGED <<graph, loop, counters, job, event, history>>

-----------------------------------------------------------------------------
(* executeInline(): the sorted passes one after the other.                  *)

executeInline ==
    /\ phase = "compiled" /\ valid(compiled) /\ Len(graph.passes) <= MaxRun
    /\ phase' = "inline"
    /\ UNCHANGED <<building, loop, counters, job, event, history>>

InlineBegin ==
    /\ phase = "inline"
    /\ IF loop \in DOMAIN compiled.sorted
       THEN /\ phase' = "body"
            /\ begun' = [begun EXCEPT ![compiled.sorted[loop]] = @ + 1]
       ELSE phase' = "ran" /\ UNCHANGED begun
    /\ UNCHANGED <<building, loop, counters, job, event, ended, overtaken>>

InlineEnd ==
    /\ phase = "body"
    /\ phase' = "inline" /\ loop' = loop + 1
    /\ ended' = [ended EXCEPT ![compiled.sorted[loop]] = @ + 1]
    /\ UNCHANGED <<building, counters, job, event, begun, overtaken>>

-----------------------------------------------------------------------------
(* CpuGraphExecutor::execute().                                             *)

\* Mutant: predecessors are counted, not edges.
Dependencies_Distinct == [p \in Passes |-> Cardinality(preds(compiled.edges, p))]

\* deps and succs are built from the sync edges, one entry per edge; an entry of
\* succs is named by its edge's position.
Dependencies ==
    [p \in Passes |-> Cardinality({i \in DOMAIN compiled.edges : compiled.edges[i].dst = p})]

Successors(p) == {i \in DOMAIN compiled.edges : compiled.edges[i].src = p}

\* Mutant: the roots are not counted.
execute_FewerRemaining ==
    /\ phase = "compiled" /\ valid(compiled) /\ Len(graph.passes) <= MaxRun
    /\ phase' = "roots"
    /\ deps' = Dependencies
    /\ remaining' = Cardinality({p \in Passes : Dependencies[p] > 0}) + 1
    /\ UNCHANGED <<building, loop, queue, job, event, history>>

execute ==
    /\ phase = "compiled" /\ valid(compiled) /\ Len(graph.passes) <= MaxRun
    /\ phase' = "roots"
    /\ deps' = Dependencies
    /\ remaining' = Len(compiled.sorted)
    /\ UNCHANGED <<building, loop, queue, job, event, history>>

Launch(p) == queue' = [queue EXCEPT ![p] = @ + 1]

\* The root loop looks at the live counter: a pass that the job of another root
\* has brought to 0 by now, and launched, is launched again.
RootLoop ==
    /\ phase = "roots"
    /\ IF loop \in DOMAIN compiled.sorted
       THEN LET p == compiled.sorted[loop]
            IN  /\ loop' = loop + 1 /\ UNCHANGED phase
                /\ \/ deps[p] = 0 /\ Launch(p) /\ overtaken' = (overtaken \/ Dependencies[p] > 0)
                   \/ deps[p] # 0 /\ UNCHANGED <<queue, overtaken>>
       ELSE phase' = "returned" /\ UNCHANGED <<loop, queue, overtaken>>
    /\ UNCHANGED <<building, deps, remaining, job, event, begun, ended>>

\* A worker takes a job and enters the pass's callback.
JobBegin(w) ==
    /\ job[w] = Idle
    /\ \E p \in Passes :
          /\ queue[p] > 0
          /\ queue' = [queue EXCEPT ![p] = @ - 1]
          /\ job' = [job EXCEPT ![w] = [pass |-> p, at |-> "body", todo |-> {}]]
          /\ begun' = [begun EXCEPT ![p] = @ + 1]
    /\ UNCHANGED <<building, phase, loop, deps, remaining, event, ended, overtaken>>

JobReturns(w) ==
    /\ job[w].at = "body"
    /\ job' = [job EXCEPT ![w].at = "succs", ![w].todo = Successors(job[w].pass)]
    /\ ended' = [ended EXCEPT ![job[w].pass] = @ + 1]
    /\ UNCHANGED <<building, phase, loop, counters, event, begun, overtaken>>

\* Mutant: the value after the subtraction is taken for the one before.
JobReleases_Before(w) ==
    /\ job[w].at = "succs" /\ job[w].todo # {}
    /\ LET s == compiled.edges[First(job[w].todo)].dst
       IN  /\ deps' = [deps EXCEPT ![s] = @ - 1]
           /\ IF deps[s] = 0 THEN Launch(s) ELSE UNCHANGED queue
    /\ job' = [job EXCEPT ![w].todo = @ \ {First(@)}]
    /\ UNCHANGED <<building, phase, loop, remaining, event, history>>

\* deps[s].fetch_sub(1) == 1: the last edge into s launches it.
JobReleases(w) ==
    /\ job[w].at = "succs" /\ job[w].todo # {}
    /\ LET s == compiled.edges[First(job[w].todo)].dst
       IN  /\ deps' = [deps EXCEPT ![s] = @ - 1]
           /\ IF deps[s] = 1 THEN Launch(s) ELSE UNCHANGED queue
    /\ job' = [job EXCEPT ![w].todo = @ \ {First(@)}]
    /\ UNCHANGED <<building, phase, loop, remaining, event, history>>

\* remaining.fetch_sub(1) == 1 completes the event.
JobEnd(w) ==
    /\ job[w].at = "succs" /\ job[w].todo = {}
    /\ remaining' = remaining - 1
    /\ event' = (event \/ remaining = 1)
    /\ job' = [job EXCEPT ![w] = Idle]
    /\ UNCHANGED <<building, phase, loop, deps, queue, history>>

-----------------------------------------------------------------------------
Client == InlineBegin \/ InlineEnd \/ RootLoop

Worker(w) == JobBegin(w) \/ JobReturns(w) \/ JobReleases(w) \/ JobEnd(w)

Next ==
    \/ importResource \/ addPass \/ Compile \/ executeInline \/ execute
    \/ Client
    \/ \E w \in Workers : Worker(w)

Spec == Init /\ [][Next]_vars

\* A call that was made goes on, and the scheduler's workers run what is queued.
FairSpec == Spec /\ WF_vars(Client) /\ \A w \in Workers : WF_vars(Worker(w))

-----------------------------------------------------------------------------
(* Properties.                                                              *)

\* compile() refuses a graph exactly when it is empty or one of its passes
\* declares two accesses that conflict with each other: what the code calls a
\* cycle can only be a self-edge, since hazards point from a pass declared
\* earlier to one declared later.
CompileAnswers ==
    phase # "build" =>
        (valid(compiled) <=> Passes # {} /\ \A p \in Passes : ~Conflict(graph, p, p))

\* A backend that gives each lane a queue of its class, submits its timeline in
\* order and synchronises the cross-lane edges alone honours every conflict, and
\* no lane waits for one that waits for it: timelines and edges follow one order
\* of the passes.
LanesSuffice ==
    valid(compiled) =>
        LET position(s, p) == CHOOSE i \in DOMAIN s : s[i] = p
            before(s, p, q) == position(s, p) < position(s, q)
            lane(p) == laneOf(compiled.lanes, p)
            synced(p, q) == \E i \in compiled.cross :
                               compiled.edges[i].src = p /\ compiled.edges[i].dst = q
        IN  /\ \A p, q \in Passes : p < q /\ Conflict(graph, p, q) =>
                  IF lane(p) = lane(q) THEN before(compiled.timelines[lane(p)], p, q)
                  ELSE synced(p, q)
            /\ \A i \in DOMAIN compiled.timelines : \A p, q \in ToSet(compiled.timelines[i]) :
                  before(compiled.timelines[i], p, q) => before(compiled.sorted, p, q)
            /\ \A i \in DOMAIN compiled.lanes : \A p \in compiled.lanes[i].passes :
                  queueClass(graph.passes[p]) = compiled.lanes[i].queueClass
            /\ \A i \in DOMAIN compiled.edges :
                  before(compiled.sorted, compiled.edges[i].src, compiled.edges[i].dst)

\* Of two ready passes the one of higher priority comes first: a pass is only
\* sorted after one of lower priority if it still waited for a predecessor.
PriorityFirst ==
    valid(compiled) =>
        \A i, j \in DOMAIN compiled.sorted :
            LET p == compiled.sorted[i]
                q == compiled.sorted[j]
            IN  i < j /\ graph.passes[q].priority > graph.passes[p].priority =>
                \E k \in i..(j - 1) : compiled.sorted[k] \in preds(compiled.edges, q)

\* Passes that conflict run in the order in which they were declared and never
\* at once, by whichever executor, as long as the root loop overtook nobody: a
\* pass's callback is entered only after those it conflicts with returned.
ConflictsInOrder ==
    ~overtaken =>
        \A p, q \in Passes : p < q /\ Conflict(graph, p, q) /\ begun[q] > 0 =>
            begun[p] = 1 /\ ended[p] = 1

\* The event tells the end of the graph: when it is completed every pass has
\* run once and no job is left, as long as the root loop overtook nobody.
EventIsLast ==
    event /\ ~overtaken =>
        /\ \A p \in Passes : begun[p] = 1 /\ ended[p] = 1 /\ queue[p] = 0
        /\ \A w \in Workers : job[w] = Idle

\* An execution comes to its end: every pass runs, and the event is completed,
\* even if the root loop launched some pass twice.
GraphCompletes ==
    []<>(/\ phase \notin {"inline", "body", "roots"}
         /\ phase \in {"ran", "returned"} => \A p \in Passes : ended[p] > 0
         /\ phase = "returned" => event)

=============================================================================
