-------------------------- MODULE MCAsyncScheduler --------------------------
(* Instances of AsyncScheduler for TLC.                                     *)
EXTENDS AsyncScheduler, TLC

CONSTANTS a, b, c, d, fn, co, k1, k2

Op(op) == [op |-> op]
ScheduleB == [op |-> "schedule", job |-> b]
Enqueue(j, w) == [op |-> "enqueue", job |-> j, to |-> w]

\* Two nodes joined by a third, which was added first.
JoinOrder == <<c, a, b>>
JoinSuccs == [n \in {a, b, c} |-> IF n = c THEN <<>> ELSE <<c>>]
JoinPreds == [n \in {a, b, c} |-> IF n = c THEN <<b, a>> ELSE <<>>]

\* A node before two others, and one after both.
DiamondOrder == <<a, b, c, d>>
DiamondSuccs == (a :> <<c, b>>) @@ (b :> <<d>>) @@ (c :> <<d>>) @@ (d :> <<>>)
DiamondPreds == (a :> <<>>) @@ (b :> <<a>>) @@ (c :> <<a>>) @@ (d :> <<c, b>>)

\* A chain.
ChainOrder == <<a, b>>
ChainSuccs == [n \in {a, b} |-> IF n = a THEN <<b>> ELSE <<>>]
ChainPreds == [n \in {a, b} |-> IF n = b THEN <<a>> ELSE <<>>]

Never == [j \in Jobs |-> 0]

\* The node a and the coroutine co suspend once.
Once == [j \in Jobs |-> IF j \in {a, co} THEN 1 ELSE 0]

\* Submit the graph and wait for it.
GraphScript == [x \in Clients |-> <<Op("submit"), Op("wait")>>]

\* With a function for worker 1 in between.
MixedScript == [x \in Clients |-> <<Op("submit"), Enqueue(fn, 1), Op("wait")>>]

\* Two clients enqueue for worker 1 at once; one goes on to pause, resume and shut
\* down, the other schedules the end of the chain, twice.
PauseScript ==
    [x \in Clients |->
        IF x = k1
        THEN <<Enqueue(fn, 1), Op("pause"), Op("resume"), Op("shutdown")>>
        ELSE <<Enqueue(co, 1), ScheduleB, ScheduleB>>]

=============================================================================
