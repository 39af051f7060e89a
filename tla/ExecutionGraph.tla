---------------------------- MODULE ExecutionGraph ----------------------------
(*******************************************************************************)
(* zs::ExecutionGraph of execution/ExecutionGraph.hpp: passes that declare     *)
(* which resources they read and write, and compile(), which finds the         *)
(* hazards between them, sorts them, and spreads them over execution lanes.    *)
(*                                                                             *)
(* A graph g is [resources |-> how many were imported, passes |-> Seq(Pass)]. *)
(* A pass is named by its position, from 1.  Labels, byte offsets, domains of  *)
(* single accesses, hardware affinities and stage masks decide nothing here.   *)
(*******************************************************************************)
EXTENDS Integers, Sequences, FiniteSets, SequencesExt

Modes   == {"none", "read", "write", "read_write"}
Domains == {"host_sequential", "host_parallel", "device_compute", "device_graphics",
            "device_transfer", "device_copy", "any"}
Hazards == {"read_after_write", "write_after_read", "write_after_write"}
Classes == {"graphics", "transfer", "control", "compute"}

Access == [resource : Nat \ {0}, mode : Modes, length : Nat]

\* userProvided tells whether cycles is the pass's own cost hint.
Pass == [accesses : Seq(Access), preferredDomain : Domains, priority : Int,
         exclusiveLane : BOOLEAN, userProvided : BOOLEAN, cycles : Nat]

involves_read(m)  == m \in {"read", "read_write"}
involves_write(m) == m \in {"write", "read_write"}

classify_hazard(earlier, later) ==
    CASE involves_write(earlier) /\ involves_write(later) -> "write_after_write"
      [] involves_write(earlier) /\ involves_read(later) /\ ~involves_write(later) -> "read_after_write"
      [] ~involves_write(earlier) /\ involves_write(later) -> "write_after_read"
      [] OTHER -> "none"

\* The cycles of a pass without a hint: one per 64 bytes, an access that reads
\* and writes counted twice.
deduce_cost_hint(accesses) ==
    LET bytes(a) == (IF involves_read(a.mode) THEN a.length ELSE 0)
                    + (IF involves_write(a.mode) THEN a.length ELSE 0)
        total[i \in 0..Len(accesses)] == IF i = 0 THEN 0 ELSE total[i - 1] + bytes(accesses[i])
    IN  IF total[Len(accesses)] > 0 THEN (total[Len(accesses)] + 63) \div 64 ELSE 1

effectiveCost(p) == IF p.userProvided THEN p.cycles ELSE deduce_cost_hint(p.accesses)

\* The items that pass a test, in order.
Keep(s, Test(_)) == FlattenSeq([i \in DOMAIN s |-> IF Test(s[i]) THEN <<s[i]>> ELSE <<>>])

-----------------------------------------------------------------------------
(* 1. Hazards.                                                              *)

\* The accesses to a resource, pass by pass in declaration order.
touches(g, r) ==
    LET of(p) == LET accs == Keep(g.passes[p].accesses, LAMBDA a : a.resource = r)
                 IN  [i \in DOMAIN accs |-> [pass |-> p, mode |-> accs[i].mode]]
    IN  FlattenSeq([p \in DOMAIN g.passes |-> of(p)])

\* Mutant: the inner loop starts at i.
Pairs_Reflexive(n) == FlattenSeq([i \in 1..n |-> [k \in 1..(n - i + 1) |-> <<i, i + k - 1>>]])

\* The index pairs of the two nested loops over n touches.
Pairs(n) == FlattenSeq([i \in 1..n |-> [k \in 1..(n - i) |-> <<i, i + k>>]])

\* One edge for each hazard between two accesses, so that two passes may be
\* joined by several; two accesses of one pass are compared too.
rawEdges(g) ==
    LET of(r) == LET t == touches(g, r)
                     hazard(ij) == classify_hazard(t[ij[1]].mode, t[ij[2]].mode)
                     found == Keep(Pairs(Len(t)), LAMBDA ij : hazard(ij) # "none")
                 IN  [k \in DOMAIN found |->
                        [src |-> t[found[k][1]].pass, dst |-> t[found[k][2]].pass,
                         resource |-> r, hazard |-> hazard(found[k])]]
    IN  FlattenSeq([r \in 1..g.resources |-> of(r)])

\* The successors of a pass, each once, in the order in which edges name them.
adj(edges, p) ==
    LET new(i) == /\ edges[i].src = p
                  /\ \A j \in 1..(i - 1) : edges[j].src = p => edges[j].dst # edges[i].dst
        first == Keep([i \in DOMAIN edges |-> i], new)
    IN  [k \in DOMAIN first |-> edges[first[k]].dst]

preds(edges, p) == {e.src : e \in {e \in ToSet(edges) : e.dst = p}}

-----------------------------------------------------------------------------
(* 2. Kahn's algorithm.                                                     *)

\* Mutant: the tie-breaker alone decides.
Before_CostOnly(p, q) == effectiveCost(p) > effectiveCost(q)

\* The order among ready passes: by priority, then by cost.
Before(p, q) ==
    \/ p.priority > q.priority
    \/ p.priority = q.priority /\ effectiveCost(p) > effectiveCost(q)

\* The position in the ready queue that the scan stops at: the first best.
bestIdx(g, ready) ==
    CHOOSE i \in DOMAIN ready : \A j \in DOMAIN ready :
        /\ ~Before(g.passes[ready[j]], g.passes[ready[i]])
        /\ j < i => Before(g.passes[ready[i]], g.passes[ready[j]])

\* One turn of the loop: the best pass changes places with the head and leaves;
\* successors that waited for it alone join the queue.
SortStep(g, edges, k) ==
    LET best  == bestIdx(g, k.ready)
        cur   == k.ready[best]
        succs == adj(edges, cur)
        freed == Keep(succs, LAMBDA s : k.inDegree[s] = 1)
    IN  [ready    |-> Tail([k.ready EXCEPT ![best] = Head(k.ready)]) \o freed,
         inDegree |-> [p \in DOMAIN k.inDegree |->
                          k.inDegree[p] - (IF Contains(succs, p) THEN 1 ELSE 0)],
         sorted   |-> Append(k.sorted, cur)]

SortInit(g, edges) ==
    LET inDegree == [p \in DOMAIN g.passes |-> Cardinality(preds(edges, p))]
    IN  [ready    |-> Keep([p \in DOMAIN g.passes |-> p], LAMBDA p : inDegree[p] = 0),
         inDegree |-> inDegree,
         sorted   |-> <<>>]

\* The state after each turn; it stays when no pass is ready.
SortTurns(g, edges) ==
    LET k[i \in 0..Len(g.passes)] ==
            IF i = 0 THEN SortInit(g, edges)
            ELSE LET prev == k[i - 1]
                 IN  IF prev.ready = <<>> THEN prev ELSE SortStep(g, edges, prev)
    IN  k

\* The passes in topological order; the empty sequence when some never become ready.
Sort(g, edges) ==
    LET sorted == SortTurns(g, edges)[Len(g.passes)].sorted
    IN  IF Len(sorted) = Len(g.passes) THEN sorted ELSE <<>>

-----------------------------------------------------------------------------
(* 3. Queue classes, and 4. lanes.                                          *)

queueClass(p) ==
    CASE p.preferredDomain = "device_graphics" -> "graphics"
      [] p.preferredDomain \in {"device_transfer", "device_copy"} -> "transfer"
      [] p.preferredDomain \in {"host_sequential", "host_parallel"} -> "control"
      [] OTHER -> "compute"

\* lanes is a sequence of [queueClass, passes].  Passes that are to be put on a
\* new lane are given the next position.
laneOf(lanes, p) == CHOOSE i \in DOMAIN lanes : p \in lanes[i].passes

First(S) == CHOOSE x \in S : \A y \in S : x <= y

hasConflictOnLane(edges, lanes, p, i) ==
    \E e \in ToSet(edges) : \E q \in lanes[i].passes : {e.src, e.dst} = {p, q}

\* The lane of a pass: its own if it asks for one; else the first lane of its
\* class if a predecessor is there, then the lane of its first predecessor of its
\* class, then any lane of its class without a conflict, then a new one.
chooseLane(g, edges, lanes, p) ==
    LET qc      == queueClass(g.passes[p])
        ofClass == {i \in DOMAIN lanes : lanes[i].queueClass = qc}
        primary == First(ofClass)
        before  == preds(edges, p)
        sameClass == {q \in before : queueClass(g.passes[q]) = qc}
        free    == {i \in ofClass : ~hasConflictOnLane(edges, lanes, p, i)}
    IN  IF g.passes[p].exclusiveLane \/ ofClass = {} THEN Len(lanes) + 1
        ELSE IF lanes[primary].passes \cap before # {} THEN primary
        ELSE IF sameClass # {} THEN laneOf(lanes, First(sameClass))
        ELSE IF free # {} THEN First(free)
        ELSE Len(lanes) + 1

putOnLane(g, edges, lanes, p) ==
    LET i == chooseLane(g, edges, lanes, p)
    IN  IF i \in DOMAIN lanes THEN [lanes EXCEPT ![i].passes = @ \cup {p}]
        ELSE Append(lanes, [queueClass |-> queueClass(g.passes[p]), passes |-> {p}])

\* The lanes with the first i passes on them, for every i.
laneStates(g, edges, sorted) ==
    LET lanes[i \in 0..Len(sorted)] ==
            IF i = 0 THEN <<>> ELSE putOnLane(g, edges, lanes[i - 1], sorted[i])
    IN  lanes

assignLanes(g, edges, sorted) == laneStates(g, edges, sorted)[Len(sorted)]

-----------------------------------------------------------------------------
(* 5. The compiled graph.                                                   *)

\* Mutant: lanes differ when their queue classes do.
crossLane_ByClass(lanes, e) ==
    lanes[laneOf(lanes, e.src)].queueClass # lanes[laneOf(lanes, e.dst)].queueClass

\* Whether a sync edge needs a primitive of its own.
crossLane(lanes, e) == laneOf(lanes, e.src) # laneOf(lanes, e.dst)

NoGraph == [sorted |-> <<>>, edges |-> <<>>, lanes |-> <<>>, timelines |-> <<>>, cross |-> {}]

valid(c) == c.sorted # <<>>

compile(g) ==
    LET edges  == rawEdges(g)
        sorted == Sort(g, edges)
        lanes  == assignLanes(g, edges, sorted)
    IN  IF sorted = <<>> THEN NoGraph
        ELSE [sorted    |-> sorted,
              edges     |-> edges,
              lanes     |-> lanes,
              timelines |-> [i \in DOMAIN lanes |->
                                Keep(sorted, LAMBDA p : p \in lanes[i].passes)],
              cross     |-> {i \in DOMAIN edges : crossLane(lanes, edges[i])}]

-----------------------------------------------------------------------------
(* What compile() is for, said without it.                                  *)

\* Two accesses conflict when they name one resource and one of them writes.
\* One without a mode counts as a read for those declared after it.
Conflicting(earlier, later) ==
    /\ earlier.resource = later.resource
    /\ involves_write(later.mode) \/ (involves_write(earlier.mode) /\ later.mode # "none")

\* Whether an access of p conflicts with one of q that is declared later.
Conflict(g, p, q) ==
    \E i \in DOMAIN g.passes[p].accesses, j \in DOMAIN g.passes[q].accesses :
        (p = q => i < j) /\ Conflicting(g.passes[p].accesses[i], g.passes[q].accesses[j])

=============================================================================
