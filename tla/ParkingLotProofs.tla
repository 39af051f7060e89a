--------------------------- MODULE ParkingLotProofs ---------------------------
(* Theorems about ParkingLot, for any number of threads, addresses and nodes, *)
(* as long as memory a thread still points to is not handed out again.        *)
EXTENDS ParkingLot, SequenceTheorems, FiniteSetTheorems, TLAPS

-----------------------------------------------------------------------------
(* Lists of nodes.                                                          *)

\* No node is in a list twice.
Once(s) == \A i, j \in DOMAIN s : s[i] = s[j] => i = j

ItemsOf(s) == {s[i] : i \in DOMAIN s}

LEMMA InsertHead ==
    ASSUME NEW s \in Seq(Cells), NEW c \in Cells
    PROVE  /\ <<c>> \o s \in Seq(Cells) /\ Len(<<c>> \o s) = Len(s) + 1
           /\ ItemsOf(<<c>> \o s) = ItemsOf(s) \cup {c}
           /\ Once(s) /\ c \notin ItemsOf(s) => Once(<<c>> \o s)
<1>1. /\ <<c>> \o s \in Seq(Cells) /\ Len(<<c>> \o s) = Len(s) + 1
      /\ (<<c>> \o s)[1] = c /\ \A i \in 1..Len(s) : (<<c>> \o s)[i + 1] = s[i]
  OBVIOUS
<1>2. ASSUME NEW i \in 1..Len(<<c>> \o s)
      PROVE  i = 1 \/ \E j \in 1..Len(s) : i = j + 1
  <2>1. i = 1 \/ (i - 1 \in 1..Len(s) /\ i = (i - 1) + 1)
    BY <1>1
  <2> QED
    BY <2>1
<1>3. ItemsOf(<<c>> \o s) = ItemsOf(s) \cup {c}
  <2>1. ItemsOf(<<c>> \o s) \subseteq ItemsOf(s) \cup {c}
    BY <1>1, <1>2 DEF ItemsOf
  <2>2. c \in ItemsOf(<<c>> \o s)
    BY <1>1 DEF ItemsOf
  <2>3. ASSUME NEW i \in 1..Len(s)
        PROVE  s[i] \in ItemsOf(<<c>> \o s)
    <3>1. i + 1 \in DOMAIN (<<c>> \o s) /\ (<<c>> \o s)[i + 1] = s[i]
      BY <1>1
    <3> QED
      BY <3>1 DEF ItemsOf
  <2>4. ItemsOf(s) \subseteq ItemsOf(<<c>> \o s)
    BY <2>3 DEF ItemsOf
  <2> QED
    BY <2>1, <2>2, <2>4
<1>4. ASSUME Once(s), c \notin ItemsOf(s)
      PROVE  Once(<<c>> \o s)
  BY <1>1, <1>2, <1>4 DEF Once, ItemsOf
<1> QED
  BY <1>1, <1>3, <1>4

\* What is left when the i-th node is unlinked.
Without(s, i) == SubSeq(s, 1, i - 1) \o SubSeq(s, i + 1, Len(s))

LEMMA WithoutIs ==
    ASSUME NEW s \in Seq(Cells), NEW i \in 1..Len(s)
    PROVE  /\ Without(s, i) \in Seq(Cells) /\ Len(Without(s, i)) = Len(s) - 1
           /\ \A k \in 1..(Len(s) - 1) : Without(s, i)[k] = IF k < i THEN s[k] ELSE s[k + 1]
<1> DEFINE a == SubSeq(s, 1, i - 1)
           b == SubSeq(s, i + 1, Len(s))
<1>1. /\ a \in Seq(Cells) /\ Len(a) = i - 1 /\ \A k \in 1..(i - 1) : a[k] = s[k]
  OBVIOUS
<1>2. /\ b \in Seq(Cells) /\ Len(b) = Len(s) - i
      /\ \A k \in 1..(Len(s) - (i + 1) + 1) : b[k] = s[i + 1 + k - 1]
  <2>1. i + 1 \in Int /\ Len(s) \in Int /\ \A k \in (i + 1)..Len(s) : s[k] \in Cells
    OBVIOUS
  <2>2. /\ b \in Seq(Cells) /\ Len(b) = IF i + 1 <= Len(s) THEN Len(s) - (i + 1) + 1 ELSE 0
        /\ \A k \in 1..(Len(s) - (i + 1) + 1) : b[k] = s[i + 1 + k - 1]
    BY <2>1, SubSeqProperties
  <2> QED
    BY <2>2
<1> HIDE DEF a, b
<1>3. /\ a \o b \in Seq(Cells) /\ Len(a \o b) = Len(a) + Len(b)
      /\ \A k \in 1..(Len(a) + Len(b)) : (a \o b)[k] = IF k <= Len(a) THEN a[k] ELSE b[k - Len(a)]
  BY <1>1, <1>2, ConcatProperties
<1>4. a \o b \in Seq(Cells) /\ Len(a \o b) = Len(s) - 1
  BY <1>1, <1>2, <1>3
<1>5. ASSUME NEW k \in 1..(Len(s) - 1)
      PROVE  (a \o b)[k] = IF k < i THEN s[k] ELSE s[k + 1]
  <2>1. (a \o b)[k] = IF k <= i - 1 THEN a[k] ELSE b[k - (i - 1)]
    BY <1>1, <1>2, <1>3
  <2>2. CASE k < i
    BY <1>1, <2>1, <2>2
  <2>3. CASE ~(k < i)
    <3>1. k - (i - 1) \in 1..(Len(s) - (i + 1) + 1) /\ i + 1 + (k - (i - 1)) - 1 = k + 1
      BY <2>3
    <3> QED
      BY <1>2, <2>1, <2>3, <3>1
  <2> QED
    BY <2>2, <2>3
<1> QED
  BY <1>4, <1>5 DEF Without, a, b

LEMMA Unlink ==
    ASSUME NEW s \in Seq(Cells), Once(s), NEW i \in 1..Len(s)
    PROVE  /\ Without(s, i) \in Seq(Cells) /\ Len(Without(s, i)) = Len(s) - 1
           /\ ItemsOf(Without(s, i)) = ItemsOf(s) \ {s[i]} /\ Once(Without(s, i))
<1>1. PICK r \in Seq(Cells) :
          /\ r = Without(s, i) /\ Len(r) = Len(s) - 1
          /\ \A k \in 1..Len(r) : r[k] = IF k < i THEN s[k] ELSE s[k + 1]
  BY WithoutIs
<1>2. \A k \in 1..Len(r) : (k < i => k \in 1..Len(s)) /\ (~(k < i) => k + 1 \in 1..Len(s))
  BY <1>1
<1>3. Once(r)
  <2> SUFFICES ASSUME NEW k \in 1..Len(r), NEW l \in 1..Len(r), r[k] = r[l]
               PROVE  k = l
    BY DEF Once
  <2>1. PICK x \in 1..Len(s) : r[k] = s[x] /\ x = IF k < i THEN k ELSE k + 1
    BY <1>1, <1>2
  <2>2. PICK y \in 1..Len(s) : r[l] = s[y] /\ y = IF l < i THEN l ELSE l + 1
    BY <1>1, <1>2
  <2>3. x = y
    <3>1. s[x] = s[y]
      BY <2>1, <2>2
    <3>2. x \in DOMAIN s /\ y \in DOMAIN s
      OBVIOUS
    <3> QED
      BY <3>1, <3>2 DEF Once
  <2> QED
    BY <2>1, <2>2, <2>3
<1>4. ItemsOf(r) \subseteq ItemsOf(s) \ {s[i]}
  <2> SUFFICES ASSUME NEW k \in 1..Len(r) PROVE r[k] \in ItemsOf(s) \ {s[i]}
    BY DEF ItemsOf
  <2>1. PICK x \in 1..Len(s) : r[k] = s[x] /\ x # i
    BY <1>1, <1>2
  <2>2. s[x] # s[i]
    BY <2>1 DEF Once
  <2> QED
    BY <2>1, <2>2 DEF ItemsOf
<1>5. ASSUME NEW k \in 1..Len(s), k # i
      PROVE  s[k] \in ItemsOf(r)
  <2>1. CASE k < i
    <3>1. k \in 1..Len(r) /\ r[k] = s[k]
      BY <1>1, <2>1
    <3> QED
      BY <1>1, <3>1 DEF ItemsOf
  <2>2. CASE k > i
    <3>1. k - 1 \in 1..Len(r) /\ r[k - 1] = s[k]
      BY <1>1, <2>2
    <3> QED
      BY <1>1, <3>1 DEF ItemsOf
  <2> QED
    BY <1>5, <2>1, <2>2
<1>6. ItemsOf(s) \ {s[i]} \subseteq ItemsOf(r)
  BY <1>5 DEF ItemsOf
<1> QED
  BY <1>1, <1>3, <1>4, <1>6

\* The rest of a walk.
LEMMA WalkOn ==
    ASSUME NEW s \in Seq(Cells), Once(s), s # <<>>
    PROVE  /\ Tail(s) \in Seq(Cells) /\ Len(Tail(s)) = Len(s) - 1 /\ Once(Tail(s))
           /\ Head(s) \in ItemsOf(s) /\ ItemsOf(Tail(s)) = ItemsOf(s) \ {Head(s)}
<1>1. /\ Tail(s) \in Seq(Cells) /\ Len(Tail(s)) = Len(s) - 1 /\ Len(s) > 0
      /\ Head(s) = s[1] /\ \A i \in 1..Len(Tail(s)) : Tail(s)[i] = s[i + 1]
  OBVIOUS
<1>2. Head(s) \in ItemsOf(s)
  BY <1>1 DEF ItemsOf
<1>3. Once(Tail(s))
  BY <1>1 DEF Once
<1>4. ItemsOf(Tail(s)) \subseteq ItemsOf(s) \ {Head(s)}
  BY <1>1 DEF Once, ItemsOf
<1>5. ASSUME NEW i \in 1..Len(s), s[i] # Head(s)
      PROVE  s[i] \in ItemsOf(Tail(s))
  <2>1. i - 1 \in DOMAIN Tail(s) /\ s[i] = Tail(s)[i - 1]
    BY <1>1, <1>5
  <2> QED
    BY <2>1 DEF ItemsOf
<1>6. ItemsOf(s) \ {Head(s)} \subseteq ItemsOf(Tail(s))
  BY <1>5 DEF ItemsOf
<1> QED
  BY <1>1, <1>2, <1>3, <1>4, <1>6

\* A list of nodes is no longer than there are nodes.
LEMMA LengthBound ==
    ASSUME NEW s \in Seq(Cells), Once(s), IsFiniteSet(Cells)
    PROVE  Len(s) <= Cardinality(Cells)
<1>1. s \in Injection(1..Len(s), Cells)
  BY DEF Once, Injection, IsInjective
<1>2. Cardinality(1..Len(s)) <= Cardinality(Cells)
  BY <1>1, FS_Injection
<1>3. Cardinality(1..Len(s)) = Len(s)
  <2>1. 1 \in Int /\ Len(s) \in Int /\ Len(s) >= 0
    OBVIOUS
  <2>2. Cardinality(1..Len(s)) = IF 1 > Len(s) THEN 0 ELSE Len(s) - 1 + 1
    BY <2>1, FS_Interval
  <2> QED
    BY <2>1, <2>2
<1> QED
  BY <1>2, <1>3

-----------------------------------------------------------------------------
(* The inductive invariant.                                                 *)

InQueueLock == {"p_cond", "p_signaled", "u_walk", "u_erase"}

\* One thread at a time is where the queue's lock is held.
Locking == \A t \in Threads : holder = t <=> pc[t] \in InQueueLock

\* Each thread is where its role can be; an unpark() may wake a node at least.
RolesFit == \A t \in Threads :
    /\ pc[t] = "held" => t \in Lockers
    /\ pc[t] = "load" => t \in Lockers \cup Changers \cup Equals
    /\ pc[t] \in UnparkPC => t \in Lockers \cup Wakers /\ budget[t] > 0
    /\ pc[t] \in ParkPC => t \notin Wakers
    /\ pc[t] \in {"p_timeout", "p_signaled"} => t \in Timed
    /\ t \in Timed /\ result[t] = "timeout" => pc[t] = "done"

\* What an unpark() has still to visit is in the queue.
Walks == \A t \in Threads :
    /\ pc[t] \in {"u_walk", "u_erase"} => ItemsOf(walk[t]) \subseteq Nodes /\ Once(walk[t])
    /\ pc[t] = "u_erase" => walk[t] # <<>> /\ heap[Head(walk[t])].signaled /\ Matches(t, Head(walk[t]))

BeingWoken(c) == \E u \in Threads : pc[u] = "u_erase" /\ Head(walk[u]) = c

\* A node in the queue is its owner's, who waits on it unless the node is just
\* being woken.
NodesFit ==
    /\ \A c \in Cells : heap[c].live <=> c \in Nodes
    /\ \A c \in Nodes :
          /\ heap[c].owner \in Threads
          /\ heap[c].key = AddrOf(heap[c].owner) /\ heap[c].mask = mask(heap[c].owner)
          /\ IF heap[c].signaled THEN BeingWoken(c)
                                 ELSE pc[heap[c].owner] \in NodePC /\ ptr[heap[c].owner] = c
    /\ \A c, d \in Nodes : heap[c].owner = heap[d].owner => c = d

\* What a waiter points to is its own node, in the queue until it is signaled.
Pointers == \A t \in Threads :
    /\ pc[t] \in NodePC =>
          /\ heap[ptr[t]].owner = t
          /\ heap[ptr[t]].signaled \/ ptr[t] \in Nodes
          /\ heap[ptr[t]].signaled <=> t \in chosen
    /\ pc[t] \in {"p_lock", "p_cond", "p_skip"} => t \notin chosen
    /\ t \in Timed /\ result[t] = "timeout" => t \notin chosen

LotInv == TypeOK /\ CountExact /\ Locking /\ RolesFit /\ Walks /\ NodesFit /\ Pointers

\* A step of thread t.
Act(t) ==
    \/ parkFor(t)  \/ unpark(t)  \/ LockTry(t)   \/ Unlock(t) \/ AwaitLoad(t)
    \/ LockCall(t) \/ TryLock(t) \/ AwaitCall(t) \/ Store(t)  \/ WaitSpurious(t)

LEMMA CastKept ==
    ASSUME UNCHANGED cast
    PROVE  /\ UNCHANGED <<Lockers, Changers, Equals, Timed, Wakers>>
           /\ \A t : AddrOf(t)' = AddrOf(t) /\ mask(t)' = mask(t)
BY DEF Lockers, Changers, Equals, Timed, Wakers, AddrOf, mask

-----------------------------------------------------------------------------
(* The counter.                                                             *)

\* The threads that are counted without a node.
Counting == {t \in Threads : pc[t] \in {"p_lock", "p_cond", "p_skip"}}

LEMMA Counted == /\ IsFiniteSet(Counting) /\ Cardinality(Counting) \in Nat
                 /\ CountExact <=> count = Len(list) + Cardinality(Counting)
<1>1. IsFiniteSet(Threads) /\ Counting \subseteq Threads
  BY LotAssumption DEF Counting
<1>2. IsFiniteSet(Counting) /\ Cardinality(Counting) \in Nat
  BY <1>1, FS_Subset, FS_CardinalityType
<1> QED
  BY <1>2 DEF CountExact, Counting

LEMMA ListIs ==
    ASSUME TypeOK
    PROVE  list \in Seq(Cells) /\ Once(list) /\ Nodes = ItemsOf(list) /\ Nodes \subseteq Cells
BY DEF TypeOK, Once, Nodes, ItemsOf

LEMMA InsertIs ==
    ASSUME LotInv, NEW t \in Threads, NEW c \in Cells, Allocatable(c), insertHead(t, c)
    PROVE  /\ list' \in Seq(Cells) /\ Once(list') /\ Len(list') = Len(list) + 1
           /\ Nodes' = Nodes \cup {c} /\ c \notin Nodes
<1>1. list \in Seq(Cells) /\ Once(list) /\ Nodes = ItemsOf(list)
  BY ListIs DEF LotInv
<1>2. c \notin Nodes
  BY DEF LotInv, NodesFit, Allocatable
<1>3. list' = <<c>> \o list
  BY DEF insertHead
<1>4. list' \in Seq(Cells) /\ Once(list') /\ Len(list') = Len(list) + 1 /\ ItemsOf(list') = ItemsOf(list) \cup {c}
  BY <1>1, <1>2, <1>3, InsertHead
<1>5. Nodes' = ItemsOf(list')
  BY DEF Nodes, ItemsOf
<1> QED
  BY <1>1, <1>2, <1>4, <1>5

LEMMA EraseIs ==
    ASSUME TypeOK, NEW c \in Nodes, erase(c)
    PROVE  /\ list' \in Seq(Cells) /\ Once(list') /\ Len(list') = Len(list) - 1
           /\ Nodes' = Nodes \ {c} /\ heap' = [heap EXCEPT ![c].live = FALSE]
<1>1. list \in Seq(Cells) /\ Once(list) /\ Nodes = ItemsOf(list)
  BY ListIs
<1>2. PICK i \in 1..Len(list) : list[i] = c /\ list' = Without(list, i) /\ heap' = [heap EXCEPT ![c].live = FALSE]
  <2>1. DOMAIN list = 1..Len(list)
    BY <1>1
  <2>2. PICK i \in DOMAIN list :
            /\ list[i] = c
            /\ list' = SubSeq(list, 1, i - 1) \o SubSeq(list, i + 1, Len(list))
            /\ heap' = [heap EXCEPT ![c].live = FALSE]
    BY DEF erase
  <2> QED
    BY <2>1, <2>2 DEF Without
<1>3. /\ list' \in Seq(Cells) /\ Once(list') /\ Len(list') = Len(list) - 1
      /\ ItemsOf(list') = ItemsOf(list) \ {c}
  BY <1>1, <1>2, Unlink
<1>4. Nodes' = ItemsOf(list')
  BY DEF Nodes, ItemsOf
<1> QED
  BY <1>1, <1>2, <1>3, <1>4

\* What each of the steps that touch the queue finds.
LEMMA EraseFinds ==
    ASSUME LotInv, NEW t \in Threads
    PROVE  /\ TimeoutCheck(t) /\ ~heap[ptr[t]].signaled => ptr[t] \in Nodes
           /\ UnparkErase(t) => Head(walk[t]) \in Nodes /\ walk[t] # <<>>
<1>1. ASSUME UnparkErase(t)
      PROVE  Head(walk[t]) \in Nodes /\ walk[t] # <<>>
  <2>1. walk[t] \in Seq(Cells) /\ Once(walk[t]) /\ walk[t] # <<>> /\ ItemsOf(walk[t]) \subseteq Nodes
    BY <1>1 DEF LotInv, TypeOK, Walks, UnparkErase
  <2> QED
    BY <2>1, WalkOn
<1>2. ASSUME TimeoutCheck(t), ~heap[ptr[t]].signaled
      PROVE  ptr[t] \in Nodes
  BY <1>2 DEF LotInv, Pointers, TimeoutCheck, Return, Goto, NodePC
<1> QED
  BY <1>1, <1>2

LEMMA CountStep ==
    ASSUME LotInv, NEW t \in Threads, Act(t)
    PROVE  count' \in Nat /\ CountExact'
<1> USE DEF LotInv
<1>1. /\ count \in Nat /\ list \in Seq(Cells) /\ pc \in [Threads -> {"idle", "load", "held", "done"} \cup ParkPC \cup UnparkPC]
      /\ IsFiniteSet(Counting) /\ Cardinality(Counting) \in Nat
      /\ count = Len(list) + Cardinality(Counting)
  BY Counted DEF TypeOK
<1>2. CountExact' <=> count' = Len(list') + Cardinality(Counting')
  BY DEF CountExact, Counting
<1>3. CASE ParkCount(t)
  <2>1. Counting' = Counting \cup {t} /\ t \notin Counting /\ count' = count + 1 /\ list' = list
    BY <1>1, <1>3 DEF ParkCount, Goto, Counting
  <2>2. Cardinality(Counting') = Cardinality(Counting) + 1
    BY <1>1, <2>1, FS_AddElement
  <2> QED
    BY <1>1, <1>2, <2>1, <2>2
<1>4. CASE ParkSkip(t)
  <2>1. Counting' = Counting \ {t} /\ t \in Counting /\ count' = count - 1 /\ list' = list
    BY <1>1, <1>4 DEF ParkSkip, Return, Goto, Counting
  <2>2. Cardinality(Counting') = Cardinality(Counting) - 1 /\ Cardinality(Counting) > 0
    BY <1>1, <2>1, FS_RemoveElement, FS_EmptySet, FS_CardinalityType
  <2> QED
    BY <1>1, <1>2, <2>1, <2>2
<1>5. CASE ParkCond(t) /\ Goto(t, "p_cond", "p_skip") /\ UNCHANGED <<list, heap, ptr>>
  <2>1. Counting' = Counting /\ count' = count /\ list' = list
    BY <1>1, <1>5 DEF ParkCond, Goto, Counting
  <2> QED
    BY <1>1, <1>2, <2>1
<1>6. ASSUME NEW c \in Cells, ParkCond(t), Allocatable(c), insertHead(t, c), Goto(t, "p_cond", "p_check")
      PROVE  count' \in Nat /\ CountExact'
  <2>1. Counting' = Counting \ {t} /\ t \in Counting /\ count' = count
    BY <1>1, <1>6 DEF ParkCond, Goto, Counting
  <2>2. Cardinality(Counting') = Cardinality(Counting) - 1
    BY <1>1, <2>1, FS_RemoveElement
  <2>3. Len(list') = Len(list) + 1
    BY <1>6, InsertIs
  <2> QED
    BY <1>1, <1>2, <2>1, <2>2, <2>3
<1>7. CASE TimeoutCheck(t) /\ ~heap[ptr[t]].signaled
  <2>1. Counting' = Counting /\ count' = count - 1 /\ erase(ptr[t])
    BY <1>1, <1>7 DEF TimeoutCheck, Return, Goto, Counting
  <2>2. Len(list') = Len(list) - 1 /\ list' \in Seq(Cells)
    BY <1>7, <2>1, EraseFinds, EraseIs
  <2> QED
    BY <1>1, <1>2, <2>1, <2>2
<1>8. CASE UnparkErase(t)
  <2>1. Counting' = Counting /\ count' = count - 1 /\ erase(Head(walk[t]))
    BY <1>1, <1>8 DEF UnparkErase, Leave, Goto, Counting
  <2>2. Len(list') = Len(list) - 1 /\ list' \in Seq(Cells)
    BY <1>8, <2>1, EraseFinds, EraseIs
  <2> QED
    BY <1>1, <1>2, <2>1, <2>2
<1>9. CASE \/ ParkLock(t) \/ WaitCheck(t) \/ WaitTimeout(t) \/ TimeoutLock(t) \/ WaitSpurious(t)
           \/ TimeoutCheck(t) /\ heap[ptr[t]].signaled
  <2>1. Counting' = Counting /\ count' = count /\ list' = list
    BY <1>1, <1>9 DEF ParkLock, WaitCheck, WaitTimeout, TimeoutLock, WaitSpurious, TimeoutCheck,
       LockQueue, Return, Goto, lotVars, Counting
  <2> QED
    BY <1>1, <1>2, <2>1
<1>10. CASE UnparkCount(t) \/ UnparkLock(t) \/ UnparkWalk(t) \/ UnparkWake(t)
  <2>1. Counting' = Counting /\ count' = count /\ list' = list
    BY <1>1, <1>10 DEF UnparkCount, UnparkLock, UnparkWalk, UnparkWake, LockQueue, Leave, Goto, lotVars, Counting
  <2> QED
    BY <1>1, <1>2, <2>1
<1>11. CASE \/ LockTry(t) \/ Unlock(t) \/ AwaitLoad(t)
            \/ LockCall(t) \/ TryLock(t) \/ AwaitCall(t) \/ Store(t)
  <2>1. Counting' = Counting /\ count' = count /\ list' = list
    BY <1>1, <1>11 DEF LockTry, Unlock, AwaitLoad, LockCall, TryLock, AwaitCall, Store,
       Begin, Goto, lotVars, Counting
  <2> QED
    BY <1>1, <1>2, <2>1
<1>12. ParkCond(t) =>
          \/ Goto(t, "p_cond", "p_skip") /\ UNCHANGED <<list, heap, ptr>>
          \/ \E c \in Cells : Allocatable(c) /\ insertHead(t, c) /\ Goto(t, "p_cond", "p_check")
  BY DEF ParkCond
<1> QED
  BY <1>3, <1>4, <1>5, <1>6, <1>7, <1>8, <1>9, <1>10, <1>11, <1>12 DEF Act, parkFor, unpark

-----------------------------------------------------------------------------
(* Who changes what.                                                        *)

\* What each step changes.
LEMMA Frames ==
    ASSUME NEW t \in Threads, Act(t)
    PROVE  /\ UNCHANGED word \/ LockTry(t) \/ TryLock(t) \/ Unlock(t) \/ Store(t)
           /\ UNCHANGED holder \/ ParkLock(t) \/ ParkCond(t) \/ TimeoutLock(t) \/
             TimeoutCheck(t) \/ UnparkLock(t) \/ UnparkWalk(t) \/ UnparkErase(t)
           /\ UNCHANGED <<list, heap>> \/ ParkCond(t) \/ TimeoutCheck(t) \/ UnparkWake(t) \/
             UnparkErase(t)
           /\ UNCHANGED list \/ ParkCond(t) \/ TimeoutCheck(t) \/ UnparkErase(t)
           /\ UNCHANGED expected \/ LockTry(t) \/ AwaitCall(t) \/ AwaitLoad(t)
           /\ UNCHANGED ptr \/ ParkCond(t)
           /\ UNCHANGED walk \/ UnparkLock(t) \/ UnparkWalk(t) \/ UnparkErase(t)
           /\ UNCHANGED budget \/ UnparkErase(t) \/ Unlock(t) \/ Store(t)
           /\ UNCHANGED rounds \/ LockCall(t) \/ TryLock(t) \/ AwaitCall(t) \/ Store(t)
           /\ UNCHANGED result \/ ParkSkip(t) \/ WaitCheck(t) \/ TimeoutCheck(t)
           /\ UNCHANGED chosen \/ ParkCount(t) \/ UnparkWake(t)
<1>1. UNCHANGED word \/ LockTry(t) \/ TryLock(t) \/ Unlock(t) \/ Store(t)
  BY DEF Act, parkFor, unpark, ParkCount, ParkLock, ParkCond, ParkSkip, WaitCheck, WaitSpurious,
    WaitTimeout, TimeoutLock, TimeoutCheck, UnparkCount, UnparkLock, UnparkWalk, UnparkWake,
    UnparkErase, LockCall, AwaitCall, AwaitLoad, lotVars, parkVars, wakeVars
<1>2. UNCHANGED holder \/ ParkLock(t) \/ ParkCond(t) \/ TimeoutLock(t) \/ TimeoutCheck(t)
        \/ UnparkLock(t) \/ UnparkWalk(t) \/ UnparkErase(t)
  BY DEF Act, parkFor, unpark, ParkCount, ParkSkip, WaitCheck, WaitSpurious, WaitTimeout,
    UnparkCount, UnparkWake, LockCall, LockTry, TryLock, Unlock, AwaitCall, AwaitLoad, Store,
    lotVars, parkVars, wakeVars
<1>3. UNCHANGED <<list, heap>> \/ ParkCond(t) \/ TimeoutCheck(t) \/ UnparkWake(t) \/
        UnparkErase(t)
  BY DEF Act, parkFor, unpark, ParkCount, ParkLock, ParkSkip, WaitCheck, WaitSpurious,
    WaitTimeout, TimeoutLock, UnparkCount, UnparkLock, UnparkWalk, LockCall, LockTry, TryLock,
    Unlock, AwaitCall, AwaitLoad, Store, lotVars, parkVars, wakeVars
<1>4. UNCHANGED list \/ ParkCond(t) \/ TimeoutCheck(t) \/ UnparkErase(t)
  BY DEF Act, parkFor, unpark, ParkCount, ParkLock, ParkSkip, WaitCheck, WaitSpurious,
    WaitTimeout, TimeoutLock, UnparkCount, UnparkLock, UnparkWalk, UnparkWake, LockCall, LockTry,
    TryLock, Unlock, AwaitCall, AwaitLoad, Store, lotVars, parkVars, wakeVars
<1>5. UNCHANGED expected \/ LockTry(t) \/ AwaitCall(t) \/ AwaitLoad(t)
  BY DEF Act, parkFor, unpark, ParkCount, ParkLock, ParkCond, ParkSkip, WaitCheck, WaitSpurious,
    WaitTimeout, TimeoutLock, TimeoutCheck, UnparkCount, UnparkLock, UnparkWalk, UnparkWake,
    UnparkErase, LockCall, TryLock, Unlock, Store, lotVars, parkVars, wakeVars
<1>6. UNCHANGED ptr \/ ParkCond(t)
  BY DEF Act, parkFor, unpark, ParkCount, ParkLock, ParkSkip, WaitCheck, WaitSpurious,
    WaitTimeout, TimeoutLock, TimeoutCheck, UnparkCount, UnparkLock, UnparkWalk, UnparkWake,
    UnparkErase, LockCall, LockTry, TryLock, Unlock, AwaitCall, AwaitLoad, Store, lotVars,
    parkVars, wakeVars
<1>7. UNCHANGED walk \/ UnparkLock(t) \/ UnparkWalk(t) \/ UnparkErase(t)
  BY DEF Act, parkFor, unpark, ParkCount, ParkLock, ParkCond, ParkSkip, WaitCheck, WaitSpurious,
    WaitTimeout, TimeoutLock, TimeoutCheck, UnparkCount, UnparkWake, LockCall, LockTry, TryLock,
    Unlock, AwaitCall, AwaitLoad, Store, lotVars, parkVars, wakeVars
<1>8. UNCHANGED budget \/ UnparkErase(t) \/ Unlock(t) \/ Store(t)
  BY DEF Act, parkFor, unpark, ParkCount, ParkLock, ParkCond, ParkSkip, WaitCheck, WaitSpurious,
    WaitTimeout, TimeoutLock, TimeoutCheck, UnparkCount, UnparkLock, UnparkWalk, UnparkWake,
    LockCall, LockTry, TryLock, AwaitCall, AwaitLoad, lotVars, parkVars, wakeVars
<1>9. UNCHANGED rounds \/ LockCall(t) \/ TryLock(t) \/ AwaitCall(t) \/ Store(t)
  BY DEF Act, parkFor, unpark, ParkCount, ParkLock, ParkCond, ParkSkip, WaitCheck, WaitSpurious,
    WaitTimeout, TimeoutLock, TimeoutCheck, UnparkCount, UnparkLock, UnparkWalk, UnparkWake,
    UnparkErase, LockTry, Unlock, AwaitLoad, lotVars, parkVars, wakeVars
<1>10. UNCHANGED result \/ ParkSkip(t) \/ WaitCheck(t) \/ TimeoutCheck(t)
  BY DEF Act, parkFor, unpark, ParkCount, ParkLock, ParkCond, WaitSpurious, WaitTimeout,
    TimeoutLock, UnparkCount, UnparkLock, UnparkWalk, UnparkWake, UnparkErase, LockCall, LockTry,
    TryLock, Unlock, AwaitCall, AwaitLoad, Store, lotVars, parkVars, wakeVars
<1>11. UNCHANGED chosen \/ ParkCount(t) \/ UnparkWake(t)
  BY DEF Act, parkFor, unpark, ParkLock, ParkCond, ParkSkip, WaitCheck, WaitSpurious,
    WaitTimeout, TimeoutLock, TimeoutCheck, UnparkCount, UnparkLock, UnparkWalk, UnparkErase,
    LockCall, LockTry, TryLock, Unlock, AwaitCall, AwaitLoad, Store, lotVars, parkVars, wakeVars
<1> QED
  BY <1>1, <1>2, <1>3, <1>4, <1>5, <1>6, <1>7, <1>8, <1>9, <1>10, <1>11

PCs == {"idle", "load", "held", "done"} \cup ParkPC \cup UnparkPC

\* The step of each thread; a waker may also stir the thread it wakes.
LEMMA PcTypes ==
    ASSUME TypeOK, NEW t \in Threads, Act(t)
    PROVE  /\ pc' \in [Threads -> PCs]
           /\ \A u \in Threads \ {t} :
                 pc'[u] = pc[u] \/ (UnparkWake(t) /\ pc[u] = "p_asleep" /\ pc'[u] = "p_check")
<1>1. pc \in [Threads -> PCs]
  BY DEF TypeOK, PCs
<1>2. UnparkWake(t) \/ \E to \in PCs : pc' = [pc EXCEPT ![t] = to]
  <2>1. CASE parkFor(t) \/ WaitSpurious(t)
    BY <2>1 DEF parkFor, ParkCount, ParkLock, ParkCond, ParkSkip, WaitCheck, WaitSpurious, WaitTimeout,
       TimeoutLock, TimeoutCheck, LockQueue, Return, Goto, PCs, ParkPC
  <2>2. CASE unpark(t) /\ ~UnparkWake(t)
    <3>1. CASE UnparkWalk(t) /\ UNCHANGED <<holder, pc>>
      BY <1>1, <3>1 
    <3>2. CASE ~(UnparkWalk(t) /\ UNCHANGED <<holder, pc>>)
      BY <2>2, <3>2 DEF unpark, UnparkCount, UnparkLock, UnparkWalk, UnparkErase, LockQueue, Leave, Goto,
         PCs, UnparkPC
    <3> QED
      BY <3>1, <3>2
  <2>3. CASE \/ LockTry(t) \/ Unlock(t) \/ AwaitLoad(t) \/ LockCall(t) \/ TryLock(t)
             \/ AwaitCall(t) \/ Store(t)
    BY <2>3 DEF LockTry, Unlock, AwaitLoad, LockCall, TryLock, AwaitCall, Store, Begin, Goto,
       PCs, ParkPC, UnparkPC
  <2> QED
    BY <2>1, <2>2, <2>3 DEF Act
<1>3. CASE UnparkWake(t)
  <2>1. CASE pc' = [pc EXCEPT ![t] = "u_erase"]
    BY <1>1, <2>1 DEF PCs, UnparkPC
  <2>2. ASSUME NEW u \in Threads, pc[u] = "p_asleep", pc' = [pc EXCEPT ![t] = "u_erase", ![u] = "p_check"]
        PROVE  /\ pc' \in [Threads -> PCs]
               /\ \A v \in Threads \ {t} :
                     pc'[v] = pc[v] \/ (pc[v] = "p_asleep" /\ pc'[v] = "p_check")
    BY <1>1, <2>2 DEF PCs, ParkPC, UnparkPC
  <2> QED
    BY <1>3, <2>1, <2>2 DEF UnparkWake
<1>4. CASE \E to \in PCs : pc' = [pc EXCEPT ![t] = to]
  BY <1>1, <1>4
<1> QED
  BY <1>2, <1>3, <1>4

LEMMA TypesStep ==
    ASSUME LotInv, NEW t \in Threads, Act(t), UNCHANGED cast
    PROVE  TypeOK'
<1> USE DEF LotInv
<1>1. count' \in Nat
  BY CountStep
<1>2. pc' \in [Threads -> {"idle", "load", "held", "done"} \cup ParkPC \cup UnparkPC]
  BY PcTypes DEF PCs
<1>3. cast' \in Castings /\ AddrOf(t) \in Addrs /\ mask(t) \in SUBSET Bits
  <2>1. cast[t].addr \in Addrs
    BY LotAssumption DEF TypeOK
  <2>2. Desired % 32 \in 0..31
    BY LotAssumption
  <2> QED
    BY <2>1, <2>2 DEF TypeOK, AddrOf, mask, Bits
<1>4. word' \in [Addrs -> Nat]
  <2>1. word[AddrOf(t)] \in Nat
    BY <1>3 DEF TypeOK
  <2>2. UNCHANGED word \/ \E n \in Nat : word' = [word EXCEPT ![AddrOf(t)] = n]
    <3>1. Store(t) => word' = [word EXCEPT ![AddrOf(t)] = word[AddrOf(t)] + 1]
      BY DEF Store
    <3>2. LockTry(t) => UNCHANGED word \/ word' = [word EXCEPT ![AddrOf(t)] = 1]
      BY DEF LockTry
    <3>3. TryLock(t) => UNCHANGED word \/ word' = [word EXCEPT ![AddrOf(t)] = 1]
      BY DEF TryLock
    <3>4. Unlock(t) => word' = [word EXCEPT ![AddrOf(t)] = 0]
      BY DEF Unlock
    <3> QED
      BY <2>1, <3>1, <3>2, <3>3, <3>4, Frames
  <2> QED
    BY <1>3, <2>2 DEF TypeOK
<1>5. holder' \in Threads \cup {NoThread}
  BY Frames DEF TypeOK, ParkLock, ParkCond, TimeoutLock, TimeoutCheck, UnparkLock, UnparkWalk, UnparkErase,
     LockQueue
<1>6. rounds' \in [Threads -> 0..MaxRounds]
  <2>1. UNCHANGED rounds \/ (rounds[t] > 0 /\ rounds' = [rounds EXCEPT ![t] = rounds[t] - 1])
    BY Frames DEF LockCall, TryLock, AwaitCall, Store, Begin
  <2>2. rounds \in [Threads -> 0..MaxRounds] /\ rounds[t] \in 0..MaxRounds /\ MaxRounds \in Nat
    BY LotAssumption DEF TypeOK
  <2>3. UNCHANGED rounds \/ \E n \in 0..MaxRounds : rounds' = [rounds EXCEPT ![t] = n]
    <3>1. rounds[t] > 0 => rounds[t] - 1 \in 0..MaxRounds
      BY <2>2
    <3> QED
      BY <2>1, <3>1
  <2> QED
    BY <2>2, <2>3
<1>7. expected' \in [Threads -> Nat]
  BY <1>3, Frames DEF TypeOK, LockTry, AwaitCall, AwaitLoad
<1>8. ptr' \in [Threads -> Cells]
  <2>1. UNCHANGED ptr \/ \E c \in Cells : ptr' = [ptr EXCEPT ![t] = c]
    BY Frames DEF ParkCond, insertHead
  <2> QED
    BY <2>1 DEF TypeOK
<1>9. walk' \in [Threads -> Seq(Cells)]
  <2>1. CASE UnparkLock(t)
    BY <2>1 DEF TypeOK, UnparkLock
  <2>2. CASE UnparkWalk(t) /\ walk[t] = <<>> /\ UNCHANGED walk
    BY <2>2 DEF TypeOK
  <2>3. CASE (UnparkWalk(t) \/ UnparkErase(t)) /\ walk' = [walk EXCEPT ![t] = Tail(@)] /\ walk[t] # <<>>
    BY <2>3 DEF TypeOK
  <2> QED
    BY <2>1, <2>2, <2>3, Frames, EraseFinds DEF TypeOK, UnparkWalk, UnparkErase
<1>10. budget' \in [Threads -> Nat]
  <2>1. CASE Unlock(t) \/ Store(t)
    <3>1. WakeCount[t] \in Nat
      BY LotAssumption
    <3>2. \E n \in Nat : budget' = [budget EXCEPT ![t] = n]
      BY <2>1, <3>1 DEF Unlock, Store
    <3> QED
      BY <3>2 DEF TypeOK
  <2>2. CASE UnparkErase(t)
    <3>1. budget[t] > 0 /\ budget[t] \in Nat
      BY <2>2 DEF TypeOK, RolesFit, UnparkErase, UnparkPC
    <3> QED
      BY <2>2, <3>1 DEF TypeOK, UnparkErase
  <2> QED
    BY <2>1, <2>2, Frames DEF TypeOK
<1>11. result' \in [Threads -> {"none", "skip", "unpark", "timeout"}]
  BY Frames DEF TypeOK, ParkSkip, WaitCheck, TimeoutCheck, Return
<1>12. chosen' \subseteq Threads
  <2>1. CASE UnparkWake(t)
    <3>1. walk[t] \in Seq(Cells) /\ Once(walk[t]) /\ walk[t] # <<>> /\ ItemsOf(walk[t]) \subseteq Nodes
      BY <2>1 DEF TypeOK, Walks, UnparkWake
    <3>2. Head(walk[t]) \in Nodes
      BY <3>1, WalkOn
    <3> QED
      BY <2>1, <3>2 DEF TypeOK, NodesFit, UnparkWake
  <2> QED
    BY <2>1, Frames DEF TypeOK, ParkCount
<1>13. list' \in Seq(Cells) /\ Once(list')
  <2>1. ASSUME NEW c \in Cells, Allocatable(c), insertHead(t, c)
        PROVE  list' \in Seq(Cells) /\ Once(list')
    BY <2>1, InsertIs
  <2>2. ASSUME NEW c, erase(c)
        PROVE  list' \in Seq(Cells) /\ Once(list')
    <3>1. c \in Nodes \/ UNCHANGED list
      BY <2>2 DEF erase, Nodes
    <3> QED
      BY <2>2, <3>1, EraseIs, ListIs
  <2> QED
    BY <2>1, <2>2, Frames, ListIs DEF ParkCond, TimeoutCheck, UnparkErase
<1>14. heap' \in [Cells -> WaitNode]
  <2>1. heap \in [Cells -> WaitNode]
    BY DEF TypeOK
  <2>2. ASSUME NEW c \in Cells, insertHead(t, c)
        PROVE  heap' \in [Cells -> WaitNode]
    BY <1>3, <2>1, <2>2 DEF insertHead, WaitNode
  <2>3. ASSUME NEW c, erase(c)
        PROVE  heap' \in [Cells -> WaitNode]
    <3>1. UNCHANGED heap \/ (c \in Cells /\ heap' = [heap EXCEPT ![c].live = FALSE])
      BY <2>3, ListIs DEF erase, Nodes
    <3> QED
      BY <2>1, <3>1 DEF WaitNode
  <2>4. CASE UnparkWake(t)
    BY <2>1, <2>4 DEF UnparkWake, WaitNode
  <2> QED
    BY <2>1, <2>2, <2>3, <2>4, Frames DEF ParkCond, TimeoutCheck, UnparkErase
<1> QED
  BY <1>1, <1>2, <1>3, <1>4, <1>5, <1>6, <1>7, <1>8, <1>9, <1>10, <1>11, <1>12, <1>13, <1>14 DEF TypeOK, Once

-----------------------------------------------------------------------------
(* The lock of the queue.                                                   *)

\* What a step leaves alone in the other threads.
LEMMA Others ==
    ASSUME TypeOK, NEW t \in Threads, Act(t), NEW u \in Threads, u # t
    PROVE  /\ pc'[u] = pc[u] \/ (UnparkWake(t) /\ pc[u] = "p_asleep" /\ pc'[u] = "p_check")
           /\ ptr'[u] = ptr[u] /\ walk'[u] = walk[u] /\ budget'[u] = budget[u]
           /\ result'[u] = result[u] /\ expected'[u] = expected[u]
<1>1. ptr'[u] = ptr[u]
  <2>1. UNCHANGED ptr \/ \E c : ptr' = [ptr EXCEPT ![t] = c]
    BY Frames DEF ParkCond, insertHead
  <2> QED
    BY <2>1 DEF TypeOK
<1>2. walk'[u] = walk[u]
  <2>1. UNCHANGED walk \/ \E s : walk' = [walk EXCEPT ![t] = s]
    BY Frames DEF UnparkLock, UnparkWalk, UnparkErase
  <2> QED
    BY <2>1 DEF TypeOK
<1>3. budget'[u] = budget[u]
  <2>1. UNCHANGED budget \/ \E n : budget' = [budget EXCEPT ![t] = n]
    BY Frames DEF UnparkErase, Unlock, Store
  <2> QED
    BY <2>1 DEF TypeOK
<1>4. result'[u] = result[u]
  BY Frames DEF TypeOK, ParkSkip, WaitCheck, TimeoutCheck, Return
<1>5. expected'[u] = expected[u]
  BY Frames DEF TypeOK, LockTry, AwaitCall, AwaitLoad
<1> QED
  BY <1>1, <1>2, <1>3, <1>4, <1>5, PcTypes

\* A step takes the lock, gives it back or leaves it alone.
LEMMA LockMoves ==
    ASSUME LotInv, NEW t \in Threads, Act(t)
    PROVE  \/ holder = NoThread /\ holder' = t /\ pc'[t] \in InQueueLock
           \/ pc[t] \in InQueueLock /\ holder' = NoThread /\ pc'[t] \notin InQueueLock
           \/ UNCHANGED holder /\ (pc[t] \in InQueueLock <=> pc'[t] \in InQueueLock)
<1>1. pc \in [Threads -> PCs]
  BY DEF LotInv, TypeOK, PCs
<1>2. CASE ParkLock(t) \/ TimeoutLock(t) \/ UnparkLock(t)
  BY <1>1, <1>2 DEF ParkLock, TimeoutLock, UnparkLock, LockQueue, Goto, InQueueLock
<1>3. CASE ParkCond(t) \/ TimeoutCheck(t)
  BY <1>1, <1>3 DEF ParkCond, TimeoutCheck, Return, Goto, InQueueLock
<1>4. CASE UnparkWalk(t)
  BY <1>1, <1>4 DEF UnparkWalk, Leave, Goto, InQueueLock
<1>5. CASE UnparkErase(t)
  BY <1>1, <1>5 DEF UnparkErase, Leave, Goto, InQueueLock
<1>6. CASE UnparkWake(t)
  <2>1. pc[t] = "u_walk" /\ pc'[t] = "u_erase" /\ UNCHANGED holder
    BY <1>1, <1>6 DEF UnparkWake
  <2> QED
    BY <2>1 DEF InQueueLock
<1>7. CASE \/ ParkCount(t) \/ ParkSkip(t) \/ WaitCheck(t) \/ WaitTimeout(t) \/ WaitSpurious(t)
           \/ UnparkCount(t)
  BY <1>1, <1>7 DEF ParkCount, ParkSkip, WaitCheck, WaitTimeout, WaitSpurious, UnparkCount, Return, Leave,
     Goto, lotVars, InQueueLock
<1>8. CASE \/ LockTry(t) \/ Unlock(t) \/ AwaitLoad(t)
           \/ LockCall(t) \/ TryLock(t) \/ AwaitCall(t) \/ Store(t)
  BY <1>1, <1>8 DEF LockTry, Unlock, AwaitLoad, LockCall, TryLock, AwaitCall, Store, Begin, Goto, lotVars,
     InQueueLock
<1> QED
  BY <1>2, <1>3, <1>4, <1>5, <1>6, <1>7, <1>8 DEF Act, parkFor, unpark

LEMMA LockingStep ==
    ASSUME LotInv, NEW t \in Threads, Act(t)
    PROVE  Locking'
<1> SUFFICES ASSUME NEW u \in Threads PROVE holder' = u <=> pc'[u] \in InQueueLock
  BY DEF Locking
<1>1. t # NoThread /\ u # NoThread /\ (holder = u <=> pc[u] \in InQueueLock) /\ (holder = t <=> pc[t] \in InQueueLock)
  BY LotAssumption DEF LotInv, Locking
<1>2. u # t => (pc'[u] \in InQueueLock <=> pc[u] \in InQueueLock)
  BY Others DEF LotInv, InQueueLock
<1> QED
  BY <1>1, <1>2, LockMoves

\* A thread that holds the lock has the queue for itself.
LEMMA QueueIsOnes ==
    ASSUME LotInv, NEW t \in Threads, Act(t), NEW u \in Threads, u # t, pc[u] \in InQueueLock
    PROVE  pc[t] \notin InQueueLock /\ UNCHANGED <<list, heap>> /\ pc'[u] = pc[u]
<1>1. holder = u /\ pc[t] \notin InQueueLock
  BY DEF LotInv, Locking
<1>2. ~(ParkCond(t) \/ TimeoutCheck(t) \/ UnparkWake(t) \/ UnparkErase(t))
  BY <1>1 DEF ParkCond, TimeoutCheck, Return, UnparkWake, UnparkErase, Goto, InQueueLock
<1>3. UNCHANGED <<list, heap>>
  BY <1>2, Frames
<1> QED
  BY <1>1, <1>2, <1>3, Others DEF LotInv

LEMMA RolesFitStep ==
    ASSUME LotInv, NEW t \in Threads, Act(t), UNCHANGED cast
    PROVE  RolesFit'
<1> DEFINE Fits(u) ==
        /\ pc'[u] = "held" => u \in Lockers
        /\ pc'[u] = "load" => u \in Lockers \cup Changers \cup Equals
        /\ pc'[u] \in UnparkPC => u \in Lockers \cup Wakers /\ budget'[u] > 0
        /\ pc'[u] \in ParkPC => u \notin Wakers
        /\ pc'[u] \in {"p_timeout", "p_signaled"} => u \in Timed
        /\ u \in Timed /\ result'[u] = "timeout" => pc'[u] = "done"
<1>1. ASSUME NEW u \in Threads, u # t
      PROVE  Fits(u)
  <2>1. /\ budget'[u] = budget[u] /\ result'[u] = result[u]
        /\ pc'[u] = pc[u] \/ (pc[u] = "p_asleep" /\ pc'[u] = "p_check")
    BY <1>1, Others DEF LotInv
  <2> QED
    BY <2>1 DEF LotInv, RolesFit, ParkPC, UnparkPC
<1>2. Fits(t)
  <2> USE DEF LotInv
  <2>1. /\ pc \in [Threads -> PCs] /\ budget \in [Threads -> Nat] /\ budget[t] \in Nat
        /\ result \in [Threads -> {"none", "skip", "unpark", "timeout"}]
    BY DEF TypeOK, PCs
  <2>2. cast[t].role \in Roles
    BY LotAssumption DEF TypeOK
  <2>3. t \in Timed => t \notin Lockers \cup Changers \cup Equals \cup Wakers
    BY DEF Timed, Lockers, Changers, Equals, Wakers
  <2>4. UNCHANGED result \/ ParkSkip(t) \/ WaitCheck(t) \/ TimeoutCheck(t)
    BY Frames
  <2>5. UNCHANGED budget \/ UnparkErase(t) \/ Unlock(t) \/ Store(t)
    BY Frames
  <2>6. CASE ParkCount(t) \/ ParkLock(t) \/ ParkCond(t)
    <3>1. /\ UNCHANGED result
          /\ \/ pc[t] = "p_count" /\ pc'[t] = "p_lock"
             \/ pc[t] = "p_lock" /\ pc'[t] = "p_cond"
             \/ pc[t] = "p_cond" /\ pc'[t] \in {"p_check", "p_skip"}
      BY <2>1, <2>6 DEF ParkCount, ParkLock, ParkCond, LockQueue, Goto, parkVars
    <3> QED
      BY <2>3, <3>1 DEF RolesFit, ParkPC, UnparkPC
  <2>7. CASE ParkSkip(t) \/ WaitCheck(t)
    BY <2>1, <2>2, <2>3, <2>7 DEF RolesFit, ParkSkip, WaitCheck, Return, Goto, Timed, Lockers, Changers, Equals, Wakers, Roles, ParkPC, UnparkPC
  <2>8. CASE WaitTimeout(t) \/ TimeoutLock(t) \/ WaitSpurious(t)
    BY <2>1, <2>3, <2>8 DEF RolesFit, WaitTimeout, TimeoutLock, WaitSpurious, LockQueue, Goto, parkVars, ParkPC, UnparkPC
  <2>9. CASE TimeoutCheck(t)
    BY <2>1, <2>3, <2>9 DEF RolesFit, TimeoutCheck, Return, Goto, ParkPC, UnparkPC
  <2>10. CASE UnparkCount(t) \/ UnparkLock(t)
    BY <2>1, <2>3, <2>10 DEF RolesFit, UnparkCount, UnparkLock, LockQueue, Leave, Goto, parkVars, wakeVars, ParkPC, UnparkPC
  <2>11. CASE UnparkWalk(t) \/ UnparkWake(t)
    <3>1. /\ UNCHANGED <<result, budget>> /\ pc[t] = "u_walk"
          /\ pc'[t] \in {"u_walk", "u_erase", "idle", "done"}
      BY <2>1, <2>11 DEF UnparkWalk, UnparkWake, Leave, Goto, parkVars, wakeVars
    <3>2. t \notin Timed
      BY <2>3, <3>1 DEF RolesFit, UnparkPC
    <3> QED
      BY <3>1, <3>2 DEF RolesFit, ParkPC, UnparkPC
  <2>12. CASE UnparkErase(t)
    BY <2>1, <2>3, <2>12 DEF RolesFit, UnparkErase, Leave, Goto, parkVars, ParkPC, UnparkPC
  <2>13. CASE LockTry(t) \/ LockCall(t) \/ TryLock(t)
    <3>1. /\ UNCHANGED <<result, budget>> /\ t \in Lockers
          /\ pc'[t] \in {"load", "held", "p_count", "idle", "done"}
      BY <2>1, <2>13 DEF LockTry, LockCall, TryLock, Begin, Goto, parkVars, wakeVars
    <3>2. t \notin Timed /\ t \notin Wakers
      BY <2>3, <3>1 DEF Lockers, Wakers
    <3> QED
      BY <3>1, <3>2 DEF ParkPC, UnparkPC
  <2>14. CASE Unlock(t)
    BY <2>1, <2>3, <2>14 DEF RolesFit, Unlock, Goto, parkVars, ParkPC, UnparkPC
  <2>15. CASE AwaitLoad(t) \/ AwaitCall(t)
    <3>1. /\ UNCHANGED <<result, budget>> /\ t \in Changers \cup Equals \cup Timed /\ pc[t] # "done"
          /\ \/ pc'[t] \in {"load", "p_count", "done"} /\ t \notin Timed
             \/ pc'[t] \in {"load", "p_count"} /\ (pc'[t] = "load" => t \notin Timed)
      BY <2>1, <2>3, <2>15 DEF AwaitLoad, AwaitCall, Begin, Goto, parkVars, wakeVars
    <3>2. t \notin Wakers
      BY <3>1 DEF Changers, Equals, Timed, Wakers
    <3> QED
      BY <3>1, <3>2 DEF RolesFit, ParkPC, UnparkPC
  <2>16. CASE Store(t)
    <3>1. /\ UNCHANGED result /\ t \in Wakers /\ pc[t] = "idle" /\ pc'[t] = "u_count"
          /\ budget' = [budget EXCEPT ![t] = WakeCount[t]]
      BY <2>1, <2>16 DEF Store, Begin, Goto, parkVars
    <3>2. budget'[t] > 0
      <4>1. WakeCount[t] \in Nat \ {0}
        BY LotAssumption
      <4> QED
        BY <2>1, <3>1, <4>1
    <3> QED
      BY <2>3, <3>1, <3>2 DEF RolesFit, ParkPC, UnparkPC
  <2> QED
    BY <2>6, <2>7, <2>8, <2>9, <2>10, <2>11, <2>12, <2>13, <2>14, <2>15, <2>16 DEF Act, parkFor, unpark
<1>3. UNCHANGED <<Lockers, Changers, Equals, Timed, Wakers>>
  BY CastKept
<1> QED
  BY <1>1, <1>2, <1>3 DEF RolesFit

-----------------------------------------------------------------------------
(* The queue.                                                               *)

\* Where a thread that walks the queue came from.
LEMMA WalkMoves ==
    ASSUME LotInv, NEW t \in Threads, Act(t), pc'[t] \in {"u_walk", "u_erase"}
    PROVE  UnparkLock(t) \/ UnparkWalk(t) \/ UnparkWake(t) \/ UnparkErase(t)
<1>1. pc \in [Threads -> PCs]
  BY DEF LotInv, TypeOK, PCs
<1>2. CASE parkFor(t) \/ WaitSpurious(t)
  BY <1>1, <1>2 DEF parkFor, ParkCount, ParkLock, ParkCond, ParkSkip, WaitCheck, WaitSpurious, WaitTimeout,
     TimeoutLock, TimeoutCheck, LockQueue, Return, Goto
<1>3. CASE UnparkCount(t)
  BY <1>1, <1>3 DEF UnparkCount, Leave, Goto
<1>4. CASE \/ LockTry(t) \/ Unlock(t) \/ AwaitLoad(t)
           \/ LockCall(t) \/ TryLock(t) \/ AwaitCall(t) \/ Store(t)
  BY <1>1, <1>4 DEF LockTry, Unlock, AwaitLoad, LockCall, TryLock, AwaitCall, Store, Begin, Goto
<1> QED
  BY <1>2, <1>3, <1>4 DEF Act, unpark

LEMMA WalksStep ==
    ASSUME LotInv, NEW t \in Threads, Act(t), UNCHANGED cast
    PROVE  Walks'
<1> DEFINE Fine(u) ==
        /\ pc'[u] \in {"u_walk", "u_erase"} => ItemsOf(walk'[u]) \subseteq Nodes' /\ Once(walk'[u])
        /\ pc'[u] = "u_erase" => walk'[u] # <<>> /\ heap'[Head(walk'[u])].signaled /\ Matches(u, Head(walk[u]))'
<1>1. ASSUME NEW u \in Threads, u # t
      PROVE  Fine(u)
  <2> SUFFICES ASSUME pc'[u] \in {"u_walk", "u_erase"} PROVE Fine(u)
    OBVIOUS
  <2>1. pc'[u] = pc[u] /\ walk'[u] = walk[u]
    BY <1>1, Others DEF LotInv
  <2>2. UNCHANGED <<list, heap>>
    BY <1>1, <2>1, QueueIsOnes DEF InQueueLock
  <2>3. Nodes' = Nodes
    BY <2>2 DEF Nodes
  <2>4. Matches(u, Head(walk[u]))' = Matches(u, Head(walk[u]))
    BY <2>1, <2>2, CastKept DEF Matches
  <2> QED
    BY <2>1, <2>2, <2>3, <2>4 DEF LotInv, Walks
<1>2. Fine(t)
  <2> SUFFICES ASSUME pc'[t] \in {"u_walk", "u_erase"} PROVE Fine(t)
    OBVIOUS
  <2>1. pc \in [Threads -> PCs] /\ walk \in [Threads -> Seq(Cells)] /\ walk[t] \in Seq(Cells)
    BY DEF LotInv, TypeOK, PCs
  <2>2. pc[t] \in {"u_walk", "u_erase"} => ItemsOf(walk[t]) \subseteq Nodes /\ Once(walk[t])
    BY DEF LotInv, Walks
  <2>3. CASE UnparkLock(t)
    <3>1. walk'[t] = list /\ list' = list /\ pc'[t] = "u_walk"
      BY <2>1, <2>3 DEF UnparkLock, LockQueue, Goto
    <3>2. Once(list) /\ ItemsOf(list) = Nodes /\ Nodes' = Nodes
      BY <3>1, ListIs DEF LotInv, Nodes
    <3> QED
      BY <3>1, <3>2
  <2>4. CASE UnparkWalk(t)
    <3>1. pc[t] = "u_walk" /\ pc'[t] = "u_walk" /\ walk[t] # <<>> /\ walk'[t] = Tail(walk[t]) /\ list' = list
      BY <2>1, <2>4 DEF UnparkWalk, Leave, Goto
    <3>2. Once(Tail(walk[t])) /\ ItemsOf(Tail(walk[t])) \subseteq ItemsOf(walk[t])
      BY <2>1, <2>2, <3>1, WalkOn
    <3>3. Nodes' = Nodes
      BY <3>1 DEF Nodes
    <3> QED
      BY <2>2, <3>1, <3>2, <3>3
  <2>5. CASE UnparkWake(t)
    <3>1. /\ pc[t] = "u_walk" /\ walk[t] # <<>> /\ UNCHANGED <<walk, list>> /\ Matches(t, Head(walk[t]))
          /\ heap' = [heap EXCEPT ![Head(walk[t])].signaled = TRUE]
      BY <2>5 DEF UnparkWake, wakeVars
    <3>2. Nodes' = Nodes /\ ItemsOf(walk[t]) \subseteq Nodes /\ Once(walk[t])
      BY <2>2, <3>1 DEF Nodes
    <3>3. Head(walk[t]) \in Cells
      BY <2>1, <3>1
    <3>4. PICK c \in Cells : c = Head(walk[t])
      BY <3>3
    <3>5. heap'[c].signaled /\ heap'[c].key = heap[c].key /\ heap'[c].mask = heap[c].mask
      BY <3>1, <3>4 DEF LotInv, TypeOK, WaitNode
    <3>6. Matches(t, c)' = Matches(t, c)
      BY <3>5, CastKept DEF Matches
    <3>7. Matches(t, Head(walk[t]))'
      BY <3>1, <3>4, <3>6 DEF Matches
    <3> QED
      BY <3>1, <3>2, <3>4, <3>5, <3>7
  <2>6. CASE UnparkErase(t)
    <3>1. pc[t] = "u_erase" /\ pc'[t] = "u_walk" /\ walk'[t] = Tail(walk[t]) /\ erase(Head(walk[t]))
      BY <2>1, <2>6 DEF UnparkErase, Leave, Goto
    <3>2. Head(walk[t]) \in Nodes /\ walk[t] # <<>>
      BY <2>6, EraseFinds
    <3>3. Nodes' = Nodes \ {Head(walk[t])}
      BY <3>1, <3>2, EraseIs DEF LotInv
    <3>4. Once(Tail(walk[t])) /\ ItemsOf(Tail(walk[t])) = ItemsOf(walk[t]) \ {Head(walk[t])}
      BY <2>1, <2>2, <3>1, <3>2, WalkOn
    <3> QED
      BY <2>2, <3>1, <3>3, <3>4
  <2> QED
    BY <2>3, <2>4, <2>5, <2>6, WalkMoves
<1> QED
  BY <1>1, <1>2 DEF Walks

\* While a thread other than the one that wakes has the lock, no node is signaled.
LEMMA Unsignaled ==
    ASSUME LotInv, NEW t \in Threads, pc[t] \in InQueueLock, NEW c \in Nodes
    PROVE  /\ pc[t] # "u_erase" => ~heap[c].signaled
           /\ pc[t] = "u_erase" => (heap[c].signaled <=> c = Head(walk[t]))
<1>1. ASSUME heap[c].signaled
      PROVE  pc[t] = "u_erase" /\ c = Head(walk[t])
  <2>1. PICK u \in Threads : pc[u] = "u_erase" /\ Head(walk[u]) = c
    BY <1>1 DEF LotInv, NodesFit, BeingWoken
  <2>2. u = t
    BY <2>1 DEF LotInv, Locking, InQueueLock
  <2> QED
    BY <2>1, <2>2
<1> QED
  BY <1>1 DEF LotInv, Walks

\* A step that neither changes the queue nor signals a node.
Quiet(t) ==
    /\ Act(t) /\ ~UnparkWake(t) /\ ~UnparkErase(t)
    /\ TimeoutCheck(t) => heap[ptr[t]].signaled
    /\ ParkCond(t) => Goto(t, "p_cond", "p_skip")

\* It ends no wait but that of a thread whose node is signaled.
LEMMA QuietKeeps ==
    ASSUME LotInv, NEW t \in Threads, Quiet(t)
    PROVE  /\ UNCHANGED <<list, heap, ptr>>
           /\ pc[t] \in NodePC /\ ~heap[ptr[t]].signaled => pc'[t] \in NodePC
           /\ pc'[t] \in NodePC => pc[t] \in NodePC
           /\ UNCHANGED chosen \/ ParkCount(t)
           /\ \A u \in Threads \ {t} : pc'[u] = pc[u]
           /\ pc[t] # "u_erase"
<1> USE DEF Quiet
<1>1. pc \in [Threads -> PCs]
  BY DEF LotInv, TypeOK, PCs
<1>2. UNCHANGED <<list, heap, ptr>>
  <2>1. ParkCond(t) => UNCHANGED <<list, heap, ptr>>
    BY <1>1 DEF ParkCond, Goto
  <2>2. TimeoutCheck(t) => UNCHANGED <<list, heap>>
    BY DEF TimeoutCheck
  <2> QED
    BY <2>1, <2>2, Frames
<1>3. UNCHANGED chosen \/ ParkCount(t)
  BY Frames
<1>4. \A u \in Threads \ {t} : pc'[u] = pc[u]
  BY PcTypes DEF LotInv
<1>5. /\ pc[t] \in NodePC /\ ~heap[ptr[t]].signaled => pc'[t] \in NodePC
      /\ pc'[t] \in NodePC => pc[t] \in NodePC
      /\ pc[t] # "u_erase"
  <2>1. CASE (parkFor(t) /\ ~TimeoutCheck(t) /\ ~ParkCond(t)) \/ WaitSpurious(t)
    BY <1>1, <2>1 DEF parkFor, ParkCount, ParkLock, ParkSkip, WaitCheck, WaitTimeout, TimeoutLock, WaitSpurious,
       LockQueue, Return, Goto, NodePC
  <2>2. CASE TimeoutCheck(t)
    BY <1>1, <2>2 DEF TimeoutCheck, Return, Goto, NodePC
  <2>3. CASE ParkCond(t)
    BY <1>1, <2>3 DEF Goto, NodePC
  <2>4. CASE unpark(t)
    BY <1>1, <2>4 DEF unpark, UnparkCount, UnparkLock, UnparkWalk, LockQueue, Leave, Goto, NodePC
  <2>5. CASE \/ LockTry(t) \/ Unlock(t) \/ AwaitLoad(t)
             \/ LockCall(t) \/ TryLock(t) \/ AwaitCall(t) \/ Store(t)
    BY <1>1, <2>5 DEF LockTry, Unlock, AwaitLoad, LockCall, TryLock, AwaitCall, Store, Begin, Goto, NodePC
  <2> QED
    BY <2>1, <2>2, <2>3, <2>4, <2>5 DEF Act
<1> QED
  BY <1>2, <1>3, <1>4, <1>5

\* The four steps that do change it.
Inserts(t, c) ==
    /\ word[AddrOf(t)] = expected[t]
    /\ ParkCond(t) /\ c \in Cells /\ Allocatable(c) /\ insertHead(t, c) /\ Goto(t, "p_cond", "p_check")

GivesUp(t) == TimeoutCheck(t) /\ ~heap[ptr[t]].signaled

LEMMA QuietOrNot ==
    ASSUME NEW t, Act(t)
    PROVE  Quiet(t) \/ (\E c : Inserts(t, c)) \/ GivesUp(t) \/ UnparkWake(t) \/ UnparkErase(t)
<1>1. ParkCond(t) => Goto(t, "p_cond", "p_skip") \/ \E c : Inserts(t, c)
  BY DEF ParkCond, Inserts
<1> QED
  BY <1>1 DEF Quiet, GivesUp

\* What each of them does.
LEMMA InsertsDoes ==
    ASSUME LotInv, NEW t \in Threads, NEW c, Act(t), Inserts(t, c)
    PROVE  /\ pc[t] = "p_cond" /\ pc'[t] = "p_check" /\ \A u \in Threads \ {t} : pc'[u] = pc[u]
           /\ c \in Cells \ Nodes /\ Nodes' = Nodes \cup {c}
           /\ heap' = [heap EXCEPT ![c] = [key |-> AddrOf(t), mask |-> mask(t), signaled |-> FALSE,
                                           live |-> TRUE, owner |-> t]]
           /\ ptr' = [ptr EXCEPT ![t] = c] /\ UNCHANGED <<chosen, result, walk>>
<1>1. pc \in [Threads -> PCs]
  BY DEF LotInv, TypeOK, PCs
<1>2. pc[t] = "p_cond" /\ pc'[t] = "p_check" /\ UNCHANGED <<chosen, result, walk>>
  BY <1>1 DEF Inserts, Goto, ParkCond, wakeVars
<1>3. \A u \in Threads \ {t} : pc'[u] = pc[u]
  BY <1>1 DEF Inserts, Goto
<1> QED
  BY <1>2, <1>3, InsertIs DEF Inserts, insertHead

LEMMA GivesUpDoes ==
    ASSUME LotInv, NEW t \in Threads, Act(t), GivesUp(t)
    PROVE  /\ pc[t] = "p_signaled" /\ pc'[t] \in {"done", "load"} /\ \A u \in Threads \ {t} : pc'[u] = pc[u]
           /\ ptr[t] \in Nodes /\ Nodes' = Nodes \ {ptr[t]}
           /\ heap' = [heap EXCEPT ![ptr[t]].live = FALSE]
           /\ result' = [result EXCEPT ![t] = "timeout"] /\ UNCHANGED <<chosen, ptr, walk>>
<1>1. pc \in [Threads -> PCs]
  BY DEF LotInv, TypeOK, PCs
<1>2. /\ pc[t] = "p_signaled" /\ pc'[t] \in {"done", "load"} /\ \A u \in Threads \ {t} : pc'[u] = pc[u]
      /\ result' = [result EXCEPT ![t] = "timeout"] /\ UNCHANGED <<chosen, ptr, walk>> /\ erase(ptr[t])
  BY <1>1 DEF GivesUp, TimeoutCheck, Return, Goto, wakeVars
<1>3. ptr[t] \in Nodes
  BY EraseFinds DEF GivesUp
<1> QED
  BY <1>2, <1>3, EraseIs DEF LotInv

LEMMA WakeDoes ==
    ASSUME LotInv, NEW t \in Threads, Act(t), UnparkWake(t)
    PROVE  \E c \in Nodes :
             /\ c = Head(walk[t]) /\ ~heap[c].signaled /\ UNCHANGED <<list, ptr, walk, result>> /\ Nodes' = Nodes
             /\ heap' = [heap EXCEPT ![c].signaled = TRUE] /\ chosen' = chosen \cup {heap[c].owner}
             /\ pc[t] = "u_walk" /\ pc'[t] = "u_erase"
             /\ \A u \in Threads \ {t} : pc'[u] = pc[u] \/ (pc[u] = "p_asleep" /\ pc'[u] = "p_check")
<1>1. pc \in [Threads -> PCs] /\ walk[t] \in Seq(Cells)
  BY DEF LotInv, TypeOK, PCs
<1>2. /\ pc[t] = "u_walk" /\ walk[t] # <<>> /\ UNCHANGED <<list, ptr, walk, result>>
      /\ heap' = [heap EXCEPT ![Head(walk[t])].signaled = TRUE]
      /\ chosen' = chosen \cup {heap[Head(walk[t])].owner}
  BY DEF UnparkWake, wakeVars
<1>3. pc'[t] = "u_erase"
  BY <1>1 DEF UnparkWake
<1>4. Head(walk[t]) \in Nodes /\ Nodes' = Nodes
  <2>1. ItemsOf(walk[t]) \subseteq Nodes /\ Once(walk[t])
    BY <1>2 DEF LotInv, Walks
  <2> QED
    BY <1>1, <1>2, <2>1, WalkOn DEF Nodes
<1>5. ~heap[Head(walk[t])].signaled
  BY <1>2, <1>4, Unsignaled DEF InQueueLock
<1> QED
  BY <1>2, <1>3, <1>4, <1>5, PcTypes DEF LotInv

LEMMA EraseDoes ==
    ASSUME LotInv, NEW t \in Threads, Act(t), UnparkErase(t)
    PROVE  \E c \in Nodes :
             /\ c = Head(walk[t]) /\ heap[c].signaled /\ Nodes' = Nodes \ {c}
             /\ heap' = [heap EXCEPT ![c].live = FALSE] /\ UNCHANGED <<chosen, ptr, result>>
             /\ pc[t] = "u_erase" /\ pc'[t] \notin NodePC \cup {"p_lock", "p_cond", "p_skip", "u_erase"}
             /\ \A u \in Threads \ {t} : pc'[u] = pc[u]
<1>1. pc \in [Threads -> PCs]
  BY DEF LotInv, TypeOK, PCs
<1>2. /\ pc[t] = "u_erase" /\ pc'[t] \notin NodePC \cup {"p_lock", "p_cond", "p_skip", "u_erase"}
      /\ erase(Head(walk[t])) /\ UNCHANGED <<chosen, ptr, result>>
  BY <1>1 DEF UnparkErase, Leave, Goto, parkVars, NodePC
<1>3. \A u \in Threads \ {t} : pc'[u] = pc[u]
  BY <1>1 DEF UnparkErase, Leave, Goto
<1>4. Head(walk[t]) \in Nodes /\ heap[Head(walk[t])].signaled
  BY <1>2, EraseFinds DEF LotInv, Walks
<1> QED
  BY <1>2, <1>3, <1>4, EraseIs DEF LotInv

\* A node in the queue is where NodesFit says.
NodeFits(c) ==
    /\ heap[c].owner \in Threads
    /\ heap[c].key = AddrOf(heap[c].owner) /\ heap[c].mask = mask(heap[c].owner)
    /\ IF heap[c].signaled THEN BeingWoken(c)
                           ELSE pc[heap[c].owner] \in NodePC /\ ptr[heap[c].owner] = c

LEMMA NodeFitsKept ==
    ASSUME LotInv, UNCHANGED cast, NEW d \in Nodes, heap'[d] = heap[d],
           IF heap[d].signaled THEN BeingWoken(d)'
           ELSE pc'[heap[d].owner] \in NodePC /\ ptr'[heap[d].owner] = ptr[heap[d].owner]
    PROVE  NodeFits(d)'
<1>1. NodeFits(d)
  BY DEF LotInv, NodesFit, NodeFits
<1>2. PICK o \in Threads : heap[d].owner = o
  BY <1>1 DEF NodeFits
<1>3. AddrOf(o)' = AddrOf(o) /\ mask(o)' = mask(o)
  BY CastKept
<1>4. /\ heap'[d].owner = o /\ heap'[d].key = AddrOf(o)' /\ heap'[d].mask = mask(o)'
      /\ IF heap'[d].signaled THEN BeingWoken(d)' ELSE pc'[o] \in NodePC /\ ptr'[o] = d
  BY <1>1, <1>2, <1>3 DEF NodeFits
<1> QED
  BY <1>2, <1>4 DEF NodeFits, AddrOf, mask

\* The rest of NodesFit.
LiveFit == \A c \in Cells : heap[c].live <=> c \in Nodes

OneNodeEach == \A c, d \in Nodes : heap[c].owner = heap[d].owner => c = d

LEMMA NodesFitParts ==
    /\ NodesFit <=> LiveFit /\ (\A c \in Nodes : NodeFits(c)) /\ OneNodeEach
    /\ NodesFit' <=> LiveFit' /\ (\A c \in Nodes' : NodeFits(c)') /\ OneNodeEach'
<1>1. NodesFit <=> LiveFit /\ (\A c \in Nodes : NodeFits(c)) /\ OneNodeEach
  BY DEF NodesFit, LiveFit, NodeFits, OneNodeEach
<1>2. NodesFit' <=> LiveFit' /\ (\A c \in Nodes' : NodeFits(c)') /\ OneNodeEach'
  BY DEF NodesFit, LiveFit, NodeFits, OneNodeEach
<1> QED
  BY <1>1, <1>2

\* The owner of an unsignaled node waits on it and so does not run elsewhere.
LEMMA OwnerWaits ==
    ASSUME LotInv, NEW d \in Nodes
    PROVE  /\ d \in Cells /\ heap[d].live /\ heap[d].owner \in Threads
           /\ ~heap[d].signaled => pc[heap[d].owner] \in NodePC /\ ptr[heap[d].owner] = d
           /\ heap[d].signaled => \E u \in Threads : pc[u] = "u_erase" /\ Head(walk[u]) = d
BY ListIs DEF LotInv, NodesFit, BeingWoken

LEMMA NodesFitQuiet ==
    ASSUME LotInv, NEW t \in Threads, UNCHANGED cast, Quiet(t)
    PROVE  NodesFit'
<1>1. /\ UNCHANGED <<list, heap, ptr>> /\ (pc[t] \in NodePC /\ ~heap[ptr[t]].signaled => pc'[t] \in NodePC)
      /\ \A u \in Threads \ {t} : pc'[u] = pc[u]
  BY QuietKeeps
<1>2. Nodes' = Nodes
  BY <1>1 DEF Nodes
<1>3. LiveFit' /\ OneNodeEach'
  BY <1>1, <1>2, NodesFitParts DEF LotInv, LiveFit, OneNodeEach
<1>4. ASSUME NEW d \in Nodes
      PROVE  NodeFits(d)'
  <2>1. CASE heap[d].signaled
    <3>1. PICK u \in Threads : pc[u] = "u_erase" /\ Head(walk[u]) = d
      BY <2>1, OwnerWaits
    <3>2. u # t
      BY <3>1, QuietKeeps
    <3>3. walk'[u] = walk[u] /\ pc'[u] = pc[u]
      BY <1>1, <3>2, Others DEF Quiet, LotInv
    <3>4. BeingWoken(d)'
      BY <3>1, <3>3 DEF BeingWoken
    <3> QED
      BY <1>1, <2>1, <3>4, NodeFitsKept
  <2>2. CASE ~heap[d].signaled
    <3>1. pc'[heap[d].owner] \in NodePC /\ ptr'[heap[d].owner] = ptr[heap[d].owner]
      BY <1>1, <2>2, OwnerWaits
    <3> QED
      BY <1>1, <2>2, <3>1, NodeFitsKept
  <2> QED
    BY <2>1, <2>2
<1> QED
  BY <1>2, <1>3, <1>4, NodesFitParts

LEMMA NodesFitInsert ==
    ASSUME LotInv, NEW t \in Threads, UNCHANGED cast, Act(t), NEW c, Inserts(t, c)
    PROVE  NodesFit'
<1>1. /\ pc[t] = "p_cond" /\ pc'[t] = "p_check" /\ \A u \in Threads \ {t} : pc'[u] = pc[u]
      /\ c \in Cells \ Nodes /\ Nodes' = Nodes \cup {c}
      /\ heap' = [heap EXCEPT ![c] = [key |-> AddrOf(t), mask |-> mask(t), signaled |-> FALSE,
                                      live |-> TRUE, owner |-> t]]
      /\ ptr' = [ptr EXCEPT ![t] = c]
  BY InsertsDoes
<1>2. heap \in [Cells -> WaitNode] /\ ptr \in [Threads -> Cells] /\ Nodes \subseteq Cells
  BY ListIs DEF LotInv, TypeOK
<1>3. /\ heap'[c].owner = t /\ heap'[c].key = AddrOf(t) /\ heap'[c].mask = mask(t) /\ ~heap'[c].signaled
      /\ heap'[c].live /\ \A d \in Cells \ {c} : heap'[d] = heap[d]
  BY <1>1, <1>2
<1>4. \A d \in Nodes : ~heap[d].signaled /\ heap[d].owner \in Threads \ {t}
  BY <1>1, Unsignaled, OwnerWaits DEF InQueueLock, NodePC
<1>5. LiveFit'
  BY <1>1, <1>3, NodesFitParts DEF LotInv, LiveFit
<1>6. OneNodeEach'
  BY <1>1, <1>2, <1>3, <1>4, NodesFitParts DEF LotInv, OneNodeEach
<1>7. NodeFits(c)'
  <2>1. AddrOf(t)' = AddrOf(t) /\ mask(t)' = mask(t) /\ ptr'[t] = c /\ pc'[t] \in NodePC
    BY <1>1, <1>2, CastKept DEF NodePC
  <2> QED
    BY <1>3, <2>1 DEF NodeFits, AddrOf, mask
<1>8. ASSUME NEW d \in Nodes
      PROVE  NodeFits(d)'
  <2>1. pc'[heap[d].owner] \in NodePC /\ ptr'[heap[d].owner] = ptr[heap[d].owner]
    BY <1>1, <1>2, <1>4, OwnerWaits
  <2>2. heap'[d] = heap[d]
    BY <1>1, <1>2, <1>3
  <2> QED
    BY <1>4, <2>1, <2>2, NodeFitsKept
<1> QED
  BY <1>1, <1>5, <1>6, <1>7, <1>8, NodesFitParts

\* Taking a node out keeps the others where they are.
LEMMA NodesFitErase ==
    ASSUME LotInv, NEW t \in Threads, UNCHANGED cast, Act(t), UNCHANGED ptr, pc[t] \in InQueueLock,
           \A u \in Threads \ {t} : pc'[u] = pc[u],
           NEW c \in Nodes, Nodes' = Nodes \ {c}, heap' = [heap EXCEPT ![c].live = FALSE],
           \A d \in Nodes \ {c} : ~heap[d].signaled /\ heap[d].owner # t
    PROVE  NodesFit'
<1>1. heap \in [Cells -> WaitNode] /\ Nodes \subseteq Cells
  BY ListIs DEF LotInv, TypeOK
<1>2. ~heap'[c].live /\ \A d \in Cells \ {c} : heap'[d] = heap[d]
  BY <1>1 DEF WaitNode
<1>3. LiveFit'
  BY <1>1, <1>2, NodesFitParts DEF LotInv, LiveFit
<1>4. OneNodeEach'
  BY <1>1, <1>2, NodesFitParts DEF LotInv, OneNodeEach
<1>5. ASSUME NEW d \in Nodes \ {c}
      PROVE  NodeFits(d)'
  <2>1. pc'[heap[d].owner] \in NodePC /\ ptr'[heap[d].owner] = ptr[heap[d].owner]
    BY OwnerWaits
  <2>2. heap'[d] = heap[d]
    BY <1>1, <1>2
  <2> QED
    BY <2>1, <2>2, NodeFitsKept
<1> QED
  BY <1>3, <1>4, <1>5, NodesFitParts

LEMMA NodesFitWake ==
    ASSUME LotInv, NEW t \in Threads, UNCHANGED cast, Act(t), UnparkWake(t)
    PROVE  NodesFit'
<1>1. PICK c \in Nodes :
          /\ c = Head(walk[t]) /\ ~heap[c].signaled /\ UNCHANGED <<list, ptr, walk>> /\ Nodes' = Nodes
          /\ heap' = [heap EXCEPT ![c].signaled = TRUE]
          /\ pc[t] = "u_walk" /\ pc'[t] = "u_erase"
          /\ \A u \in Threads \ {t} : pc'[u] = pc[u] \/ (pc[u] = "p_asleep" /\ pc'[u] = "p_check")
  BY WakeDoes
<1>2. heap \in [Cells -> WaitNode] /\ Nodes \subseteq Cells
  BY ListIs DEF LotInv, TypeOK
<1>3. /\ heap'[c].owner = heap[c].owner /\ heap'[c].key = heap[c].key /\ heap'[c].mask = heap[c].mask
      /\ heap'[c].live = heap[c].live /\ heap'[c].signaled /\ \A d \in Cells \ {c} : heap'[d] = heap[d]
  BY <1>1, <1>2 DEF WaitNode
<1>4. LiveFit'
  BY <1>1, <1>3, NodesFitParts DEF LotInv, LiveFit
<1>5. OneNodeEach'
  BY <1>1, <1>2, <1>3, NodesFitParts DEF LotInv, OneNodeEach
<1>6. NodeFits(c)'
  <2>1. PICK o \in Threads : heap[c].owner = o
    BY OwnerWaits
  <2>2. AddrOf(o)' = AddrOf(o) /\ mask(o)' = mask(o) /\ heap[c].key = AddrOf(o) /\ heap[c].mask = mask(o)
    BY <2>1, CastKept, NodesFitParts DEF LotInv, NodeFits
  <2>3. BeingWoken(c)'
    BY <1>1 DEF BeingWoken
  <2>4. heap'[c].owner = o /\ heap'[c].key = AddrOf(o)' /\ heap'[c].mask = mask(o)'
    BY <1>3, <2>1, <2>2
  <2> QED
    BY <1>3, <2>3, <2>4 DEF NodeFits, AddrOf, mask
<1>7. ASSUME NEW d \in Nodes, d # c
      PROVE  NodeFits(d)'
  <2>1. ~heap[d].signaled
    BY <1>1, <1>7, Unsignaled DEF InQueueLock
  <2>2. heap[d].owner \in Threads /\ pc[heap[d].owner] \in NodePC
    BY <2>1, OwnerWaits
  <2>3. pc'[heap[d].owner] \in NodePC
    BY <1>1, <2>2 DEF NodePC
  <2>4. heap'[d] = heap[d]
    BY <1>2, <1>3, <1>7
  <2> QED
    BY <1>1, <2>1, <2>3, <2>4, NodeFitsKept
<1> QED
  BY <1>1, <1>4, <1>5, <1>6, <1>7, NodesFitParts

LEMMA NodesFitStep ==
    ASSUME LotInv, NEW t \in Threads, Act(t), UNCHANGED cast
    PROVE  NodesFit'
<1>1. ASSUME GivesUp(t)
      PROVE  NodesFit'
  <2>1. /\ pc[t] = "p_signaled" /\ \A u \in Threads \ {t} : pc'[u] = pc[u]
        /\ ptr[t] \in Nodes /\ Nodes' = Nodes \ {ptr[t]} /\ heap' = [heap EXCEPT ![ptr[t]].live = FALSE]
        /\ UNCHANGED ptr
    BY <1>1, GivesUpDoes
  <2>2. \A d \in Nodes \ {ptr[t]} : ~heap[d].signaled /\ heap[d].owner # t
    BY <2>1, Unsignaled, OwnerWaits DEF InQueueLock
  <2>3. PICK c \in Nodes : c = ptr[t]
    BY <2>1
  <2> QED
    BY <2>1, <2>2, <2>3, NodesFitErase DEF InQueueLock
<1>2. ASSUME UnparkErase(t)
      PROVE  NodesFit'
  <2>1. PICK c \in Nodes :
             /\ c = Head(walk[t]) /\ Nodes' = Nodes \ {c}
             /\ heap' = [heap EXCEPT ![c].live = FALSE] /\ UNCHANGED ptr
             /\ pc[t] = "u_erase" /\ \A u \in Threads \ {t} : pc'[u] = pc[u]
    BY <1>2, EraseDoes
  <2>2. \A d \in Nodes \ {c} : ~heap[d].signaled
    BY <2>1, Unsignaled DEF InQueueLock
  <2>3. \A d \in Nodes \ {c} : heap[d].owner # t
    BY <2>1, <2>2, OwnerWaits DEF NodePC
  <2> QED
    BY <2>1, <2>2, <2>3, NodesFitErase DEF InQueueLock
<1> QED
  BY <1>1, <1>2, NodesFitQuiet, NodesFitInsert, NodesFitWake, QuietOrNot

-----------------------------------------------------------------------------
(* What the waiters point to.                                               *)

Points(t) ==
    /\ pc[t] \in NodePC =>
          /\ heap[ptr[t]].owner = t
          /\ heap[ptr[t]].signaled \/ ptr[t] \in Nodes
          /\ heap[ptr[t]].signaled <=> t \in chosen
    /\ pc[t] \in {"p_lock", "p_cond", "p_skip"} => t \notin chosen
    /\ t \in Timed /\ result[t] = "timeout" => t \notin chosen

LEMMA PointersStep ==
    ASSUME ~Reuse, LotInv, NEW t \in Threads, Act(t), UNCHANGED cast
    PROVE  Pointers'
<1>1. /\ heap \in [Cells -> WaitNode] /\ ptr \in [Threads -> Cells] /\ Nodes \subseteq Cells
      /\ pc \in [Threads -> PCs] /\ result \in [Threads -> {"none", "skip", "unpark", "timeout"}]
  BY ListIs DEF LotInv, TypeOK, PCs
<1>2. Timed' = Timed /\ \A u \in Threads : Points(u)
  BY CastKept DEF LotInv, Pointers, Points
<1>3. ASSUME Quiet(t)
      PROVE  Pointers'
  <2>1. /\ UNCHANGED <<list, heap, ptr>> /\ (pc'[t] \in NodePC => pc[t] \in NodePC)
        /\ \A u \in Threads \ {t} : pc'[u] = pc[u]
    BY <1>3, QuietKeeps
  <2>2. Nodes' = Nodes
    BY <2>1 DEF Nodes
  <2>3. CASE ParkCount(t)
    <3>1. pc'[t] = "p_lock" /\ chosen' = chosen \ {t} /\ UNCHANGED result
      BY <1>1, <2>3 DEF ParkCount, Goto
    <3>2. Points(t)'
      BY <3>1 DEF Points, NodePC
    <3>3. ASSUME NEW u \in Threads, u # t
          PROVE  Points(u)'
      BY <1>2, <2>1, <2>2, <3>1, <3>3 DEF Points
    <3> QED
      BY <3>2, <3>3 DEF Pointers, Points
  <2>4. CASE ~ParkCount(t)
    <3>1. UNCHANGED chosen
      BY <1>3, <2>4, QuietKeeps
    <3>2. ASSUME NEW u \in Threads, u # t
          PROVE  Points(u)'
      <4>1. result'[u] = result[u]
        BY <3>2, Others DEF LotInv
      <4> QED
        BY <1>2, <2>1, <2>2, <3>1, <3>2, <4>1 DEF Points
    <3>3. result'[t] = "timeout" => result[t] = "timeout"
      <4>1. UNCHANGED result \/ ParkSkip(t) \/ WaitCheck(t) \/ (TimeoutCheck(t) /\ heap[ptr[t]].signaled)
        BY <1>3, Frames DEF Quiet
      <4> QED
        BY <1>1, <4>1 DEF ParkSkip, WaitCheck, TimeoutCheck, Return
    <3>4. pc'[t] \in {"p_lock", "p_cond", "p_skip"} => pc[t] \in {"p_lock", "p_cond", "p_skip"}
      <4>1. CASE parkFor(t) \/ WaitSpurious(t)
        BY <1>1, <2>4, <4>1 DEF parkFor, ParkLock, ParkCond, ParkSkip, WaitCheck, WaitTimeout, TimeoutLock,
           TimeoutCheck, WaitSpurious, LockQueue, Return, Goto
      <4>2. CASE unpark(t)
        BY <1>1, <1>3, <4>2 DEF unpark, UnparkCount, UnparkLock, UnparkWalk, LockQueue, Leave, Goto, Quiet
      <4>3. CASE \/ LockTry(t) \/ Unlock(t) \/ AwaitLoad(t)
                 \/ LockCall(t) \/ TryLock(t) \/ AwaitCall(t) \/ Store(t)
        BY <1>1, <4>3 DEF LockTry, Unlock, AwaitLoad, LockCall, TryLock, AwaitCall, Store, Begin, Goto
      <4> QED
        BY <4>1, <4>2, <4>3 DEF Act
    <3>5. Points(t)'
      BY <1>2, <2>1, <2>2, <3>1, <3>3, <3>4 DEF Points
    <3> QED
      BY <3>2, <3>5 DEF Pointers, Points
  <2> QED
    BY <2>3, <2>4
<1>4. ASSUME NEW c, Inserts(t, c)
      PROVE  Pointers'
  <2>1. /\ pc[t] = "p_cond" /\ pc'[t] = "p_check" /\ \A u \in Threads \ {t} : pc'[u] = pc[u]
        /\ c \in Cells \ Nodes /\ Nodes' = Nodes \cup {c}
        /\ heap' = [heap EXCEPT ![c] = [key |-> AddrOf(t), mask |-> mask(t), signaled |-> FALSE,
                                        live |-> TRUE, owner |-> t]]
        /\ ptr' = [ptr EXCEPT ![t] = c] /\ UNCHANGED <<chosen, result>>
    BY <1>4, InsertsDoes
  <2>2. /\ heap'[c].owner = t /\ ~heap'[c].signaled /\ ptr'[t] = c
        /\ \A d \in Cells \ {c} : heap'[d] = heap[d]
        /\ \A u \in Threads \ {t} : ptr'[u] = ptr[u]
    BY <1>1, <2>1
  <2>3. \A u \in Threads : pc[u] \in NodePC => ptr[u] # c /\ ptr[u] \in Cells
    BY <1>1, <1>4 DEF Inserts, Allocatable
  <2>4. ASSUME NEW u \in Threads, u # t
        PROVE  Points(u)'
    BY <1>2, <2>1, <2>2, <2>3, <2>4 DEF Points
  <2>5. Points(t)'
    BY <1>2, <2>1, <2>2 DEF Points, NodePC
  <2> QED
    BY <2>4, <2>5 DEF Pointers, Points
<1>5. ASSUME GivesUp(t)
      PROVE  Pointers'
  <2>1. /\ pc[t] = "p_signaled" /\ pc'[t] \in {"done", "load"} /\ \A u \in Threads \ {t} : pc'[u] = pc[u]
        /\ ptr[t] \in Nodes /\ Nodes' = Nodes \ {ptr[t]} /\ heap' = [heap EXCEPT ![ptr[t]].live = FALSE]
        /\ result' = [result EXCEPT ![t] = "timeout"] /\ UNCHANGED <<chosen, ptr>> /\ ~heap[ptr[t]].signaled
    BY <1>5, GivesUpDoes DEF GivesUp
  <2>2. \A d \in Cells : heap'[d].owner = heap[d].owner /\ heap'[d].signaled = heap[d].signaled
    BY <1>1, <2>1 DEF WaitNode
  <2>3. t \notin chosen /\ heap[ptr[t]].owner = t
    BY <1>2, <2>1 DEF Points, NodePC
  <2>4. ASSUME NEW u \in Threads, u # t
        PROVE  Points(u)'
    <3>1. pc'[u] = pc[u] /\ result'[u] = result[u] /\ ptr[u] \in Cells
      BY <1>1, <2>1, <2>4
    <3>2. pc[u] \in NodePC => ptr[u] # ptr[t]
      BY <1>2, <2>3, <2>4 DEF Points
    <3> QED
      BY <1>2, <2>1, <2>2, <3>1, <3>2 DEF Points
  <2>5. Points(t)'
    BY <2>1, <2>3 DEF Points, NodePC
  <2> QED
    BY <2>4, <2>5 DEF Pointers, Points
<1>6. ASSUME UnparkWake(t)
      PROVE  Pointers'
  <2>1. PICK c \in Nodes :
          /\ ~heap[c].signaled /\ UNCHANGED <<ptr, result>> /\ Nodes' = Nodes
          /\ heap' = [heap EXCEPT ![c].signaled = TRUE] /\ chosen' = chosen \cup {heap[c].owner}
          /\ pc[t] = "u_walk" /\ pc'[t] = "u_erase"
          /\ \A u \in Threads \ {t} : pc'[u] = pc[u] \/ (pc[u] = "p_asleep" /\ pc'[u] = "p_check")
    BY <1>6, WakeDoes
  <2>2. /\ heap'[c].signaled /\ heap'[c].owner = heap[c].owner
        /\ \A d \in Cells \ {c} : heap'[d] = heap[d]
    BY <1>1, <2>1 DEF WaitNode
  <2>3. heap[c].owner \in Threads \ {t} /\ pc[heap[c].owner] \in NodePC /\ ptr[heap[c].owner] = c
    BY <2>1, OwnerWaits DEF NodePC
  <2>4. Points(t)'
    <3>1. t \notin chosen' \/ t \in chosen
      BY <2>1, <2>3
    <3> QED
      BY <1>2, <2>1, <3>1 DEF Points, NodePC
  <2>5. ASSUME NEW u \in Threads, u # t
        PROVE  Points(u)'
    <3>1. /\ pc'[u] \in NodePC <=> pc[u] \in NodePC
          /\ pc'[u] \in {"p_lock", "p_cond", "p_skip"} <=> pc[u] \in {"p_lock", "p_cond", "p_skip"}
      BY <2>1, <2>5 DEF NodePC
    <3>2. CASE u = heap[c].owner
      <4>1. ptr'[u] = c /\ u \in chosen' /\ pc[u] \in NodePC
        BY <2>1, <2>3, <3>2
      <4>2. ~(u \in Timed /\ result[u] = "timeout")
        <5>1. pc[u] # "done"
          BY <4>1 DEF NodePC
        <5> QED
          BY <5>1 DEF LotInv, RolesFit
      <4>3. pc[u] \notin {"p_lock", "p_cond", "p_skip"}
        BY <4>1 DEF NodePC
      <4>4. result' = result
        BY <2>1
      <4> QED
        BY <1>2, <2>2, <3>1, <3>2, <4>1, <4>2, <4>3, <4>4 DEF Points
    <3>3. CASE u # heap[c].owner
      <4>1. (u \in chosen' <=> u \in chosen) /\ ptr'[u] = ptr[u] /\ result' = result
        BY <2>1, <3>3
      <4>2. pc[u] \in NodePC => ptr[u] # c /\ heap'[ptr[u]] = heap[ptr[u]]
        BY <1>1, <1>2, <2>2, <3>3 DEF Points
      <4> QED
        BY <1>2, <2>1, <3>1, <4>1, <4>2 DEF Points
    <3> QED
      BY <3>2, <3>3
  <2> QED
    BY <2>4, <2>5 DEF Pointers, Points
<1>7. ASSUME UnparkErase(t)
      PROVE  Pointers'
  <2>1. PICK c \in Nodes :
             /\ heap[c].signaled /\ Nodes' = Nodes \ {c}
             /\ heap' = [heap EXCEPT ![c].live = FALSE] /\ UNCHANGED <<chosen, ptr, result>>
             /\ pc[t] = "u_erase" /\ pc'[t] \notin NodePC \cup {"p_lock", "p_cond", "p_skip", "u_erase"}
             /\ \A u \in Threads \ {t} : pc'[u] = pc[u]
    BY <1>7, EraseDoes
  <2>2. \A d \in Cells : heap'[d].owner = heap[d].owner /\ heap'[d].signaled = heap[d].signaled
    BY <1>1, <2>1 DEF WaitNode
  <2>3. Points(t)'
    BY <1>2, <2>1 DEF Points
  <2>4. ASSUME NEW u \in Threads, u # t
        PROVE  Points(u)'
    <3>1. pc'[u] = pc[u] /\ ptr[u] \in Cells /\ (ptr[u] \in Nodes' \/ ptr[u] = c \/ ptr[u] \notin Nodes)
      BY <1>1, <2>1, <2>4
    <3> QED
      BY <1>2, <2>1, <2>2, <3>1 DEF Points
  <2> QED
    BY <2>3, <2>4 DEF Pointers, Points
<1> QED
  BY <1>3, <1>4, <1>5, <1>6, <1>7, QuietOrNot

-----------------------------------------------------------------------------
(* The invariant holds.                                                     *)

LEMMA LotInit ==
    ASSUME Init
    PROVE  LotInv
<1>1. /\ cast \in Castings /\ list = <<>> /\ count = 0 /\ holder = NoThread /\ chosen = {}
      /\ pc = [t \in Threads |-> "idle"] /\ heap = [c \in Cells |-> Unused]
      /\ result = [t \in Threads |-> "none"]
  BY DEF Init
<1>2. Unused \in WaitNode
  <2>1. (CHOOSE a \in Addrs : TRUE) \in Addrs
    BY LotAssumption
  <2> QED
    BY <2>1 DEF Unused, WaitNode
<1>3. TypeOK
  <2>1. (CHOOSE c \in Cells : TRUE) \in Cells
    BY LotAssumption
  <2>2. MaxRounds \in Nat
    BY LotAssumption
  <2>3. list \in Seq(Cells) /\ \A i, j \in DOMAIN list : list[i] = list[j] => i = j
    BY <1>1
  <2>4. /\ heap \in [Cells -> WaitNode] /\ ptr \in [Threads -> Cells] /\ walk \in [Threads -> Seq(Cells)]
        /\ rounds \in [Threads -> 0..MaxRounds] /\ budget \in [Threads -> Nat]
    BY <1>1, <1>2, <2>1, <2>2 DEF Init
  <2> QED
    BY <1>1, <2>3, <2>4 DEF Init, TypeOK
<1>4. Nodes = {}
  BY <1>1 DEF Nodes
<1>5. CountExact
  <2>1. Counting = {}
    BY <1>1 DEF Counting
  <2>2. Cardinality(Counting) = 0 /\ Len(list) = 0
    BY <1>1, <2>1, FS_EmptySet
  <2> QED
    BY <1>1, <2>2, Counted
<1>6. Locking /\ RolesFit /\ Walks /\ Pointers
  BY <1>1, LotAssumption DEF Locking, InQueueLock, RolesFit, UnparkPC, ParkPC, Walks, Pointers, NodePC
<1>7. NodesFit
  BY <1>1, <1>4 DEF NodesFit, Unused
<1> QED
  BY <1>3, <1>5, <1>6, <1>7 DEF LotInv

LEMMA LotStep ==
    ASSUME ~Reuse, LotInv, [Next]_vars
    PROVE  LotInv'
<1>1. ASSUME NEW t \in Threads, Act(t), UNCHANGED cast
      PROVE  LotInv'
  BY <1>1, TypesStep, CountStep, LockingStep, RolesFitStep, WalksStep, NodesFitStep, PointersStep DEF LotInv
<1>2. Next => \E t \in Threads : Act(t) /\ UNCHANGED cast
  BY DEF Next, Step, Call, Act
<1>3. CASE UNCHANGED vars
  <2>1. CountExact' /\ TypeOK' /\ Locking' /\ RolesFit'
    BY <1>3 DEF vars, LotInv, CountExact, TypeOK, Locking, RolesFit, Lockers, Changers, Equals, Timed, Wakers
  <2>2. /\ UNCHANGED <<cast, list, heap, pc, ptr, walk, chosen, result>> /\ Nodes' = Nodes
        /\ UNCHANGED <<Timed, Lockers, Changers, Equals, Wakers>>
    BY <1>3 DEF vars, Nodes, Timed, Lockers, Changers, Equals, Wakers
  <2>3. Pointers'
    BY <2>2 DEF LotInv, Pointers
  <2>4. NodesFit'
    <3>1. LiveFit' /\ OneNodeEach'
      BY <2>2, NodesFitParts DEF LotInv, LiveFit, OneNodeEach
    <3>2. ASSUME NEW d \in Nodes PROVE NodeFits(d)'
      <4>1. BeingWoken(d)' = BeingWoken(d)
        BY <2>2 DEF BeingWoken
      <4>2. NodeFits(d)
        BY NodesFitParts DEF LotInv
      <4> QED
        BY <2>2, <4>1, <4>2, NodeFitsKept DEF NodeFits
    <3> QED
      BY <2>2, <3>1, <3>2, NodesFitParts
  <2>5. Walks'
    <3>1. \A u \in Threads : Matches(u, Head(walk[u]))' = Matches(u, Head(walk[u]))
      BY <2>2 DEF Matches, AddrOf
    <3> QED
      BY <2>2, <3>1 DEF LotInv, Walks
  <2> QED
    BY <2>1, <2>3, <2>4, <2>5 DEF LotInv
<1> QED
  BY <1>1, <1>2, <1>3

\* The number a waker reads without the lock is the number of the nodes in the
\* queue and of the threads on their way there.
THEOREM CountIsExact ==
    ASSUME ~Reuse
    PROVE  Spec => []CountExact
<1>1. Init => LotInv
  BY LotInit
<1>2. LotInv /\ [Next]_vars => LotInv'
  BY LotStep
<1>3. LotInv => CountExact
  BY DEF LotInv
<1> QED
  BY <1>1, <1>2, <1>3, PTL DEF Spec

\* A thread that gave up was not the one a wake was spent on.
THEOREM WakeIsNotWasted ==
    ASSUME ~Reuse
    PROVE  Spec => []WakeNotWasted
<1>1. Init => LotInv
  BY LotInit
<1>2. LotInv /\ [Next]_vars => LotInv'
  BY LotStep
<1>3. LotInv => WakeNotWasted
  BY DEF LotInv, Pointers, WakeNotWasted, Timed
<1> QED
  BY <1>1, <1>2, <1>3, PTL DEF Spec

-----------------------------------------------------------------------------
(* Mutexes.                                                                 *)

\* A Mutex is 0 or 1, 1 while a thread holds it, and held by one thread; a thread
\* waits for the 1 to go.
Mutexes == \A t \in Lockers :
    /\ word[AddrOf(t)] \in {0, 1}
    /\ pc[t] = "held" => /\ word[AddrOf(t)] = 1
                         /\ \A u \in Lockers : pc[u] = "held" /\ AddrOf(u) = AddrOf(t) => u = t
    /\ pc[t] \in ParkPC => expected[t] = 1

LEMMA SameMutex ==
    ASSUME TypeOK, NEW t \in Lockers, NEW u \in Threads, AddrOf(u) = AddrOf(t)
    PROVE  u \in Lockers
BY LotAssumption DEF TypeOK, Lockers, AddrOf

LEMMA RolesDiffer ==
    ASSUME NEW t \in Lockers
    PROVE  t \in Threads /\ t \notin Changers \cup Equals \cup Timed \cup Wakers
BY DEF Lockers, Changers, Equals, Timed, Wakers

\* What each step does to the word it is about.
LEMMA LockerMoves ==
    ASSUME LotInv, NEW t \in Threads, Act(t), t \in Lockers
    PROVE  \/ /\ word[AddrOf(t)] = 0 /\ word' = [word EXCEPT ![AddrOf(t)] = 1]
              /\ pc[t] \in {"load", "idle"} /\ pc'[t] = "held"
           \/ /\ pc[t] = "held" /\ pc'[t] = "u_count"
              /\ word' = [word EXCEPT ![AddrOf(t)] = 0] /\ budget' = [budget EXCEPT ![t] = 1]
           \/ /\ UNCHANGED word /\ pc[t] # "held" /\ pc'[t] # "held"
              /\ pc'[t] \in ParkPC =>
                    \/ pc[t] \in ParkPC /\ UNCHANGED expected
                    \/ /\ pc[t] = "load" /\ pc'[t] = "p_count" /\ word[AddrOf(t)] # 0
                       /\ expected'[t] = word[AddrOf(t)]
<1>1. /\ pc \in [Threads -> PCs] /\ expected \in [Threads -> Nat]
      /\ t \notin Changers \cup Equals \cup Timed \cup Wakers
  BY RolesDiffer DEF LotInv, TypeOK, PCs
<1>2. CASE LockTry(t)
  BY <1>1, <1>2 DEF LockTry, Goto, ParkPC
<1>3. CASE TryLock(t)
  BY <1>1, <1>3 DEF TryLock, Begin, Goto, ParkPC
<1>4. CASE Unlock(t)
  BY <1>1, <1>4 DEF Unlock, Goto
<1>5. CASE LockCall(t)
  BY <1>1, <1>5 DEF LockCall, Begin, Goto, ParkPC
<1>6. CASE AwaitLoad(t) \/ AwaitCall(t) \/ Store(t)
  BY <1>1, <1>6 DEF AwaitLoad, AwaitCall, Store
<1>7. CASE parkFor(t) \/ WaitSpurious(t)
  <2>1. UNCHANGED <<word, expected>>
    BY <1>7 DEF parkFor, ParkCount, ParkLock, ParkCond, ParkSkip, WaitCheck, WaitTimeout, TimeoutLock,
       TimeoutCheck, WaitSpurious, parkVars
  <2>2. pc[t] \in ParkPC /\ pc[t] # "held" /\ pc'[t] # "held"
    BY <1>1, <1>7 DEF parkFor, ParkCount, ParkLock, ParkCond, ParkSkip, WaitCheck, WaitTimeout, TimeoutLock,
       TimeoutCheck, WaitSpurious, LockQueue, Return, Goto, ParkPC
  <2> QED
    BY <2>1, <2>2
<1>8. CASE unpark(t)
  <2>1. UNCHANGED word
    BY <1>8 DEF unpark, UnparkCount, UnparkLock, UnparkWalk, UnparkWake, UnparkErase
  <2>2. CASE UnparkWake(t)
    BY <1>1, <2>1, <2>2, WakeDoes DEF ParkPC
  <2>3. CASE ~UnparkWake(t)
    BY <1>1, <1>8, <2>1, <2>3 DEF unpark, UnparkCount, UnparkLock, UnparkWalk, UnparkErase, LockQueue, Leave,
       Goto, ParkPC
  <2> QED
    BY <2>2, <2>3
<1> QED
  BY <1>2, <1>3, <1>4, <1>5, <1>6, <1>7, <1>8 DEF Act

LEMMA OtherMoves ==
    ASSUME LotInv, NEW t \in Threads, Act(t), t \notin Lockers
    PROVE  \/ UNCHANGED word
           \/ /\ t \in Wakers /\ pc'[t] = "u_count" /\ \E n \in Nat : word' = [word EXCEPT ![AddrOf(t)] = n]
              /\ budget' = [budget EXCEPT ![t] = WakeCount[t]]
<1>1. pc \in [Threads -> PCs] /\ word \in [Addrs -> Nat] /\ AddrOf(t) \in Addrs
  <2>1. cast[t].addr \in Addrs
    BY LotAssumption DEF LotInv, TypeOK
  <2> QED
    BY <2>1 DEF LotInv, TypeOK, PCs, AddrOf
<1>2. ~Unlock(t)
  BY DEF Unlock, Goto, LotInv, RolesFit
<1>3. CASE Store(t)
  <2>1. word[AddrOf(t)] + 1 \in Nat /\ word' = [word EXCEPT ![AddrOf(t)] = word[AddrOf(t)] + 1]
    BY <1>1, <1>3 DEF Store
  <2>2. t \in Wakers /\ pc'[t] = "u_count" /\ budget' = [budget EXCEPT ![t] = WakeCount[t]]
    BY <1>1, <1>3 DEF Store, Begin, Goto
  <2> QED
    BY <2>1, <2>2
<1> QED
  BY <1>2, <1>3, Frames DEF LockTry, TryLock

LEMMA MutexesStep ==
    ASSUME LotInv, Mutexes, NEW t \in Threads, Act(t), UNCHANGED cast
    PROVE  Mutexes'
<1> DEFINE M(u) ==
        /\ word'[AddrOf(u)] \in {0, 1}
        /\ pc'[u] = "held" => /\ word'[AddrOf(u)] = 1
                              /\ \A v \in Lockers : pc'[v] = "held" /\ AddrOf(v) = AddrOf(u) => v = u
        /\ pc'[u] \in ParkPC => expected'[u] = 1
<1>1. \A v \in Threads \ {t} : /\ pc'[v] = "held" <=> pc[v] = "held"
                               /\ pc'[v] \in ParkPC <=> pc[v] \in ParkPC
                               /\ expected'[v] = expected[v]
  BY Others DEF LotInv, ParkPC
<1>2. word \in [Addrs -> Nat] /\ \A v \in Threads : AddrOf(v) \in Addrs
  BY LotAssumption DEF LotInv, TypeOK, AddrOf
<1>3. \A u \in Lockers : u \in Threads
  BY RolesDiffer
<1>4. ASSUME NEW u \in Lockers
      PROVE  M(u)
  <2>1. CASE t \in Lockers
    <3>1. /\ word[AddrOf(u)] \in {0, 1} /\ word[AddrOf(t)] \in {0, 1} /\ u \in Threads
          /\ AddrOf(u) \in Addrs /\ AddrOf(t) \in Addrs
      BY <1>2, <1>3, <2>1 DEF Mutexes
    <3>2. ASSUME word[AddrOf(t)] = 0, word' = [word EXCEPT ![AddrOf(t)] = 1], pc'[t] = "held"
          PROVE  M(u)
      <4>1. pc'[t] \notin ParkPC
        BY <3>2 DEF ParkPC
      <4>2. word'[AddrOf(u)] \in {0, 1} /\ (pc'[u] = "held" => word'[AddrOf(u)] = 1)
        <5>1. CASE AddrOf(u) = AddrOf(t)
          BY <1>2, <3>1, <3>2, <5>1
        <5>2. CASE AddrOf(u) # AddrOf(t)
          <6>1. word'[AddrOf(u)] = word[AddrOf(u)] /\ u # t
            BY <1>2, <3>1, <3>2, <5>2
          <6> QED
            BY <1>1, <3>1, <6>1 DEF Mutexes
        <5> QED
          BY <5>1, <5>2
      <4>3. pc'[u] \in ParkPC => expected'[u] = 1
        BY <1>1, <3>1, <4>1 DEF Mutexes
      <4>4. ASSUME NEW v \in Lockers, pc'[u] = "held", pc'[v] = "held", AddrOf(v) = AddrOf(u), v # u
            PROVE  FALSE
        <5>1. v \in Threads
          BY <1>3
        <5>2. PICK x \in {u, v} : x # t
          BY <4>4
        <5>3. x \in Lockers /\ x \in Threads /\ pc[x] = "held" /\ AddrOf(x) = AddrOf(u)
          BY <1>1, <1>3, <4>4, <5>2
        <5>4. word[AddrOf(u)] = 1
          BY <5>3 DEF Mutexes
        <5>5. AddrOf(u) # AddrOf(t)
          BY <3>2, <5>4
        <5>6. u # t /\ v # t
          BY <4>4, <5>5
        <5> QED
          BY <1>1, <3>1, <4>4, <5>1, <5>6 DEF Mutexes
      <4> QED
        BY <4>2, <4>3, <4>4
    <3>3. ASSUME pc[t] = "held", pc'[t] = "u_count", word' = [word EXCEPT ![AddrOf(t)] = 0]
          PROVE  M(u)
      <4>1. pc'[t] \notin ParkPC /\ pc'[t] # "held"
        BY <3>3 DEF ParkPC
      <4>2. pc'[u] = "held" => AddrOf(u) # AddrOf(t) /\ pc[u] = "held"
        BY <1>1, <2>1, <3>1, <3>3, <4>1 DEF Mutexes
      <4>3. word'[AddrOf(u)] = IF AddrOf(u) = AddrOf(t) THEN 0 ELSE word[AddrOf(u)]
        BY <1>2, <3>1, <3>3
      <4>4. pc'[u] = "held" => \A v \in Lockers : pc'[v] = "held" /\ AddrOf(v) = AddrOf(u) => v = u
        BY <1>1, <1>3, <4>1, <4>2 DEF Mutexes
      <4>5. pc'[u] \in ParkPC => expected'[u] = 1
        BY <1>1, <3>1, <4>1 DEF Mutexes
      <4>6. word'[AddrOf(u)] \in {0, 1} /\ (pc'[u] = "held" => word'[AddrOf(u)] = 1)
        BY <3>1, <4>2, <4>3 DEF Mutexes
      <4> QED
        BY <4>4, <4>5, <4>6
    <3>4. ASSUME UNCHANGED word, pc'[t] # "held",
                 pc'[t] \in ParkPC => \/ pc[t] \in ParkPC /\ UNCHANGED expected
                                      \/ word[AddrOf(t)] # 0 /\ expected'[t] = word[AddrOf(t)]
          PROVE  M(u)
      <4>1. pc'[u] = "held" => pc[u] = "held" /\ u # t
        BY <1>1, <3>1, <3>4
      <4>2. pc'[u] = "held" => \A v \in Lockers : pc'[v] = "held" /\ AddrOf(v) = AddrOf(u) => v = u
        BY <1>1, <1>3, <3>4, <4>1 DEF Mutexes
      <4>3. pc'[u] \in ParkPC => expected'[u] = 1
        <5>1. CASE u = t
          BY <3>1, <3>4, <5>1 DEF Mutexes
        <5>2. CASE u # t
          BY <1>1, <3>1, <5>2 DEF Mutexes
        <5> QED
          BY <5>1, <5>2
      <4> QED
        BY <3>1, <3>4, <4>1, <4>2, <4>3 DEF Mutexes
    <3> QED
      BY <2>1, <3>2, <3>3, <3>4, LockerMoves
  <2>2. CASE t \notin Lockers
    <3>1. AddrOf(u) # AddrOf(t)
      BY <1>3, <2>2, SameMutex DEF LotInv
    <3>2. word'[AddrOf(u)] = word[AddrOf(u)]
      BY <1>2, <1>3, <2>2, <3>1, OtherMoves
    <3> QED
      BY <1>1, <1>3, <2>2, <3>2 DEF Mutexes
  <2> QED
    BY <2>1, <2>2
<1> QED
  BY <1>3, <1>4, CastKept DEF Mutexes

-----------------------------------------------------------------------------
(* Wakes.                                                                   *)

\* A client that wakes whoever waits: its count is no less than the nodes there
\* are, and its mask has the bit of every waiter.
WakesAll ==
    /\ IsFiniteSet(Cells)
    /\ \A u \in Threads : Desired % 32 \in WakeMask[u] /\ WakeCount[u] >= Cardinality(Cells)

\* A walk has every node still to visit that it is to wake.
Sees == \A u \in Threads :
    pc[u] \in {"u_walk", "u_erase"} => \A c \in Nodes : Matches(u, c) => c \in ItemsOf(walk[u])

\* unlock() wakes one, and a wake() of everyone has a wake for every node ahead.
Budgets == \A u \in Threads :
    /\ u \in Lockers /\ pc[u] \in UnparkPC => budget[u] = 1
    /\ WakesAll /\ u \in Wakers =>
          /\ pc[u] \in {"u_count", "u_lock"} => budget[u] = WakeCount[u]
          /\ pc[u] \in {"u_walk", "u_erase"} => budget[u] >= Len(walk[u])

\* The thread that an unlock() is just waking is inside lock(), or it already
\* has the Mutex, or it is on its way to wake the next.
Minding == {"load", "held", "u_count", "u_lock"} \cup ParkPC

Woken == \A u \in Lockers :
    pc[u] = "u_erase" => pc[heap[Head(walk[u])].owner] \in Minding

LEMMA SeesStep ==
    ASSUME LotInv, Sees, NEW t \in Threads, Act(t), UNCHANGED cast
    PROVE  Sees'
<1> DEFINE Fine(u) == pc'[u] \in {"u_walk", "u_erase"} =>
                          \A c \in Nodes' : Matches(u, c)' => c \in ItemsOf(walk'[u])
<1>1. ASSUME NEW u \in Threads, u # t
      PROVE  Fine(u)
  <2> SUFFICES ASSUME pc'[u] \in {"u_walk", "u_erase"} PROVE Fine(u)
    OBVIOUS
  <2>1. pc'[u] = pc[u] /\ walk'[u] = walk[u]
    BY <1>1, Others DEF LotInv
  <2>2. UNCHANGED <<list, heap>>
    BY <1>1, <2>1, QueueIsOnes DEF InQueueLock
  <2>3. Nodes' = Nodes
    BY <2>2 DEF Nodes
  <2>4. \A c : Matches(u, c)' = Matches(u, c)
    BY <2>2, CastKept DEF Matches
  <2> QED
    BY <2>1, <2>3, <2>4 DEF Sees
<1>2. Fine(t)
  <2> SUFFICES ASSUME pc'[t] \in {"u_walk", "u_erase"} PROVE Fine(t)
    OBVIOUS
  <2>1. /\ pc \in [Threads -> PCs] /\ walk \in [Threads -> Seq(Cells)] /\ walk[t] \in Seq(Cells)
        /\ heap \in [Cells -> WaitNode] /\ Nodes \subseteq Cells
    BY ListIs DEF LotInv, TypeOK, PCs
  <2>2. pc[t] \in {"u_walk", "u_erase"} => Once(walk[t])
    BY DEF LotInv, Walks
  <2>3. CASE UnparkLock(t)
    <3>1. walk'[t] = list /\ list' = list
      BY <2>1, <2>3 DEF UnparkLock
    <3> QED
      BY <3>1 DEF ItemsOf, Nodes
  <2>4. CASE UnparkWalk(t)
    <3>1. /\ pc[t] = "u_walk" /\ walk[t] # <<>> /\ walk'[t] = Tail(walk[t]) /\ UNCHANGED <<list, heap>>
          /\ ~Matches(t, Head(walk[t]))
      BY <2>1, <2>4 DEF UnparkWalk, Leave, Goto
    <3>2. ItemsOf(Tail(walk[t])) = ItemsOf(walk[t]) \ {Head(walk[t])}
      BY <2>1, <2>2, <3>1, WalkOn
    <3>3. Nodes' = Nodes /\ \A c : Matches(t, c)' = Matches(t, c)
      BY <3>1, CastKept DEF Nodes, Matches
    <3> QED
      BY <3>1, <3>2, <3>3 DEF Sees
  <2>5. CASE UnparkWake(t)
    <3>1. PICK d \in Nodes : /\ Nodes' = Nodes /\ UNCHANGED walk /\ pc[t] = "u_walk"
                             /\ heap' = [heap EXCEPT ![d].signaled = TRUE]
      BY <2>5, WakeDoes
    <3>2. \A c \in Nodes : heap'[c].key = heap[c].key /\ heap'[c].mask = heap[c].mask
      BY <2>1, <3>1 DEF WaitNode
    <3>3. \A c \in Nodes : Matches(t, c)' = Matches(t, c)
      BY <3>2, CastKept DEF Matches
    <3> QED
      BY <3>1, <3>3 DEF Sees
  <2>6. CASE UnparkErase(t)
    <3>1. PICK d \in Nodes : /\ d = Head(walk[t]) /\ Nodes' = Nodes \ {d} /\ pc[t] = "u_erase"
                             /\ heap' = [heap EXCEPT ![d].live = FALSE]
      BY <2>6, EraseDoes
    <3>2. walk'[t] = Tail(walk[t]) /\ walk[t] # <<>>
      BY <2>1, <2>6, EraseFinds DEF UnparkErase
    <3>3. ItemsOf(Tail(walk[t])) = ItemsOf(walk[t]) \ {d}
      BY <2>1, <2>2, <3>1, <3>2, WalkOn
    <3>4. \A c \in Nodes : heap'[c].key = heap[c].key /\ heap'[c].mask = heap[c].mask
      BY <2>1, <3>1 DEF WaitNode
    <3>5. \A c \in Nodes : Matches(t, c)' = Matches(t, c)
      BY <3>4, CastKept DEF Matches
    <3> QED
      BY <3>1, <3>2, <3>3, <3>5 DEF Sees
  <2> QED
    BY <2>3, <2>4, <2>5, <2>6, WalkMoves
<1> QED
  BY <1>1, <1>2 DEF Sees

\* Where a thread inside an unpark() came from.
LEMMA UnparkMoves ==
    ASSUME LotInv, NEW t \in Threads, Act(t), pc'[t] \in UnparkPC
    PROVE  \/ Unlock(t) /\ pc'[t] = "u_count"
           \/ Store(t) /\ pc'[t] = "u_count"
           \/ UnparkCount(t) /\ pc[t] = "u_count" /\ pc'[t] = "u_lock"
           \/ UnparkLock(t) /\ pc[t] = "u_lock" /\ pc'[t] = "u_walk"
           \/ UnparkWalk(t) /\ pc[t] = "u_walk" /\ pc'[t] = "u_walk"
           \/ UnparkWake(t) /\ pc[t] = "u_walk" /\ pc'[t] = "u_erase"
           \/ UnparkErase(t) /\ pc[t] = "u_erase" /\ pc'[t] = "u_walk" /\ budget[t] > 1
<1>1. pc \in [Threads -> PCs]
  BY DEF LotInv, TypeOK, PCs
<1>2. CASE parkFor(t) \/ WaitSpurious(t)
  BY <1>1, <1>2 DEF parkFor, ParkCount, ParkLock, ParkCond, ParkSkip, WaitCheck, WaitSpurious, WaitTimeout,
     TimeoutLock, TimeoutCheck, LockQueue, Return, Goto, UnparkPC
<1>3. CASE unpark(t) /\ ~UnparkWake(t)
  BY <1>1, <1>3 DEF unpark, UnparkCount, UnparkLock, UnparkWalk, UnparkErase, LockQueue, Leave, Goto, UnparkPC
<1>4. CASE LockTry(t) \/ AwaitLoad(t) \/ LockCall(t) \/ TryLock(t) \/ AwaitCall(t)
  BY <1>1, <1>4 DEF LockTry, AwaitLoad, LockCall, TryLock, AwaitCall, Begin, Goto, UnparkPC
<1>5. CASE Unlock(t) \/ Store(t)
  BY <1>1, <1>5 DEF Unlock, Store, Begin, Goto, UnparkPC
<1> QED
  BY <1>2, <1>3, <1>4, <1>5, WakeDoes DEF Act

LEMMA BudgetsStep ==
    ASSUME LotInv, Budgets, NEW t \in Threads, Act(t), UNCHANGED cast
    PROVE  Budgets'
<1> DEFINE Fine(u) ==
        /\ u \in Lockers /\ pc'[u] \in UnparkPC => budget'[u] = 1
        /\ WakesAll /\ u \in Wakers =>
              /\ pc'[u] \in {"u_count", "u_lock"} => budget'[u] = WakeCount[u]
              /\ pc'[u] \in {"u_walk", "u_erase"} => budget'[u] >= Len(walk'[u])
<1>1. ASSUME NEW u \in Threads, u # t
      PROVE  Fine(u)
  <2>1. /\ budget'[u] = budget[u] /\ walk'[u] = walk[u]
        /\ pc'[u] = pc[u] \/ (pc[u] = "p_asleep" /\ pc'[u] = "p_check")
    BY <1>1, Others DEF LotInv
  <2> QED
    BY <2>1 DEF Budgets, UnparkPC
<1>2. Fine(t)
  <2>1. /\ budget \in [Threads -> Nat] /\ walk \in [Threads -> Seq(Cells)] /\ walk[t] \in Seq(Cells) /\ budget[t] \in Nat
        /\ list \in Seq(Cells) /\ Once(list)
    BY ListIs DEF LotInv, TypeOK
  <2>2. ~(t \in Lockers /\ t \in Wakers)
    BY RolesDiffer
  <2>3. CASE pc'[t] \notin UnparkPC
    BY <2>3 DEF UnparkPC
  <2>4. CASE Unlock(t) /\ pc'[t] = "u_count"
    <3>1. t \in Lockers /\ budget'[t] = 1
      BY <2>1, <2>4 DEF Unlock, Goto, LotInv, RolesFit
    <3> QED
      BY <2>2, <3>1
  <2>5. CASE Store(t) /\ pc'[t] = "u_count"
    <3>1. t \in Wakers /\ budget'[t] = WakeCount[t]
      BY <2>1, <2>5 DEF Store
    <3> QED
      BY <2>2, <2>5, <3>1
  <2>6. CASE UnparkCount(t) /\ pc[t] = "u_count" /\ pc'[t] = "u_lock"
    <3>1. UNCHANGED budget
      BY <2>6 DEF UnparkCount, wakeVars
    <3> QED
      BY <2>6, <3>1 DEF Budgets, UnparkPC
  <2>7. CASE UnparkLock(t) /\ pc[t] = "u_lock" /\ pc'[t] = "u_walk"
    <3>1. UNCHANGED budget /\ walk'[t] = list
      BY <2>1, <2>7 DEF UnparkLock
    <3>2. ASSUME WakesAll
          PROVE  WakeCount[t] >= Len(list)
      <4>1. Len(list) <= Cardinality(Cells)
        BY <2>1, <3>2, LengthBound DEF WakesAll
      <4>2. WakeCount[t] \in Nat /\ Cardinality(Cells) \in Nat /\ WakeCount[t] >= Cardinality(Cells)
        BY <3>2, FS_CardinalityType, LotAssumption DEF WakesAll
      <4> QED
        BY <2>1, <4>1, <4>2
    <3> QED
      BY <2>7, <3>1, <3>2 DEF Budgets, UnparkPC
  <2>8. CASE UnparkWalk(t) /\ pc[t] = "u_walk" /\ pc'[t] = "u_walk"
    <3>1. UNCHANGED budget /\ (UNCHANGED walk \/ (walk[t] # <<>> /\ walk'[t] = Tail(walk[t])))
      BY <2>1, <2>8 DEF UnparkWalk
    <3>2. walk[t] # <<>> => Len(Tail(walk[t])) = Len(walk[t]) - 1
      BY <2>1
    <3>3. Len(walk[t]) \in Nat /\ Len(walk'[t]) <= Len(walk[t]) /\ Len(walk'[t]) \in Int
      BY <2>1, <3>1, <3>2
    <3> QED
      BY <2>1, <2>8, <3>1, <3>3 DEF Budgets, UnparkPC
  <2>9. CASE UnparkWake(t) /\ pc[t] = "u_walk" /\ pc'[t] = "u_erase"
    <3>1. UNCHANGED <<budget, walk>>
      BY <2>9 DEF UnparkWake, wakeVars
    <3> QED
      BY <2>9, <3>1 DEF Budgets, UnparkPC
  <2>10. CASE UnparkErase(t) /\ pc[t] = "u_erase" /\ pc'[t] = "u_walk" /\ budget[t] > 1
    <3>1. budget'[t] = budget[t] - 1 /\ walk[t] # <<>> /\ walk'[t] = Tail(walk[t])
      BY <2>1, <2>10, EraseFinds DEF UnparkErase
    <3>2. Len(Tail(walk[t])) = Len(walk[t]) - 1 /\ Len(walk[t]) \in Nat
      BY <2>1, <3>1
    <3>3. t \notin Lockers
      BY <2>10 DEF Budgets, UnparkPC
    <3> QED
      BY <2>1, <2>10, <3>1, <3>2, <3>3 DEF Budgets
  <2> QED
    BY <2>3, <2>4, <2>5, <2>6, <2>7, <2>8, <2>9, <2>10, UnparkMoves
<1>3. UNCHANGED <<Lockers, Wakers>>
  BY CastKept
<1> QED
  BY <1>1, <1>2, <1>3 DEF Budgets

\* The counter is not 0 while a node waits.
LEMMA NodesAreCounted ==
    ASSUME LotInv, Nodes # {}
    PROVE  count > 0
<1>1. list \in Seq(Cells) /\ Len(list) > 0
  BY ListIs DEF LotInv, Nodes
<1>2. count = Len(list) + Cardinality(Counting) /\ Cardinality(Counting) \in Nat
  BY Counted DEF LotInv
<1> QED
  BY <1>1, <1>2

\* A thread minds its Mutex until it has called unpark(), which it does not leave
\* early while a node is in the queue.
LEMMA MindingStep ==
    ASSUME LotInv, NEW t \in Lockers, t \in Threads, Act(t), pc[t] \in Minding, Nodes # {}
    PROVE  pc'[t] \in Minding \/ (UnparkLock(t) /\ holder = NoThread)
<1>1. pc \in [Threads -> PCs] /\ t \notin Changers \cup Equals \cup Timed \cup Wakers /\ count > 0
  BY RolesDiffer, NodesAreCounted DEF LotInv, TypeOK, PCs
<1>2. CASE parkFor(t) \/ WaitSpurious(t)
  BY <1>1, <1>2 DEF parkFor, ParkCount, ParkLock, ParkCond, ParkSkip, WaitCheck, WaitSpurious, WaitTimeout,
     TimeoutLock, TimeoutCheck, LockQueue, Return, Goto, Minding, ParkPC
<1>3. CASE UnparkCount(t)
  BY <1>1, <1>3 DEF UnparkCount, Leave, Goto, Minding
<1>4. CASE UnparkWalk(t) \/ UnparkWake(t) \/ UnparkErase(t)
  BY <1>4 DEF UnparkWalk, UnparkWake, UnparkErase, Leave, Goto, Minding, ParkPC
<1>5. CASE UnparkLock(t)
  BY <1>5 DEF UnparkLock, LockQueue
<1>6. CASE LockTry(t) \/ Unlock(t)
  BY <1>1, <1>6 DEF LockTry, Unlock, Goto, Minding, ParkPC
<1>7. CASE LockCall(t) \/ TryLock(t) \/ AwaitCall(t) \/ AwaitLoad(t) \/ Store(t)
  BY <1>1, <1>7 DEF LockCall, TryLock, AwaitCall, AwaitLoad, Store, Begin, Goto, Minding, ParkPC
<1> QED
  BY <1>2, <1>3, <1>4, <1>5, <1>6, <1>7 DEF Act, unpark

LEMMA WokenStep ==
    ASSUME LotInv, Woken, NEW t \in Threads, Act(t), UNCHANGED cast
    PROVE  Woken'
<1>1. Lockers' = Lockers /\ \A u \in Lockers : u \in Threads
  BY CastKept, RolesDiffer
<1>2. /\ pc \in [Threads -> PCs] /\ heap \in [Cells -> WaitNode] /\ walk \in [Threads -> Seq(Cells)]
      /\ Nodes \subseteq Cells
  BY ListIs DEF LotInv, TypeOK, PCs
<1>3. ASSUME NEW u \in Lockers, pc'[u] = "u_erase", u # t
      PROVE  pc'[heap'[Head(walk'[u])].owner] \in Minding
  <2>1. pc'[u] = pc[u] /\ walk'[u] = walk[u]
    BY <1>1, <1>3, Others DEF LotInv
  <2>2. UNCHANGED heap /\ pc[u] = "u_erase" /\ holder = u
    BY <1>1, <1>3, <2>1, QueueIsOnes DEF LotInv, Locking, InQueueLock
  <2>3. PICK c : c = Head(walk[u])
    OBVIOUS
  <2>4. c \in Nodes /\ heap[c].signaled /\ heap[c].key = AddrOf(u)
    <3>1. walk[u] \in Seq(Cells) /\ Once(walk[u]) /\ walk[u] # <<>> /\ ItemsOf(walk[u]) \subseteq Nodes
      BY <1>1, <1>2, <2>2 DEF LotInv, Walks
    <3>2. Head(walk[u]) \in Nodes
      BY <3>1, WalkOn
    <3> QED
      BY <1>1, <2>2, <2>3, <3>2 DEF LotInv, Walks, Matches
  <2>5. PICK o \in Threads : heap[c].owner = o
    BY <2>4, OwnerWaits
  <2>6. AddrOf(o) = AddrOf(u)
    BY <2>4, <2>5, NodesFitParts DEF LotInv, NodeFits
  <2>7. o \in Lockers
    BY <1>1, <2>6, SameMutex DEF LotInv
  <2>8. pc[o] \in Minding
    BY <2>2, <2>3, <2>5 DEF Woken
  <2>9. pc'[o] \in Minding
    <3>1. CASE o = t
      <4>1. holder # NoThread
        BY <1>1, <2>2, LotAssumption
      <4> QED
        BY <2>4, <2>7, <2>8, <3>1, <4>1, MindingStep
    <3>2. CASE o # t
      BY <2>8, <3>2, Others DEF LotInv, Minding, ParkPC
    <3> QED
      BY <3>1, <3>2
  <2> QED
    BY <2>1, <2>2, <2>3, <2>5, <2>9
<1>4. ASSUME t \in Lockers, pc'[t] = "u_erase"
      PROVE  pc'[heap'[Head(walk'[t])].owner] \in Minding
  <2>1. UnparkWake(t)
    BY <1>4, UnparkMoves DEF UnparkPC
  <2>2. PICK c \in Nodes :
             /\ c = Head(walk[t]) /\ ~heap[c].signaled /\ UNCHANGED walk
             /\ heap' = [heap EXCEPT ![c].signaled = TRUE] /\ pc[t] = "u_walk"
             /\ \A u \in Threads \ {t} : pc'[u] = pc[u] \/ (pc[u] = "p_asleep" /\ pc'[u] = "p_check")
    BY <2>1, WakeDoes
  <2>3. heap'[c].owner = heap[c].owner
    BY <1>2, <2>2 DEF WaitNode
  <2>4. PICK o \in Threads : heap[c].owner = o /\ pc[o] \in NodePC
    BY <2>2, OwnerWaits
  <2>5. pc'[o] \in Minding
    BY <2>2, <2>4 DEF NodePC, Minding, ParkPC
  <2> QED
    BY <2>2, <2>3, <2>4, <2>5
<1> QED
  BY <1>1, <1>3, <1>4 DEF Woken

-----------------------------------------------------------------------------
(* No waiter is forgotten.                                                  *)

Has(t, c) == c \in Nodes /\ heap[c].owner = t

LEMMA QueuedIs ==
    /\ \A t : Queued(t) <=> pc[t] \in NodePC /\ \E c : Has(t, c)
    /\ \A t : Queued(t)' <=> pc'[t] \in NodePC /\ \E c : Has(t, c)'
<1>1. \A t : Queued(t) <=> pc[t] \in NodePC /\ \E c : Has(t, c)
  BY DEF Queued, Has
<1>2. \A t : Queued(t)' <=> pc'[t] \in NodePC /\ \E c : Has(t, c)'
  BY DEF Queued, Has
<1> QED
  BY <1>1, <1>2

\* A node comes into the queue by insertHead() alone.
LEMMA HasKept ==
    ASSUME LotInv, NEW t \in Threads, Act(t), NEW u \in Threads, NEW c, Has(u, c)'
    PROVE  Has(u, c) \/ (u = t /\ \E d : Inserts(t, d))
<1>1. heap \in [Cells -> WaitNode] /\ Nodes \subseteq Cells
  BY ListIs DEF LotInv, TypeOK
<1>2. CASE Quiet(t)
  BY <1>2, QuietKeeps DEF Has, Nodes
<1>3. ASSUME NEW d, Inserts(t, d)
      PROVE  Has(u, c) \/ u = t
  BY <1>1, <1>3, InsertsDoes DEF Has
<1>4. CASE GivesUp(t)
  BY <1>1, <1>4, GivesUpDoes DEF Has, WaitNode
<1>5. CASE UnparkWake(t)
  <2>1. PICK d \in Nodes : Nodes' = Nodes /\ heap' = [heap EXCEPT ![d].signaled = TRUE]
    BY <1>5, WakeDoes
  <2>2. \A e \in Cells : heap'[e].owner = heap[e].owner
    BY <1>1, <2>1 DEF WaitNode
  <2> QED
    BY <1>1, <2>1, <2>2 DEF Has
<1>6. CASE UnparkErase(t)
  BY <1>1, <1>6, EraseDoes DEF Has, WaitNode
<1> QED
  BY <1>2, <1>3, <1>4, <1>5, <1>6, QuietOrNot

LEMMA QueuedKept ==
    ASSUME LotInv, NEW t \in Threads, Act(t), NEW u \in Threads, Queued(u)'
    PROVE  (Queued(u) /\ UNCHANGED expected) \/ (u # t /\ Queued(u) /\ expected'[u] = expected[u])
           \/ (u = t /\ \E d : Inserts(t, d))
<1>1. PICK c : Has(u, c)'
  BY QueuedIs
<1>2. pc'[u] \in NodePC
  BY QueuedIs
<1>3. CASE u # t
  <2>1. pc[u] \in NodePC /\ expected'[u] = expected[u]
    BY <1>2, <1>3, Others DEF LotInv, NodePC
  <2> QED
    BY <1>1, <1>3, <2>1, HasKept, QueuedIs
<1>4. CASE u = t /\ ~\E d : Inserts(t, d)
  <2>1. Has(u, c)
    BY <1>1, <1>4, HasKept
  <2>2. Quiet(t)
    <3>1. ~GivesUp(t)
      BY <1>2, <1>4, GivesUpDoes DEF NodePC
    <3>2. ~UnparkWake(t)
      BY <1>2, <1>4, WakeDoes DEF NodePC
    <3>3. ~UnparkErase(t)
      BY <1>2, <1>4, EraseDoes
    <3> QED
      BY <1>4, <3>1, <3>2, <3>3, QuietOrNot
  <2>3. pc[t] \in NodePC
    BY <1>2, <1>4, <2>2, QuietKeeps
  <2>4. UNCHANGED expected
    BY <2>3, Frames DEF LockTry, AwaitCall, AwaitLoad, Begin, Goto, NodePC
  <2> QED
    BY <1>4, <2>1, <2>3, <2>4, QueuedIs
<1> QED
  BY <1>3, <1>4

\* A thread that leaves an unpark().
LEMMA UnparkExits ==
    ASSUME LotInv, NEW t \in Threads, Act(t), pc[t] \in UnparkPC, pc'[t] \notin UnparkPC
    PROVE  \/ UnparkCount(t) /\ count = 0
           \/ UnparkWalk(t) /\ pc[t] = "u_walk" /\ walk[t] = <<>>
           \/ UnparkErase(t) /\ budget[t] <= 1 /\ pc[t] = "u_erase"
<1>1. pc \in [Threads -> PCs]
  BY DEF LotInv, TypeOK, PCs
<1>2. ~(parkFor(t) \/ WaitSpurious(t))
  BY DEF parkFor, ParkCount, ParkLock, ParkCond, ParkSkip, WaitCheck, WaitSpurious, WaitTimeout,
     TimeoutLock, TimeoutCheck, LockQueue, Return, Goto, UnparkPC
<1>3. ~(LockTry(t) \/ Unlock(t) \/ AwaitLoad(t) \/ LockCall(t) \/ TryLock(t) \/ AwaitCall(t) \/ Store(t))
  BY DEF LockTry, Unlock, AwaitLoad, LockCall, TryLock, AwaitCall, Store, Begin, Goto, UnparkPC
<1>4. ~UnparkWake(t)
  BY WakeDoes DEF UnparkPC
<1>5. CASE UnparkCount(t)
  BY <1>1, <1>5 DEF UnparkCount, Goto, UnparkPC
<1>6. CASE UnparkLock(t)
  BY <1>1, <1>6 DEF UnparkLock, LockQueue, Goto, UnparkPC
<1>7. CASE UnparkWalk(t)
  BY <1>1, <1>7 DEF UnparkWalk, Leave, Goto, UnparkPC
<1>8. CASE UnparkErase(t)
  BY <1>1, <1>8 DEF UnparkErase, Leave, Goto, UnparkPC
<1> QED
  BY <1>2, <1>3, <1>4, <1>5, <1>6, <1>7, <1>8 DEF Act, unpark

\* The node of a waiter is one that any unpark() of its address is to wake.
LEMMA WaiterMatches ==
    ASSUME LotInv, NEW t \in Threads, NEW w \in Threads, NEW c, Has(w, c), AddrOf(t) = AddrOf(w),
           t \in Lockers \cup Wakers, w \in Lockers \/ WakesAll
    PROVE  Matches(t, c)
<1>1. heap[c].key = AddrOf(t) /\ heap[c].mask = mask(w)
  BY NodesFitParts DEF LotInv, NodeFits, Has
<1>2. CASE t \in Lockers
  <2>1. w \in Lockers /\ w \notin Equals /\ t \notin Wakers
    BY <1>2, SameMutex, RolesDiffer DEF LotInv
  <2>2. mask(w) = {0} /\ 0 \in Bits
    BY <2>1 DEF mask, Bits
  <2> QED
    BY <1>1, <2>1, <2>2 DEF Matches
<1>3. CASE t \in Wakers
  <2>1. t \notin Lockers
    BY <1>3, RolesDiffer
  <2>2. w \notin Lockers
    BY <2>1, SameMutex DEF LotInv
  <2>3. Desired % 32 \in WakeMask[t] /\ Desired % 32 \in Bits
    BY <2>2, LotAssumption DEF WakesAll, Bits
  <2>4. Desired % 32 \in mask(w)
    BY <2>2, <2>3 DEF mask
  <2> QED
    BY <1>1, <1>3, <2>3, <2>4 DEF Matches
<1> QED
  BY <1>2, <1>3

Rem == \A t \in Threads : t \in Lockers \/ WakesAll => Remembered(t)

\* What keeps w remembered.
Minds(u, w) ==
    /\ AddrOf(u) = AddrOf(w)
    /\ \/ pc[u] \in UnparkPC
       \/ u \in Lockers /\ pc[u] \in {"load"} \cup ParkPC /\ ~Queued(u)

LEMMA RememberedIs ==
    /\ \A w : Remembered(w) <=> (Queued(w) /\ word[AddrOf(w)] # expected[w] => \E u \in Threads \ {w} : Minds(u, w))
    /\ \A w : Remembered(w)' <=>
                 (Queued(w)' /\ word'[AddrOf(w)'] # expected'[w] => \E u \in Threads \ {w} : Minds(u, w)')
<1>1. \A w : Remembered(w) <=> (Queued(w) /\ word[AddrOf(w)] # expected[w] => \E u \in Threads \ {w} : Minds(u, w))
  BY DEF Remembered, Minds
<1>2. \A w : Remembered(w)' <=>
                (Queued(w)' /\ word'[AddrOf(w)'] # expected'[w] => \E u \in Threads \ {w} : Minds(u, w)')
  BY DEF Remembered, Minds
<1> QED
  BY <1>1, <1>2

LEMMA MindsIs ==
    ASSUME UNCHANGED cast, NEW u, NEW w
    PROVE  Minds(u, w)' <=>
              /\ AddrOf(u) = AddrOf(w)
              /\ \/ pc'[u] \in UnparkPC
                 \/ u \in Lockers /\ pc'[u] \in {"load"} \cup ParkPC /\ ~Queued(u)'
BY CastKept DEF Minds

\* The inductive invariant.
WakeInv == LotInv /\ Mutexes /\ Sees /\ Budgets /\ Woken /\ Rem

\* Nobody forgets a waiter whose word has just changed.
LEMMA ChangeMinded ==
    ASSUME WakeInv, NEW t \in Threads, Act(t), UNCHANGED cast, NEW w \in Threads, Queued(w),
           pc'[w] \in NodePC, word'[AddrOf(w)] # word[AddrOf(w)], word'[AddrOf(w)] # expected[w]
    PROVE  \E u \in Threads \ {w} : Minds(u, w)'
<1> USE DEF WakeInv
<1>1. word \in [Addrs -> Nat] /\ AddrOf(w) \in Addrs /\ AddrOf(t) \in Addrs
  BY LotAssumption DEF LotInv, TypeOK, AddrOf
<1>2. AddrOf(t) = AddrOf(w) /\ pc'[t] = "u_count"
  <2>1. CASE t \in Lockers
    <3>1. AddrOf(t) = AddrOf(w)
      BY <1>1, <2>1, LockerMoves
    <3>2. w \in Lockers /\ expected[w] = 1
      <4>1. pc[w] \in ParkPC
        BY QueuedIs DEF NodePC, ParkPC
      <4> QED
        BY <2>1, <3>1, <4>1, SameMutex DEF LotInv, Mutexes
    <3>3. word' # [word EXCEPT ![AddrOf(t)] = 1]
      BY <1>1, <3>1, <3>2
    <3> QED
      BY <1>1, <2>1, <3>1, <3>3, LockerMoves
  <2>2. CASE t \notin Lockers
    BY <1>1, <2>2, OtherMoves
  <2> QED
    BY <2>1, <2>2
<1>3. t # w
  BY <1>2 DEF NodePC
<1>4. Minds(t, w)'
  BY <1>2, MindsIs DEF UnparkPC
<1> QED
  BY <1>3, <1>4

\* A thread that walks past a waiter or stops before it has woken another.
LEMMA ExitMinded ==
    ASSUME WakeInv, NEW t \in Threads, Act(t), UNCHANGED cast, NEW w \in Threads, w # t,
           NEW c, Has(w, c), Has(w, c)', AddrOf(t) = AddrOf(w), w \in Lockers \/ WakesAll,
           pc[w] \in NodePC, word[AddrOf(w)] # expected[w], pc[t] \in UnparkPC, pc'[t] \notin UnparkPC
    PROVE  \E u \in Threads \ {w} : Minds(u, w)'
<1> USE DEF WakeInv
<1>1. /\ walk \in [Threads -> Seq(Cells)] /\ walk[t] \in Seq(Cells) /\ budget[t] \in Nat
      /\ heap \in [Cells -> WaitNode] /\ Nodes \subseteq Cells
  BY ListIs DEF LotInv, TypeOK
<1>2. t \in Lockers \cup Wakers /\ Matches(t, c) /\ c \in Nodes
  BY WaiterMatches DEF LotInv, RolesFit, Has
<1>3. pc[t] \in {"u_walk", "u_erase"} => c \in ItemsOf(walk[t])
  BY <1>2 DEF Sees
<1>4. CASE UnparkCount(t) /\ count = 0
  BY <1>2, <1>4, NodesAreCounted
<1>5. CASE UnparkWalk(t) /\ pc[t] = "u_walk" /\ walk[t] = <<>>
  <2>1. c \in ItemsOf(<<>>)
    BY <1>3, <1>5
  <2> QED
    BY <2>1 DEF ItemsOf
<1>6. CASE UnparkErase(t) /\ budget[t] <= 1 /\ pc[t] = "u_erase"
  <2>1. PICK d \in Nodes : /\ d = Head(walk[t]) /\ Nodes' = Nodes \ {d} 
                           /\ \A u \in Threads \ {t} : pc'[u] = pc[u]
    BY <1>6, EraseDoes
  <2>2. c # d /\ walk[t] # <<>> /\ Once(walk[t]) /\ Matches(t, d)
    BY <1>6, <2>1, EraseFinds DEF Has, LotInv, Walks
  <2>3. c \in ItemsOf(Tail(walk[t])) /\ Tail(walk[t]) \in Seq(Cells) /\ Len(Tail(walk[t])) = Len(walk[t]) - 1
    BY <1>1, <1>3, <1>6, <2>1, <2>2, WalkOn
  <2>4. Len(walk[t]) > 1
    BY <1>1, <2>3 DEF ItemsOf
  <2>5. t \in Lockers
    <3>1. CASE t \in Wakers
      <4>1. w \notin Lockers
        BY <3>1, RolesDiffer, SameMutex DEF LotInv
      <4>2. budget[t] >= Len(walk[t])
        BY <1>6, <3>1, <4>1 DEF Budgets
      <4> QED
        BY <1>1, <1>6, <2>4, <4>2
    <3> QED
      BY <1>2, <3>1
  <2>6. w \in Lockers /\ expected[w] = 1
    BY <2>5, SameMutex DEF LotInv, Mutexes, NodePC, ParkPC
  <2>7. PICK o \in Threads : heap[d].owner = o
    BY <2>1, OwnerWaits
  <2>8. o # w
    BY <1>2, <2>1, <2>2, <2>7, NodesFitParts DEF LotInv, OneNodeEach, Has
  <2>9. AddrOf(o) = AddrOf(t) /\ o \in Lockers
    <3>1. AddrOf(o) = AddrOf(t)
      BY <2>1, <2>2, <2>7, NodesFitParts DEF LotInv, NodeFits, Matches
    <3> QED
      BY <2>5, <3>1, SameMutex DEF LotInv
  <2>10. pc[o] \in Minding /\ pc[o] # "held" /\ o # t
    <3>1. pc[o] \in Minding
      BY <1>6, <2>1, <2>5, <2>7 DEF Woken
    <3>2. pc[o] # "held"
      BY <2>6, <2>9 DEF Mutexes
    <3> QED
      BY <1>6, <3>1, <3>2 DEF Minding, ParkPC
  <2>11. pc'[o] = pc[o]
    BY <2>1, <2>10
  <2>12. ~Queued(o)'
    <3>1. ASSUME NEW e, Has(o, e)'
          PROVE  FALSE
      <4>1. Has(o, e)
        BY <2>10, <3>1, HasKept
      <4>2. e \in Nodes' /\ e = d
        BY <2>1, <2>7, <3>1, <4>1, NodesFitParts DEF LotInv, OneNodeEach, Has
      <4> QED
        BY <2>1, <4>2
    <3> QED
      BY <3>1, QueuedIs
  <2>13. Minds(o, w)'
    BY <2>9, <2>10, <2>11, <2>12, MindsIs DEF Minding, UnparkPC
  <2> QED
    BY <2>8, <2>13
<1> QED
  BY <1>4, <1>5, <1>6, UnparkExits

\* A thread inside lock() that sees the word free takes it.
LEMMA LockMinded ==
    ASSUME WakeInv, NEW t \in Threads, Act(t), UNCHANGED cast, NEW w \in Threads, w # t,
           AddrOf(t) = AddrOf(w), pc[w] \in NodePC, word[AddrOf(w)] # expected[w], Nodes # {},
           word'[AddrOf(w)] = word[AddrOf(w)],
           t \in Lockers, pc[t] \in {"load"} \cup ParkPC, ~Queued(t)
    PROVE  Minds(t, w)'
<1> USE DEF WakeInv
<1>1. word \in [Addrs -> Nat] /\ AddrOf(w) \in Addrs /\ t \notin Wakers
  BY LotAssumption, RolesDiffer DEF LotInv, TypeOK, AddrOf
<1>2. w \in Lockers /\ expected[w] = 1 /\ word[AddrOf(t)] = 0
  <2>1. w \in Lockers /\ expected[w] = 1
    BY SameMutex DEF LotInv, Mutexes, NodePC, ParkPC
  <2> QED
    BY <2>1 DEF Mutexes
<1>3. ~\E d : Inserts(t, d)
  <2> SUFFICES ASSUME NEW d, Inserts(t, d) PROVE FALSE
    OBVIOUS
  <2>1. expected[t] = 1
    <3>1. pc[t] = "p_cond"
      BY InsertsDoes
    <3> QED
      BY <3>1 DEF Mutexes, ParkPC
  <2>2. word[AddrOf(t)] = expected[t]
    BY DEF Inserts
  <2> QED
    BY <1>2, <2>1, <2>2
<1>4. ~Queued(t)'
  BY <1>3, QueuedKept
<1>5. pc'[t] # "held" /\ pc[t] # "held"
  BY <1>1, <1>2, LockerMoves DEF ParkPC
<1>6. pc'[t] \in {"load"} \cup ParkPC
  <2>1. ~UnparkLock(t)
    BY DEF UnparkLock, LockQueue, Goto, ParkPC
  <2>2. pc'[t] \in Minding
    BY <2>1, MindingStep DEF Minding
  <2>3. pc'[t] \notin {"u_count", "u_lock"}
    <3>1. ~Store(t) /\ ~Unlock(t)
      BY <1>1, <1>5 DEF Store, Unlock, Goto
    <3> QED
      BY <3>1, UnparkMoves DEF UnparkPC, ParkPC
  <2> QED
    BY <1>5, <2>2, <2>3 DEF Minding
<1> QED
  BY <1>4, <1>6, MindsIs

LEMMA RemStep ==
    ASSUME WakeInv, NEW t \in Threads, Act(t), UNCHANGED cast
    PROVE  Rem'
<1> USE DEF WakeInv
<1>1. Lockers' = Lockers /\ \A u : AddrOf(u)' = AddrOf(u)
  BY CastKept
<1>2. ASSUME NEW w \in Threads, w \in Lockers \/ WakesAll, Queued(w)', word'[AddrOf(w)] # expected'[w]
      PROVE  \E u \in Threads \ {w} : Minds(u, w)'
  <2>1. ~(w = t /\ \E d : Inserts(t, d))
    <3> SUFFICES ASSUME NEW d, Inserts(t, d), w = t PROVE FALSE
      OBVIOUS
    <3>1. UNCHANGED <<word, expected>>
      BY DEF Inserts, ParkCond
    <3> QED
      BY <1>2, <3>1 DEF Inserts
  <2>2. Queued(w) /\ expected'[w] = expected[w]
    BY <1>2, <2>1, QueuedKept
  <2>3. pc[w] \in NodePC /\ pc'[w] \in NodePC
    BY <1>2, <2>2, QueuedIs
  <2>4. CASE word'[AddrOf(w)] # word[AddrOf(w)]
    BY <1>2, <2>2, <2>3, <2>4, ChangeMinded
  <2>5. CASE word'[AddrOf(w)] = word[AddrOf(w)]
    <3>1. word[AddrOf(w)] # expected[w]
      BY <1>2, <2>2, <2>5
    <3>2. PICK u \in Threads \ {w} : Minds(u, w)
      BY <1>2, <2>2, <3>1, RememberedIs DEF Rem
    <3>3. PICK c : Has(w, c)'
      BY <1>2, QueuedIs
    <3>4. Has(w, c)
      BY <2>1, <3>3, HasKept
    <3>5. CASE u # t
      <4>1. pc'[u] = pc[u] \/ (pc[u] = "p_asleep" /\ pc'[u] = "p_check")
        BY <3>5, Others DEF LotInv
      <4>2. Queued(u)' => Queued(u)
        BY <3>5, QueuedKept
      <4>3. Minds(u, w)'
        BY <3>2, <4>1, <4>2, MindsIs DEF Minds, UnparkPC, ParkPC
      <4> QED
        BY <4>3
    <3>6. CASE u = t /\ pc[t] \in UnparkPC /\ pc'[t] \in UnparkPC
      <4>1. Minds(t, w)'
        BY <3>2, <3>6, MindsIs DEF Minds
      <4> QED
        BY <3>6, <4>1
    <3>7. CASE u = t /\ pc[t] \in UnparkPC /\ pc'[t] \notin UnparkPC
      BY <1>2, <2>3, <3>1, <3>2, <3>3, <3>4, <3>7, ExitMinded DEF Minds
    <3>8. CASE u = t /\ pc[t] \notin UnparkPC
      <4>1. Minds(t, w)'
        BY <2>3, <2>5, <3>1, <3>2, <3>4, <3>8, LockMinded DEF Minds, Has
      <4> QED
        BY <3>8, <4>1
    <3> QED
      BY <3>5, <3>6, <3>7, <3>8
  <2> QED
    BY <2>4, <2>5
<1>3. \A w \in Threads : w \in Lockers \/ WakesAll => Remembered(w)'
  BY <1>1, <1>2, RememberedIs
<1> QED
  BY <1>1, <1>3 DEF Rem

LEMMA WakeInit ==
    ASSUME Init
    PROVE  WakeInv
<1>1. LotInv
  BY LotInit
<1>2. pc = [t \in Threads |-> "idle"] /\ word = [a \in Addrs |-> 0]
  BY DEF Init
<1>3. \A t \in Threads : AddrOf(t) \in Addrs
  BY <1>1, LotAssumption DEF LotInv, TypeOK, AddrOf
<1>4. Mutexes
  BY <1>2, <1>3, RolesDiffer DEF Mutexes, ParkPC
<1>5. Sees /\ Budgets /\ Woken
  BY <1>2, RolesDiffer DEF Sees, Budgets, Woken, UnparkPC
<1>6. Rem
  BY <1>2 DEF Rem, Remembered, Queued, NodePC
<1> QED
  BY <1>1, <1>4, <1>5, <1>6 DEF WakeInv

LEMMA WakeStep ==
    ASSUME ~Reuse, WakeInv, [Next]_vars
    PROVE  WakeInv'
<1>1. LotInv'
  BY LotStep DEF WakeInv
<1>2. ASSUME NEW t \in Threads, Act(t), UNCHANGED cast
      PROVE  Mutexes' /\ Sees' /\ Budgets' /\ Woken' /\ Rem'
  BY <1>2, MutexesStep, SeesStep, BudgetsStep, WokenStep, RemStep DEF WakeInv
<1>3. Next => \E t \in Threads : Act(t) /\ UNCHANGED cast
  BY DEF Next, Step, Call, Act
<1>4. CASE UNCHANGED vars
  <2>1. /\ UNCHANGED <<cast, word, list, heap, pc, expected, walk, budget>> /\ Nodes' = Nodes
        /\ UNCHANGED <<Lockers, Equals, Wakers>>
    BY <1>4 DEF vars, Nodes, Lockers, Equals, Wakers
  <2>2. Mutexes' /\ Budgets' /\ Woken'
    BY <2>1 DEF WakeInv, Mutexes, Budgets, Woken, AddrOf
  <2>3. Sees'
    BY <2>1 DEF WakeInv, Sees, Matches, AddrOf
  <2>4. Rem'
    BY <2>1 DEF WakeInv, Rem, Remembered, Queued, AddrOf
  <2> QED
    BY <1>1, <2>2, <2>3, <2>4 DEF WakeInv
<1> QED
  BY <1>1, <1>2, <1>3, <1>4 DEF WakeInv

\* A thread that waits for a Mutex is never forgotten, whatever the clients of
\* the futexes that share its queue do.
THEOREM MutexForgetsNobody ==
    ASSUME ~Reuse
    PROVE  Spec => [](\A t \in Lockers : Remembered(t))
<1>1. Init => WakeInv
  BY WakeInit
<1>2. WakeInv /\ [Next]_vars => WakeInv'
  BY WakeStep
<1>3. WakeInv => \A t \in Lockers : Remembered(t)
  BY RolesDiffer DEF WakeInv, Rem
<1> QED
  BY <1>1, <1>2, <1>3, PTL DEF Spec

\* Nor is any waiter, of a Mutex or of a futex whose clients wake everyone.
THEOREM NobodyIsForgotten ==
    ASSUME ~Reuse, WakesAll
    PROVE  Spec => []NoLostWakeup
<1>1. Init => WakeInv
  BY WakeInit
<1>2. WakeInv /\ [Next]_vars => WakeInv'
  BY WakeStep
<1>3. WakeInv => NoLostWakeup
  BY DEF WakeInv, Rem, NoLostWakeup
<1> QED
  BY <1>1, <1>2, <1>3, PTL DEF Spec

-----------------------------------------------------------------------------
(* Mutual exclusion, whatever becomes of the memory of the nodes.           *)

OneHolder == \A t, u \in Lockers : pc[t] = "held" /\ pc[u] = "held" /\ AddrOf(t) = AddrOf(u) => t = u

HoldInv ==
    /\ cast \in Castings /\ word \in [Addrs -> Nat] /\ pc \in [Threads -> PCs]
    /\ \A t \in Threads : pc[t] = "held" => t \in Lockers /\ word[AddrOf(t)] = 1
    /\ \A t \in Lockers : word[AddrOf(t)] \in {0, 1}
    /\ OneHolder

\* What a step does to the words and to who holds one.
LEMMA HoldMoves ==
    ASSUME HoldInv, NEW t \in Threads, Act(t)
    PROVE  /\ pc' \in [Threads -> PCs]
           /\ \A u \in Threads \ {t} : pc'[u] = "held" <=> pc[u] = "held"
           /\ \/ UNCHANGED word /\ (pc'[t] = "held" <=> pc[t] = "held")
              \/ /\ t \in Lockers /\ word[AddrOf(t)] = 0 /\ word' = [word EXCEPT ![AddrOf(t)] = 1] /\ pc'[t] = "held"
              \/ pc[t] = "held" /\ word' = [word EXCEPT ![AddrOf(t)] = 0] /\ pc'[t] # "held"
              \/ t \in Wakers /\ word' = [word EXCEPT ![AddrOf(t)] = word[AddrOf(t)] + 1]
                 /\ pc[t] # "held" /\ pc'[t] # "held"
<1>1. pc \in [Threads -> PCs]
  BY DEF HoldInv
<1>2. CASE parkFor(t) \/ WaitSpurious(t)
  <2>1. UNCHANGED word
    BY <1>2 DEF parkFor, ParkCount, ParkLock, ParkCond, ParkSkip, WaitCheck, WaitSpurious, WaitTimeout,
       TimeoutLock, TimeoutCheck, parkVars
  <2>2. \E to \in PCs \ {"held"} : pc' = [pc EXCEPT ![t] = to]
    BY <1>2 DEF parkFor, ParkCount, ParkLock, ParkCond, ParkSkip, WaitCheck, WaitSpurious, WaitTimeout,
       TimeoutLock, TimeoutCheck, LockQueue, Return, Goto, PCs, ParkPC
  <2>3. pc[t] # "held"
    BY <1>2 DEF parkFor, ParkCount, ParkLock, ParkCond, ParkSkip, WaitCheck, WaitSpurious, WaitTimeout,
       TimeoutLock, TimeoutCheck, LockQueue, Return, Goto
  <2> QED
    BY <1>1, <2>1, <2>2, <2>3
<1>3. CASE unpark(t)
  <2>1. UNCHANGED word /\ pc[t] # "held"
    BY <1>3 DEF unpark, UnparkCount, UnparkLock, UnparkWalk, UnparkWake, UnparkErase, LockQueue, Leave, Goto
  <2>2. CASE UnparkWake(t)
    <3>1. PICK c : \/ pc' = [pc EXCEPT ![t] = "u_erase"]
                   \/ \E u \in {v \in Threads : pc[v] = "p_asleep" /\ ptr[v] = c} :
                          pc' = [pc EXCEPT ![t] = "u_erase", ![u] = "p_check"]
      BY <2>2 DEF UnparkWake
    <3>2. CASE pc' = [pc EXCEPT ![t] = "u_erase"]
      BY <1>1, <2>1, <3>2 DEF PCs, UnparkPC
    <3>3. ASSUME NEW u \in Threads, pc[u] = "p_asleep", pc' = [pc EXCEPT ![t] = "u_erase", ![u] = "p_check"]
          PROVE  /\ pc' \in [Threads -> PCs] /\ pc'[t] # "held"
                 /\ \A v \in Threads \ {t} : pc'[v] = "held" <=> pc[v] = "held"
      BY <1>1, <3>3 DEF PCs, ParkPC, UnparkPC
    <3> QED
      BY <2>1, <3>1, <3>2, <3>3
  <2>3. CASE ~UnparkWake(t)
    <3>1. UNCHANGED pc \/ \E to \in PCs \ {"held"} : pc' = [pc EXCEPT ![t] = to]
      BY <1>3, <2>3 DEF unpark, UnparkCount, UnparkLock, UnparkWalk, UnparkErase, LockQueue, Leave, Goto,
         PCs, UnparkPC
    <3> QED
      BY <1>1, <2>1, <3>1
  <2> QED
    BY <2>2, <2>3
<1>4. CASE LockTry(t) \/ TryLock(t)
  <2>1. \/ UNCHANGED word /\ pc[t] # "held" /\ \E to \in PCs \ {"held"} : pc' = [pc EXCEPT ![t] = to]
        \/ /\ t \in Lockers /\ word[AddrOf(t)] = 0 /\ word' = [word EXCEPT ![AddrOf(t)] = 1]
           /\ pc' = [pc EXCEPT ![t] = "held"]
    BY <1>4 DEF LockTry, TryLock, Begin, Goto, PCs, ParkPC
  <2> QED
    BY <1>1, <2>1 DEF PCs
<1>5. CASE Unlock(t)
  BY <1>1, <1>5 DEF Unlock, Goto, PCs, UnparkPC
<1>6. CASE Store(t)
  <2>1. t \in Wakers /\ word' = [word EXCEPT ![AddrOf(t)] = word[AddrOf(t)] + 1]
    BY <1>6 DEF Store
  <2>2. pc[t] # "held" /\ pc' = [pc EXCEPT ![t] = "u_count"]
    BY <1>6 DEF Store, Begin, Goto
  <2> QED
    BY <1>1, <2>1, <2>2 DEF PCs, UnparkPC
<1>7. CASE AwaitLoad(t) \/ AwaitCall(t) \/ LockCall(t)
  <2>1. UNCHANGED word /\ pc[t] # "held" /\ \E to \in PCs \ {"held"} : pc' = [pc EXCEPT ![t] = to]
    BY <1>7 DEF AwaitLoad, AwaitCall, LockCall, Begin, Goto, PCs, ParkPC
  <2> QED
    BY <1>1, <2>1
<1> QED
  BY <1>2, <1>3, <1>4, <1>5, <1>6, <1>7 DEF Act

LEMMA HoldStep ==
    ASSUME HoldInv, [Next]_vars
    PROVE  HoldInv'
<1>1. ASSUME NEW t \in Threads, Act(t), UNCHANGED cast
      PROVE  HoldInv'
  <2>1. /\ \A u \in Threads : AddrOf(u) \in Addrs
        /\ \A u \in Lockers : u \in Threads
        /\ \A u, v \in Threads : u \in Lockers /\ AddrOf(v) = AddrOf(u) => v \in Lockers
        /\ \A u \in Lockers : u \notin Wakers
    BY LotAssumption DEF HoldInv, AddrOf, Lockers, Wakers
  <2>2. Lockers' = Lockers /\ \A u : AddrOf(u)' = AddrOf(u)
    BY <1>1, CastKept
  <2>3. /\ pc' \in [Threads -> PCs]
        /\ \A u \in Threads \ {t} : pc'[u] = "held" <=> pc[u] = "held"
    BY <1>1, HoldMoves
  <2>4. cast' \in Castings
    BY <1>1 DEF HoldInv
  <2> DEFINE Holds ==
        /\ word' \in [Addrs -> Nat]
        /\ \A u \in Threads : pc'[u] = "held" => u \in Lockers /\ word'[AddrOf(u)] = 1
        /\ \A u \in Lockers : word'[AddrOf(u)] \in {0, 1}
        /\ \A u, v \in Lockers : pc'[u] = "held" /\ pc'[v] = "held" /\ AddrOf(u) = AddrOf(v) => u = v
  <2>5. ASSUME UNCHANGED word, pc'[t] = "held" <=> pc[t] = "held"
        PROVE  Holds
    BY <2>1, <2>3, <2>5 DEF HoldInv, OneHolder
  <2>6. ASSUME t \in Lockers, word[AddrOf(t)] = 0, word' = [word EXCEPT ![AddrOf(t)] = 1], pc'[t] = "held"
        PROVE  Holds
    <3>1. \A u \in Threads : word'[AddrOf(u)] = IF AddrOf(u) = AddrOf(t) THEN 1 ELSE word[AddrOf(u)]
      BY <2>1, <2>6 DEF HoldInv
    <3>2. \A u \in Threads : pc[u] = "held" => AddrOf(u) # AddrOf(t)
      BY <2>6 DEF HoldInv
    <3>3. word' \in [Addrs -> Nat]
      BY <2>1, <2>6 DEF HoldInv
    <3>4. \A u \in Lockers : word'[AddrOf(u)] \in {0, 1}
      BY <2>1, <3>1 DEF HoldInv
    <3>5. \A u \in Threads : pc'[u] = "held" => u \in Lockers /\ word'[AddrOf(u)] = 1
      BY <2>3, <2>6, <3>1 DEF HoldInv
    <3>6. \A u, v \in Lockers : pc'[u] = "held" /\ pc'[v] = "held" /\ AddrOf(u) = AddrOf(v) => u = v
      BY <2>1, <2>3, <3>2 DEF HoldInv, OneHolder
    <3> QED
      BY <3>3, <3>4, <3>5, <3>6
  <2>7. ASSUME pc[t] = "held", word' = [word EXCEPT ![AddrOf(t)] = 0], pc'[t] # "held"
        PROVE  Holds
    <3>1. \A u \in Threads : word'[AddrOf(u)] = IF AddrOf(u) = AddrOf(t) THEN 0 ELSE word[AddrOf(u)]
      BY <2>1, <2>7 DEF HoldInv
    <3>2. \A u \in Threads : pc'[u] = "held" => pc[u] = "held" /\ AddrOf(u) # AddrOf(t)
      BY <2>1, <2>3, <2>7 DEF HoldInv, OneHolder
    <3>3. word' \in [Addrs -> Nat]
      BY <2>1, <2>7 DEF HoldInv
    <3>4. \A u \in Lockers : word'[AddrOf(u)] \in {0, 1}
      BY <2>1, <3>1 DEF HoldInv
    <3>5. \A u \in Threads : pc'[u] = "held" => u \in Lockers /\ word'[AddrOf(u)] = 1
      BY <3>1, <3>2 DEF HoldInv
    <3>6. \A u, v \in Lockers : pc'[u] = "held" /\ pc'[v] = "held" /\ AddrOf(u) = AddrOf(v) => u = v
      BY <2>1, <3>2 DEF HoldInv, OneHolder
    <3> QED
      BY <3>3, <3>4, <3>5, <3>6
  <2>8. ASSUME t \in Wakers, word' = [word EXCEPT ![AddrOf(t)] = word[AddrOf(t)] + 1],
               pc[t] # "held", pc'[t] # "held"
        PROVE  Holds
    <3>1. \A u \in Lockers : word'[AddrOf(u)] = word[AddrOf(u)]
      <4>1. \A u \in Lockers : AddrOf(u) # AddrOf(t)
        BY <2>1, <2>8
      <4> QED
        BY <2>1, <2>8, <4>1 DEF HoldInv
    <3>2. word' \in [Addrs -> Nat]
      <4>1. word[AddrOf(t)] + 1 \in Nat
        BY <2>1 DEF HoldInv
      <4> QED
        BY <2>8, <4>1 DEF HoldInv
    <3> QED
      BY <2>1, <2>3, <2>8, <3>1, <3>2 DEF HoldInv, OneHolder
  <2>9. Holds
    BY <1>1, <2>5, <2>6, <2>7, <2>8, HoldMoves
  <2> QED
    BY <2>2, <2>3, <2>4, <2>9 DEF HoldInv, OneHolder
<1>2. Next => \E t \in Threads : Act(t) /\ UNCHANGED cast
  BY DEF Next, Step, Call, Act
<1>3. CASE UNCHANGED vars
  BY <1>3 DEF vars, HoldInv, OneHolder, Lockers, AddrOf
<1> QED
  BY <1>1, <1>2, <1>3

\* A Mutex is held by one thread at a time, even if freed nodes are handed out
\* again at once.
THEOREM MutualExclusion == Spec => []OneHolder
<1>1. Init => HoldInv
  <2> SUFFICES ASSUME Init PROVE HoldInv
    OBVIOUS
  <2>1. cast \in Castings /\ word = [a \in Addrs |-> 0] /\ pc = [t \in Threads |-> "idle"]
    BY DEF Init
  <2>2. \A t \in Threads : AddrOf(t) \in Addrs
    BY <2>1, LotAssumption DEF AddrOf
  <2> QED
    BY <2>1, <2>2, RolesDiffer DEF HoldInv, OneHolder, PCs
<1>2. HoldInv /\ [Next]_vars => HoldInv'
  BY HoldStep
<1>3. HoldInv => OneHolder
  BY DEF HoldInv
<1> QED
  BY <1>1, <1>2, <1>3, PTL DEF Spec

==============================================================================
