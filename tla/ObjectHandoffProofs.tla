-------------------------- MODULE ObjectHandoffProofs --------------------------
(* Theorems about ObjectHandoff, for any slab size, number of slabs, and queue. *)
EXTENDS ObjectHandoff, SpscQueueProofs, FiniteSetTheorems

-----------------------------------------------------------------------------
(* Stacks as sequences.                                                     *)

LEMMA PushFront ==
    ASSUME NEW S, NEW s \in Seq(S), NEW x \in S
    PROVE  /\ <<x>> \o s \in Seq(S) /\ <<x>> \o s # <<>> /\ Head(<<x>> \o s) = x
           /\ ToSet(<<x>> \o s) = ToSet(s) \cup {x}
           /\ IsInjective(s) /\ x \notin ToSet(s) => IsInjective(<<x>> \o s)
<1>1. /\ <<x>> \o s \in Seq(S) /\ Len(<<x>> \o s) = Len(s) + 1
      /\ (<<x>> \o s)[1] = x /\ \A i \in 1..Len(s) : (<<x>> \o s)[i + 1] = s[i]
  OBVIOUS
<1>2. ASSUME NEW i \in 1..Len(<<x>> \o s)
      PROVE  i = 1 \/ \E j \in 1..Len(s) : i = j + 1
  <2>1. i = 1 \/ (i - 1 \in 1..Len(s) /\ i = (i - 1) + 1)
    BY <1>1
  <2> QED
    BY <2>1
<1>3. ToSet(<<x>> \o s) = ToSet(s) \cup {x}
  <2>1. ToSet(<<x>> \o s) \subseteq ToSet(s) \cup {x}
    BY <1>1, <1>2 DEF ToSet
  <2>2. x \in ToSet(<<x>> \o s)
    BY <1>1 DEF ToSet
  <2>3. ASSUME NEW i \in 1..Len(s)
        PROVE  s[i] \in ToSet(<<x>> \o s)
    <3>1. i + 1 \in DOMAIN (<<x>> \o s) /\ (<<x>> \o s)[i + 1] = s[i]
      BY <1>1
    <3> QED
      BY <3>1 DEF ToSet
  <2>4. ToSet(s) \subseteq ToSet(<<x>> \o s)
    BY <2>3 DEF ToSet
  <2> QED
    BY <2>1, <2>2, <2>4
<1>4. ASSUME IsInjective(s), x \notin ToSet(s)
      PROVE  IsInjective(<<x>> \o s)
  BY <1>1, <1>2, <1>4 DEF IsInjective, ToSet
<1> QED
  BY <1>1, <1>3, <1>4

LEMMA PopFront ==
    ASSUME NEW S, NEW s \in Seq(S), s # <<>>
    PROVE  /\ Tail(s) \in Seq(S) /\ Head(s) \in ToSet(s) /\ Head(s) \in S
           /\ IsInjective(s) => IsInjective(Tail(s)) /\ ToSet(Tail(s)) = ToSet(s) \ {Head(s)}
<1>1. /\ Tail(s) \in Seq(S) /\ Len(Tail(s)) = Len(s) - 1 /\ Len(s) > 0
      /\ Head(s) = s[1] /\ \A i \in 1..Len(Tail(s)) : Tail(s)[i] = s[i + 1]
  OBVIOUS
<1>2. Head(s) \in ToSet(s) /\ Head(s) \in S
  BY <1>1 DEF ToSet
<1>3. ASSUME IsInjective(s)
      PROVE  IsInjective(Tail(s)) /\ ToSet(Tail(s)) = ToSet(s) \ {Head(s)}
  <2>1. IsInjective(Tail(s))
    BY <1>1, <1>3 DEF IsInjective
  <2>2. ToSet(Tail(s)) \subseteq ToSet(s) \ {Head(s)}
    BY <1>1, <1>3 DEF IsInjective, ToSet
  <2>3. ASSUME NEW i \in 1..Len(s), s[i] # Head(s)
        PROVE  s[i] \in ToSet(Tail(s))
    <3>1. i - 1 \in DOMAIN Tail(s) /\ s[i] = Tail(s)[i - 1]
      BY <1>1, <2>3
    <3> QED
      BY <3>1 DEF ToSet
  <2>4. ToSet(s) \ {Head(s)} \subseteq ToSet(Tail(s))
    BY <2>3 DEF ToSet
  <2> QED
    BY <2>1, <2>2, <2>4
<1> QED
  BY <1>1, <1>2, <1>3

LEMMA PushBack ==
    ASSUME NEW S, NEW s \in Seq(S), NEW x \in S
    PROVE  /\ ToSet(Append(s, x)) = ToSet(s) \cup {x}
           /\ IsInjective(s) /\ x \notin ToSet(s) => IsInjective(Append(s, x))
<1>1. /\ Append(s, x) \in Seq(S) /\ Len(Append(s, x)) = Len(s) + 1
      /\ Append(s, x)[Len(s) + 1] = x /\ \A i \in 1..Len(s) : Append(s, x)[i] = s[i]
  OBVIOUS
<1>2. ToSet(Append(s, x)) = ToSet(s) \cup {x}
  BY <1>1 DEF ToSet
<1>3. ASSUME IsInjective(s), x \notin ToSet(s)
      PROVE  IsInjective(Append(s, x))
  BY <1>1, <1>3 DEF IsInjective, ToSet
<1> QED
  BY <1>2, <1>3

\* A slot of a stack without repetition is at one position.
LEMMA Position ==
    ASSUME NEW s \in Seq(Slots), IsInjective(s), NEW i \in 1..Len(s), NEW h, h = s[i]
    PROVE  /\ Contains(s, h) /\ (h = Last(s) <=> i = Len(s))
           /\ \A j \in 1..Len(s) : s[j] = h <=> j = i
           /\ Min({i}) = i
<1>1. Contains(s, h) /\ (h = Last(s) <=> i = Len(s))
  BY DEF Contains, Last, IsInjective
<1>2. \A j \in 1..Len(s) : s[j] = h <=> j = i
  BY DEF IsInjective
<1>3. Min({i}) = i
  BY DEF Min
<1> QED
  BY <1>1, <1>2, <1>3

\* In a stack without repetition next leads to the slot below.
LEMMA NextBelow ==
    ASSUME free \in Seq(Slots), IsInjective(free), NEW i \in 1..Len(free)
    PROVE  /\ NextOf(free[i]) = IF i = Len(free) THEN NoSlot ELSE free[i + 1]
           /\ NextOf(free[i]) # free[i]
<1>1. PICK h : h = free[i]
  OBVIOUS
<1>2. NextOf(h) = IF i = Len(free) THEN NoSlot ELSE free[i + 1]
  <2>1. /\ Contains(free, h) /\ (h = Last(free) <=> i = Len(free))
        /\ \A j \in 1..Len(free) : free[j] = h <=> j = i
        /\ Min({i}) = i
    BY <1>1, Position
  <2>2. SelectInSeq(free, LAMBDA s : s = h) = i
    <3>1. {j \in 1..Len(free) : free[j] = h} = {i}
      BY <2>1
    <3> QED
      BY <2>1, <3>1 DEF SelectInSeq
  <2> QED
    BY <2>1, <2>2 DEF NextOf
<1>3. free[i] # NoSlot /\ (i # Len(free) => free[i + 1] # free[i])
  BY PoolAssumption DEF Slots, IsInjective
<1> QED
  BY <1>1, <1>2, <1>3

-----------------------------------------------------------------------------
(* Where the slots are.                                                     *)

Stack    == <<"stack", NoSlot>>
Queue    == <<"queue", NoSlot>>
Cache(t) == <<"cache", t>>
Held(t)  == <<"held", t>>
Slab(t)  == <<"slab", t>>

LEMMA SitesAre ==
    /\ {Stack, Queue} \subseteq Sites
    /\ \A t \in Threads : {Cache(t), Held(t), Slab(t)} \subseteq Sites
    /\ \A s \in Sites : \/ s \in {Stack, Queue}
                        \/ \E t \in Threads : s \in {Cache(t), Held(t), Slab(t)}
BY DEF Sites, Stack, Queue, Cache, Held, Slab

LEMMA ItemsAre ==
    /\ Items(Stack) = ToSet(free) /\ Items(Queue) = ToSet(Contents)
    /\ \A t \in Threads : /\ Items(Cache(t)) = ToSet(cache[t]) /\ Items(Held(t)) = held[t]
                          /\ Items(Slab(t)) = Unpushed(t)
BY DEF Items, Stack, Queue, Cache, Held, Slab

NoRepeats == /\ IsInjective(free) /\ IsInjective(Contents)
             /\ \A t \in Threads : IsInjective(cache[t])

\* No two places hold the same slot, and together they hold those of every slab.
Sorted ==
    /\ \A s \in Sites : Items(s) \subseteq 1..(slabs * BlocksPerSlab)
    /\ \A s1 \in Sites : \A s2 \in Sites : s1 # s2 => Items(s1) \cap Items(s2) = {}
    /\ \A slot \in 1..(slabs * BlocksPerSlab) : \E s \in Sites : slot \in Items(s)

\* What a place holds after slot x went from place a to place b.
After(s, items, a, b, x) ==
    IF s = a THEN items \ {x} ELSE IF s = b THEN items \cup {x} ELSE items

LEMMA Moves ==
    ASSUME Sorted, slabs' = slabs,
           NEW a \in Sites, NEW b \in Sites, a # b, NEW x \in Items(a),
           ToSet(free') = After(Stack, ToSet(free), a, b, x),
           ToSet(Contents') = After(Queue, ToSet(Contents), a, b, x),
           \A t \in Threads : /\ ToSet(cache'[t]) = After(Cache(t), ToSet(cache[t]), a, b, x)
                              /\ held'[t] = After(Held(t), held[t], a, b, x)
                              /\ Unpushed(t)' = After(Slab(t), Unpushed(t), a, b, x)
    PROVE  Sorted'
<1>1. \A s \in Sites : Items(s)' = After(s, Items(s), a, b, x)
  <2>1. /\ Items(Stack)' = After(Stack, Items(Stack), a, b, x)
        /\ Items(Queue)' = After(Queue, Items(Queue), a, b, x)
    BY DEF Items, Stack, Queue
  <2>2. ASSUME NEW t \in Threads
        PROVE  /\ Items(Cache(t))' = After(Cache(t), Items(Cache(t)), a, b, x)
               /\ Items(Held(t))' = After(Held(t), Items(Held(t)), a, b, x)
               /\ Items(Slab(t))' = After(Slab(t), Items(Slab(t)), a, b, x)
    BY DEF Items, Cache, Held, Slab
  <2> QED
    BY <2>1, <2>2, SitesAre
<1>2. \A s \in Sites : \A y : y \in Items(s)' <=> IF y = x THEN s = b ELSE y \in Items(s)
  BY <1>1 DEF After, Sorted
<1>3. x \in 1..(slabs * BlocksPerSlab)
  BY DEF Sorted
<1>4. \A s \in Sites : Items(s)' \subseteq 1..(slabs * BlocksPerSlab)
  BY <1>2, <1>3 DEF Sorted
<1>5. \A s1 \in Sites : \A s2 \in Sites : s1 # s2 => Items(s1)' \cap Items(s2)' = {}
  BY <1>2 DEF Sorted
<1>6. \A slot \in 1..(slabs * BlocksPerSlab) : \E s \in Sites : slot \in Items(s)'
  BY <1>2 DEF Sorted
<1> QED
  BY <1>4, <1>5, <1>6 DEF Sorted

\* A step that moves nothing.
LEMMA Stays ==
    ASSUME Sorted, UNCHANGED <<free, Contents, cache, held, slabs>>,
           \A t \in Threads : Unpushed(t)' = Unpushed(t)
    PROVE  Sorted'
<1>1. \A s \in Sites : Items(s)' = Items(s)
  BY SitesAre DEF Items, Stack, Queue, Cache, Held, Slab
<1> QED
  BY <1>1 DEF Sorted

-----------------------------------------------------------------------------
(* The inductive invariant.                                                 *)

\* A thread's local state agrees with its step; the mutex has one owner, so one
\* thread at most fills a slab; what is being enqueued is still the producer's.
Steps ==
    /\ \A t \in Threads : op[t].at \in {"next", "cas"} => op[t].head \in Slots
    /\ \A t \in Threads : op[t].at \in {"test", "push"} <=> owner = t
    /\ \A t \in Threads : op[t].at = "push" => op[t].todo > 0 /\ slabs > 0
    /\ prod.at # "idle" => prod.item \in held[producer]

PoolInv == PoolTypeOK /\ Steps /\ (~corrupt => NoRepeats /\ Sorted)

HInv == IInv /\ PoolInv /\ poppers \subseteq Threads

LEMMA NextOfType ==
    ASSUME PoolTypeOK, NoRepeats, NEW slot \in Slots
    PROVE  NextOf(slot) \in Slots \cup {NoSlot}
<1>1. CASE ~Contains(free, slot)
  BY <1>1 DEF NextOf
<1>2. CASE Contains(free, slot)
  <2>1. PICK i \in 1..Len(free) : slot = free[i]
    BY <1>2 DEF Contains
  <2>2. NextOf(slot) = IF i = Len(free) THEN NoSlot ELSE free[i + 1]
    BY <2>1, NextBelow DEF PoolTypeOK, NoRepeats
  <2> QED
    BY <2>2 DEF PoolTypeOK
<1> QED
  BY <1>1, <1>2

LEMMA Parts ==
    /\ producer \in Threads /\ consumer \in Threads /\ producer # consumer
    /\ \A t \in Threads : t = producer \/ t = consumer
    /\ Values = Slots /\ NoSlot \notin Slots /\ NoSlot \notin Threads
    /\ BlocksPerSlab \in Nat \ {0} /\ MaxSlabs \in Nat
BY HandoffAssumption, PoolAssumption DEF Slots

LEMMA InitHolds == Init => HInv
<1> SUFFICES ASSUME Init PROVE HInv
  OBVIOUS
<1> USE DEF Init
<1>1. IInv
  BY InitOK
<1>2. PoolTypeOK /\ poppers \subseteq Threads
  <2>1. /\ free \in Seq(Slots) /\ cache \in [Threads -> Seq(Slots)]
        /\ slabs \in 0..MaxSlabs /\ owner \in Threads \cup {NoSlot}
        /\ held \in [Threads -> SUBSET Slots] /\ corrupt \in BOOLEAN
    <3>1. <<>> \in Seq(Slots)
      OBVIOUS
    <3>2. 0 \in 0..MaxSlabs
      BY Parts
    <3> QED
      BY <3>1, <3>2 DEF PoolInit
  <2>2. \A t \in Threads : op[t] = Idle
    BY DEF PoolInit
  <2>3. Idle \in [at : {"idle", "load", "next", "cas", "take", "lock", "test", "push", "flush"},
                  head : Slots \cup {NoSlot}, next : Slots \cup {NoSlot},
                  grown : BOOLEAN, todo : 0..BlocksPerSlab]
    BY Parts DEF Idle
  <2> QED
    BY <2>1, <2>2, <2>3 DEF PoolTypeOK, PoolInit
<1>3. Steps
  BY Parts DEF PoolInit, QueueInit, Idle, Steps
<1>4. Contents = <<>>
  BY ContentsAre, <1>1 DEF QueueInit, Count, Minus
<1>5. NoRepeats
  BY <1>4 DEF NoRepeats, PoolInit, IsInjective
<1>6. \A s \in Sites : Items(s) = {}
  <2>1. ToSet(<<>>) = {}
    BY DEF ToSet
  <2>2. \A t \in Threads : Unpushed(t) = {}
    BY DEF Unpushed, PoolInit, Idle
  <2> QED
    BY <1>4, <2>1, <2>2, SitesAre, ItemsAre DEF PoolInit
<1>7. slabs * BlocksPerSlab = 0
  BY Parts DEF PoolInit
<1>8. Sorted
  BY <1>6, <1>7 DEF Sorted
<1> QED
  BY <1>1, <1>2, <1>3, <1>5, <1>8 DEF HInv, PoolInv

-----------------------------------------------------------------------------
(* Steps of one thread in the pool.                                         *)

OpType == [at : {"idle", "load", "next", "cas", "take", "lock", "test", "push", "flush"},
           head : Slots \cup {NoSlot}, next : Slots \cup {NoSlot},
           grown : BOOLEAN, todo : 0..BlocksPerSlab]

LEMMA IdleTypes ==
    /\ Idle \in OpType /\ Idle.at = "idle"
    /\ Grown \in OpType /\ Grown.at = "load"
    /\ [Idle EXCEPT !.at = "lock"] \in OpType /\ [Idle EXCEPT !.at = "lock"].at = "lock"
<1>1. 0 \in 0..BlocksPerSlab
  BY Parts
<1>2. Idle \in OpType
  BY <1>1 DEF Idle, OpType
<1>3. [Idle EXCEPT !.at = "lock"] \in OpType /\ [Idle EXCEPT !.at = "lock"].at = "lock"
  BY <1>2 DEF OpType
<1>4. Grown \in OpType /\ Grown.at = "load"
  BY <1>2 DEF OpType, Grown
<1> QED
  BY <1>2, <1>3, <1>4 DEF Idle

\* The thread's next step is allowed by what it holds.
Fitting(t, new) ==
    /\ new \in OpType
    /\ op' = [op EXCEPT ![t] = new]
    /\ new.at \in {"next", "cas"} => new.head \in Slots
    /\ new.at \in {"test", "push"} <=> owner' = t
    /\ new.at = "push" => new.todo > 0 /\ slabs' > 0

LEMMA OpKept ==
    ASSUME PoolTypeOK, NEW t \in Threads, NEW new, Fitting(t, new)
    PROVE  /\ op'[t] = new /\ \A u \in Threads \ {t} : op'[u] = op[u]
           /\ op' \in [Threads -> OpType]
BY DEF PoolTypeOK, Fitting, OpType

LEMMA StepsKept ==
    ASSUME PoolInv, UNCHANGED prod, NEW t \in Threads, NEW new, Fitting(t, new),
           owner' = owner \/ (owner \in {t, NoSlot} /\ owner' \in {t, NoSlot}),
           slabs \in Nat, slabs' \in {slabs, slabs + 1},
           prod.at # "idle" => prod.item \in held'[producer]
    PROVE  Steps'
<1> USE DEF PoolInv
<1>1. op'[t] = new /\ \A u \in Threads \ {t} : op'[u] = op[u]
  BY OpKept
<1>2. \A u \in Threads \ {t} : owner' = u <=> owner = u
  BY Parts
<1>3. \A u \in Threads : op'[u].at \in {"next", "cas"} => op'[u].head \in Slots
  BY <1>1 DEF Steps, Fitting
<1>4. \A u \in Threads : op'[u].at \in {"test", "push"} <=> owner' = u
  BY <1>1, <1>2 DEF Steps, Fitting
<1>5. \A u \in Threads : op'[u].at = "push" => op'[u].todo > 0 /\ slabs' > 0
  BY <1>1 DEF Steps, Fitting
<1> QED
  BY <1>3, <1>4, <1>5 DEF Steps

\* Only the thread that fills a slab has slots to push.
LEMMA NoneUnpushed ==
    ASSUME PoolInv, NEW t \in Threads, NEW new, Fitting(t, new),
           slabs' = slabs \/ owner = t
    PROVE  \A u \in Threads \ {t} : Unpushed(u)' = Unpushed(u)
<1>1. \A u \in Threads \ {t} : op'[u] = op[u]
  BY OpKept DEF PoolInv
<1>2. \A u \in Threads \ {t} : slabs' = slabs \/ op[u].at # "push"
  BY DEF PoolInv, Steps
<1> QED
  BY <1>1, <1>2 DEF Unpushed

LEMMA QueueKept ==
    ASSUME HInv, UNCHANGED queueVars
    PROVE  IInv' /\ Contents' = Contents /\ (prod.at # "idle" => prod.item \in held[producer])
<1>1. IInv'
  BY Inductive DEF HInv
<1>2. Contents' = Contents
  BY DEF queueVars, Contents, PositionOf, cell_at_
<1> QED
  BY <1>1, <1>2 DEF HInv, PoolInv, Steps

\* A step that moves no slot.
LEMMA QuietStep ==
    ASSUME HInv, UNCHANGED queueVars, NEW t \in Threads, NEW new, Fitting(t, new),
           UNCHANGED <<free, cache, slabs, held, corrupt>>,
           owner' = owner \/ (owner \in {t, NoSlot} /\ owner' \in {t, NoSlot}),
           op[t].at # "push", new.at # "push"
    PROVE  PoolInv'
<1> USE DEF HInv, PoolInv
<1>1. PoolTypeOK'
  BY OpKept DEF PoolTypeOK, OpType
<1>2. Steps'
  <2>1. slabs \in Nat /\ slabs' \in {slabs, slabs + 1}
    BY DEF PoolTypeOK
  <2>2. prod.at # "idle" => prod.item \in held'[producer]
    BY DEF Steps
  <2> QED
    BY <2>1, <2>2, StepsKept DEF queueVars
<1>3. \A u \in Threads : Unpushed(u)' = Unpushed(u)
  BY OpKept, NoneUnpushed DEF Unpushed
<1>4. Contents' = Contents
  BY QueueKept
<1>5. ~corrupt => NoRepeats' /\ Sorted'
  BY <1>3, <1>4, Stays DEF NoRepeats
<1> QED
  BY <1>1, <1>2, <1>5

LEMMA PopLoadStep ==
    ASSUME HInv, UNCHANGED queueVars, NEW t \in Threads, PopLoad(t)
    PROVE  PoolInv'
<1> DEFINE at  == IF Top = NoSlot THEN "take" ELSE "next"
           new == [op[t] EXCEPT !.at = at, !.head = Top]
<1>1. Top \in Slots \cup {NoSlot}
  BY DEF Top, HInv, PoolInv, PoolTypeOK
<1>2. op[t] \in OpType /\ op[t].at = "load" /\ owner # t
  BY DEF HInv, PoolInv, PoolTypeOK, OpType, Steps, PopLoad, At
<1>3. new \in OpType /\ new.at = at /\ new.head = Top
  BY <1>1, <1>2 DEF OpType
<1>4. op' = [op EXCEPT ![t] = new]
  BY DEF PopLoad, PopFrom, HInv, PoolInv, PoolTypeOK
<1>5. Fitting(t, new)
  BY <1>1, <1>2, <1>3, <1>4 DEF Fitting, PopLoad
<1>6. new.at # "push"
  BY <1>3
<1> HIDE DEF new
<1> QED
  BY <1>2, <1>5, <1>6, QuietStep DEF PopLoad

LEMMA PopNextStep ==
    ASSUME HInv, UNCHANGED queueVars, NEW t \in Threads, PopNext(t)
    PROVE  PoolInv'
<1> DEFINE new == [op[t] EXCEPT !.at = "cas", !.next = NextOf(op[t].head)]
<1>1. op[t] \in OpType /\ op[t].at = "next" /\ op[t].head \in Slots /\ owner # t
  BY DEF HInv, PoolInv, PoolTypeOK, OpType, Steps, PopNext, At
<1>2. NextOf(op[t].head) \in Slots \cup {NoSlot}
  BY <1>1, NextOfType DEF HInv, PoolInv, PopNext, At
<1>3. new \in OpType /\ new.at = "cas" /\ new.head = op[t].head
  BY <1>1, <1>2 DEF OpType
<1>4. op' = [op EXCEPT ![t] = new]
  BY DEF PopNext, HInv, PoolInv, PoolTypeOK
<1>5. Fitting(t, new)
  BY <1>1, <1>3, <1>4 DEF Fitting, PopNext
<1>6. new.at # "push"
  BY <1>3
<1> HIDE DEF new
<1> QED
  BY <1>1, <1>5, <1>6, QuietStep DEF PopNext

LEMMA GrowLockStep ==
    ASSUME HInv, UNCHANGED queueVars, NEW t \in Threads, GrowLock(t)
    PROVE  PoolInv'
<1> DEFINE new == [op[t] EXCEPT !.at = "test"]
<1>1. op[t] \in OpType
  BY DEF HInv, PoolInv, PoolTypeOK, OpType
<1>2. new \in OpType /\ new.at = "test"
  BY <1>1 DEF OpType
<1>3. op' = [op EXCEPT ![t] = new]
  BY DEF GrowLock, Goto, HInv, PoolInv, PoolTypeOK
<1>4. Fitting(t, new) /\ op[t].at # "push" /\ new.at # "push"
  BY <1>2, <1>3 DEF Fitting, GrowLock, At
<1> HIDE DEF new
<1> QED
  BY <1>4, QuietStep DEF GrowLock

\* Slot x leaves the cache of t for its hands.
LEMMA TakeCached ==
    ASSUME HInv, UNCHANGED queueVars, ~corrupt, NEW t \in Threads, cache[t] # <<>>,
           cache' = [cache EXCEPT ![t] = Tail(@)],
           held' = [held EXCEPT ![t] = @ \cup {Head(cache[t])}],
           UNCHANGED <<free, slabs, corrupt>>, owner' \in Threads \cup {NoSlot},
           op' \in [Threads -> OpType], Steps',
           \A u \in Threads : Unpushed(u)' = Unpushed(u)
    PROVE  PoolInv'
<1> USE DEF HInv, PoolInv
<1>1. PICK x : x = Head(cache[t])
  OBVIOUS
<1>2. cache[t] \in Seq(Slots) /\ IsInjective(cache[t])
  BY DEF PoolTypeOK, NoRepeats
<1>3. /\ x \in ToSet(cache[t]) /\ x \in Slots /\ Tail(cache[t]) \in Seq(Slots)
      /\ IsInjective(Tail(cache[t])) /\ ToSet(Tail(cache[t])) = ToSet(cache[t]) \ {x}
  BY <1>1, <1>2, PopFront
<1>4. /\ cache'[t] = Tail(cache[t]) /\ held'[t] = held[t] \cup {x}
      /\ \A u \in Threads \ {t} : cache'[u] = cache[u] /\ held'[u] = held[u]
      /\ cache' \in [Threads -> Seq(Slots)] /\ held' \in [Threads -> SUBSET Slots]
  BY <1>1, <1>3 DEF PoolTypeOK
<1>5. PoolTypeOK'
  BY <1>4 DEF PoolTypeOK, OpType
<1>6. Contents' = Contents
  BY QueueKept
<1>7. NoRepeats'
  BY <1>3, <1>4, <1>6 DEF NoRepeats
<1>8. Sorted'
  <2>1. Cache(t) \in Sites /\ Held(t) \in Sites /\ Cache(t) # Held(t) /\ x \in Items(Cache(t))
    BY <1>3, SitesAre, ItemsAre DEF Cache, Held
  <2>2. ASSUME NEW u \in Threads
        PROVE  /\ ToSet(cache'[u]) = After(Cache(u), ToSet(cache[u]), Cache(t), Held(t), x)
               /\ held'[u] = After(Held(u), held[u], Cache(t), Held(t), x)
               /\ Unpushed(u)' = After(Slab(u), Unpushed(u), Cache(t), Held(t), x)
    BY <1>3, <1>4 DEF After, Cache, Held, Slab
  <2>3. /\ ToSet(free') = After(Stack, ToSet(free), Cache(t), Held(t), x)
        /\ ToSet(Contents') = After(Queue, ToSet(Contents), Cache(t), Held(t), x)
    BY <1>6 DEF After, Cache, Held, Stack, Queue
  <2> QED
    BY <2>1, <2>2, <2>3, Moves
<1> QED
  BY <1>5, <1>7, <1>8

LEMMA AcquireCallStep ==
    ASSUME HInv, UNCHANGED queueVars, NEW t \in Threads, AcquireCall(t)
    PROVE  PoolInv'
<1>1. op[t] \in OpType /\ op[t].at = "idle" /\ owner # t /\ ~corrupt
  BY DEF HInv, PoolInv, PoolTypeOK, OpType, Steps, AcquireCall, At
<1>2. CASE cache[t] # <<>>
  <2>1. /\ UNCHANGED <<op, free, slabs, owner, corrupt>>
        /\ cache' = [cache EXCEPT ![t] = Tail(@)]
        /\ held' = [held EXCEPT ![t] = @ \cup {Head(cache[t])}]
    BY <1>2 DEF AcquireCall
  <2>2. Steps'
    <3>1. prod.at # "idle" => prod.item \in held'[producer]
      BY <2>1, QueueKept DEF HInv, PoolInv, PoolTypeOK
    <3> QED
      BY <2>1, <3>1 DEF HInv, PoolInv, Steps, queueVars
  <2>3. op' \in [Threads -> OpType] /\ owner' \in Threads \cup {NoSlot}
    BY <2>1 DEF HInv, PoolInv, PoolTypeOK, OpType
  <2>4. \A u \in Threads : Unpushed(u)' = Unpushed(u)
    BY <2>1 DEF Unpushed
  <2> QED
    BY <1>1, <1>2, <2>1, <2>2, <2>3, <2>4, TakeCached
<1>3. CASE cache[t] = <<>>
  <2> DEFINE new == [op[t] EXCEPT !.at = "load"]
  <2>1. new \in OpType /\ new.at = "load"
    BY <1>1 DEF OpType
  <2>2. op' = [op EXCEPT ![t] = new]
    BY <1>3 DEF AcquireCall, Goto, HInv, PoolInv, PoolTypeOK
  <2>3. Fitting(t, new) /\ new.at # "push"
    BY <1>1, <2>1, <2>2 DEF Fitting, AcquireCall
  <2> HIDE DEF new
  <2> QED
    BY <1>1, <1>3, <2>3, QuietStep DEF AcquireCall
<1> QED
  BY <1>2, <1>3

LEMMA AcquireTakeStep ==
    ASSUME HInv, UNCHANGED queueVars, NEW t \in Threads, AcquireTake(t)
    PROVE  PoolInv'
<1>1. op[t] \in OpType /\ op[t].at = "take" /\ owner # t /\ ~corrupt
  BY DEF HInv, PoolInv, PoolTypeOK, OpType, Steps, AcquireTake, At
<1>2. CASE cache[t] # <<>>
  <2>1. /\ UNCHANGED <<free, slabs, owner, corrupt>> /\ op' = [op EXCEPT ![t] = Idle]
        /\ cache' = [cache EXCEPT ![t] = Tail(@)]
        /\ held' = [held EXCEPT ![t] = @ \cup {Head(cache[t])}]
    BY <1>2 DEF AcquireTake
  <2>2. Fitting(t, Idle)
    BY <1>1, <2>1, IdleTypes DEF Fitting
  <2>3. Steps'
    <3>1. prod.at # "idle" => prod.item \in held'[producer]
      BY <2>1, QueueKept DEF HInv, PoolInv, PoolTypeOK
    <3>2. slabs \in Nat
      BY DEF HInv, PoolInv, PoolTypeOK
    <3> QED
      BY <2>1, <2>2, <3>1, <3>2, StepsKept DEF HInv, queueVars
  <2>4. op' \in [Threads -> OpType] /\ owner' \in Threads \cup {NoSlot}
    BY <2>1, <2>2, OpKept DEF HInv, PoolInv, PoolTypeOK
  <2>5. \A u \in Threads : Unpushed(u)' = Unpushed(u)
    BY <1>1, <2>1, <2>2, OpKept, NoneUnpushed, IdleTypes DEF Unpushed, HInv, PoolInv
  <2> QED
    BY <1>1, <1>2, <2>1, <2>3, <2>4, <2>5, TakeCached
<1>3. CASE cache[t] = <<>>
  <2>1. PICK new \in {Idle, [Idle EXCEPT !.at = "lock"]} : op' = [op EXCEPT ![t] = new]
    BY <1>3 DEF AcquireTake
  <2>2. new \in OpType /\ new.at \in {"idle", "lock"}
    BY <2>1, IdleTypes
  <2>3. Fitting(t, new) /\ new.at # "push"
    BY <1>1, <1>3, <2>1, <2>2 DEF Fitting, AcquireTake
  <2> QED
    BY <1>1, <1>3, <2>3, QuietStep DEF AcquireTake
<1> QED
  BY <1>2, <1>3

LEMMA ReleaseCallStep ==
    ASSUME HInv, UNCHANGED queueVars, NEW t \in Threads, Free(t),
           NEW x \in held[t], ReleaseCall(t, x)
    PROVE  PoolInv'
<1> USE DEF HInv, PoolInv
<1>1. op[t] \in OpType /\ op[t].at = "idle" /\ owner # t /\ ~corrupt
  BY DEF PoolTypeOK, OpType, Steps, ReleaseCall, At
<1>2. /\ held' = [held EXCEPT ![t] = @ \ {x}] /\ cache' = [cache EXCEPT ![t] = <<x>> \o @]
      /\ UNCHANGED <<free, slabs, owner, corrupt>>
  BY DEF ReleaseCall
<1>3. cache[t] \in Seq(Slots) /\ IsInjective(cache[t]) /\ x \in Slots
  BY <1>1 DEF PoolTypeOK, NoRepeats
<1>4. Cache(t) \in Sites /\ Held(t) \in Sites /\ Cache(t) # Held(t) /\ x \in Items(Held(t))
  BY SitesAre, ItemsAre DEF Cache, Held
<1>5. x \notin ToSet(cache[t])
  BY <1>1, <1>4, ItemsAre DEF Sorted
<1>6. /\ <<x>> \o cache[t] \in Seq(Slots) /\ IsInjective(<<x>> \o cache[t])
      /\ ToSet(<<x>> \o cache[t]) = ToSet(cache[t]) \cup {x}
  BY <1>3, <1>5, PushFront
<1>7. /\ cache'[t] = <<x>> \o cache[t] /\ held'[t] = held[t] \ {x}
      /\ \A u \in Threads \ {t} : cache'[u] = cache[u] /\ held'[u] = held[u]
      /\ cache' \in [Threads -> Seq(Slots)] /\ held' \in [Threads -> SUBSET Slots]
  BY <1>2, <1>6 DEF PoolTypeOK
<1>8. PICK new \in {op[t], [op[t] EXCEPT !.at = "flush"]} : op' = [op EXCEPT ![t] = new]
  BY DEF ReleaseCall, Goto, PoolTypeOK
<1>9. new \in OpType /\ new.at \in {"idle", "flush"}
  BY <1>1, <1>8 DEF OpType
<1>10. Fitting(t, new)
  BY <1>1, <1>2, <1>8, <1>9 DEF Fitting
<1>11. Steps'
  <2>1. prod.at # "idle" => prod.item \in held'[producer]
    BY <1>7, QueueKept, Parts DEF Free
  <2>2. slabs \in Nat
    BY DEF PoolTypeOK
  <2> QED
    BY <1>2, <1>10, <2>1, <2>2, StepsKept DEF queueVars
<1>12. PoolTypeOK'
  <2>1. op' \in [Threads -> OpType]
    BY <1>10, OpKept
  <2> QED
    BY <1>2, <1>7, <2>1 DEF PoolTypeOK, OpType
<1>13. \A u \in Threads : Unpushed(u)' = Unpushed(u)
  BY <1>1, <1>2, <1>9, <1>10, OpKept, NoneUnpushed DEF Unpushed
<1>14. Contents' = Contents
  BY QueueKept
<1>15. NoRepeats'
  BY <1>1, <1>2, <1>6, <1>7, <1>14 DEF NoRepeats
<1>16. Sorted'
  <2>1. ASSUME NEW u \in Threads
        PROVE  /\ ToSet(cache'[u]) = After(Cache(u), ToSet(cache[u]), Held(t), Cache(t), x)
               /\ held'[u] = After(Held(u), held[u], Held(t), Cache(t), x)
               /\ Unpushed(u)' = After(Slab(u), Unpushed(u), Held(t), Cache(t), x)
    BY <1>6, <1>7, <1>13 DEF After, Cache, Held, Slab
  <2>2. /\ ToSet(free') = After(Stack, ToSet(free), Held(t), Cache(t), x)
        /\ ToSet(Contents') = After(Queue, ToSet(Contents), Held(t), Cache(t), x)
    BY <1>2, <1>14 DEF After, Cache, Held, Stack, Queue
  <2> QED
    BY <1>1, <1>2, <1>4, <2>1, <2>2, Moves
<1> QED
  BY <1>11, <1>12, <1>15, <1>16

LEMMA FlushPushStep ==
    ASSUME HInv, UNCHANGED queueVars, NEW t \in Threads, FlushPush(t)
    PROVE  PoolInv'
<1> USE DEF HInv, PoolInv
<1>1. op[t] \in OpType /\ op[t].at = "flush" /\ owner # t /\ ~corrupt
  BY DEF PoolTypeOK, OpType, Steps, FlushPush, At
<1>0. Len(cache[t]) \in Nat /\ (Len(cache[t]) = 0 <=> cache[t] = <<>>) /\ kLocalCacheLimit \div 2 \in Nat
  BY Parts DEF PoolTypeOK, kLocalCacheLimit
<1>2. CASE Len(cache[t]) > kLocalCacheLimit \div 2
  <2>1. /\ free' = <<Head(cache[t])>> \o free /\ cache' = [cache EXCEPT ![t] = Tail(@)]
        /\ UNCHANGED <<op, slabs, owner, held, corrupt>>
    BY <1>0, <1>2 DEF FlushPush
  <2>2. cache[t] # <<>>
    BY <1>0, <1>2
  <2>3. PICK x : x = Head(cache[t])
    OBVIOUS
  <2>4. cache[t] \in Seq(Slots) /\ IsInjective(cache[t]) /\ free \in Seq(Slots) /\ IsInjective(free)
    BY <1>1 DEF PoolTypeOK, NoRepeats
  <2>5. /\ x \in ToSet(cache[t]) /\ x \in Slots /\ Tail(cache[t]) \in Seq(Slots)
        /\ IsInjective(Tail(cache[t])) /\ ToSet(Tail(cache[t])) = ToSet(cache[t]) \ {x}
    BY <2>2, <2>3, <2>4, PopFront
  <2>6. /\ Cache(t) \in Sites /\ Stack \in Sites /\ Cache(t) # Stack
        /\ x \in Items(Cache(t)) /\ x \notin ToSet(free)
    <3>1. Cache(t) \in Sites /\ Stack \in Sites /\ Cache(t) # Stack
      BY SitesAre DEF Cache, Stack
    <3> QED
      BY <1>1, <2>5, <3>1, ItemsAre DEF Sorted
  <2>7. /\ free' \in Seq(Slots) /\ IsInjective(free') /\ ToSet(free') = ToSet(free) \cup {x}
    BY <2>1, <2>3, <2>4, <2>5, <2>6, PushFront
  <2>8. /\ cache'[t] = Tail(cache[t]) /\ \A u \in Threads \ {t} : cache'[u] = cache[u]
        /\ cache' \in [Threads -> Seq(Slots)]
    BY <2>1, <2>5 DEF PoolTypeOK
  <2>9. PoolTypeOK'
    BY <2>1, <2>7, <2>8 DEF PoolTypeOK
  <2>10. Steps'
    BY <2>1 DEF Steps, queueVars
  <2>11. Contents' = Contents /\ \A u \in Threads : Unpushed(u)' = Unpushed(u)
    BY <2>1, QueueKept DEF Unpushed
  <2>12. NoRepeats'
    BY <1>1, <2>5, <2>7, <2>8, <2>11 DEF NoRepeats
  <2>13. Sorted'
    <3>1. ASSUME NEW u \in Threads
          PROVE  /\ ToSet(cache'[u]) = After(Cache(u), ToSet(cache[u]), Cache(t), Stack, x)
                 /\ held'[u] = After(Held(u), held[u], Cache(t), Stack, x)
                 /\ Unpushed(u)' = After(Slab(u), Unpushed(u), Cache(t), Stack, x)
      BY <2>1, <2>5, <2>8, <2>11 DEF After, Cache, Held, Slab, Stack
    <3>2. /\ ToSet(free') = After(Stack, ToSet(free), Cache(t), Stack, x)
          /\ ToSet(Contents') = After(Queue, ToSet(Contents), Cache(t), Stack, x)
      BY <2>6, <2>7, <2>11 DEF After, Cache, Stack, Queue
    <3> QED
      BY <1>1, <2>1, <2>6, <3>1, <3>2, Moves
  <2> QED
    BY <2>9, <2>10, <2>12, <2>13
<1>3. CASE Len(cache[t]) <= kLocalCacheLimit \div 2
  <2> DEFINE new == [op[t] EXCEPT !.at = "idle"]
  <2>1. new \in OpType /\ new.at = "idle"
    BY <1>1 DEF OpType
  <2>2. /\ op' = [op EXCEPT ![t] = new] /\ UNCHANGED <<free, cache, slabs, owner, held, corrupt>>
    BY <1>0, <1>3 DEF FlushPush, Goto, PoolTypeOK
  <2>3. Fitting(t, new) /\ new.at # "push"
    BY <1>1, <2>1, <2>2 DEF Fitting
  <2> HIDE DEF new
  <2> QED
    BY <1>1, <2>2, <2>3, QuietStep
<1> QED
  BY <1>2, <1>3 DEF FlushPush

\* A compare-exchange that succeeds moves the top of the stack to the cache,
\* whether or not the next it installs is the right one.
LEMMA PopCasStep ==
    ASSUME HInv, UNCHANGED queueVars, NEW t \in Threads, PopCas(t)
    PROVE  PoolInv'
<1> USE DEF HInv, PoolInv
<1>1. op[t] \in OpType /\ op[t].at = "cas" /\ op[t].head \in Slots /\ owner # t /\ ~corrupt
  BY DEF PoolTypeOK, OpType, Steps, PopCas, At
<1>2. CASE Top = op[t].head
  <2> DEFINE new == [op[t] EXCEPT !.at = IF cacheFull(Len(cache[t]) + 1) THEN "take" ELSE "load",
                                  !.head = NoSlot, !.next = NoSlot]
  <2>1. /\ free' = Tail(free) /\ cache' = [cache EXCEPT ![t] = <<op[t].head>> \o @]
        /\ UNCHANGED <<slabs, owner, held>>
    BY <1>2 DEF PopCas
  <2>2. op' = [op EXCEPT ![t] = new] /\ corrupt' \in BOOLEAN
    <3>1. corrupt' \in IF op[t].next = op[t].head THEN BOOLEAN ELSE {op[t].next # NextOf(op[t].head)}
      BY <1>2 DEF PopCas
    <3>2. op' = [op EXCEPT ![t] = new]
      BY <1>2 DEF PopCas, PoolTypeOK
    <3> QED
      BY <3>1, <3>2
  <2>3. new \in OpType /\ new.at \in {"take", "load"}
    BY <1>1 DEF OpType
  <2> HIDE DEF new
  <2>4. Fitting(t, new)
    BY <1>1, <2>1, <2>2, <2>3 DEF Fitting
  <2>5. PICK x : x = op[t].head
    OBVIOUS
  <2>6. /\ free # <<>> /\ x = Head(free) /\ x \in Slots
        /\ cache[t] \in Seq(Slots) /\ IsInjective(cache[t]) /\ free \in Seq(Slots) /\ IsInjective(free)
    BY <1>1, <1>2, <2>5, Parts DEF Top, PoolTypeOK, NoRepeats
  <2>7. /\ Tail(free) \in Seq(Slots) /\ x \in ToSet(free)
        /\ IsInjective(Tail(free)) /\ ToSet(Tail(free)) = ToSet(free) \ {x}
    BY <2>6, PopFront
  <2>8. Stack \in Sites /\ Cache(t) \in Sites /\ Stack # Cache(t) /\ x \in Items(Stack)
        /\ x \notin ToSet(cache[t])
    <3>1. Stack \in Sites /\ Cache(t) \in Sites /\ Stack # Cache(t)
      BY SitesAre DEF Stack, Cache
    <3> QED
      BY <1>1, <2>7, <3>1, ItemsAre DEF Sorted
  <2>9. /\ <<x>> \o cache[t] \in Seq(Slots) /\ IsInjective(<<x>> \o cache[t])
        /\ ToSet(<<x>> \o cache[t]) = ToSet(cache[t]) \cup {x}
    BY <2>6, <2>8, PushFront
  <2>10. /\ cache'[t] = <<x>> \o cache[t] /\ \A u \in Threads \ {t} : cache'[u] = cache[u]
         /\ cache' \in [Threads -> Seq(Slots)]
    BY <2>1, <2>5, <2>9 DEF PoolTypeOK
  <2>11. PoolTypeOK'
    <3>1. op' \in [Threads -> OpType]
      BY <2>4, OpKept
    <3> QED
      BY <2>1, <2>2, <2>7, <2>10, <3>1 DEF PoolTypeOK, OpType
  <2>12. Steps'
    <3>1. prod.at # "idle" => prod.item \in held'[producer]
      BY <2>1, QueueKept
    <3>2. slabs \in Nat
      BY DEF PoolTypeOK
    <3> QED
      BY <2>1, <2>4, <3>1, <3>2, StepsKept DEF queueVars
  <2>13. Contents' = Contents /\ \A u \in Threads : Unpushed(u)' = Unpushed(u)
    BY <1>1, <2>1, <2>3, <2>4, OpKept, NoneUnpushed, QueueKept DEF Unpushed
  <2>14. NoRepeats'
    BY <1>1, <2>1, <2>7, <2>9, <2>10, <2>13 DEF NoRepeats
  <2>15. Sorted'
    <3>1. ASSUME NEW u \in Threads
          PROVE  /\ ToSet(cache'[u]) = After(Cache(u), ToSet(cache[u]), Stack, Cache(t), x)
                 /\ held'[u] = After(Held(u), held[u], Stack, Cache(t), x)
                 /\ Unpushed(u)' = After(Slab(u), Unpushed(u), Stack, Cache(t), x)
      BY <2>1, <2>9, <2>10, <2>13 DEF After, Cache, Held, Slab, Stack
    <3>2. /\ ToSet(free') = After(Stack, ToSet(free), Stack, Cache(t), x)
          /\ ToSet(Contents') = After(Queue, ToSet(Contents), Stack, Cache(t), x)
      BY <2>1, <2>7, <2>13 DEF After, Cache, Stack, Queue
    <3> QED
      BY <1>1, <2>1, <2>8, <3>1, <3>2, Moves
  <2> QED
    BY <2>11, <2>12, <2>14, <2>15
<1>3. CASE Top # op[t].head
  <2> DEFINE new == [op[t] EXCEPT !.at = IF Top = NoSlot THEN "take" ELSE "next",
                                  !.head = Top, !.next = NoSlot]
  <2>1. Top \in Slots \cup {NoSlot}
    BY DEF Top, PoolTypeOK
  <2>2. /\ new \in OpType /\ new.at \in {"take", "next"} /\ new.head = Top
        /\ new.at = "next" => Top # NoSlot
    BY <1>1, <2>1 DEF OpType
  <2>3. op' = [op EXCEPT ![t] = new] /\ UNCHANGED <<free, cache, slabs, owner, held, corrupt>>
    BY <1>3 DEF PopCas, PoolTypeOK
  <2> HIDE DEF new
  <2>4. Fitting(t, new) /\ new.at # "push"
    BY <1>1, <2>1, <2>2, <2>3 DEF Fitting
  <2> QED
    BY <1>1, <2>3, <2>4, QuietStep
<1> QED
  BY <1>2, <1>3

LEMMA GrowTestStep ==
    ASSUME HInv, UNCHANGED queueVars, NEW t \in Threads, GrowTest(t)
    PROVE  PoolInv'
<1> USE DEF HInv, PoolInv
<1>1. op[t] \in OpType /\ op[t].at = "test" /\ owner = t /\ ~corrupt
  BY DEF PoolTypeOK, OpType, Steps, GrowTest, At
<1>2. CASE free # <<>>
  <2>1. /\ owner' = NoSlot /\ op' = [op EXCEPT ![t] = Grown]
        /\ UNCHANGED <<free, cache, slabs, held, corrupt>>
    BY <1>2 DEF GrowTest
  <2>2. Fitting(t, Grown) /\ Grown.at # "push"
    BY <2>1, IdleTypes, Parts DEF Fitting
  <2> QED
    BY <1>1, <2>1, <2>2, QuietStep
<1>3. CASE free = <<>>
  <2> DEFINE new == [op[t] EXCEPT !.at = "push", !.todo = BlocksPerSlab]
  <2>1. /\ slabs < MaxSlabs /\ slabs' = slabs + 1
        /\ op' = [op EXCEPT ![t] = new] /\ UNCHANGED <<owner, free, cache, held, corrupt>>
    BY <1>3 DEF GrowTest, PoolTypeOK
  <2>2. BlocksPerSlab \in 0..BlocksPerSlab /\ slabs \in Nat /\ slabs' \in 0..MaxSlabs
    BY <2>1, Parts DEF PoolTypeOK
  <2>3. new \in OpType /\ new.at = "push" /\ new.todo = BlocksPerSlab
    BY <1>1, <2>2 DEF OpType
  <2> HIDE DEF new
  <2>4. Fitting(t, new)
    BY <1>1, <2>1, <2>2, <2>3, Parts DEF Fitting
  <2>5. PoolTypeOK'
    <3>1. op' \in [Threads -> OpType]
      BY <2>4, OpKept
    <3> QED
      BY <2>1, <2>2, <3>1 DEF PoolTypeOK, OpType
  <2>6. Steps'
    <3>1. prod.at # "idle" => prod.item \in held'[producer]
      BY <2>1, QueueKept
    <3> QED
      BY <2>1, <2>2, <2>4, <3>1, StepsKept DEF queueVars
  <2>7. Contents' = Contents /\ \A u \in Threads \ {t} : Unpushed(u)' = Unpushed(u)
    BY <1>1, <2>1, <2>4, NoneUnpushed, QueueKept
  <2>8. NoRepeats'
    BY <1>1, <2>1, <2>7 DEF NoRepeats
  <2>9. PICK n \in Nat, m \in Nat : /\ n = slabs * BlocksPerSlab /\ m = slabs' * BlocksPerSlab
                                    /\ m = n + BlocksPerSlab
    BY <2>1, <2>2, Parts
  <2>10. Unpushed(t) = {} /\ Unpushed(t)' = (n + 1)..m
    <3>1. op'[t] = new
      BY <2>4, OpKept
    <3>2. m - BlocksPerSlab + 1 = n + 1
      BY <2>9, Parts
    <3> QED
      BY <1>1, <2>3, <2>9, <3>1, <3>2 DEF Unpushed
  <2>11. \A s \in Sites : Items(s)' = IF s = Slab(t) THEN (n + 1)..m ELSE Items(s)
    <3>1. Items(Stack)' = Items(Stack) /\ Items(Queue)' = Items(Queue)
      BY <2>1, <2>7 DEF Items, Stack, Queue
    <3>2. ASSUME NEW u \in Threads
          PROVE  /\ Items(Cache(u))' = Items(Cache(u)) /\ Items(Held(u))' = Items(Held(u))
                 /\ Items(Slab(u))' = IF u = t THEN (n + 1)..m ELSE Items(Slab(u))
      BY <2>1, <2>7, <2>10 DEF Items, Cache, Held, Slab
    <3>3. /\ Stack # Slab(t) /\ Queue # Slab(t)
          /\ \A u \in Threads : Cache(u) # Slab(t) /\ Held(u) # Slab(t) /\ (Slab(u) = Slab(t) <=> u = t)
      BY DEF Stack, Queue, Cache, Held, Slab
    <3> QED
      BY <3>1, <3>2, <3>3, SitesAre
  <2>12. Items(Slab(t)) = {} /\ Slab(t) \in Sites
    BY <2>10, ItemsAre, SitesAre
  <2>13. \A s \in Sites : Items(s) \subseteq 1..n
    BY <1>1, <2>9 DEF Sorted
  <2>14. Sorted'
    <3>1. \A s \in Sites : Items(s)' \subseteq 1..m
      BY <2>9, <2>11, <2>13, Parts
    <3>2. \A s1 \in Sites : \A s2 \in Sites : s1 # s2 => Items(s1)' \cap Items(s2)' = {}
      BY <1>1, <2>11, <2>13 DEF Sorted
    <3>3. \A slot \in 1..m : \E s \in Sites : slot \in Items(s)'
      <4>1. ASSUME NEW slot \in 1..n
            PROVE  \E s \in Sites : slot \in Items(s)'
        <5>1. PICK s \in Sites : slot \in Items(s)
          BY <1>1, <2>9 DEF Sorted
        <5> QED
          BY <2>11, <2>12, <5>1
      <4>2. \A slot \in (n + 1)..m : slot \in Items(Slab(t))'
        BY <2>11, <2>12
      <4> QED
        BY <2>9, <2>12, <4>1, <4>2
    <3> QED
      BY <2>9, <3>1, <3>2, <3>3 DEF Sorted
  <2> QED
    BY <2>5, <2>6, <2>8, <2>14
<1> QED
  BY <1>2, <1>3

LEMMA GrowPushStep ==
    ASSUME HInv, UNCHANGED queueVars, NEW t \in Threads, GrowPush(t)
    PROVE  PoolInv'
<1> USE DEF HInv, PoolInv
<1>1. op[t] \in OpType /\ op[t].at = "push" /\ op[t].todo > 0 /\ slabs > 0 /\ owner = t /\ ~corrupt
  BY DEF PoolTypeOK, OpType, Steps, GrowPush, At
<1>2. PICK n \in Nat, todo \in 1..BlocksPerSlab :
          n = slabs * BlocksPerSlab /\ todo = op[t].todo /\ n >= BlocksPerSlab
  <2>1. slabs \in Nat /\ slabs >= 1
    BY <1>1 DEF PoolTypeOK
  <2>2. slabs * BlocksPerSlab \in Nat /\ slabs * BlocksPerSlab >= BlocksPerSlab
    BY <2>1, Parts
  <2> QED
    BY <1>1, <2>2, Parts DEF OpType
<1>3. PICK x \in 1..n : x = n - todo + 1
  BY <1>2, Parts
<1>4. free' = <<x>> \o free /\ UNCHANGED <<cache, slabs, held, corrupt>>
  BY <1>2, <1>3 DEF GrowPush
<1>5. PICK new : /\ op' = [op EXCEPT ![t] = new] /\ new \in OpType
                 /\ \/ todo > 1 /\ new.at = "push" /\ new.todo = todo - 1 /\ owner' = owner
                    \/ todo = 1 /\ new.at = "load" /\ owner' = NoSlot
  <2>1. CASE op[t].todo > 1
    <3> DEFINE new == [op[t] EXCEPT !.todo = todo - 1]
    <3>1. op' = [op EXCEPT ![t] = new] /\ owner' = owner
      BY <1>2, <2>1 DEF GrowPush, PoolTypeOK
    <3>2. todo - 1 \in 0..BlocksPerSlab
      BY <1>2, Parts
    <3>3. new \in OpType /\ new.at = "push" /\ new.todo = todo - 1
      BY <1>1, <3>2 DEF OpType
    <3> HIDE DEF new
    <3> QED
      BY <1>2, <2>1, <3>1, <3>3
  <2>2. CASE op[t].todo = 1
    BY <1>2, <2>2, IdleTypes DEF GrowPush
  <2> QED
    BY <1>2, <2>1, <2>2
<1>6. Fitting(t, new) /\ op'[t] = new
  <2>1. Fitting(t, new)
    BY <1>1, <1>2, <1>4, <1>5, Parts DEF Fitting
  <2> QED
    BY <2>1, OpKept
<1>7. x \in Unpushed(t) /\ Unpushed(t)' = Unpushed(t) \ {x}
  <2>1. Unpushed(t) = x..n
    BY <1>1, <1>2, <1>3 DEF Unpushed
  <2>2. CASE todo > 1
    <3>1. Unpushed(t)' = (n - (todo - 1) + 1)..n
      BY <1>2, <1>4, <1>5, <1>6, <2>2 DEF Unpushed
    <3>2. n - (todo - 1) + 1 = x + 1
      BY <1>2, <1>3
    <3>3. (x + 1)..n = (x..n) \ {x}
      BY <1>2, <1>3
    <3> QED
      BY <2>1, <3>1, <3>2, <3>3
  <2>3. CASE todo = 1
    <3>1. Unpushed(t)' = {}
      BY <1>5, <1>6, <2>3 DEF Unpushed
    <3> QED
      BY <1>2, <1>3, <2>1, <2>3, <3>1
  <2> QED
    BY <1>2, <2>2, <2>3
<1>8. Contents' = Contents /\ \A u \in Threads \ {t} : Unpushed(u)' = Unpushed(u)
  BY <1>4, <1>6, NoneUnpushed, QueueKept
<1>9. Slab(t) \in Sites /\ Stack \in Sites /\ Slab(t) # Stack /\ x \in Items(Slab(t))
  BY <1>7, SitesAre, ItemsAre DEF Slab, Stack
<1>10. x \notin ToSet(free)
  BY <1>1, <1>9, ItemsAre DEF Sorted
<1>11. x \in Slots
  <2>1. n <= MaxSlabs * BlocksPerSlab
    BY <1>2, Parts DEF PoolTypeOK
  <2>2. MaxSlabs * BlocksPerSlab = BlocksPerSlab * MaxSlabs
    BY Parts
  <2> QED
    BY <1>3, <2>1, <2>2, Parts DEF Slots
<1>12. free' \in Seq(Slots) /\ IsInjective(free') /\ ToSet(free') = ToSet(free) \cup {x}
  BY <1>1, <1>4, <1>10, <1>11, PushFront DEF PoolTypeOK, NoRepeats
<1>13. PoolTypeOK'
  <2>1. op' \in [Threads -> OpType]
    BY <1>6, OpKept
  <2>2. owner' \in Threads \cup {NoSlot}
    BY <1>1, <1>5
  <2> QED
    BY <1>4, <1>12, <2>1, <2>2 DEF PoolTypeOK, OpType
<1>14. Steps'
  <2>1. prod.at # "idle" => prod.item \in held'[producer]
    BY <1>4, QueueKept
  <2>2. slabs \in Nat
    BY DEF PoolTypeOK
  <2> QED
    BY <1>1, <1>4, <1>5, <1>6, <2>1, <2>2, StepsKept DEF queueVars
<1>15. NoRepeats'
  BY <1>1, <1>4, <1>8, <1>12 DEF NoRepeats
<1>16. Sorted'
  <2>1. ASSUME NEW u \in Threads
        PROVE  /\ ToSet(cache'[u]) = After(Cache(u), ToSet(cache[u]), Slab(t), Stack, x)
               /\ held'[u] = After(Held(u), held[u], Slab(t), Stack, x)
               /\ Unpushed(u)' = After(Slab(u), Unpushed(u), Slab(t), Stack, x)
    <3>1. /\ Cache(u) # Slab(t) /\ Cache(u) # Stack /\ Held(u) # Slab(t) /\ Held(u) # Stack
          /\ Slab(u) # Stack /\ (Slab(u) = Slab(t) <=> u = t)
      BY DEF Cache, Held, Slab, Stack
    <3>2. Unpushed(u)' = IF u = t THEN Unpushed(u) \ {x} ELSE Unpushed(u)
      BY <1>7, <1>8
    <3> QED
      BY <1>4, <3>1, <3>2 DEF After
  <2>2. /\ ToSet(free') = After(Stack, ToSet(free), Slab(t), Stack, x)
        /\ ToSet(Contents') = After(Queue, ToSet(Contents), Slab(t), Stack, x)
    BY <1>8, <1>9, <1>12 DEF After, Slab, Stack, Queue
  <2> QED
    BY <1>1, <1>4, <1>9, <2>1, <2>2, Moves
<1> QED
  BY <1>13, <1>14, <1>15, <1>16

LEMMA PoolStepKeeps ==
    ASSUME HInv, Pool
    PROVE  HInv'
<1>1. UNCHANGED queueVars /\ poppers' \subseteq Threads
  BY DEF Pool, HInv
<1>2. PoolInv'
  BY <1>1, AcquireCallStep, ReleaseCallStep, PopLoadStep, PopNextStep, PopCasStep, AcquireTakeStep,
     GrowLockStep, GrowTestStep, GrowPushStep, FlushPushStep DEF Pool, PoolStep
<1> QED
  BY <1>1, <1>2, QueueKept DEF HInv

-----------------------------------------------------------------------------
(* Steps of the queue.                                                      *)

LEMMA HandoffStep ==
    ASSUME HInv, Send \/ Receive
    PROVE  [QueueNext]_queueVars
<1>1. \A slot \in held[producer] : slot \in Values
  BY Parts DEF HInv, PoolInv, PoolTypeOK
<1> QED
  BY <1>1 DEF Send, Receive, QueueNext, Produce, Consume

\* A step of the queue that neither publishes nor takes.
LEMMA QuietQueue ==
    ASSUME HInv, IInv', ~corrupt,
           UNCHANGED <<free, cache, slabs, owner, op, corrupt, held, poppers>>,
           UNCHANGED Contents, prod'.at # "idle" => prod'.item \in held[producer]
    PROVE  HInv'
<1> USE DEF HInv, PoolInv
<1>1. PoolTypeOK'
  BY DEF PoolTypeOK
<1>2. Steps'
  BY DEF Steps
<1>3. NoRepeats'
  BY DEF NoRepeats
<1>4. Sorted'
  BY Stays DEF Unpushed
<1> QED
  BY <1>1, <1>2, <1>3, <1>4

LEMMA EnqueuePublishKeeps ==
    ASSUME HInv, IInv', ~corrupt, EnqueuePublish, held' = [held EXCEPT ![producer] = @ \ {prod.item}],
           UNCHANGED <<free, cache, slabs, owner, op, corrupt, poppers>>
    PROVE  HInv'
<1> USE DEF HInv, PoolInv
<1>1. PICK x : x = prod.item
  OBVIOUS
<1>2. x \in held[producer] /\ x \in Slots
  BY <1>1, Parts DEF EnqueuePublish, Steps, PoolTypeOK
<1>3. Contents' = Append(Contents, x) /\ Contents \in Seq(Slots)
  BY <1>1, PublishPuts, ContentsAre, Parts DEF Fifo!Put
<1>4. /\ held'[producer] = held[producer] \ {x} /\ \A u \in Threads \ {producer} : held'[u] = held[u]
      /\ held' \in [Threads -> SUBSET Slots]
  BY <1>1, Parts DEF PoolTypeOK
<1>5. /\ Queue \in Sites /\ Held(producer) \in Sites /\ Queue # Held(producer)
      /\ x \in Items(Held(producer))
  BY <1>2, Parts, SitesAre, ItemsAre DEF Queue, Held
<1>6. x \notin ToSet(Contents)
  BY <1>5, ItemsAre DEF Sorted
<1>7. IsInjective(Contents') /\ ToSet(Contents') = ToSet(Contents) \cup {x}
  BY <1>2, <1>3, <1>6, PushBack DEF NoRepeats
<1>8. PoolTypeOK'
  BY <1>4 DEF PoolTypeOK
<1>9. Steps'
  BY DEF Steps, EnqueuePublish
<1>10. NoRepeats'
  BY <1>7 DEF NoRepeats
<1>11. Sorted'
  <2>1. ASSUME NEW u \in Threads
        PROVE  /\ ToSet(cache'[u]) = After(Cache(u), ToSet(cache[u]), Held(producer), Queue, x)
               /\ held'[u] = After(Held(u), held[u], Held(producer), Queue, x)
               /\ Unpushed(u)' = After(Slab(u), Unpushed(u), Held(producer), Queue, x)
    BY <1>4 DEF After, Cache, Held, Slab, Queue, Unpushed
  <2>2. /\ ToSet(free') = After(Stack, ToSet(free), Held(producer), Queue, x)
        /\ ToSet(Contents') = After(Queue, ToSet(Contents), Held(producer), Queue, x)
    BY <1>5, <1>7 DEF After, Held, Stack, Queue
  <2> QED
    BY <1>5, <2>1, <2>2, Moves
<1> QED
  BY <1>8, <1>9, <1>10, <1>11

LEMMA DequeuePublishKeeps ==
    ASSUME HInv, IInv', ~corrupt, DequeuePublish, held' = [held EXCEPT ![consumer] = @ \cup {cons.item}],
           UNCHANGED <<free, cache, slabs, owner, op, corrupt, poppers>>
    PROVE  HInv'
<1> USE DEF HInv, PoolInv
<1>1. PICK x : x = cons.item
  OBVIOUS
<1>2. /\ Contents \in Seq(Slots) /\ Contents # <<>>
      /\ x = Head(Contents) /\ Contents' = Tail(Contents)
  BY <1>1, PublishTakes, ContentsAre, Parts DEF Fifo!Take, DequeuePublish
<1>3. /\ x \in ToSet(Contents) /\ x \in Slots
      /\ IsInjective(Contents') /\ ToSet(Contents') = ToSet(Contents) \ {x}
  BY <1>2, PopFront DEF NoRepeats
<1>4. /\ held'[consumer] = held[consumer] \cup {x} /\ \A u \in Threads \ {consumer} : held'[u] = held[u]
      /\ held' \in [Threads -> SUBSET Slots]
  BY <1>1, <1>3, Parts DEF PoolTypeOK
<1>5. /\ Queue \in Sites /\ Held(consumer) \in Sites /\ Queue # Held(consumer) /\ x \in Items(Queue)
  BY <1>3, Parts, SitesAre, ItemsAre DEF Queue, Held
<1>6. PoolTypeOK'
  BY <1>4 DEF PoolTypeOK
<1>7. Steps'
  BY <1>4, Parts DEF Steps, DequeuePublish
<1>8. NoRepeats'
  BY <1>3 DEF NoRepeats
<1>9. Sorted'
  <2>1. ASSUME NEW u \in Threads
        PROVE  /\ ToSet(cache'[u]) = After(Cache(u), ToSet(cache[u]), Queue, Held(consumer), x)
               /\ held'[u] = After(Held(u), held[u], Queue, Held(consumer), x)
               /\ Unpushed(u)' = After(Slab(u), Unpushed(u), Queue, Held(consumer), x)
    BY <1>4 DEF After, Cache, Held, Slab, Queue, Unpushed
  <2>2. /\ ToSet(free') = After(Stack, ToSet(free), Queue, Held(consumer), x)
        /\ ToSet(Contents') = After(Queue, ToSet(Contents), Queue, Held(consumer), x)
    BY <1>3 DEF After, Held, Stack, Queue
  <2> QED
    BY <1>5, <2>1, <2>2, Moves
<1> QED
  BY <1>6, <1>7, <1>8, <1>9

LEMMA QueueStepKeeps ==
    ASSUME HInv, Send \/ Receive
    PROVE  HInv'
<1>1. IInv' /\ ~corrupt
  BY HandoffStep, Inductive DEF HInv, Send, Receive
<1>2. ASSUME NEW slot \in held[producer], EnqueueTest(slot), UNCHANGED held,
             UNCHANGED <<free, cache, slabs, owner, op, corrupt, poppers>>
      PROVE  HInv'
  <2>1. slot \in Values
    BY Parts DEF HInv, PoolInv, PoolTypeOK
  <2>2. UNCHANGED Contents
    BY <1>2, <2>1, OthersKeep DEF HInv, Fifo!vars
  <2> QED
    BY <1>1, <1>2, <2>2, QuietQueue DEF EnqueueTest
<1>3. ASSUME EnqueueWrite \/ DequeueTest \/ DequeueRead, UNCHANGED held,
             UNCHANGED <<free, cache, slabs, owner, op, corrupt, poppers>>
      PROVE  HInv'
  <2>1. UNCHANGED Contents
    BY <1>3, OthersKeep DEF HInv, Fifo!vars
  <2>2. prod'.at # "idle" => prod'.item \in held[producer]
    BY <1>3 DEF HInv, PoolInv, Steps, IInv, QueueTypeOK, EnqueueWrite, DequeueTest, DequeueRead
  <2> QED
    BY <1>1, <1>3, <2>1, <2>2, QuietQueue
<1> QED
  BY <1>1, <1>2, <1>3, EnqueuePublishKeeps, DequeuePublishKeeps DEF Send, Receive

LEMMA HInductive == HInv /\ [Next]_vars => HInv'
<1> SUFFICES ASSUME HInv, UNCHANGED vars PROVE HInv'
  BY PoolStepKeeps, QueueStepKeeps DEF Next
<1>1. IInv' /\ Contents' = Contents
  BY QueueKept DEF vars
<1>2. PoolTypeOK' /\ Steps' /\ poppers' \subseteq Threads
  BY DEF vars, poolVars, queueVars, HInv, PoolInv, PoolTypeOK, Steps
<1>3. ~corrupt' => NoRepeats' /\ Sorted'
  BY <1>1, Stays DEF vars, poolVars, HInv, PoolInv, NoRepeats, Unpushed
<1> QED
  BY <1>1, <1>2, <1>3 DEF HInv, PoolInv

-----------------------------------------------------------------------------
(* One thread that pops.                                                    *)

\* What a thread that pops has read is still so.
Current(t) ==
    /\ ~corrupt
    /\ op[t].at \in {"next", "cas"} => op[t].head \in ToSet(free)
    /\ op[t].at = "cas" => op[t].next = NextOf(op[t].head)

OnePopper ==
    /\ \A t \in Threads : op[t].at = "cas" => t \in poppers
    /\ \A t \in Threads : poppers \subseteq {t} => Current(t)

\* Where next leads after a step.
LEMMA NextBelowAfter ==
    ASSUME NEW s \in Seq(Slots), s = free', IsInjective(s), NEW k \in 1..Len(s), NEW h, h = s[k]
    PROVE  NextOf(h)' = IF k = Len(s) THEN NoSlot ELSE s[k + 1]
<1>1. /\ Contains(s, h) /\ (h = Last(s) <=> k = Len(s))
      /\ \A j \in 1..Len(s) : s[j] = h <=> j = k
      /\ Min({k}) = k
  <2>1. Contains(s, h) /\ (h = Last(s) <=> k = Len(s))
    BY DEF Contains, Last, IsInjective
  <2>2. \A j \in 1..Len(s) : s[j] = h <=> j = k
    BY DEF IsInjective
  <2>3. Min({k}) = k
    BY DEF Min
  <2> QED
    BY <2>1, <2>2, <2>3
<1>2. {j \in 1..Len(s) : s[j] = h} = {k}
  BY <1>1
<1> QED
  BY <1>1, <1>2 DEF NextOf, SelectInSeq

\* A push changes the next of no slot that is in the stack.
LEMMA NextKept ==
    ASSUME free \in Seq(Slots), IsInjective(free), NEW x \in Slots, x \notin ToSet(free),
           free' = <<x>> \o free, NEW h \in ToSet(free)
    PROVE  h \in ToSet(free') /\ NextOf(h)' = NextOf(h)
<1>1. PICK i \in 1..Len(free) : h = free[i]
  BY DEF ToSet
<1>2. free' \in Seq(Slots) /\ IsInjective(free') /\ ToSet(free') = ToSet(free) \cup {x}
  BY PushFront
<1>3. Len(free') = Len(free) + 1 /\ \A k \in 1..Len(free) : free'[k + 1] = free[k]
  OBVIOUS
<1>4. NextOf(h) = IF i = Len(free) THEN NoSlot ELSE free[i + 1]
  BY <1>1, NextBelow
<1>5. PICK k \in 1..Len(free') : k = i + 1 /\ h = free'[k] /\ (i = Len(free) <=> k = Len(free'))
  <2>1. i + 1 \in 1..Len(free') /\ h = free'[i + 1] /\ (i = Len(free) <=> i + 1 = Len(free'))
    BY <1>1, <1>3
  <2> QED
    BY <2>1
<1>6. NextOf(h)' = IF k = Len(free') THEN NoSlot ELSE free'[k + 1]
  BY <1>2, <1>5, NextBelowAfter
<1>7. i # Len(free) => free'[k + 1] = free[i + 1]
  BY <1>3, <1>5
<1> QED
  BY <1>2, <1>4, <1>5, <1>6, <1>7

LEMMA NextSame ==
    ASSUME UNCHANGED free, NEW h
    PROVE  NextOf(h)' = NextOf(h)
BY DEF NextOf, SelectInSeq, Contains, Last

LEMMA CurrentAfter ==
    ASSUME NEW t \in Threads, ~corrupt', NEW h, h = op'[t].head,
           op'[t].at \in {"next", "cas"} => h \in ToSet(free'),
           op'[t].at = "cas" => op'[t].next = NextOf(h)'
    PROVE  Current(t)'
<1>1. NextOf(op[t].head)' = NextOf(h)'
  BY DEF NextOf
<1> QED
  BY <1>1 DEF Current

\* A step in which t reads nothing of the stack and no thread pops.
LEMMA NoReadStep ==
    ASSUME HInv, HInv', NEW t \in Threads, Current(t), UNCHANGED corrupt,
           op'[t].at \in {"next", "cas"} => op'[t] = op[t],
           UNCHANGED free \/ \E x : free' = <<x>> \o free
    PROVE  Current(t)'
<1> PICK h : h = op'[t].head
  OBVIOUS
<1>1. CASE UNCHANGED free
  BY <1>1, NextSame, CurrentAfter DEF Current
<1>2. ASSUME NEW x, free' = <<x>> \o free
      PROVE  Current(t)'
  <2>1. /\ free \in Seq(Slots) /\ IsInjective(free) /\ free' \in Seq(Slots) /\ IsInjective(free')
    BY DEF HInv, PoolInv, PoolTypeOK, NoRepeats, Current
  <2>2. Len(free') = Len(free) + 1 /\ free'[1] = x /\ \A i \in 1..Len(free) : free'[i + 1] = free[i]
    BY <1>2, <2>1
  <2>3. x \in Slots
    BY <2>1, <2>2
  <2>4. x \notin ToSet(free)
    <3> SUFFICES ASSUME NEW i \in 1..Len(free), free[i] = x PROVE FALSE
      BY DEF ToSet
    <3>1. i + 1 \in 1..Len(free') /\ 1 \in 1..Len(free') /\ free'[i + 1] = free'[1] /\ i + 1 # 1
      BY <2>1, <2>2
    <3> QED
      BY <2>1, <3>1 DEF IsInjective
  <2>5. \A g \in ToSet(free) : g \in ToSet(free') /\ NextOf(g)' = NextOf(g)
    BY <1>2, <2>1, <2>3, <2>4, NextKept
  <2>6. op'[t].at \in {"next", "cas"} => h \in ToSet(free) /\ (op'[t].at = "cas" => op'[t].next = NextOf(h))
    BY DEF Current
  <2> QED
    BY <2>5, <2>6, CurrentAfter DEF Current
<1> QED
  BY <1>1, <1>2

LEMMA TopIsIn ==
    ASSUME free \in Seq(Slots), Top # NoSlot
    PROVE  Top \in ToSet(free)
<1>1. free # <<>> /\ Top = Head(free)
  BY DEF Top
<1> QED
  BY <1>1, PopFront

\* A thread that pops alone reads the head and the next of the stack as it is.
LEMMA ReadStep ==
    ASSUME HInv, HInv', NEW t \in Threads, Current(t),
           PopLoad(t) \/ PopNext(t) \/ PopCas(t)
    PROVE  Current(t)'
<1> USE DEF HInv, PoolInv
<1>1. op \in [Threads -> OpType] /\ op[t] \in OpType /\ free \in Seq(Slots) /\ IsInjective(free)
  BY DEF PoolTypeOK, OpType, Current, NoRepeats
<1>2. CASE PopLoad(t)
  <2>1. op'[t].head = Top /\ op'[t].at # "cas" /\ (op'[t].at = "next" => Top # NoSlot)
    BY <1>1, <1>2 DEF PopLoad, PopFrom, OpType
  <2> QED
    BY <1>1, <1>2, <2>1, TopIsIn DEF PopLoad, Current
<1>3. CASE PopNext(t)
  <2>1. PICK h : h = op[t].head
    OBVIOUS
  <2>2. op'[t].head = h /\ op'[t].next = NextOf(h) /\ h \in ToSet(free)
    BY <1>1, <1>3, <2>1 DEF PopNext, At, OpType, Current
  <2>3. NextOf(h)' = NextOf(h)
    BY <1>3, NextSame DEF PopNext
  <2> QED
    BY <1>3, <2>2, <2>3, CurrentAfter DEF PopNext, Current
<1>4. CASE PopCas(t) /\ Top = op[t].head
  <2>1. op[t].head \in ToSet(free) /\ op[t].next = NextOf(op[t].head)
    BY <1>4 DEF PopCas, At, Current
  <2>2. PICK i \in 1..Len(free) : op[t].head = free[i]
    BY <1>1, <2>1 DEF ToSet
  <2>3. op[t].next # op[t].head
    BY <1>1, <2>1, <2>2, NextBelow
  <2>4. ~corrupt'
    BY <1>4, <2>1, <2>3 DEF PopCas
  <2>5. op'[t].at \in {"take", "load"}
    BY <1>1, <1>4 DEF PopCas, OpType
  <2> QED
    BY <2>4, <2>5 DEF Current
<1>5. CASE PopCas(t) /\ Top # op[t].head
  <2>1. op'[t].head = Top /\ op'[t].at # "cas" /\ (op'[t].at = "next" => Top # NoSlot)
    BY <1>1, <1>5 DEF PopCas, OpType
  <2>2. UNCHANGED <<free, corrupt>>
    BY <1>5 DEF PopCas
  <2> QED
    BY <1>1, <2>1, <2>2, TopIsIn DEF Current
<1> QED
  BY <1>2, <1>3, <1>4, <1>5

\* The other steps of the pool: who takes them reads nothing of the stack.
LEMMA OtherPoolStep ==
    ASSUME HInv, NEW u \in Threads,
           \/ AcquireCall(u) \/ (\E slot \in held[u] : ReleaseCall(u, slot)) \/ AcquireTake(u)
           \/ GrowLock(u) \/ GrowTest(u) \/ GrowPush(u) \/ FlushPush(u)
    PROVE  /\ UNCHANGED corrupt /\ (UNCHANGED free \/ \E x : free' = <<x>> \o free)
           /\ \A t \in Threads : op'[t].at \in {"next", "cas"} => op'[t] = op[t]
<1>1. op \in [Threads -> OpType]
  BY DEF HInv, PoolInv, PoolTypeOK, OpType
<1>2. \A t \in Threads : op'[t] = op[t] \/ op'[t].at \notin {"next", "cas"}
  <2>1. CASE AcquireCall(u) \/ (\E slot \in held[u] : ReleaseCall(u, slot)) \/ GrowLock(u) \/ FlushPush(u)
    <3>1. PICK at \in {"load", "flush", "test", "idle"} : op' = op \/ op' = [op EXCEPT ![u].at = at]
      BY <2>1 DEF AcquireCall, ReleaseCall, GrowLock, FlushPush, Goto
    <3> QED
      BY <1>1, <3>1 DEF OpType
  <2>2. CASE AcquireTake(u)
    BY <1>1, <2>2, IdleTypes DEF AcquireTake
  <2>3. CASE GrowTest(u) \/ GrowPush(u)
    BY <1>1, <2>3, IdleTypes DEF GrowTest, GrowPush, OpType, At
  <2> QED
    BY <2>1, <2>2, <2>3
<1>3. UNCHANGED corrupt /\ (UNCHANGED free \/ \E x : free' = <<x>> \o free)
  BY DEF AcquireCall, ReleaseCall, AcquireTake, GrowLock, GrowTest, GrowPush, FlushPush
<1> QED
  BY <1>2, <1>3

\* A step of another thread that pops leaves t's own step alone.
LEMMA OtherReadStep ==
    ASSUME HInv, NEW u \in Threads, PopLoad(u) \/ PopNext(u) \/ PopCas(u)
    PROVE  /\ \A t \in Threads \ {u} : op'[t] = op[t]
           /\ op[u].at # "cas" => UNCHANGED <<free, corrupt>>
<1>1. op \in [Threads -> OpType]
  BY DEF HInv, PoolInv, PoolTypeOK, OpType
<1> QED
  BY <1>1 DEF PopLoad, PopFrom, PopNext, PopCas, At

LEMMA OnePopperStep == HInv /\ HInv' /\ OnePopper /\ [Next]_vars => OnePopper'
<1> SUFFICES ASSUME HInv, HInv', OnePopper, [Next]_vars PROVE OnePopper'
  OBVIOUS
<1>1. CASE UNCHANGED <<free, op, corrupt, poppers>>
  <2>1. ASSUME NEW t \in Threads, Current(t)
        PROVE  Current(t)'
    BY <1>1, <2>1, NoReadStep
  <2> QED
    BY <1>1, <2>1 DEF OnePopper
<1>2. CASE Pool
  <2>1. \A t \in Threads : op'[t].at = "cas" => t \in poppers'
    BY <1>2 DEF Pool
  <2>2. ASSUME NEW t \in Threads, poppers' \subseteq {t}
        PROVE  Current(t)'
    <3>1. Current(t) /\ poppers \subseteq {t}
      BY <1>2, <2>2 DEF Pool, OnePopper
    <3>2. PICK u \in Threads : \/ AcquireCall(u) \/ (\E slot \in held[u] : ReleaseCall(u, slot))
                               \/ PoolStep(u)
      BY <1>2 DEF Pool
    <3>3. CASE u = t /\ (PopLoad(u) \/ PopNext(u) \/ PopCas(u))
      BY <3>1, <3>3, ReadStep
    <3>4. CASE u # t /\ (PopLoad(u) \/ PopNext(u) \/ PopCas(u))
      <4>1. op[u].at # "cas"
        BY <3>1, <3>4 DEF OnePopper
      <4>2. op'[t] = op[t] /\ UNCHANGED <<free, corrupt>>
        BY <3>4, <4>1, OtherReadStep
      <4> QED
        BY <3>1, <4>2, NoReadStep
    <3>5. CASE ~(PopLoad(u) \/ PopNext(u) \/ PopCas(u))
      <4>1. /\ UNCHANGED corrupt /\ (UNCHANGED free \/ \E x : free' = <<x>> \o free)
            /\ op'[t].at \in {"next", "cas"} => op'[t] = op[t]
        BY <3>2, <3>5, OtherPoolStep DEF PoolStep
      <4> QED
        BY <3>1, <4>1, NoReadStep
    <3> QED
      BY <3>3, <3>4, <3>5
  <2> QED
    BY <2>1, <2>2 DEF OnePopper
<1> QED
  BY <1>1, <1>2 DEF Next, Send, Receive, vars, poolVars

LEMMA OnePopperInit == Init => OnePopper
<1> SUFFICES ASSUME Init PROVE OnePopper
  OBVIOUS
<1>1. \A t \in Threads : op[t].at = "idle" /\ ~corrupt
  BY DEF Init, PoolInit, Idle
<1> QED
  BY <1>1 DEF OnePopper, Current

LEMMA OnePopperIsSafe == HInv /\ OnePopper => SinglePopperSafe
<1> SUFFICES ASSUME HInv, OnePopper, Cardinality(poppers) <= 1 PROVE ~corrupt
  BY DEF SinglePopperSafe
<1>1. ~(producer \in poppers /\ consumer \in poppers)
  <2> SUFFICES ASSUME producer \in poppers, consumer \in poppers PROVE FALSE
    OBVIOUS
  <2>1. poppers = {producer} \cup {consumer}
    BY Parts DEF HInv
  <2>2. IsFiniteSet({producer}) /\ Cardinality({producer}) = 1
    BY FS_Singleton
  <2>3. Cardinality({producer} \cup {consumer}) = Cardinality({producer}) + 1
    BY <2>2, FS_AddElement, Parts
  <2> QED
    BY <2>1, <2>2, <2>3
<1>2. PICK t \in Threads : poppers \subseteq {t}
  BY <1>1, Parts DEF HInv
<1> QED
  BY <1>2 DEF OnePopper, Current

-----------------------------------------------------------------------------
(* The theorems.                                                            *)

LEMMA OwnersAre == HInv => OneOwner
<1> SUFFICES ASSUME HInv, ~corrupt PROVE
        /\ IsInjective(free) /\ IsInjective(Contents) /\ \A t \in Threads : IsInjective(cache[t])
        /\ \A slot \in 1..(slabs * BlocksPerSlab) :
              \E site \in Sites : {s \in Sites : slot \in Items(s)} = {site}
  BY DEF OneOwner
<1>1. NoRepeats /\ Sorted
  BY DEF HInv, PoolInv
<1>2. ASSUME NEW slot \in 1..(slabs * BlocksPerSlab)
      PROVE  \E site \in Sites : {s \in Sites : slot \in Items(s)} = {site}
  <2>1. PICK site \in Sites : slot \in Items(site)
    BY <1>1 DEF Sorted
  <2>2. \A s \in Sites : slot \in Items(s) => s = site
    BY <1>1, <2>1 DEF Sorted
  <2>3. {s \in Sites : slot \in Items(s)} = {site}
    BY <2>1, <2>2
  <2> QED
    BY <2>3
<1> QED
  BY <1>1, <1>2 DEF NoRepeats

\* Every slot of every slab is in exactly one place, for any number of slabs of
\* any size, as long as no compare-exchange installed a stale next.
THEOREM EverySlotHasOneOwner == Spec => []OneOwner
BY InitHolds, HInductive, OwnersAre, PTL DEF Spec

\* pop_() is sound as long as one thread alone has popped from the stack.
THEOREM OnePopperNeverCorrupts == Spec => []SinglePopperSafe
BY InitHolds, HInductive, OnePopperInit, OnePopperStep, OnePopperIsSafe, PTL DEF Spec

\* What the two threads do to the queue are calls of the queue.
THEOREM UsesQueue == Spec => QueueSpec
<1>1. HInv /\ [Next]_vars => [QueueNext]_queueVars
  BY HandoffStep DEF Next, Pool, vars
<1> QED
  BY <1>1, InitHolds, HInductive, PTL DEF Spec, QueueSpec, Init

\* So the cells are used as they should be, and the queue is a bounded FIFO of
\* objects, also when the objects are recycled through the pool meanwhile.
THEOREM HandoffThroughFifo == Spec => []CellsLive /\ FifoRefined
BY UsesQueue, CellsAlwaysLive, ImplementsFifo, PTL

==============================================================================
