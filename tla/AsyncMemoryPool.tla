---------------------------- MODULE AsyncMemoryPool ----------------------------
(*******************************************************************************)
(* zs::detail::AsyncObjectPool of execution/AsyncMemoryPool.hpp: slots that    *)
(* are carved from slabs, kept on a lock-free stack all threads share and in a *)
(* cache per thread.                                                           *)
(*                                                                             *)
(* The shared stack is a sequence, as are the caches, head first.  push_() is  *)
(* one step: when its compare-exchange succeeds the next pointer it stored is  *)
(* the current head.  pop_() is three: a load of the head, a load of next from *)
(* that slot, which another thread may have popped in between, and the         *)
(* compare-exchange, which compares the head alone.  When it installs a next   *)
(* that is no longer the one of the head, the stack is corrupt and the model   *)
(* ends: what follows depends on the bytes of live objects.                    *)
(*******************************************************************************)
EXTENDS Integers, Sequences, FiniteSets, SequencesExt

CONSTANTS Threads,
          BlocksPerSlab,
          MaxSlabs,       \* bound: slabs allocated
          NoSlot

ASSUME PoolAssumption ==
    /\ BlocksPerSlab \in Nat \ {0} /\ MaxSlabs \in Nat
    /\ NoSlot \notin Threads \cup (1..(BlocksPerSlab * MaxSlabs))

VARIABLES free,    \* the stack at _freeList
          cache,   \* _localCache of each thread
          slabs,   \* how many slabs there are
          owner,   \* the thread that holds _slabMutex
          op,      \* what each thread is doing
          held,    \* the slots whose objects each thread owns
          corrupt  \* the stack was given a stale next

poolVars == <<free, cache, slabs, owner, op, held, corrupt>>

Slots == 1..(BlocksPerSlab * MaxSlabs)

kLocalCacheLimit == IF BlocksPerSlab < 32 THEN BlocksPerSlab ELSE 32

\* grown tells whether acquire() has called grow_(); todo counts the slots of a
\* slab that grow_() has still to push.
Idle == [at |-> "idle", head |-> NoSlot, next |-> NoSlot, grown |-> FALSE, todo |-> 0]

PoolTypeOK ==
    /\ free \in Seq(Slots) /\ cache \in [Threads -> Seq(Slots)]
    /\ slabs \in 0..MaxSlabs /\ owner \in Threads \cup {NoSlot}
    /\ op \in [Threads -> [at : {"idle", "load", "next", "cas", "take", "lock", "test", "push", "flush"},
                           head : Slots \cup {NoSlot}, next : Slots \cup {NoSlot},
                           grown : BOOLEAN, todo : 0..BlocksPerSlab]]
    /\ held \in [Threads -> SUBSET Slots] /\ corrupt \in BOOLEAN

PoolInit ==
    /\ free = <<>> /\ cache = [t \in Threads |-> <<>>]
    /\ slabs = 0 /\ owner = NoSlot
    /\ op = [t \in Threads |-> Idle]
    /\ held = [t \in Threads |-> {}] /\ corrupt = FALSE

\* A refill stops, and a release flushes.
cacheFull(count) == count >= kLocalCacheLimit

At(t, at) == op[t].at = at /\ ~corrupt
Goto(t, at) == op' = [op EXCEPT ![t].at = at]

-----------------------------------------------------------------------------
(* acquire().                                                               *)

\* local_pop_() finds a slot, or refill_local_cache_() begins.
AcquireCall(t) ==
    /\ At(t, "idle")
    /\ \/ /\ cache[t] # <<>>
          /\ cache' = [cache EXCEPT ![t] = Tail(@)]
          /\ held' = [held EXCEPT ![t] = @ \cup {Head(cache[t])}]
          /\ UNCHANGED op
       \/ cache[t] = <<>> /\ Goto(t, "load") /\ UNCHANGED <<cache, held>>
    /\ UNCHANGED <<free, slabs, owner, corrupt>>

Top == IF free = <<>> THEN NoSlot ELSE Head(free)

\* What a load of slot's next finds: NoSlot at the end of the stack, and slot
\* itself for the bytes of a slot that has left the stack.
NextOf(slot) ==
    IF ~Contains(free, slot) THEN slot
    ELSE IF slot = Last(free) THEN NoSlot
    ELSE free[SelectInSeq(free, LAMBDA s : s = slot) + 1]

\* pop_() has h for the head: at the end of the stack it returns null and the
\* refill is over.
PopFrom(t, h) == op' = [op EXCEPT ![t].at = IF h = NoSlot THEN "take" ELSE "next", ![t].head = h]

PopLoad(t) ==
    /\ At(t, "load")
    /\ PopFrom(t, Top)
    /\ UNCHANGED <<free, cache, slabs, owner, held, corrupt>>

PopNext(t) ==
    /\ At(t, "next")
    /\ op' = [op EXCEPT ![t].at = "cas", ![t].next = NextOf(op[t].head)]
    /\ UNCHANGED <<free, cache, slabs, owner, held, corrupt>>

\* Mutant: after a failed compare-exchange next is not loaded again.
PopCas_StaleNext(t) ==
    /\ At(t, "cas")
    /\ \/ /\ Top = op[t].head
          /\ corrupt' \in IF op[t].next = op[t].head THEN BOOLEAN
                          ELSE {op[t].next # NextOf(op[t].head)}
          /\ free' = Tail(free)
          /\ cache' = [cache EXCEPT ![t] = <<op[t].head>> \o @]
          /\ op' = [op EXCEPT ![t].at = IF cacheFull(Len(cache[t]) + 1) THEN "take" ELSE "load",
                              ![t].head = NoSlot, ![t].next = NoSlot]
       \/ /\ Top # op[t].head
          /\ op' = [op EXCEPT ![t].at = IF Top = NoSlot THEN "take" ELSE "cas",
                              ![t].head = Top]
          /\ UNCHANGED <<free, cache, corrupt>>
    /\ UNCHANGED <<slabs, owner, held>>

\* A compare-exchange that fails loads the head again.  Bytes read from a slot
\* that had left the stack may be the right ones by chance.
PopCas(t) ==
    /\ At(t, "cas")
    /\ \/ /\ Top = op[t].head
          /\ corrupt' \in IF op[t].next = op[t].head THEN BOOLEAN
                          ELSE {op[t].next # NextOf(op[t].head)}
          /\ free' = Tail(free)
          /\ cache' = [cache EXCEPT ![t] = <<op[t].head>> \o @]
          /\ op' = [op EXCEPT ![t].at = IF cacheFull(Len(cache[t]) + 1) THEN "take" ELSE "load",
                              ![t].head = NoSlot, ![t].next = NoSlot]
       \/ /\ Top # op[t].head
          /\ op' = [op EXCEPT ![t].at = IF Top = NoSlot THEN "take" ELSE "next",
                              ![t].head = Top, ![t].next = NoSlot]
          /\ UNCHANGED <<free, cache, corrupt>>
    /\ UNCHANGED <<slabs, owner, held>>

\* local_pop_() after the refill: a slot, else grow_() the first time, else null.
AcquireTake(t) ==
    /\ At(t, "take")
    /\ \/ /\ cache[t] # <<>>
          /\ cache' = [cache EXCEPT ![t] = Tail(@)]
          /\ held' = [held EXCEPT ![t] = @ \cup {Head(cache[t])}]
          /\ op' = [op EXCEPT ![t] = Idle]
       \/ /\ cache[t] = <<>>
          /\ op' = [op EXCEPT ![t] = IF @.grown THEN Idle ELSE [Idle EXCEPT !.at = "lock"]]
          /\ UNCHANGED <<cache, held>>
    /\ UNCHANGED <<free, slabs, owner, corrupt>>

GrowLock(t) ==
    /\ At(t, "lock") /\ owner = NoSlot
    /\ owner' = t
    /\ Goto(t, "test")
    /\ UNCHANGED <<free, cache, slabs, held, corrupt>>

\* grow_() ends: the refill is tried again.
Grown == [Idle EXCEPT !.at = "load", !.grown = TRUE]

\* Another thread has filled the stack, or a slab is allocated.
GrowTest(t) ==
    /\ At(t, "test")
    /\ \/ free # <<>> /\ owner' = NoSlot /\ op' = [op EXCEPT ![t] = Grown] /\ UNCHANGED slabs
       \/ /\ free = <<>> /\ slabs < MaxSlabs
          /\ slabs' = slabs + 1
          /\ op' = [op EXCEPT ![t].at = "push", ![t].todo = BlocksPerSlab]
          /\ UNCHANGED owner
    /\ UNCHANGED <<free, cache, held, corrupt>>

\* The slab whose slots are pushed is the newest: the mutex is held.
GrowPush(t) ==
    /\ At(t, "push")
    /\ free' = <<slabs * BlocksPerSlab - op[t].todo + 1>> \o free
    /\ \/ op[t].todo > 1 /\ op' = [op EXCEPT ![t].todo = @ - 1] /\ UNCHANGED owner
       \/ op[t].todo = 1 /\ op' = [op EXCEPT ![t] = Grown] /\ owner' = NoSlot
    /\ UNCHANGED <<cache, slabs, held, corrupt>>

-----------------------------------------------------------------------------
(* release(ptr).                                                            *)

\* The slot goes to the caller's own cache, wherever it came from.
ReleaseCall(t, slot) ==
    /\ At(t, "idle")
    /\ slot \in held[t]
    /\ held' = [held EXCEPT ![t] = @ \ {slot}]
    /\ cache' = [cache EXCEPT ![t] = <<slot>> \o @]
    /\ IF cacheFull(Len(cache[t]) + 1) THEN Goto(t, "flush") ELSE UNCHANGED op
    /\ UNCHANGED <<free, slabs, owner, corrupt>>

\* Mutant: the stack gets the slot that stays in the cache.
FlushPush_Kept(t) ==
    /\ At(t, "flush")
    /\ \/ /\ Len(cache[t]) > kLocalCacheLimit \div 2
          /\ free' = <<Last(cache[t])>> \o free
          /\ cache' = [cache EXCEPT ![t] = Tail(@)]
          /\ UNCHANGED op
       \/ /\ Len(cache[t]) <= kLocalCacheLimit \div 2
          /\ Goto(t, "idle")
          /\ UNCHANGED <<free, cache>>
    /\ UNCHANGED <<slabs, owner, held, corrupt>>

\* flush_local_cache_(cache, kLocalCacheLimit / 2), slot by slot.
FlushPush(t) ==
    /\ At(t, "flush")
    /\ \/ /\ Len(cache[t]) > kLocalCacheLimit \div 2
          /\ free' = <<Head(cache[t])>> \o free
          /\ cache' = [cache EXCEPT ![t] = Tail(@)]
          /\ UNCHANGED op
       \/ /\ Len(cache[t]) <= kLocalCacheLimit \div 2
          /\ Goto(t, "idle")
          /\ UNCHANGED <<free, cache>>
    /\ UNCHANGED <<slabs, owner, held, corrupt>>

PoolStep(t) ==
    \/ PopLoad(t)  \/ PopNext(t)  \/ PopCas(t)   \/ AcquireTake(t)
    \/ GrowLock(t) \/ GrowTest(t) \/ GrowPush(t) \/ FlushPush(t)

=============================================================================
