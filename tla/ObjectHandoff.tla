----------------------------- MODULE ObjectHandoff -----------------------------
(*******************************************************************************)
(* Objects of an AsyncObjectPool that a producer passes to a consumer through  *)
(* an SpscQueue of pointers.  Each thread makes one call at a time, in any     *)
(* order: it acquires and releases objects of the pool, and the objects it     *)
(* enqueues or dequeues are its own until, or from, the return of that call.   *)
(*******************************************************************************)
EXTENDS SpscQueue, AsyncMemoryPool

CONSTANTS producer, consumer

ASSUME HandoffAssumption ==
    /\ Threads = {producer, consumer} /\ producer # consumer
    /\ Values = Slots

VARIABLE poppers   \* history: the threads that have popped from the shared stack

vars == <<queueVars, poolVars, poppers>>

TypeOK == QueueTypeOK /\ PoolTypeOK /\ poppers \subseteq Threads

Init == QueueInit /\ PoolInit /\ poppers = {}

\* The thread is inside no call.
Free(t) ==
    /\ At(t, "idle")
    /\ t = producer => prod.at = "idle"
    /\ t = consumer => cons.at = "idle"

Pool ==
    /\ \/ \E t \in Threads : Free(t) /\ AcquireCall(t)
       \/ \E t \in Threads : Free(t) /\ \E slot \in held[t] : ReleaseCall(t, slot)
       \/ \E t \in Threads : PoolStep(t)
    /\ poppers' = poppers \cup {t \in Threads : op'[t].at = "cas"}
    /\ UNCHANGED queueVars

Send ==
    /\ ~corrupt
    /\ \/ Free(producer) /\ (\E slot \in held[producer] : EnqueueTest(slot)) /\ UNCHANGED held
       \/ EnqueueWrite /\ UNCHANGED held
       \/ EnqueuePublish /\ held' = [held EXCEPT ![producer] = @ \ {prod.item}]
    /\ UNCHANGED <<free, cache, slabs, owner, op, corrupt, poppers>>

Receive ==
    /\ ~corrupt
    /\ \/ Free(consumer) /\ DequeueTest /\ UNCHANGED held
       \/ DequeueRead /\ UNCHANGED held
       \/ DequeuePublish /\ held' = [held EXCEPT ![consumer] = @ \cup {cons.item}]
    /\ UNCHANGED <<free, cache, slabs, owner, op, corrupt, poppers>>

Next == Pool \/ Send \/ Receive

Spec == Init /\ [][Next]_vars

-----------------------------------------------------------------------------
(* Properties.                                                              *)

\* Where a slot can be: on the shared stack, in the queue, in a cache, with a
\* thread, or in the part of a slab that grow_() has not pushed.
Sites == ({"stack", "queue"} \X {NoSlot}) \cup ({"cache", "held", "slab"} \X Threads)

\* The slots that t has still to push.
Unpushed(t) == IF op[t].at = "push"
               THEN (slabs * BlocksPerSlab - op[t].todo + 1)..(slabs * BlocksPerSlab) ELSE {}

Items(site) ==
    CASE site[1] = "stack" -> ToSet(free)
      [] site[1] = "queue" -> ToSet(Contents)
      [] site[1] = "cache" -> ToSet(cache[site[2]])
      [] site[1] = "held"  -> held[site[2]]
      [] site[1] = "slab"  -> Unpushed(site[2])

\* As long as no compare-exchange installed a stale next, every slot of every
\* slab is in exactly one place: no object has two owners, and none is lost on
\* its way through caches, stack and queue.
OneOwner ==
    ~corrupt =>
        /\ IsInjective(free) /\ IsInjective(Contents) /\ \A t \in Threads : IsInjective(cache[t])
        /\ \A slot \in 1..(slabs * BlocksPerSlab) :
              \E site \in Sites : {s \in Sites : slot \in Items(s)} = {site}

\* The stale next takes two threads that pop: as long as one thread alone takes
\* slots from the shared stack it stays sound, whatever the other pushes meanwhile.
SinglePopperSafe == Cardinality(poppers) <= 1 => ~corrupt

=============================================================================
