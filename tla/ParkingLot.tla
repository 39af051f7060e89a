------------------------------ MODULE ParkingLot ------------------------------
(***************************************************************************)
(* The parking lot of execution/ConcurrencyPrimitive.cpp and what is built *)
(* on it: Futex (the emulated one, which every platform but Windows uses), *)
(* await_change(), await_equal() and Mutex.                                *)
(*                                                                         *)
(* One wait queue is modelled, with every address hashed to it: addresses  *)
(* that collide are told apart by the key in the node.  Wait nodes live on *)
(* the heap.  A thread keeps the pointer it got from insertHead() until    *)
(* parkFor() returns, although unpark() deletes the node: reading a        *)
(* deleted node gives what its memory holds, the old contents or, once the *)
(* allocator has handed the memory out again, another thread's node.       *)
(*                                                                         *)
(* A node's own mutex and condition variable make "test _signaled or       *)
(* sleep" and "set _signaled and notify" atomic.  Memory is sequentially   *)
(* consistent.                                                             *)
(***************************************************************************)
EXTENDS Integers, Sequences, FiniteSets

CONSTANTS Threads,
          Addrs,      \* the addresses of mutexes and futex words
          Castings,   \* what each thread does and at which address; a behaviour has one casting
          Desired,    \* the value await_equal() waits for
          WakeCount,  \* the count each waker passes to wake()
          WakeMask,   \* and its mask
          Cells,      \* heap memory for wait nodes
          Reuse,      \* whether freed memory is handed out while a thread still points to it
          MaxRounds,  \* bound: critical sections or stores of each thread
          NoThread

Roles == {"locker", "changer", "equal", "timed", "waker"}

\* The lockers of an address are its only users: it is a Mutex.
ASSUME LotAssumption ==
    /\ IsFiniteSet(Threads) /\ NoThread \notin Threads /\ Cells # {} /\ Addrs # {}
    /\ Castings \subseteq [Threads -> [role : Roles, addr : Addrs]]
    /\ \A c \in Castings, t, u \in Threads :
          c[t].role = "locker" /\ c[u].addr = c[t].addr => c[u].role = "locker"
    /\ Desired \in Nat /\ MaxRounds \in Nat
    /\ WakeCount \in [Threads -> Nat \ {0}]
    /\ WakeMask \in [Threads -> SUBSET (0..31)]
    /\ Reuse \in BOOLEAN

VARIABLES cast,      \* the casting
          word,      \* the atomic at each address: a Mutex (0 or 1) or a futex word
          count,     \* WaitQueue::_count
          holder,    \* who holds WaitQueue::_mtx
          list,      \* WaitQueue::_list, the nodes' cells
          heap,      \* the contents of the cells
          pc,
          expected,  \* the value parkFor()'s condition asks for
          ptr,       \* pnode
          walk,      \* the rest of the list an unpark() has to visit
          budget,    \* emulated_futex_wake's count
          rounds,    \* calls still to make
          result,    \* what the thread's last parkFor() returned
          chosen     \* history: threads whose current node an unpark() has woken

vars == <<cast, word, count, holder, list, heap, pc, expected, ptr, walk, budget, rounds, result, chosen>>
lotVars  == <<count, holder, list, heap>>
parkVars == <<expected, ptr, result, chosen>>
wakeVars == <<walk, budget>>

Lockers  == {t \in Threads : cast[t].role = "locker"}   \* lock() and unlock() a Mutex
Changers == {t \in Threads : cast[t].role = "changer"}  \* in await_change()
Equals   == {t \in Threads : cast[t].role = "equal"}    \* in await_equal()
Timed    == {t \in Threads : cast[t].role = "timed"}    \* in Futex::wait_for() with a duration
Wakers   == {t \in Threads : cast[t].role = "waker"}    \* store and call Futex::wake()

AddrOf(t) == cast[t].addr

Bits == 0..31

\* The data of a node: Mutex::_kMask, the bit of await_equal()'s value, or all.
mask(t) == CASE t \in Lockers -> {0} [] t \in Equals -> {Desired % 32} [] OTHER -> Bits

ParkPC   == {"p_count", "p_lock", "p_cond", "p_skip", "p_check", "p_asleep", "p_timeout", "p_signaled"}
NodePC   == {"p_check", "p_asleep", "p_timeout", "p_signaled"}
UnparkPC == {"u_count", "u_lock", "u_walk", "u_erase"}

WaitNode == [key : Addrs, mask : SUBSET Bits, signaled : BOOLEAN, live : BOOLEAN,
             owner : Threads \cup {NoThread}]

\* Memory that has never held a node.
Unused == [key |-> CHOOSE a \in Addrs : TRUE, mask |-> {}, signaled |-> FALSE, live |-> FALSE,
           owner |-> NoThread]

TypeOK ==
    /\ cast \in Castings
    /\ word \in [Addrs -> Nat]
    /\ count \in Nat
    /\ holder \in Threads \cup {NoThread}
    /\ list \in Seq(Cells) /\ \A i, j \in DOMAIN list : list[i] = list[j] => i = j
    /\ heap \in [Cells -> WaitNode]
    /\ pc \in [Threads -> {"idle", "load", "held", "done"} \cup ParkPC \cup UnparkPC]
    /\ expected \in [Threads -> Nat]
    /\ ptr \in [Threads -> Cells]
    /\ walk \in [Threads -> Seq(Cells)]
    /\ budget \in [Threads -> Nat]
    /\ rounds \in [Threads -> 0..MaxRounds]
    /\ result \in [Threads -> {"none", "skip", "unpark", "timeout"}]
    /\ chosen \subseteq Threads

Init ==
    /\ cast \in Castings
    /\ word = [a \in Addrs |-> 0]
    /\ count = 0 /\ holder = NoThread /\ list = <<>>
    /\ heap = [c \in Cells |-> Unused]
    /\ pc = [t \in Threads |-> "idle"]
    /\ expected = [t \in Threads |-> 0]
    /\ ptr = [t \in Threads |-> CHOOSE c \in Cells : TRUE]
    /\ walk = [t \in Threads |-> <<>>] /\ budget = [t \in Threads |-> 0]
    /\ rounds = [t \in Threads |-> MaxRounds]
    /\ result = [t \in Threads |-> "none"]
    /\ chosen = {}

\* The nodes in the queue.
Nodes == {list[i] : i \in DOMAIN list}

Goto(t, from, to) == pc[t] = from /\ pc' = [pc EXCEPT ![t] = to]

-----------------------------------------------------------------------------
(* The wait queue.                                                          *)

LockQueue(t, from, to) == holder = NoThread /\ holder' = t /\ Goto(t, from, to)

\* Memory that new may return: any that is free, unless the allocator holds
\* back what a thread inside parkFor() still points to.
Allocatable(c) ==
    /\ ~heap[c].live
    /\ Reuse \/ \A t \in Threads : pc[t] \in NodePC => ptr[t] # c

insertHead(t, c) ==
    /\ heap' = [heap EXCEPT ![c] = [key |-> AddrOf(t), mask |-> mask(t), signaled |-> FALSE,
                                    live |-> TRUE, owner |-> t]]
    /\ list' = <<c>> \o list
    /\ ptr' = [ptr EXCEPT ![t] = c]

\* Nothing happens to a node that is not in the list.
erase(c) ==
    \/ \E i \in DOMAIN list :
          /\ list[i] = c
          /\ list' = SubSeq(list, 1, i - 1) \o SubSeq(list, i + 1, Len(list))
          /\ heap' = [heap EXCEPT ![c].live = FALSE]
    \/ c \notin Nodes /\ UNCHANGED <<list, heap>>

-----------------------------------------------------------------------------
(* parkFor().                                                               *)

\* Where a caller goes on: Mutex::lock() and the await loops load the word
\* again, Futex::wait_for() returns.
Return(t, from, r) ==
    /\ Goto(t, from, IF t \in Timed THEN "done" ELSE "load")
    /\ result' = [result EXCEPT ![t] = r]

\* The waiter is counted before it takes the queue's lock.
ParkCount(t) ==
    /\ Goto(t, "p_count", "p_lock")
    /\ count' = count + 1
    /\ chosen' = chosen \ {t}
    /\ UNCHANGED <<word, holder, list, heap, expected, ptr, result, wakeVars, rounds>>

ParkLock(t) ==
    /\ LockQueue(t, "p_lock", "p_cond")
    /\ UNCHANGED <<word, count, list, heap, parkVars, wakeVars, rounds>>

\* Test the condition under the lock and insert a node or skip; unlock.
ParkCond(t) ==
    /\ \/ /\ word[AddrOf(t)] = expected[t]
          /\ \E c \in Cells : Allocatable(c) /\ insertHead(t, c)
          /\ Goto(t, "p_cond", "p_check")
       \/ /\ word[AddrOf(t)] # expected[t]
          /\ Goto(t, "p_cond", "p_skip")
          /\ UNCHANGED <<list, heap, ptr>>
    /\ holder' = NoThread
    /\ UNCHANGED <<word, count, expected, result, chosen, wakeVars, rounds>>

\* Mutant: a skipped waiter stays counted.
ParkSkip_Counted(t) ==
    /\ Return(t, "p_skip", "skip")
    /\ UNCHANGED <<word, lotVars, expected, ptr, chosen, wakeVars, rounds>>

ParkSkip(t) ==
    /\ Return(t, "p_skip", "skip")
    /\ count' = count - 1
    /\ UNCHANGED <<word, holder, list, heap, expected, ptr, chosen, wakeVars, rounds>>

\* WaitNodeBase::waitFor(): return if signaled, else sleep on the node.
WaitCheck(t) ==
    /\ \/ heap[ptr[t]].signaled  /\ Return(t, "p_check", "unpark")
       \/ ~heap[ptr[t]].signaled /\ Goto(t, "p_check", "p_asleep") /\ UNCHANGED result
    /\ UNCHANGED <<word, lotVars, expected, ptr, chosen, wakeVars, rounds>>

\* The node's condition variable may return for no reason.
WaitSpurious(t) ==
    /\ Goto(t, "p_asleep", "p_check")
    /\ UNCHANGED <<word, lotVars, parkVars, wakeVars, rounds>>

\* The duration is over, whatever happens to the node meanwhile.
WaitTimeout(t) ==
    /\ t \in Timed
    /\ Goto(t, "p_asleep", "p_timeout")
    /\ UNCHANGED <<word, lotVars, parkVars, wakeVars, rounds>>

TimeoutLock(t) ==
    /\ LockQueue(t, "p_timeout", "p_signaled")
    /\ UNCHANGED <<word, count, list, heap, parkVars, wakeVars, rounds>>

\* Mutant: a timeout is a timeout, signaled or not.
TimeoutCheck_Unasked(t) ==
    /\ Return(t, "p_signaled", "timeout")
    /\ \/ ~heap[ptr[t]].signaled /\ erase(ptr[t]) /\ count' = count - 1
       \/ heap[ptr[t]].signaled /\ UNCHANGED <<list, heap, count>>
    /\ holder' = NoThread
    /\ UNCHANGED <<word, expected, ptr, chosen, wakeVars, rounds>>

\* Under the queue's lock: a node nobody has woken is taken out.
TimeoutCheck(t) ==
    /\ \/ /\ ~heap[ptr[t]].signaled
          /\ erase(ptr[t]) /\ count' = count - 1
          /\ Return(t, "p_signaled", "timeout")
       \/ /\ heap[ptr[t]].signaled
          /\ Return(t, "p_signaled", "unpark")
          /\ UNCHANGED <<list, heap, count>>
    /\ holder' = NoThread
    /\ UNCHANGED <<word, expected, ptr, chosen, wakeVars, rounds>>

parkFor(t) ==
    \/ ParkCount(t)   \/ ParkLock(t)    \/ ParkCond(t) \/ ParkSkip(t)
    \/ WaitCheck(t)   \/ WaitTimeout(t) \/ TimeoutLock(t) \/ TimeoutCheck(t)

-----------------------------------------------------------------------------
(* unpark() with emulated_futex_wake's or Mutex::unlock()'s function: wake   *)
(* up to budget of the nodes that match.                                     *)

Leave(t, from) == Goto(t, from, IF rounds[t] = 0 THEN "done" ELSE "idle")

\* Without a waiter the queue's lock is not taken.
UnparkCount(t) ==
    /\ \/ count = 0 /\ Leave(t, "u_count")
       \/ count # 0 /\ Goto(t, "u_count", "u_lock")
    /\ UNCHANGED <<word, lotVars, parkVars, wakeVars, rounds>>

UnparkLock(t) ==
    /\ LockQueue(t, "u_lock", "u_walk")
    /\ walk' = [walk EXCEPT ![t] = list]
    /\ UNCHANGED <<word, count, list, heap, parkVars, budget, rounds>>

\* Mutex::unlock() takes any node of its key, wake() those that share a bit
\* with its mask.
Matches(t, c) ==
    /\ heap[c].key = AddrOf(t)
    /\ heap[c].mask \cap (IF t \in Wakers THEN WakeMask[t] ELSE Bits) # {}

\* Mutant: the first node that does not match ends the walk.
UnparkWalk_Breaks(t) ==
    /\ pc[t] = "u_walk" /\ (walk[t] # <<>> => ~Matches(t, Head(walk[t])))
    /\ Leave(t, "u_walk") /\ holder' = NoThread
    /\ UNCHANGED <<word, count, list, heap, parkVars, wakeVars, rounds>>

\* Pass over a node of another key or mask, or leave at the end of the list.
UnparkWalk(t) ==
    /\ \/ /\ walk[t] = <<>>
          /\ Leave(t, "u_walk") /\ holder' = NoThread
          /\ UNCHANGED walk
       \/ /\ pc[t] = "u_walk" /\ walk[t] # <<>> /\ ~Matches(t, Head(walk[t]))
          /\ walk' = [walk EXCEPT ![t] = Tail(@)]
          /\ UNCHANGED <<holder, pc>>
    /\ UNCHANGED <<word, count, list, heap, parkVars, budget, rounds>>

\* Mutant: the flag is set and nobody notified.
UnparkWake_Silent(t) ==
    /\ pc[t] = "u_walk" /\ walk[t] # <<>> /\ Matches(t, Head(walk[t]))
    /\ heap' = [heap EXCEPT ![Head(walk[t])].signaled = TRUE]
    /\ chosen' = chosen \cup {heap[Head(walk[t])].owner}
    /\ pc' = [pc EXCEPT ![t] = "u_erase"]
    /\ UNCHANGED <<word, count, holder, list, expected, ptr, result, wakeVars, rounds>>

\* node->wake(): signal, and notify one of the threads asleep on the node.
UnparkWake(t) ==
    /\ pc[t] = "u_walk" /\ walk[t] # <<>> /\ Matches(t, Head(walk[t]))
    /\ LET c == Head(walk[t])
           asleep == {u \in Threads : pc[u] = "p_asleep" /\ ptr[u] = c}
       IN /\ heap' = [heap EXCEPT ![c].signaled = TRUE]
          /\ chosen' = chosen \cup {heap[c].owner}
          /\ \/ asleep = {} /\ pc' = [pc EXCEPT ![t] = "u_erase"]
             \/ \E u \in asleep : pc' = [pc EXCEPT ![t] = "u_erase", ![u] = "p_check"]
    /\ UNCHANGED <<word, count, holder, list, expected, ptr, result, wakeVars, rounds>>

\* Delete the node its waiter has just been woken from; go on or stop.
UnparkErase(t) ==
    /\ pc[t] = "u_erase"
    /\ erase(Head(walk[t])) /\ count' = count - 1
    /\ budget' = [budget EXCEPT ![t] = @ - 1]
    /\ walk' = [walk EXCEPT ![t] = Tail(@)]
    /\ \/ budget[t] > 1  /\ Goto(t, "u_erase", "u_walk") /\ UNCHANGED holder
       \/ budget[t] <= 1 /\ Leave(t, "u_erase") /\ holder' = NoThread
    /\ UNCHANGED <<word, parkVars, rounds>>

unpark(t) ==
    UnparkCount(t) \/ UnparkLock(t) \/ UnparkWalk(t) \/ UnparkWake(t) \/ UnparkErase(t)

-----------------------------------------------------------------------------
(* The callers.                                                             *)

\* A thread begins its next call.
Begin(t, to) ==
    /\ rounds[t] > 0
    /\ Goto(t, "idle", to)
    /\ rounds' = [rounds EXCEPT ![t] = @ - 1]

LockCall(t) ==
    /\ t \in Lockers
    /\ Begin(t, "load")
    /\ UNCHANGED <<word, lotVars, parkVars, wakeVars>>

\* Mutex::lock(): take a free word; park, once it has spun enough, on a locked one.
LockTry(t) ==
    /\ t \in Lockers
    /\ \/ /\ word[AddrOf(t)] = 0
          /\ Goto(t, "load", "held")
          /\ word' = [word EXCEPT ![AddrOf(t)] = 1]
          /\ UNCHANGED expected
       \/ /\ word[AddrOf(t)] # 0
          /\ Goto(t, "load", "p_count")
          /\ expected' = [expected EXCEPT ![t] = word[AddrOf(t)]]
          /\ UNCHANGED word
    /\ UNCHANGED <<lotVars, ptr, result, chosen, wakeVars, rounds>>

\* try_lock() gives up on a word that is not 0.
TryLock(t) ==
    /\ t \in Lockers
    /\ \/ /\ word[AddrOf(t)] = 0
          /\ Begin(t, "held")
          /\ word' = [word EXCEPT ![AddrOf(t)] = 1]
       \/ /\ word[AddrOf(t)] # 0
          /\ Begin(t, IF rounds[t] = 1 THEN "done" ELSE "idle")
          /\ UNCHANGED word
    /\ UNCHANGED <<lotVars, parkVars, wakeVars>>

\* Mutex::unlock() always goes on to unpark() one thread.
Unlock(t) ==
    /\ Goto(t, "held", "u_count")
    /\ word' = [word EXCEPT ![AddrOf(t)] = 0]
    /\ budget' = [budget EXCEPT ![t] = 1]
    /\ UNCHANGED <<lotVars, parkVars, walk, rounds>>

\* await_change() and wait_for() are called with the value last seen.
AwaitCall(t) ==
    /\ t \in Changers \cup Equals \cup Timed
    /\ Begin(t, IF t \in Timed THEN "p_count" ELSE "load")
    /\ expected' = [expected EXCEPT ![t] = word[AddrOf(t)]]
    /\ UNCHANGED <<word, lotVars, ptr, result, chosen, wakeVars>>

\* Mutant: await_change() waits again without looking at the word.
AwaitLoad_Untested(t) ==
    /\ t \in Changers \cup Equals
    /\ Goto(t, "load", IF t \in Equals /\ word[AddrOf(t)] = Desired THEN "done" ELSE "p_count")
    /\ expected' = [expected EXCEPT ![t] = IF t \in Equals THEN word[AddrOf(t)] ELSE @]
    /\ UNCHANGED <<word, lotVars, ptr, result, chosen, wakeVars, rounds>>

\* The await loops: spin on the word, then wait while it has the value seen.
AwaitLoad(t) ==
    /\ \/ /\ t \in Changers
          /\ Goto(t, "load", IF word[AddrOf(t)] # expected[t] THEN "done" ELSE "p_count")
          /\ UNCHANGED expected
       \/ /\ t \in Equals
          /\ Goto(t, "load", IF word[AddrOf(t)] = Desired THEN "done" ELSE "p_count")
          /\ expected' = [expected EXCEPT ![t] = word[AddrOf(t)]]
    /\ UNCHANGED <<word, lotVars, ptr, result, chosen, wakeVars, rounds>>

\* A client changes the word and calls Futex::wake().
Store(t) ==
    /\ t \in Wakers
    /\ Begin(t, "u_count")
    /\ word' = [word EXCEPT ![AddrOf(t)] = @ + 1]
    /\ budget' = [budget EXCEPT ![t] = WakeCount[t]]
    /\ UNCHANGED <<lotVars, parkVars, walk>>

\* What a thread inside a call does next, and the calls it may make.
Step(t) == (parkFor(t) \/ unpark(t) \/ LockTry(t) \/ Unlock(t) \/ AwaitLoad(t)) /\ UNCHANGED cast
Call(t) == (LockCall(t) \/ TryLock(t) \/ AwaitCall(t) \/ Store(t)) /\ UNCHANGED cast

Next == \E t \in Threads : Step(t) \/ Call(t) \/ (WaitSpurious(t) /\ UNCHANGED cast)

Spec == Init /\ [][Next]_vars

\* A thread inside a call keeps running, and leaves its critical section.  The
\* locks are taken weakly fairly only: MaxRounds bounds how often others overtake.
Fairness == \A t \in Threads : WF_vars(Step(t))

FairSpec == Spec /\ Fairness

-----------------------------------------------------------------------------
(* Properties.                                                              *)

\* WaitQueue::_count counts the queued nodes and the threads between raising
\* it and their insertion or skip: unpark() may trust a zero it reads without
\* the lock.
CountExact ==
    count = Len(list) + Cardinality({t \in Threads : pc[t] \in {"p_lock", "p_cond", "p_skip"}})

\* The node of t's current parkFor() is in the queue.
Queued(t) == pc[t] \in NodePC /\ \E c \in Nodes : heap[c].owner = t

\* A thread whose node is in the queue and whose word has moved on is not
\* forgotten: a wake for its address is on the way, or a thread that already
\* runs inside lock() and will unlock after it.
Remembered(t) ==
    Queued(t) /\ word[AddrOf(t)] # expected[t] =>
        \E u \in Threads \ {t} :
            /\ AddrOf(u) = AddrOf(t)
            /\ \/ pc[u] \in UnparkPC
               \/ u \in Lockers /\ pc[u] \in {"load"} \cup ParkPC /\ ~Queued(u)

NoLostWakeup == \A t \in Threads : Remembered(t)

\* A wake spent on a thread is not answered by a timeout: notify_one() would be
\* lost between a wake() and the expiry of wait_for().
WakeNotWasted == \A t \in Timed : result[t] = "timeout" => t \notin chosen

InCall(t) == pc[t] \notin {"idle", "done"}

\* lock() returns when every holder unlocks: again and again nobody is inside
\* lock(), and MaxRounds keeps new callers from hiding one that is stuck.
LockReturns == []<>(\A t \in Lockers : pc[t] \notin {"load"} \cup ParkPC)

\* await_change() returns after a change and a wake() of everyone, and
\* await_equal(), which is woken through its mask, when the value it waits for
\* stays.
AwaitReturns ==
    /\ []<>(\A t \in Changers : ~(InCall(t) /\ word[AddrOf(t)] # expected[t]))
    /\ []<>(\A t \in Equals : ~(InCall(t) /\ word[AddrOf(t)] = Desired))

=============================================================================
