------------------------------ MODULE AsyncEvent ------------------------------
(***************************************************************************)
(* zs::AsyncEvent of execution/AsyncRuntime.hpp: a status, a vector of     *)
(* callbacks, the Mutex that guards both and the ConditionVariable its     *)
(* waiters sleep on.  The accesses made under the lock are separate steps, *)
(* because wait() and wait_for() release and take the mutex without        *)
(* holding it, which opens the critical sections of the other operations.  *)
(*                                                                         *)
(* Mutex and ConditionVariable appear by what they do: lock() sets the     *)
(* word when it is 0, unlock() stores 0 whoever holds it, a futex wait     *)
(* compares the epoch and sleeps in one atomic step, a wake releases every *)
(* sleeper.                                                                *)
(***************************************************************************)
EXTENDS Naturals

CONSTANTS Completers,   \* threads that call complete() or a mark_*()
          Registrars,   \* threads that call on_complete() once, each with its own callback
          Waiters,      \* threads that call wait() or wait_for() once
          Timed,        \* the waiters that call wait_for()
          Teams,        \* sets of threads; a behaviour has those of one team, the others are away
          MaxCalls      \* bound: calls of transition() per completer

ASSUME EventAssumption ==
    /\ Completers \cap Registrars = {}
    /\ Waiters \cap (Completers \cup Registrars) = {}
    /\ Timed \subseteq Waiters
    /\ Teams \subseteq SUBSET (Completers \cup Registrars \cup Waiters)
    /\ MaxCalls \in Nat

VARIABLES word,       \* SharedState::mutex, 0 free and 1 locked
          seq,        \* the epoch of SharedState::cv
          status,     \* SharedState::status
          callbacks,  \* SharedState::callbacks (a callback is named by its registrar)
          pc,         \* where each thread is
          next,       \* transition's argument, per completer
          swapped,    \* transition's local vector of callbacks, per completer
          epoch,      \* ConditionVariable::wait's snapshot, per waiter
          fired,      \* how often each callback was invoked
          calls       \* how many transitions each completer has begun

vars == <<word, seq, status, callbacks, pc, next, swapped, epoch, fired, calls>>

Threads  == Completers \cup Registrars \cup Waiters
Statuses == {"pending", "running", "suspended", "completed", "cancelled", "failed"}
Terminal == {"completed", "cancelled", "failed"}

is_terminal(st) == st \in Terminal

TransitionPC == {"t_lock", "t_check", "t_store", "t_swap", "t_bump", "t_wake", "t_run"}
OnCompletePC == {"o_lock", "o_check", "o_push", "o_invoke"}
WaitPC       == {"w_pred", "w_epoch", "w_sleep", "w_asleep", "w_relock", "w_timeout"}

\* The steps taken with the mutex locked, if nobody else unlocks it.
Critical == {"t_check", "t_store", "t_swap", "o_check", "o_push"}

TypeOK ==
    /\ word \in {0, 1}
    /\ seq \in Nat
    /\ status \in Statuses
    /\ callbacks \subseteq Registrars
    /\ pc \in [Threads -> {"idle", "done", "away"} \cup TransitionPC \cup OnCompletePC \cup WaitPC]
    /\ next \in [Completers -> Statuses]
    /\ swapped \in [Completers -> SUBSET Registrars]
    /\ epoch \in [Waiters -> Nat]
    /\ fired \in [Registrars -> Nat]
    /\ calls \in [Completers -> 0..MaxCalls]

Init ==
    /\ word = 0
    /\ seq = 0
    /\ status = "pending"
    /\ callbacks = {}
    /\ \E team \in Teams : pc = [t \in Threads |-> IF t \in team THEN "idle" ELSE "away"]
    /\ next = [t \in Completers |-> "pending"]
    /\ swapped = [t \in Completers |-> {}]
    /\ epoch = [t \in Waiters |-> 0]
    /\ fired = [c \in Registrars |-> 0]
    /\ calls = [t \in Completers |-> 0]

Goto(t, from, to) == pc[t] = from /\ pc' = [pc EXCEPT ![t] = to]

\* Mutex::lock() returns: the word was 0 and is now 1.
Lock == word = 0 /\ word' = 1

\* Mutant: unlock() subtracts the lock bit instead of masking it out.
Unlock_Subtract == word' = word - 1

\* Mutex::unlock() clears the word without looking at who set it.
Unlock == word' = 0

-----------------------------------------------------------------------------
(* transition(next): under lock_guard from t_check to t_swap.               *)

TransitionCall(t) ==
    /\ calls[t] < MaxCalls
    /\ calls' = [calls EXCEPT ![t] = @ + 1]
    /\ Goto(t, "idle", "t_lock")
    /\ \E st \in Statuses \ {"pending"} : next' = [next EXCEPT ![t] = st]
    /\ UNCHANGED <<word, seq, status, callbacks, swapped, epoch, fired>>

TransitionLock(t) ==
    /\ Lock
    /\ Goto(t, "t_lock", "t_check")
    /\ UNCHANGED <<seq, status, callbacks, next, swapped, epoch, fired, calls>>

\* Mutant: the early return on a terminal status is missing.
TransitionCheck_NoReturn(t) ==
    /\ Goto(t, "t_check", "t_store")
    /\ UNCHANGED <<word, seq, status, callbacks, next, swapped, epoch, fired, calls>>

\* Mutant: the early return leaves the mutex locked.
TransitionCheck_Locked(t) ==
    /\ Goto(t, "t_check", IF is_terminal(status) THEN "idle" ELSE "t_store")
    /\ UNCHANGED <<word, seq, status, callbacks, next, swapped, epoch, fired, calls>>

\* A terminal status is left alone: unlock and return without notifying.
TransitionCheck(t) ==
    /\ \/ ~is_terminal(status) /\ Goto(t, "t_check", "t_store") /\ UNCHANGED word
       \/ is_terminal(status)  /\ Goto(t, "t_check", "idle")    /\ Unlock
    /\ UNCHANGED <<seq, status, callbacks, next, swapped, epoch, fired, calls>>

TransitionStore(t) ==
    /\ Goto(t, "t_store", "t_swap")
    /\ status' = next[t]
    /\ UNCHANGED <<word, seq, callbacks, next, swapped, epoch, fired, calls>>

\* Mutant: the callbacks are copied, not swapped out.
TransitionSwap_Copy(t) ==
    /\ Goto(t, "t_swap", "t_bump")
    /\ swapped' = [swapped EXCEPT ![t] = IF is_terminal(next[t]) THEN callbacks ELSE @]
    /\ Unlock
    /\ UNCHANGED <<seq, status, callbacks, next, epoch, fired, calls>>

TransitionSwap(t) ==
    /\ Goto(t, "t_swap", "t_bump")
    /\ \/ /\ is_terminal(next[t])
          /\ swapped' = [swapped EXCEPT ![t] = callbacks]
          /\ callbacks' = {}
       \/ ~is_terminal(next[t]) /\ UNCHANGED <<callbacks, swapped>>
    /\ Unlock
    /\ UNCHANGED <<seq, status, next, epoch, fired, calls>>

\* notify_all(): the epoch moves first, the sleepers are released after.
NotifyBump(t) ==
    /\ Goto(t, "t_bump", "t_wake")
    /\ seq' = seq + 1
    /\ UNCHANGED <<word, status, callbacks, next, swapped, epoch, fired, calls>>

NotifyWake(t) ==
    /\ pc[t] = "t_wake"
    /\ pc' = [u \in Threads |-> IF u = t THEN "t_run"
                                ELSE IF pc[u] = "w_asleep" THEN "w_relock" ELSE pc[u]]
    /\ UNCHANGED <<word, seq, status, callbacks, next, swapped, epoch, fired, calls>>

\* The callbacks run outside the lock, one after the other.
TransitionRun(t) ==
    /\ pc[t] = "t_run"
    /\ \/ \E c \in swapped[t] :
             /\ fired' = [fired EXCEPT ![c] = @ + 1]
             /\ swapped' = [swapped EXCEPT ![t] = @ \ {c}]
             /\ UNCHANGED pc
       \/ swapped[t] = {} /\ Goto(t, "t_run", "idle") /\ UNCHANGED <<fired, swapped>>
    /\ UNCHANGED <<word, seq, status, callbacks, next, epoch, calls>>

Transition(t) ==
    \/ TransitionLock(t) \/ TransitionCheck(t) \/ TransitionStore(t) \/ TransitionSwap(t)
    \/ NotifyBump(t)     \/ NotifyWake(t)      \/ TransitionRun(t)

-----------------------------------------------------------------------------
(* on_complete(callback): under lock_guard from o_check to o_push.          *)

OnCompleteCall(t) ==
    /\ Goto(t, "idle", "o_lock")
    /\ UNCHANGED <<word, seq, status, callbacks, next, swapped, epoch, fired, calls>>

\* Mutant: on_complete looks at the status without taking the mutex.
OnCompleteLock_Unlocked(t) ==
    /\ Goto(t, "o_lock", "o_check")
    /\ UNCHANGED <<word, seq, status, callbacks, next, swapped, epoch, fired, calls>>

OnCompleteLock(t) ==
    /\ Lock
    /\ Goto(t, "o_lock", "o_check")
    /\ UNCHANGED <<seq, status, callbacks, next, swapped, epoch, fired, calls>>

\* Mutant: a callback that comes late is queued all the same.
OnCompleteCheck_AlwaysPush(t) ==
    /\ Goto(t, "o_check", "o_push")
    /\ UNCHANGED <<word, seq, status, callbacks, next, swapped, epoch, fired, calls>>

\* invokeNow: unlock, and call the callback on this thread.
OnCompleteCheck(t) ==
    /\ \/ ~is_terminal(status) /\ Goto(t, "o_check", "o_push")   /\ UNCHANGED word
       \/ is_terminal(status)  /\ Goto(t, "o_check", "o_invoke") /\ Unlock
    /\ UNCHANGED <<seq, status, callbacks, next, swapped, epoch, fired, calls>>

OnCompletePush(t) ==
    /\ Goto(t, "o_push", "done")
    /\ callbacks' = callbacks \cup {t}
    /\ Unlock
    /\ UNCHANGED <<seq, status, next, swapped, epoch, fired, calls>>

OnCompleteInvoke(t) ==
    /\ Goto(t, "o_invoke", "done")
    /\ fired' = [fired EXCEPT ![t] = @ + 1]
    /\ UNCHANGED <<word, seq, status, callbacks, next, swapped, epoch, calls>>

OnComplete(t) ==
    \/ OnCompleteCall(t) \/ OnCompleteLock(t) \/ OnCompleteCheck(t)
    \/ OnCompletePush(t) \/ OnCompleteInvoke(t)

-----------------------------------------------------------------------------
(* wait() and wait_for(): while (!p()) cv.wait(mutex), the mutex neither    *)
(* taken before the first test of p nor released after the last one.        *)

WaitCall(t) ==
    /\ Goto(t, "idle", "w_pred")
    /\ UNCHANGED <<word, seq, status, callbacks, next, swapped, epoch, fired, calls>>

WaitPredicate(t) ==
    /\ Goto(t, "w_pred", IF is_terminal(status) THEN "done" ELSE "w_epoch")
    /\ UNCHANGED <<word, seq, status, callbacks, next, swapped, epoch, fired, calls>>

\* Snapshot the epoch, then lk.unlock().
WaitEpoch(t) ==
    /\ Goto(t, "w_epoch", "w_sleep")
    /\ epoch' = [epoch EXCEPT ![t] = seq]
    /\ Unlock
    /\ UNCHANGED <<seq, status, callbacks, next, swapped, fired, calls>>

\* Futex::wait_for: value_changed at once, or asleep.
WaitSleep(t) ==
    /\ Goto(t, "w_sleep", IF seq # epoch[t] THEN "w_relock" ELSE "w_asleep")
    /\ UNCHANGED <<word, seq, status, callbacks, next, swapped, epoch, fired, calls>>

WaitTimeout(t) ==
    /\ t \in Timed
    /\ Goto(t, "w_asleep", "w_timeout")
    /\ UNCHANGED <<word, seq, status, callbacks, next, swapped, epoch, fired, calls>>

\* lk.lock(), then test p again; after a timeout return p() whatever it is.
WaitRelock(t) ==
    /\ Lock
    /\ Goto(t, "w_relock", "w_pred") \/ Goto(t, "w_timeout", "done")
    /\ UNCHANGED <<seq, status, callbacks, next, swapped, epoch, fired, calls>>

Wait(t) ==
    \/ WaitCall(t)  \/ WaitPredicate(t) \/ WaitEpoch(t)
    \/ WaitSleep(t) \/ WaitTimeout(t)   \/ WaitRelock(t)

-----------------------------------------------------------------------------
Next ==
    \/ \E t \in Completers : TransitionCall(t) \/ Transition(t)
    \/ \E t \in Registrars : OnComplete(t)
    \/ \E t \in Waiters : Wait(t)

Spec == Init /\ [][Next]_vars

\* A thread inside a call keeps running; nobody has to call complete() again.
\* A lock() is only promised to return when the mutex stays free (weak
\* fairness): zs::Mutex lets a newcomer overtake.
Fairness ==
    /\ \A t \in Completers : WF_vars(Transition(t))
    /\ \A t \in Registrars : WF_vars(OnComplete(t))
    /\ \A t \in Waiters : WF_vars(Wait(t))

FairSpec == Spec /\ Fairness

-----------------------------------------------------------------------------
(* Properties.                                                              *)

\* A terminal status is final: whatever transition() is called with and
\* however the calls interleave, an event that reported completed, cancelled
\* or failed never reports anything else (transition() checks and stores in
\* two accesses under one lock).
FinalStatus == [][is_terminal(status) => status' = status]_vars

\* A callback is never left behind: while an event is terminal, a callback in
\* its vector is about to be swapped out by the transition that finished it
\* (on_complete() tests the status and pushes under the lock under which
\* transition() stores and swaps).
NoStrandedCallback ==
    is_terminal(status) /\ callbacks # {} => \E t \in Completers : pc[t] = "t_swap"

\* The callbacks the event still owes an invocation, wherever they are held:
\* in the vector, in a transition's local copy, or with a late registrar.
Owed == {c \in Registrars : \/ c \in callbacks
                            \/ \E t \in Completers : c \in swapped[t]
                            \/ pc[c] = "o_invoke"}

CE == INSTANCE CompletionEvent WITH Callbacks <- Registrars,
                                    registered <- Owed,
                                    fired <- {c \in Registrars : fired[c] > 0}

\* The event implements CompletionEvent: each callback handed to on_complete()
\* is invoked at most once and only after the status became terminal.
Refines == CE!Spec

\* Every callback of a finished event is invoked in the end, whether
\* on_complete() came before or after the transition that finished it.
CallbackFires ==
    []<>(\A c \in Registrars : pc[c] = "done" /\ is_terminal(status) => fired[c] = 1)

\* Every transition(), on_complete() and wait_for() returns.  It needs an event
\* that no wait() or wait_for() slept on: these return with the mutex locked, and
\* the next lock() never does.
CallsReturn ==
    []<>(\A t \in Completers \cup Registrars \cup Timed :
             pc[t] \notin TransitionPC \cup OnCompletePC \cup WaitPC)

\* A wait has returned and the mutex is locked, with nobody there to unlock it.
LeftLocked ==
    /\ word = 1
    /\ \E t \in Waiters : pc[t] = "done"
    /\ \A t \in Threads : pc[t] \notin Critical

\* Nothing else blocks a call: every call returns, or a wait that has returned
\* keeps the mutex for good.  transition() and on_complete() give the mutex back
\* on each of their paths, and a timeout ends wait_for() whatever notifications
\* came before it, also when the event never ends.
BlockedByWaitOnly == CallsReturn \/ <>[]LeftLocked

\* wait() and wait_for() return once the event is terminal.
WaitReturns ==
    \A t \in Waiters : pc[t] \in WaitPC /\ is_terminal(status) ~> pc[t] = "done"

-----------------------------------------------------------------------------
(* The inductive invariant behind the safety properties, for an event nobody *)
(* waits on (the waiters of AsyncEvent break LockHeld).                      *)

PCByRole ==
    /\ \A t \in Completers : pc[t] \in {"idle", "away"} \cup TransitionPC
    /\ \A c \in Registrars : pc[c] \in {"idle", "done", "away"} \cup OnCompletePC

\* The mutex excludes: one thread in a critical section, and then it is locked.
LockHeld ==
    \A t \in Threads : pc[t] \in Critical =>
        /\ word = 1
        /\ \A u \in Threads : pc[u] \in Critical => u = t

\* What a thread found under the lock still holds when it acts on it.
CheckedUnderLock ==
    /\ \A t \in Completers :
          /\ pc[t] = "t_store" => ~is_terminal(status)
          /\ pc[t] = "t_swap" => status = next[t]
    /\ \A c \in Registrars : pc[c] = "o_push" => ~is_terminal(status)

\* A callback is in one place at a time, and what is owed has not been invoked.
OneHolder ==
    /\ \A c \in callbacks : pc[c] = "done" /\ fired[c] = 0
    /\ \A t \in Completers : \A c \in swapped[t] :
          /\ pc[c] = "done" /\ fired[c] = 0 /\ c \notin callbacks
          /\ \A u \in Completers : c \in swapped[u] => u = t
    /\ \A c \in Registrars : pc[c] # "done" => fired[c] = 0

\* Callbacks leave the vector, or run, only once the event is terminal.
RunWhenTerminal ==
    /\ \A t \in Completers : swapped[t] # {} =>
          is_terminal(status) /\ pc[t] \in {"t_bump", "t_wake", "t_run"}
    /\ \A c \in Registrars : pc[c] = "o_invoke" \/ fired[c] > 0 => is_terminal(status)

IInv == /\ TypeOK /\ PCByRole /\ LockHeld /\ CheckedUnderLock
        /\ NoStrandedCallback /\ OneHolder /\ RunWhenTerminal

=============================================================================
