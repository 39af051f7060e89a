-------------------------- MODULE AsyncEventProofs --------------------------
(***************************************************************************)
(* Proofs about AsyncEvent, for any number of threads and callbacks.       *)
(*                                                                         *)
(* TypeCorrect holds with waiters too.  The other theorems are about an    *)
(* event nobody blocks on, Waiters = {}: a waiter unlocks the mutex under  *)
(* the feet of its holder, and the runs event_wait_* show what is lost.    *)
(***************************************************************************)
EXTENDS AsyncEvent, TLAPS

\* The steps of every operation preserve the types of all variables, whoever
\* locks and unlocks the mutex.
THEOREM TypeCorrect == Spec => []TypeOK
<1>1. Init => TypeOK
  BY EventAssumption DEF Init, TypeOK, Statuses
<1>2. TypeOK /\ [Next]_vars => TypeOK'
  <2> SUFFICES ASSUME TypeOK, [Next]_vars PROVE TypeOK'
    OBVIOUS
  <2> USE DEF TypeOK, Goto, Lock, Unlock, Threads, TransitionPC, OnCompletePC, WaitPC
  <2>1. ASSUME NEW t \in Completers, TransitionCall(t) PROVE TypeOK'
    BY <2>1, EventAssumption DEF TransitionCall
  <2>2. ASSUME NEW t \in Completers, Transition(t) PROVE TypeOK'
    <3>1. CASE TransitionLock(t)   BY <3>1 DEF TransitionLock
    <3>2. CASE TransitionCheck(t)  BY <3>2 DEF TransitionCheck
    <3>3. CASE TransitionStore(t)  BY <3>3 DEF TransitionStore
    <3>4. CASE TransitionSwap(t)   BY <3>4 DEF TransitionSwap
    <3>5. CASE NotifyBump(t)       BY <3>5 DEF NotifyBump
    <3>6. CASE NotifyWake(t)       BY <3>6 DEF NotifyWake
    <3>7. CASE TransitionRun(t)    BY <3>7 DEF TransitionRun
    <3> QED BY <2>2, <3>1, <3>2, <3>3, <3>4, <3>5, <3>6, <3>7 DEF Transition
  <2>3. ASSUME NEW t \in Registrars, OnComplete(t) PROVE TypeOK'
    <3>1. CASE OnCompleteCall(t)   BY <3>1 DEF OnCompleteCall
    <3>2. CASE OnCompleteLock(t)   BY <3>2 DEF OnCompleteLock
    <3>3. CASE OnCompleteCheck(t)  BY <3>3 DEF OnCompleteCheck
    <3>4. CASE OnCompletePush(t)   BY <3>4 DEF OnCompletePush
    <3>5. CASE OnCompleteInvoke(t) BY <3>5 DEF OnCompleteInvoke
    <3> QED BY <2>3, <3>1, <3>2, <3>3, <3>4, <3>5 DEF OnComplete
  <2>4. ASSUME NEW t \in Waiters, Wait(t) PROVE TypeOK'
    <3>1. CASE WaitCall(t)         BY <3>1 DEF WaitCall
    <3>2. CASE WaitPredicate(t)    BY <3>2 DEF WaitPredicate
    <3>3. CASE WaitEpoch(t)        BY <3>3 DEF WaitEpoch
    <3>4. CASE WaitSleep(t)        BY <3>4 DEF WaitSleep
    <3>5. CASE WaitTimeout(t)      BY <3>5 DEF WaitTimeout
    <3>6. CASE WaitRelock(t)       BY <3>6 DEF WaitRelock
    <3> QED BY <2>4, <3>1, <3>2, <3>3, <3>4, <3>5, <3>6 DEF Wait
  <2>5. CASE UNCHANGED vars
    BY <2>5 DEF vars
  <2> QED BY <2>1, <2>2, <2>3, <2>4, <2>5 DEF Next
<1> QED BY <1>1, <1>2, PTL DEF Spec

\* Completers and registrars stay within their own code when they check the status.
LEMMA CheckKeepsRoles ==
    ASSUME PCByRole, TypeOK, NEW t \in Completers \cup Registrars,
           \/ t \in Completers /\ TransitionCheck(t)
           \/ t \in Registrars /\ OnCompleteCheck(t)
    PROVE  PCByRole'
<1>1. Completers \cap Registrars = {}
  BY EventAssumption
<1>2. PICK to : /\ pc' = [pc EXCEPT ![t] = to]
                /\ t \in Completers => to \in {"idle"} \cup TransitionPC
                /\ t \in Registrars => to \in {"idle", "done"} \cup OnCompletePC
  BY <1>1 DEF TransitionCheck, OnCompleteCheck, Goto, TransitionPC, OnCompletePC
<1>3. \A u \in Completers \cup Registrars : pc'[u] = IF u = t THEN to ELSE pc[u]
  BY <1>2 DEF TypeOK, Threads
<1> QED BY <1>2, <1>3 DEF PCByRole

\* One step of the event keeps its inductive invariant, when nobody waits.
LEMMA InvariantStep ==
    ASSUME Waiters = {}, IInv, TypeOK', [Next]_vars
    PROVE  IInv'
<1> USE EventAssumption DEF Threads, Goto, Lock, Unlock, Critical, TransitionPC, OnCompletePC,
        is_terminal, IInv, TypeOK, PCByRole, LockHeld, CheckedUnderLock, NoStrandedCallback,
        OneHolder, RunWhenTerminal
<1>1. ASSUME NEW t \in Completers, TransitionCall(t) PROVE IInv'
  BY <1>1 DEF TransitionCall
<1>2. ASSUME NEW t \in Completers, TransitionLock(t) PROVE IInv'
  BY <1>2 DEF TransitionLock
<1>3. ASSUME NEW t \in Completers, TransitionCheck(t) PROVE IInv'
  <2> USE <1>3 DEF TransitionCheck
  <2>1. PCByRole'            BY CheckKeepsRoles
  <2>2. LockHeld'            OBVIOUS
  <2>3. CheckedUnderLock'    OBVIOUS
  <2>4. NoStrandedCallback'  OBVIOUS
  <2>5. OneHolder'           OBVIOUS
  <2>6. RunWhenTerminal'
    <3>1. status' = status /\ swapped' = swapped /\ fired' = fired
      OBVIOUS
    <3>2. swapped[t] = {} /\ \A u \in Threads \ {t} : pc'[u] = pc[u]
      OBVIOUS
    <3> QED BY <3>1, <3>2
  <2> QED BY <2>1, <2>2, <2>3, <2>4, <2>5, <2>6
<1>4. ASSUME NEW t \in Completers, TransitionStore(t) PROVE IInv'
  BY <1>4 DEF TransitionStore
<1>5. ASSUME NEW t \in Completers, TransitionSwap(t) PROVE IInv'
  <2>1. CASE ~is_terminal(next[t])
    BY <1>5, <2>1 DEF TransitionSwap
  <2>2. CASE is_terminal(next[t])
    <3> USE <1>5, <2>2 DEF TransitionSwap
    <3>1. PCByRole' /\ LockHeld' /\ CheckedUnderLock' /\ NoStrandedCallback' /\ RunWhenTerminal'
      OBVIOUS
    <3>2. swapped[t] = {} /\ swapped'[t] = callbacks /\ callbacks' = {} /\ fired' = fired
      OBVIOUS
    <3>3. \A u \in Completers \ {t} : swapped'[u] = swapped[u]
      OBVIOUS
    <3>4. \A c \in Registrars : pc'[c] = pc[c]
      OBVIOUS
    <3>5. ASSUME NEW u \in Completers, NEW c \in swapped'[u]
          PROVE  /\ pc'[c] = "done" /\ fired'[c] = 0 /\ c \notin callbacks'
                 /\ \A v \in Completers : c \in swapped'[v] => v = u
      <4>1. CASE u = t
        <5>1. c \in callbacks
          BY <3>2, <4>1
        <5>2. \A v \in Completers \ {t} : c \notin swapped'[v]
          BY <3>3, <5>1
        <5> QED BY <3>2, <3>4, <4>1, <5>1, <5>2
      <4>2. CASE u # t
        <5>1. c \in swapped[u] /\ c \notin callbacks
          BY <3>3, <4>2
        <5>2. pc[c] = "done" /\ fired[c] = 0 /\ c \in Registrars
          BY <5>1
        <5>3. ASSUME NEW v \in Completers, c \in swapped'[v] PROVE v = u
          BY <3>2, <3>3, <5>1, <5>3
        <5> QED BY <3>2, <3>4, <5>2, <5>3
      <4> QED BY <4>1, <4>2
    <3>6. OneHolder'
      BY <3>2, <3>4, <3>5
    <3> QED BY <3>1, <3>6
  <2> QED BY <2>1, <2>2
<1>6. ASSUME NEW t \in Completers, NotifyBump(t) PROVE IInv'
  BY <1>6 DEF NotifyBump
<1>7. ASSUME NEW t \in Completers, NotifyWake(t) PROVE IInv'
  BY <1>7 DEF NotifyWake
<1>8. ASSUME NEW t \in Completers, TransitionRun(t) PROVE IInv'
  <2>1. CASE swapped[t] = {}
    <3>1. pc[t] = "t_run" /\ pc' = [pc EXCEPT ![t] = "idle"]
      BY <1>8, <2>1 DEF TransitionRun
    <3>2. UNCHANGED <<word, status, callbacks, next, swapped, fired>>
      BY <1>8, <2>1 DEF TransitionRun
    <3> QED BY <2>1, <3>1, <3>2
  <2>2. CASE swapped[t] # {}
    <3>1. PICK c \in swapped[t] : /\ fired' = [fired EXCEPT ![c] = @ + 1]
                                  /\ swapped' = [swapped EXCEPT ![t] = @ \ {c}]
      BY <1>8, <2>2 DEF TransitionRun
    <3>2. c \in Registrars /\ pc[t] = "t_run" /\ pc' = pc /\ status' = status
      BY <1>8, <2>2, <3>1 DEF TransitionRun
    <3>3. UNCHANGED <<word, callbacks, next>>
      BY <1>8 DEF TransitionRun
    <3>4. PCByRole' /\ LockHeld' /\ CheckedUnderLock' /\ NoStrandedCallback'
      BY <3>2, <3>3
    <3>5. OneHolder'
      BY <3>1, <3>2, <3>3
    <3>6. RunWhenTerminal'
      BY <3>1, <3>2
    <3> QED BY <3>4, <3>5, <3>6
  <2> QED BY <2>1, <2>2
<1>9. ASSUME NEW t \in Registrars, OnComplete(t) PROVE IInv'
  <2>1. CASE OnCompleteCall(t)   BY <2>1 DEF OnCompleteCall
  <2>2. CASE OnCompleteLock(t)   BY <2>2 DEF OnCompleteLock
  <2>3. CASE OnCompleteCheck(t)
    <3> USE <2>3 DEF OnCompleteCheck
    <3>1. PCByRole'            BY CheckKeepsRoles
    <3>2. pc[t] = "o_check" /\ pc'[t] \in {"o_push", "o_invoke"}
      OBVIOUS
    <3>3. \A u \in Threads \ {t} : pc'[u] = pc[u] /\ pc[u] \notin Critical
      BY <3>2
    <3>4. pc'[t] \in Critical => word' = 1
      BY <3>2
    <3>5. LockHeld'
      <4>1. \A u \in Threads : pc'[u] \in Critical => u = t
        BY <3>3
      <4> QED BY <3>4, <4>1
    <3>6. CheckedUnderLock'    OBVIOUS
    <3>7. NoStrandedCallback'  OBVIOUS
    <3>8. OneHolder'           OBVIOUS
    <3>9. RunWhenTerminal'     OBVIOUS
    <3> QED BY <3>1, <3>5, <3>6, <3>7, <3>8, <3>9
  <2>4. CASE OnCompletePush(t)   BY <2>4 DEF OnCompletePush
  <2>5. CASE OnCompleteInvoke(t) BY <2>5 DEF OnCompleteInvoke
  <2> QED BY <1>9, <2>1, <2>2, <2>3, <2>4, <2>5 DEF OnComplete
<1>10. CASE UNCHANGED vars
  BY <1>10 DEF vars
<1> QED BY <1>1, <1>2, <1>3, <1>4, <1>5, <1>6, <1>7, <1>8, <1>9, <1>10 DEF Next, Transition

\* IInv is an invariant of an event nobody waits on.
LEMMA Invariant ==
    ASSUME Waiters = {} PROVE Spec => []IInv
<1>1. Init => IInv
  <2> SUFFICES ASSUME Init PROVE IInv
    OBVIOUS
  <2>1. TypeOK
    BY EventAssumption DEF Init, TypeOK, Threads, Statuses
  <2>2. \A t \in Threads : pc[t] \in {"idle", "away"}
    BY DEF Init
  <2>3. PCByRole /\ LockHeld /\ CheckedUnderLock
    BY <2>2 DEF PCByRole, LockHeld, CheckedUnderLock, Threads, Critical
  <2>4. NoStrandedCallback /\ OneHolder
    BY DEF Init, NoStrandedCallback, OneHolder
  <2>5. /\ \A t \in Completers : swapped[t] = {}
        /\ \A c \in Registrars : fired[c] = 0
    BY DEF Init
  <2>6. RunWhenTerminal
    BY <2>2, <2>5 DEF RunWhenTerminal, Threads
  <2> QED BY <2>1, <2>3, <2>4, <2>6 DEF IInv
<1>2. IInv /\ TypeOK' /\ [Next]_vars => IInv'
  BY InvariantStep
<1> QED BY <1>1, <1>2, TypeCorrect, PTL DEF Spec

\* on_complete() and transition() never leave a callback behind in the vector
\* of a finished event, for any number of threads.
THEOREM NoCallbackStranded ==
    ASSUME Waiters = {} PROVE Spec => []NoStrandedCallback
<1>1. IInv => NoStrandedCallback
  BY DEF IInv
<1> QED BY <1>1, Invariant, PTL

\* The status a finished event reports never changes again.
THEOREM StatusIsFinal ==
    ASSUME Waiters = {} PROVE Spec => FinalStatus
<1>1. IInv /\ [Next]_vars => [is_terminal(status) => status' = status]_vars
  <2> SUFFICES ASSUME IInv, Next, is_terminal(status) PROVE status' = status
    BY DEF vars
  <2>1. ASSUME NEW t \in Completers, TransitionStore(t) PROVE status' = status
    BY <2>1 DEF TransitionStore, Goto, IInv, CheckedUnderLock
  <2> QED
    BY <2>1 DEF Next, TransitionCall, Transition, TransitionLock, TransitionCheck, TransitionSwap,
       NotifyBump, NotifyWake, TransitionRun, OnComplete, OnCompleteCall, OnCompleteLock,
       OnCompleteCheck, OnCompletePush, OnCompleteInvoke
<1> QED BY <1>1, Invariant, PTL DEF Spec, FinalStatus

\* A step that moves no callback between holders leaves what is owed alone.
LEMMA OwedUnchanged ==
    ASSUME UNCHANGED <<callbacks, swapped>>,
           \A c \in Registrars : pc'[c] = "o_invoke" <=> pc[c] = "o_invoke"
    PROVE  Owed' = Owed
  BY DEF Owed

\* The callbacks that have been invoked.
Fired == {c \in Registrars : fired[c] > 0}

\* An invocation of an owed callback by its only holder is a Fire step.
LEMMA FireStep ==
    ASSUME IInv, NEW c \in Registrars, c \in Owed, is_terminal(status),
           fired' = [fired EXCEPT ![c] = @ + 1], status' = status,
           \A d \in Registrars : d \in Owed' <=> d \in Owed /\ d # c,
           Owed \subseteq Registrars, Owed' \subseteq Registrars
    PROVE  CE!Fire(c)
<1>1. fired' \in [Registrars -> Nat] /\ fired'[c] > 0
  BY DEF IInv, TypeOK
<1>2. \A d \in Registrars \ {c} : fired'[d] = fired[d]
  BY DEF IInv, TypeOK
<1>3. Fired' = Fired \cup {c}
  BY <1>1, <1>2 DEF Fired
<1>4. Owed' = Owed \ {c}
  OBVIOUS
<1> QED BY <1>3, <1>4 DEF CE!Fire, CE!Terminal, is_terminal, Terminal, Fired

\* Handing a callback over is a Register step.
LEMMA RegisterStep ==
    ASSUME IInv, NEW c \in Registrars, c \notin Owed, fired[c] = 0,
           UNCHANGED <<fired, status>>, Owed' = Owed \cup {c}
    PROVE  CE!Register(c)
  BY DEF CE!Register

\* AsyncEvent implements CompletionEvent: each step of the locked, multi-step
\* operations is a step of the abstract event or leaves it alone.
THEOREM ImplementsCompletionEvent ==
    ASSUME Waiters = {} PROVE Spec => Refines
<1>1. Init => CE!Init
  <2> SUFFICES ASSUME Init PROVE CE!Init
    OBVIOUS
  <2>1. Owed = {}
    BY EventAssumption DEF Owed, Init, Threads
  <2> QED BY <2>1 DEF Init, CE!Init
<1>2. IInv /\ [Next]_vars => [CE!Next]_(CE!vars)
  <2> SUFFICES ASSUME IInv, [Next]_vars PROVE CE!Next \/ UNCHANGED CE!vars
    OBVIOUS
  <2> USE EventAssumption DEF Goto, Threads, is_terminal
  <2>a. Owed \subseteq Registrars
    BY DEF Owed, IInv, TypeOK
  <2>b. CASE UNCHANGED vars
    BY <2>b DEF vars, CE!vars, Owed
  <2>c. ASSUME NEW t \in Threads, UNCHANGED <<callbacks, swapped, status, fired>>,
               \A u \in Threads \ {t} : pc'[u] = pc[u],
               pc[t] # "o_invoke", pc'[t] # "o_invoke"
        PROVE  UNCHANGED CE!vars
    <3>1. Owed' = Owed
      BY <2>c, OwedUnchanged
    <3> QED BY <2>c, <3>1 DEF CE!vars
  <2>1. ASSUME NEW t \in Completers, TransitionCall(t) PROVE UNCHANGED CE!vars
    BY <2>1, <2>c DEF TransitionCall, IInv, TypeOK
  <2>2. ASSUME NEW t \in Completers, TransitionLock(t) PROVE UNCHANGED CE!vars
    BY <2>2, <2>c DEF TransitionLock, IInv, TypeOK
  <2>3. ASSUME NEW t \in Completers, TransitionCheck(t) PROVE UNCHANGED CE!vars
    BY <2>3, <2>c DEF TransitionCheck, IInv, TypeOK
  <2>4. ASSUME NEW t \in Completers, TransitionStore(t) PROVE CE!Next
    <3>1. Owed' = Owed
      BY <2>4, OwedUnchanged DEF TransitionStore, IInv, TypeOK
    <3>2. status \notin Terminal /\ status' \in Statuses
      BY <2>4 DEF TransitionStore, IInv, TypeOK, CheckedUnderLock
    <3>3. CE!Publish(status')
      BY <2>4, <3>1, <3>2 DEF TransitionStore, CE!Publish, CE!Terminal, Terminal
    <3> QED BY <3>2, <3>3 DEF CE!Next, CE!Statuses, Statuses
  <2>5. ASSUME NEW t \in Completers, TransitionSwap(t) PROVE UNCHANGED CE!vars
    <3>1. CASE ~is_terminal(next[t])
      BY <2>5, <2>c, <3>1 DEF TransitionSwap, IInv, TypeOK
    <3>2. CASE is_terminal(next[t])
      <4>1. swapped[t] = {} /\ swapped' = [swapped EXCEPT ![t] = callbacks] /\ callbacks' = {}
        BY <2>5, <3>2 DEF TransitionSwap, IInv, RunWhenTerminal
      <4>2. \A c \in Registrars : pc'[c] = pc[c]
        BY <2>5 DEF TransitionSwap, IInv, TypeOK
      <4>3. ASSUME NEW c PROVE c \in Owed' <=> c \in Owed
        <5>1. (\E u \in Completers : c \in swapped'[u])
                 <=> c \in callbacks \/ \E u \in Completers : c \in swapped[u]
          BY <4>1 DEF IInv, TypeOK
        <5> QED BY <4>1, <4>2, <5>1 DEF Owed
      <4>4. Owed' = Owed
        BY <4>3
      <4> QED BY <2>5, <4>4 DEF TransitionSwap, CE!vars
    <3> QED BY <3>1, <3>2
  <2>6. ASSUME NEW t \in Completers, NotifyBump(t) PROVE UNCHANGED CE!vars
    BY <2>6, <2>c DEF NotifyBump, IInv, TypeOK
  <2>7. ASSUME NEW t \in Completers, NotifyWake(t) PROVE UNCHANGED CE!vars
    <3>1. \A c \in Registrars : pc'[c] = pc[c]
      BY <2>7 DEF NotifyWake, IInv, PCByRole, OnCompletePC
    <3>2. Owed' = Owed
      BY <2>7, <3>1, OwedUnchanged DEF NotifyWake
    <3> QED BY <2>7, <3>2 DEF NotifyWake, CE!vars
  <2>8. ASSUME NEW t \in Completers, TransitionRun(t) PROVE CE!Next \/ UNCHANGED CE!vars
    <3>1. CASE swapped[t] = {}
      BY <2>8, <2>c, <3>1 DEF TransitionRun, IInv, TypeOK
    <3>2. CASE swapped[t] # {}
      <4>1. PICK c \in swapped[t] : /\ fired' = [fired EXCEPT ![c] = @ + 1]
                                    /\ swapped' = [swapped EXCEPT ![t] = @ \ {c}]
        BY <2>8, <3>2 DEF TransitionRun
      <4>2. UNCHANGED <<pc, status, callbacks>>
        BY <2>8, <3>2 DEF TransitionRun
      <4>3. /\ c \in Registrars /\ c \notin callbacks /\ pc[c] = "done" /\ is_terminal(status)
            /\ \A u \in Completers : c \in swapped[u] => u = t
        BY DEF IInv, TypeOK, OneHolder, RunWhenTerminal
      <4>4. c \in Owed
        BY <4>3 DEF Owed
      <4>5. ASSUME NEW d PROVE d \in Owed' <=> d \in Owed /\ d # c
        <5>1. (\E u \in Completers : d \in swapped'[u])
                 <=> d # c /\ \E u \in Completers : d \in swapped[u]
          BY <4>1, <4>3 DEF IInv, TypeOK
        <5> QED BY <4>2, <4>3, <5>1 DEF Owed
      <4>6. CE!Fire(c)
        BY <2>a, <4>1, <4>2, <4>3, <4>4, <4>5, FireStep
      <4> QED BY <4>3, <4>6 DEF CE!Next
    <3> QED BY <3>1, <3>2
  <2>9. ASSUME NEW t \in Registrars, OnComplete(t) PROVE CE!Next \/ UNCHANGED CE!vars
    <3>1. CASE OnCompleteCall(t)
      BY <2>c, <3>1 DEF OnCompleteCall, IInv, TypeOK
    <3>2. CASE OnCompleteLock(t)
      BY <2>c, <3>2 DEF OnCompleteLock, IInv, TypeOK
    <3>3. CASE OnCompleteCheck(t)
      <4>1. CASE ~is_terminal(status)
        BY <2>c, <3>3, <4>1 DEF OnCompleteCheck, IInv, TypeOK
      <4>2. CASE is_terminal(status)
        <5>1. /\ pc[t] = "o_check" /\ pc' = [pc EXCEPT ![t] = "o_invoke"]
              /\ UNCHANGED <<callbacks, swapped, fired, status>>
          BY <3>3, <4>2 DEF OnCompleteCheck
        <5>2. t \notin Owed /\ fired[t] = 0
          BY <5>1 DEF Owed, IInv, OneHolder
        <5>3. Owed' = Owed \cup {t}
          BY <5>1 DEF Owed, IInv, TypeOK
        <5>4. CE!Register(t)
          BY <5>1, <5>2, <5>3, RegisterStep
        <5> QED BY <5>4 DEF CE!Next
      <4> QED BY <4>1, <4>2
    <3>4. CASE OnCompletePush(t)
      <4>1. /\ pc[t] = "o_push" /\ pc' = [pc EXCEPT ![t] = "done"]
            /\ callbacks' = callbacks \cup {t} /\ UNCHANGED <<swapped, fired, status>>
        BY <3>4 DEF OnCompletePush
      <4>2. t \notin Owed /\ fired[t] = 0
        BY <4>1 DEF Owed, IInv, OneHolder
      <4>3. Owed' = Owed \cup {t}
        BY <4>1 DEF Owed, IInv, TypeOK
      <4>4. CE!Register(t)
        BY <4>1, <4>2, <4>3, RegisterStep
      <4> QED BY <4>4 DEF CE!Next
    <3>5. CASE OnCompleteInvoke(t)
      <4>1. /\ pc[t] = "o_invoke" /\ pc' = [pc EXCEPT ![t] = "done"]
            /\ fired' = [fired EXCEPT ![t] = @ + 1] /\ UNCHANGED <<callbacks, swapped, status>>
        BY <3>5 DEF OnCompleteInvoke
      <4>2. t \in Owed /\ is_terminal(status)
        BY <4>1 DEF Owed, IInv, RunWhenTerminal
      <4>3. t \notin callbacks /\ \A u \in Completers : t \notin swapped[u]
        BY <4>1 DEF IInv, OneHolder
      <4>4. Owed' = Owed \ {t}
        BY <4>1, <4>3 DEF Owed, IInv, TypeOK
      <4>5. CE!Fire(t)
        BY <2>a, <4>1, <4>2, <4>4, FireStep
      <4> QED BY <4>5 DEF CE!Next
    <3> QED BY <2>9, <3>1, <3>2, <3>3, <3>4, <3>5 DEF OnComplete
  <2> QED
    BY <2>b, <2>1, <2>2, <2>3, <2>4, <2>5, <2>6, <2>7, <2>8, <2>9 DEF Next, Transition
<1> QED BY <1>1, <1>2, Invariant, PTL DEF Spec, Refines, CE!Spec

=============================================================================
