---------------------------- MODULE MCParkingLot ----------------------------
(* Instances of ParkingLot for TLC.                                         *)
EXTENDS ParkingLot, TLC

CONSTANTS a1, a2, t1, t2, t3, t4

As(role, addr) == [role |-> role, addr |-> addr]

\* Two mutexes whose addresses collide in the wait queue, two threads each.
TwoMutexes == [t \in Threads |-> As("locker", IF t \in {t1, t2} THEN a1 ELSE a2)]

\* One futex word, with each kind of wait.
OneWord == (t1 :> As("changer", a1)) @@ (t2 :> As("equal", a1))
        @@ (t3 :> As("timed", a1)) @@ (t4 :> As("waker", a1))

MutexesOrWord == {TwoMutexes, OneWord}

\* Two threads in await_change(), and a waker.
Change == {(t1 :> As("changer", a1)) @@ (t2 :> As("changer", a1)) @@ (t3 :> As("waker", a1))}

WakeAll  == [t \in Threads |-> 4]
FullMask == [t \in Threads |-> Bits]

\* Wake those who wait for the desired value, or for any.
DesiredMask == [t \in Threads |-> {Desired % 32}]

=============================================================================
