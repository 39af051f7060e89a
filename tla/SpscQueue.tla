------------------------------- MODULE SpscQueue -------------------------------
(*******************************************************************************)
(* zs::SpscQueue of container/ConcurrentQueue.hpp: a ring of raw cells kept in *)
(* chunks, a head only the producer stores and a tail only the consumer        *)
(* stores.  Both are size_t counters that wrap at Modulus (2^64 in the code)   *)
(* and are never reduced to the capacity.                                      *)
(*                                                                             *)
(* Each side loads the other's counter once per call; the release stores and   *)
(* acquire loads order the accesses to a cell around it.                       *)
(*******************************************************************************)
EXTENDS Integers, Sequences

CONSTANTS Values,         \* what may be enqueued
          Capacity,
          ChunkCapacity,
          Modulus,        \* the range of size_t
          Raw             \* the contents of a cell that holds no object, and no item

ASSUME QueueAssumption ==
    /\ Capacity \in Nat \ {0} /\ ChunkCapacity \in Nat \ {0} /\ Modulus \in Nat
    /\ Capacity % ChunkCapacity = 0 /\ Modulus % Capacity = 0 /\ Modulus > Capacity
    /\ Raw \notin Values

VARIABLES head,   \* the number of items ever enqueued
          tail,   \* the number of items ever dequeued
          cells,
          prod,   \* the producer's step and item
          cons,   \* the consumer's step and item
          taken   \* what try_dequeue handed out last

queueVars == <<head, tail, cells, prod, cons, taken>>

Positions == 0..(Modulus - 1)
Chunks    == 0..(Capacity \div ChunkCapacity - 1)

\* _chunks[index >> shift][index & chunkMask].
cell_at_(position) ==
    LET index == position % Capacity
    IN  <<index \div ChunkCapacity, index % ChunkCapacity>>

QueueTypeOK ==
    /\ head \in Positions /\ tail \in Positions
    /\ cells \in [Chunks \X (0..(ChunkCapacity - 1)) -> Values \cup {Raw}]
    /\ prod \in [at : {"idle", "write", "publish"}, item : Values \cup {Raw}]
    /\ cons \in [at : {"idle", "read", "publish"}, item : Values \cup {Raw}]
    /\ taken \in Values \cup {Raw}

QueueInit ==
    /\ head = 0 /\ tail = 0
    /\ cells = [c \in Chunks \X (0..(ChunkCapacity - 1)) |-> Raw]
    /\ prod = [at |-> "idle", item |-> Raw]
    /\ cons = [at |-> "idle", item |-> Raw]
    /\ taken = Raw

\* Mutant: the counters are reduced to the ring.
Plus1_Ring(x) == (x + 1) % Capacity

\* Unsigned arithmetic of the width of size_t.
Plus1(x)    == IF x = Modulus - 1 THEN 0 ELSE x + 1
Minus(x, y) == IF x >= y THEN x - y ELSE x - y + Modulus

-----------------------------------------------------------------------------
(* try_enqueue(item).                                                       *)

\* Mutant: the test for a full queue is off by one.
full_OffByOne == Minus(head, tail) > Capacity

full == Minus(head, tail) >= Capacity

\* The counters are loaded; a full queue answers false.
EnqueueTest(v) ==
    /\ prod.at = "idle"
    /\ ~full
    /\ prod' = [at |-> "write", item |-> v]
    /\ UNCHANGED <<head, tail, cells, cons, taken>>

\* Placement new in the cell.
EnqueueWrite ==
    /\ prod.at = "write"
    /\ cells' = [cells EXCEPT ![cell_at_(head)] = prod.item]
    /\ prod' = [prod EXCEPT !.at = "publish"]
    /\ UNCHANGED <<head, tail, cons, taken>>

EnqueuePublish ==
    /\ prod.at = "publish"
    /\ head' = Plus1(head)
    /\ prod' = [at |-> "idle", item |-> Raw]
    /\ UNCHANGED <<tail, cells, cons, taken>>

-----------------------------------------------------------------------------
(* try_dequeue(item).                                                       *)

\* An empty queue answers false.
DequeueTest ==
    /\ cons.at = "idle"
    /\ tail # head
    /\ cons' = [cons EXCEPT !.at = "read"]
    /\ UNCHANGED <<head, tail, cells, prod, taken>>

\* The object is moved out and destroyed.
DequeueRead ==
    /\ cons.at = "read"
    /\ cons' = [at |-> "publish", item |-> cells[cell_at_(tail)]]
    /\ cells' = [cells EXCEPT ![cell_at_(tail)] = Raw]
    /\ UNCHANGED <<head, tail, prod, taken>>

DequeuePublish ==
    /\ cons.at = "publish"
    /\ tail' = Plus1(tail)
    /\ taken' = cons.item
    /\ cons' = [at |-> "idle", item |-> Raw]
    /\ UNCHANGED <<head, cells, prod>>

Produce == EnqueueWrite \/ EnqueuePublish
Consume == DequeueTest \/ DequeueRead \/ DequeuePublish

QueueNext == (\E v \in Values : EnqueueTest(v)) \/ Produce \/ Consume

QueueSpec == QueueInit /\ [][QueueNext]_queueVars

-----------------------------------------------------------------------------
(* Properties.                                                              *)

\* The position of the i-th item from the tail.
PositionOf(i) == (tail + i - 1) % Modulus

\* The items between the counters; the oldest is with the consumer once its
\* cell was destroyed.
Contents ==
    [i \in 1..Minus(head, tail) |->
        IF i = 1 /\ cons.at = "publish" THEN cons.item ELSE cells[cell_at_(PositionOf(i))]]

Fifo == INSTANCE BoundedFifo WITH contents <- Contents, Nothing <- Raw

\* The queue is a bounded FIFO: an item is published where the producer wrote it
\* and handed out once, in order, whichever way the calls of the two threads
\* overlap and wherever the counters wrap.
FifoRefined == Fifo!Spec

\* No object is built over a live one and none is read from a raw cell: a cell
\* holds an object exactly while it is written and not yet taken.
CellsLive ==
    /\ prod.at = "write" => cells[cell_at_(head)] = Raw
    /\ cons.at = "read" => cells[cell_at_(tail)] # Raw

=============================================================================
