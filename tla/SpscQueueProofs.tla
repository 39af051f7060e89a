--------------------------- MODULE SpscQueueProofs ---------------------------
(* Theorems about SpscQueue, for any capacity, chunk size and counter width. *)
EXTENDS SpscQueue, TLAPS

-----------------------------------------------------------------------------
(* Division.                                                                *)

LEMMA DivMod ==
    ASSUME NEW c \in Nat \ {0}, NEW x \in Nat
    PROVE  /\ x \div c \in Nat /\ x % c \in 0..(c - 1)
           /\ x = c * (x \div c) + (x % c)
OBVIOUS

LEMMA ModUnique ==
    ASSUME NEW c \in Nat \ {0}, NEW q \in Nat, NEW r \in 0..(c - 1)
    PROVE  (c * q + r) % c = r
OBVIOUS

\* Multiples of the divisor do not change the remainder.
LEMMA ModPlus ==
    ASSUME NEW c \in Nat \ {0}, NEW x \in Nat, NEW k \in Nat
    PROVE  (x + c * k) % c = x % c
<1>1. PICK q \in Nat, r \in 0..(c - 1) : x = c * q + r /\ r = x % c
  BY DivMod
<1>2. x + c * k = c * (q + k) + r /\ q + k \in Nat
  BY <1>1
<1> QED
  BY <1>1, <1>2, ModUnique

\* Remainders modulo a multiple of c keep their remainder modulo c.
LEMMA ModOfMod ==
    ASSUME NEW c \in Nat \ {0}, NEW m \in Nat \ {0}, m % c = 0, NEW x \in Nat
    PROVE  (x % m) % c = x % c
<1>1. PICK k \in Nat : m = c * k
  BY DivMod
<1>2. PICK q \in Nat, r \in 0..(m - 1) : x = m * q + r /\ r = x % m
  BY DivMod
<1>3. x = r + c * (k * q) /\ k * q \in Nat
  BY <1>1, <1>2
<1>4. PICK n \in Nat : x = r + c * n
  BY <1>3
<1>5. r \in Nat
  BY <1>2
<1>6. (r + c * n) % c = r % c
  BY <1>5, ModPlus
<1> QED
  BY <1>2, <1>4, <1>6

\* Fewer than c apart, two numbers with the same remainder are equal.
LEMMA ModApart ==
    ASSUME NEW c \in Nat \ {0}, NEW x \in Nat, NEW y \in Nat,
           x % c = y % c, x <= y, y < x + c
    PROVE  x = y
<1>1. PICK p \in Nat, q \in Nat, r \in 0..(c - 1) : x = c * p + r /\ y = c * q + r
  <2>1. x \div c \in Nat /\ x % c \in 0..(c - 1) /\ x = c * (x \div c) + (x % c)
    BY DivMod
  <2>2. y \div c \in Nat /\ y = c * (y \div c) + (y % c)
    BY DivMod
  <2> QED
    BY <2>1, <2>2
<1>2. CASE p < q
  <2>1. c * (p + 1) <= c * q
    BY <1>2
  <2> QED
    BY <1>1, <2>1
<1>3. CASE q < p
  <2>1. c * (q + 1) <= c * p
    BY <1>3
  <2> QED
    BY <1>1, <2>1
<1> QED
  BY <1>1, <1>2, <1>3

-----------------------------------------------------------------------------
(* Counters and cells.                                                      *)

Cells == Chunks \X (0..(ChunkCapacity - 1))
Count == Minus(head, tail)

\* The cell of the i-th item from the tail.
Slot(i) == cell_at_(PositionOf(i))

LEMMA Sizes ==
    /\ Capacity \in Nat \ {0} /\ ChunkCapacity \in Nat \ {0} /\ Modulus \in Nat \ {0}
    /\ Capacity < Modulus /\ Modulus % Capacity = 0
    /\ Raw \notin Values
BY QueueAssumption

\* A position has a cell, and positions of equal remainder alone share it.
LEMMA CellOfPosition ==
    ASSUME NEW p \in Nat, NEW q \in Nat
    PROVE  /\ cell_at_(p) \in Cells
           /\ cell_at_(p) = cell_at_(q) <=> p % Capacity = q % Capacity
<1>1. PICK n \in Nat : Capacity = ChunkCapacity * n /\ n = Capacity \div ChunkCapacity
  BY Sizes, QueueAssumption, DivMod
<1>2. ASSUME NEW x \in Nat
      PROVE  /\ (x % Capacity) \div ChunkCapacity \in 0..(n - 1)
             /\ (x % Capacity) % ChunkCapacity \in 0..(ChunkCapacity - 1)
             /\ x % Capacity = ChunkCapacity * ((x % Capacity) \div ChunkCapacity)
                               + ((x % Capacity) % ChunkCapacity)
  <2>1. x % Capacity \in 0..(Capacity - 1)
    BY Sizes, DivMod
  <2>2. PICK d \in Nat, r \in 0..(ChunkCapacity - 1) :
            /\ d = (x % Capacity) \div ChunkCapacity /\ r = (x % Capacity) % ChunkCapacity
            /\ x % Capacity = ChunkCapacity * d + r
    <3>1. x % Capacity \in Nat /\ ChunkCapacity \in Nat \ {0}
      BY <2>1, Sizes
    <3> HIDE <2>1
    <3> QED
      BY <3>1, DivMod
  <2>3. ~(n <= d)
    <3>1. SUFFICES ASSUME n <= d PROVE FALSE
      OBVIOUS
    <3>2. ChunkCapacity * n <= ChunkCapacity * d
      BY <3>1, Sizes
    <3>3. ChunkCapacity * d \in Nat
      BY Sizes
    <3> QED
      BY <1>1, <2>1, <2>2, <3>2, <3>3, Sizes
  <2> QED
    BY <2>2, <2>3
<1>3. cell_at_(p) \in Cells
  BY <1>1, <1>2 DEF cell_at_, Cells, Chunks
<1>4. cell_at_(p) = cell_at_(q) => p % Capacity = q % Capacity
  BY <1>2 DEF cell_at_
<1> QED
  BY <1>3, <1>4 DEF cell_at_

\* Plus1 and Minus count modulo the width of the counters.
LEMMA Counters ==
    ASSUME QueueTypeOK
    PROVE  /\ Plus1(head) \in Positions /\ Plus1(tail) \in Positions /\ Count \in Positions
           /\ Count = 0 <=> head = tail
           /\ Count < Modulus - 1 => Minus(Plus1(head), tail) = Count + 1
           /\ Count > 0 => Minus(head, Plus1(tail)) = Count - 1
BY Sizes DEF QueueTypeOK, Positions, Plus1, Minus, Count

LEMMA SlotType ==
    ASSUME QueueTypeOK, NEW i \in Nat \ {0}
    PROVE  /\ Slot(i) \in Cells /\ PositionOf(i) \in Nat
           /\ PositionOf(i) % Capacity = (tail + i - 1) % Capacity
<1>1. tail + i - 1 \in Nat
  BY DEF QueueTypeOK, Positions
<1>2. PositionOf(i) \in Nat
  <2>1. (tail + i - 1) % Modulus \in 0..(Modulus - 1)
    BY <1>1, Sizes, DivMod
  <2> QED
    BY <2>1, Sizes DEF PositionOf
<1>3. PositionOf(i) % Capacity = (tail + i - 1) % Capacity
  BY <1>1, Sizes, ModOfMod DEF PositionOf
<1> QED
  BY <1>2, <1>3, CellOfPosition DEF Slot

\* Within one round of the ring the items have cells of their own.
LEMMA SlotsDistinct ==
    ASSUME QueueTypeOK, NEW i \in 1..Capacity, NEW j \in 1..Capacity, Slot(i) = Slot(j)
    PROVE  i = j
<1>1. i \in Nat \ {0} /\ j \in Nat \ {0} /\ tail \in Nat
  BY Sizes DEF QueueTypeOK, Positions
<1>2. PositionOf(i) \in Nat /\ PositionOf(j) \in Nat
  BY <1>1, SlotType
<1>3. PositionOf(i) % Capacity = PositionOf(j) % Capacity
  BY <1>2, CellOfPosition DEF Slot
<1>4. (tail + i - 1) % Capacity = (tail + j - 1) % Capacity
  BY <1>1, <1>3, SlotType
<1>5. PICK x \in Nat, y \in Nat : x = tail + i - 1 /\ y = tail + j - 1
  BY <1>1
<1>6. Capacity \in Nat \ {0} /\ x < y + Capacity /\ y < x + Capacity /\ x % Capacity = y % Capacity
  BY <1>1, <1>4, <1>5, Sizes
<1>7. x = y
  <2>1. CASE x <= y
    BY <1>6, <2>1, ModApart
  <2>2. CASE y <= x
    BY <1>6, <2>2, ModApart
  <2> QED
    BY <2>1, <2>2
<1> QED
  BY <1>1, <1>5, <1>7

LEMMA SlotEnds ==
    ASSUME QueueTypeOK
    PROVE  Slot(1) = cell_at_(tail) /\ Slot(Count + 1) = cell_at_(head)
<1>1. PositionOf(1) = tail
  <2>1. tail \in 0..(Modulus - 1) /\ Modulus \in Nat \ {0}
    BY Sizes DEF QueueTypeOK, Positions
  <2>2. tail + 1 - 1 = tail /\ Modulus * 0 + tail = tail
    BY <2>1
  <2>3. (Modulus * 0 + tail) % Modulus = tail
    BY <2>1, ModUnique
  <2> QED
    BY <2>2, <2>3 DEF PositionOf
<1>2. PositionOf(Count + 1) = head
  <2>1. head \in 0..(Modulus - 1)
    BY DEF QueueTypeOK, Positions
  <2>2. PICK k \in {0, 1} : tail + (Count + 1) - 1 = Modulus * k + head
    BY Sizes DEF QueueTypeOK, Positions, Count, Minus
  <2> QED
    BY <2>1, <2>2, Sizes, ModUnique DEF PositionOf
<1> QED
  BY <1>1, <1>2 DEF Slot

\* When the tail moves on, every item is one nearer to it, and the cell of the
\* oldest is the last of the round.
LEMMA SlotShift ==
    ASSUME QueueTypeOK, tail' = Plus1(tail)
    PROVE  /\ \A i \in Nat \ {0} : Slot(i)' = Slot(i + 1)
           /\ Slot(Capacity)' = Slot(1)
<1>1. ASSUME NEW i \in Nat \ {0}
      PROVE  PositionOf(i)' = PositionOf(i + 1)
  <2>1. CASE tail' = tail + 1
    BY <2>1 DEF PositionOf, QueueTypeOK, Positions
  <2>2. CASE tail = Modulus - 1 /\ tail' = 0
    <3>1. tail' + i - 1 = i - 1 /\ tail + (i + 1) - 1 = (i - 1) + Modulus * 1 /\ i - 1 \in Nat
      BY <2>2, Sizes
    <3>2. ((i - 1) + Modulus * 1) % Modulus = (i - 1) % Modulus
      BY <3>1, ModPlus, Sizes
    <3> QED
      BY <3>1, <3>2 DEF PositionOf
  <2> QED
    BY <2>1, <2>2 DEF Plus1
<1>2. \A i \in Nat \ {0} : Slot(i)' = Slot(i + 1)
  BY <1>1 DEF Slot, cell_at_
<1>3. Slot(Capacity + 1) = Slot(1)
  <2>1. tail + (Capacity + 1) - 1 = (tail + 1 - 1) + Capacity * 1 /\ tail + 1 - 1 \in Nat
    BY Sizes DEF QueueTypeOK, Positions
  <2>2. (tail + (Capacity + 1) - 1) % Capacity = (tail + 1 - 1) % Capacity
    <3>1. PICK x \in Nat : x = tail + 1 - 1 /\ tail + (Capacity + 1) - 1 = x + Capacity * 1
      BY <2>1
    <3>2. (x + Capacity * 1) % Capacity = x % Capacity
      BY ModPlus, Sizes
    <3> QED
      BY <3>1, <3>2
  <2>3. Capacity + 1 \in Nat \ {0} /\ 1 \in Nat \ {0}
    BY Sizes
  <2>4. PositionOf(Capacity + 1) % Capacity = PositionOf(1) % Capacity
    BY <2>2, <2>3, SlotType
  <2> QED
    BY <2>3, <2>4, SlotType, CellOfPosition DEF Slot
<1> QED
  BY <1>2, <1>3, Sizes

-----------------------------------------------------------------------------
(* The inductive invariant.                                                 *)

\* The i-th cell from the tail holds an object: an item not yet taken, or what
\* the producer has built behind the last of them and not published.
Holds(i) == \/ i <= Count /\ ~(i = 1 /\ cons.at = "publish")
            \/ i = Count + 1 /\ prod.at = "publish"

\* The items fit, and each side is in a call only when the test it made holds.
Fits ==
    /\ Count <= Capacity
    /\ prod.at # "idle" => Count < Capacity /\ prod.item \in Values
    /\ cons.at # "idle" => Count > 0
    /\ cons.at = "publish" => cons.item \in Values

CellsMatch ==
    /\ \A i \in 1..Capacity : cells[Slot(i)] \in Values <=> Holds(i)
    /\ prod.at = "publish" => cells[Slot(Count + 1)] = prod.item

IInv == QueueTypeOK /\ Fits /\ CellsMatch

\* A cell holds an object or is raw, and another cell is not changed with it.
LEMMA CellValues ==
    ASSUME QueueTypeOK
    PROVE  \A c \in Cells : cells[c] = Raw <=> cells[c] \notin Values
BY Sizes DEF QueueTypeOK, Cells

LEMMA InitOK == QueueInit => IInv
<1> SUFFICES ASSUME QueueInit PROVE IInv
  OBVIOUS
<1>1. QueueTypeOK
  BY Sizes DEF QueueInit, QueueTypeOK, Positions
<1>2. Count = 0
  BY DEF QueueInit, Count, Minus
<1>3. Fits
  BY <1>2, Sizes DEF QueueInit, Fits
<1>4. \A i \in 1..Capacity : cells[Slot(i)] = Raw
  BY <1>1, SlotType DEF QueueInit, Cells
<1>5. CellsMatch
  BY <1>2, <1>4, Sizes DEF QueueInit, CellsMatch, Holds
<1> QED
  BY <1>1, <1>3, <1>5 DEF IInv

\* Without a step of a counter the cells keep their places.
LEMMA SameSlots ==
    ASSUME UNCHANGED <<head, tail>>
    PROVE  Count' = Count /\ \A i : Slot(i)' = Slot(i)
BY DEF Count, Slot, PositionOf, cell_at_

LEMMA EnqueueTestStep ==
    ASSUME IInv, NEW v \in Values, EnqueueTest(v)
    PROVE  IInv'
<1> USE DEF IInv, EnqueueTest
<1>1. Count' = Count /\ \A i : Slot(i)' = Slot(i)
  BY SameSlots
<1>2. QueueTypeOK'
  BY DEF QueueTypeOK
<1>3. Count < Capacity
  BY Counters, Sizes DEF full, Count, Positions
<1>4. Fits'
  BY <1>1, <1>3 DEF Fits
<1>5. CellsMatch'
  BY <1>1 DEF CellsMatch, Holds
<1> QED
  BY <1>2, <1>4, <1>5

LEMMA EnqueueWriteStep ==
    ASSUME IInv, EnqueueWrite
    PROVE  IInv'
<1> USE DEF IInv, EnqueueWrite
<1>1. Count' = Count /\ \A i : Slot(i)' = Slot(i)
  BY SameSlots
<1>2. /\ cells' = [cells EXCEPT ![Slot(Count + 1)] = prod.item]
      /\ prod.item \in Values /\ Count + 1 \in 1..Capacity
  <2>1. prod.item \in Values /\ Count < Capacity /\ Count \in Nat
    BY Counters DEF Fits, Positions
  <2>2. Slot(Count + 1) = cell_at_(head)
    BY SlotEnds
  <2>3. cells' = [cells EXCEPT ![Slot(Count + 1)] = prod.item]
    BY <2>2
  <2>4. Count + 1 \in 1..Capacity
    BY <2>1, Sizes
  <2> QED
    BY <2>1, <2>3, <2>4
<1>3. QueueTypeOK'
  BY <1>2 DEF QueueTypeOK
<1>4. Fits'
  BY <1>1 DEF Fits, QueueTypeOK
<1>5. ASSUME NEW i \in 1..Capacity
      PROVE  /\ i = Count + 1 => cells'[Slot(i)] = prod.item
             /\ i # Count + 1 => cells'[Slot(i)] = cells[Slot(i)]
  <2>1. Slot(i) \in Cells /\ (i # Count + 1 => Slot(i) # Slot(Count + 1))
    BY <1>2, SlotsDistinct, SlotType
  <2> QED
    BY <1>2, <2>1 DEF QueueTypeOK, Cells
<1>6. prod'.at = "publish" /\ prod'.item = prod.item
  BY DEF QueueTypeOK
<1>7. CellsMatch'
  BY <1>1, <1>2, <1>5, <1>6, Counters DEF CellsMatch, Holds, Positions
<1> QED
  BY <1>3, <1>4, <1>7

LEMMA EnqueuePublishStep ==
    ASSUME IInv, EnqueuePublish
    PROVE  IInv'
<1> USE DEF IInv, EnqueuePublish
<1>1. Count \in Nat /\ Count < Capacity /\ Count' = Count + 1
  BY Counters, Sizes DEF Fits, Count, Positions
<1>2. \A i : Slot(i)' = Slot(i)
  BY DEF Slot, PositionOf, cell_at_
<1>3. QueueTypeOK'
  BY Counters DEF QueueTypeOK
<1>4. Fits'
  BY <1>1, Sizes DEF Fits
<1>5. \A i \in 1..Capacity : Holds(i)' <=> Holds(i)
  BY <1>1 DEF Holds, Fits
<1>6. CellsMatch'
  BY <1>2, <1>5 DEF CellsMatch
<1> QED
  BY <1>3, <1>4, <1>6

LEMMA DequeueTestStep ==
    ASSUME IInv, DequeueTest
    PROVE  IInv'
<1> USE DEF IInv, DequeueTest
<1>1. Count' = Count /\ \A i : Slot(i)' = Slot(i)
  BY SameSlots
<1>2. QueueTypeOK' /\ cons'.at = "read"
  BY DEF QueueTypeOK
<1>3. Fits'
  BY <1>1, <1>2, Counters DEF Fits, Positions
<1>4. CellsMatch'
  BY <1>1, <1>2 DEF CellsMatch, Holds
<1> QED
  BY <1>2, <1>3, <1>4

LEMMA DequeueReadStep ==
    ASSUME IInv, DequeueRead
    PROVE  IInv'
<1> USE DEF IInv, DequeueRead
<1>1. Count' = Count /\ \A i : Slot(i)' = Slot(i)
  BY SameSlots
<1>2. Count \in 1..Capacity /\ 1 \in 1..Capacity
  BY Counters, Sizes DEF Fits, Positions
<1>3. /\ cells' = [cells EXCEPT ![Slot(1)] = Raw]
      /\ cons' = [at |-> "publish", item |-> cells[Slot(1)]]
      /\ cells[Slot(1)] \in Values
  <2>1. Slot(1) = cell_at_(tail)
    BY SlotEnds
  <2>2. Holds(1)
    BY <1>2 DEF Holds
  <2> QED
    BY <1>2, <2>1, <2>2 DEF CellsMatch
<1>4. QueueTypeOK'
  <2>1. cells' \in [Chunks \X (0..(ChunkCapacity - 1)) -> Values \cup {Raw}]
    BY <1>3 DEF QueueTypeOK
  <2>2. cons' \in [at : {"idle", "read", "publish"}, item : Values \cup {Raw}]
    BY <1>3
  <2> QED
    BY <2>1, <2>2 DEF QueueTypeOK
<1>5. Fits'
  BY <1>1, <1>2, <1>3 DEF Fits
<1>6. ASSUME NEW i \in 1..Capacity
      PROVE  /\ i = 1 => cells'[Slot(i)] = Raw
             /\ i # 1 => cells'[Slot(i)] = cells[Slot(i)]
  <2>1. Slot(i) \in Cells /\ (i # 1 => Slot(i) # Slot(1))
    BY <1>2, SlotsDistinct, SlotType
  <2> QED
    BY <1>3, <2>1 DEF QueueTypeOK, Cells
<1>7. \A i \in 1..Capacity : cells'[Slot(i)] \in Values <=> Holds(i)'
  <2>1. \A i \in 1..Capacity : Holds(i)' <=> i # 1 /\ Holds(i)
    BY <1>1, <1>2, <1>3 DEF Holds
  <2> QED
    BY <1>6, <2>1, Sizes DEF CellsMatch
<1>8. prod.at = "publish" => Count + 1 \in 2..Capacity
  <2>1. prod.at = "publish" => Count < Capacity
    BY DEF Fits
  <2> QED
    BY <1>2, <2>1, Sizes
<1>9. CellsMatch'
  BY <1>1, <1>6, <1>7, <1>8 DEF CellsMatch
<1> QED
  BY <1>4, <1>5, <1>9

LEMMA DequeuePublishStep ==
    ASSUME IInv, DequeuePublish
    PROVE  IInv'
<1> USE DEF IInv, DequeuePublish
<1>1. Count \in 1..Capacity /\ Count' = Count - 1
  BY Counters, Sizes DEF Fits, Count, Positions
<1>2. QueueTypeOK'
  BY Counters DEF QueueTypeOK, Fits
<1>3. Fits'
  <2>1. cons'.at = "idle"
    OBVIOUS
  <2>2. Count' <= Capacity /\ (prod'.at # "idle" => Count' < Capacity /\ prod'.item \in Values)
    BY <1>1, Sizes DEF Fits
  <2> QED
    BY <2>1, <2>2 DEF Fits
<1>4. /\ \A i \in Nat \ {0} : Slot(i)' = Slot(i + 1)
      /\ Slot(Capacity)' = Slot(1)
  BY SlotShift
<1>5. ASSUME NEW i \in 1..Capacity
      PROVE  cells'[Slot(i)'] \in Values <=> Holds(i)'
  <2>1. CASE i < Capacity
    <3>1. i + 1 \in 1..Capacity /\ Slot(i)' = Slot(i + 1)
      BY <1>4, <2>1, Sizes
    <3>2. Holds(i)' <=> Holds(i + 1)
      BY <1>1 DEF Holds
    <3> QED
      BY <3>1, <3>2 DEF CellsMatch
  <2>2. CASE i = Capacity
    <3>1. ~Holds(1)
      BY <1>1 DEF Holds
    <3>2. ~Holds(Capacity)'
      BY <1>1, Sizes DEF Holds, Fits
    <3> QED
      BY <1>4, <2>2, <3>1, <3>2, Sizes DEF CellsMatch
  <2> QED
    BY <2>1, <2>2, Sizes
<1>6. Slot(Count + 1)' = Slot(Count + 1)
  <2>1. PICK i \in Nat \ {0} : i = Count
    BY <1>1
  <2>2. Slot(i)' = Slot(i + 1)
    BY <1>4
  <2>3. Count' + 1 = i
    BY <1>1, <2>1
  <2> QED
    BY <2>1, <2>2, <2>3
<1>7. CellsMatch'
  BY <1>5, <1>6 DEF CellsMatch
<1> QED
  BY <1>2, <1>3, <1>7

LEMMA Inductive == IInv /\ [QueueNext]_queueVars => IInv'
<1> SUFFICES ASSUME IInv, [QueueNext]_queueVars PROVE IInv'
  OBVIOUS
<1>1. CASE UNCHANGED queueVars
  BY <1>1, SameSlots DEF queueVars, IInv, QueueTypeOK, Fits, CellsMatch, Holds
<1> QED
  BY <1>1, EnqueueTestStep, EnqueueWriteStep, EnqueuePublishStep, DequeueTestStep,
     DequeueReadStep, DequeuePublishStep DEF QueueNext, Produce, Consume

-----------------------------------------------------------------------------
(* The bounded FIFO.                                                        *)

\* The i-th oldest item.
Item(i) == IF i = 1 /\ cons.at = "publish" THEN cons.item ELSE cells[Slot(i)]

LEMMA ContentsAre ==
    ASSUME IInv
    PROVE  /\ Contents = [i \in 1..Count |-> Item(i)]
           /\ Count \in Nat /\ Contents \in Seq(Values) /\ Len(Contents) = Count
<1>1. Count \in 0..Capacity
  BY Counters DEF IInv, Fits, Positions
<1>2. Contents = [i \in 1..Count |-> Item(i)]
  BY DEF Contents, Item, Slot, Count
<1>3. \A i \in 1..Count : Item(i) \in Values
  <2> SUFFICES ASSUME NEW i \in 1..Count PROVE Item(i) \in Values
    OBVIOUS
  <2>1. i \in 1..Capacity
    BY <1>1, Sizes
  <2>2. CASE i = 1 /\ cons.at = "publish"
    BY <2>2 DEF Item, IInv, Fits
  <2>3. CASE ~(i = 1 /\ cons.at = "publish")
    BY <2>1, <2>3 DEF Item, IInv, CellsMatch, Holds
  <2> QED
    BY <2>2, <2>3
<1> QED
  BY <1>1, <1>2, <1>3

\* A step that is neither publication leaves the queue as it is to the outside.
LEMMA ContentsKept ==
    ASSUME IInv, UNCHANGED <<head, tail, taken>>,
           \A i \in 1..Count : Item(i)' = Item(i)
    PROVE  UNCHANGED Fifo!vars
<1>1. Count' = Count
  BY SameSlots
<1>2. Contents' = Contents
  BY <1>1 DEF Contents, Item, Slot, Count, cell_at_
<1> QED
  BY <1>2 DEF Fifo!vars

LEMMA PublishPuts ==
    ASSUME IInv, EnqueuePublish, IInv'
    PROVE  Fifo!Put(prod.item)
<1> USE DEF IInv, EnqueuePublish
<1>1. Count \in Nat /\ Count < Capacity /\ Count' = Count + 1
  BY Counters, Sizes DEF Fits, Count, Positions
<1>2. Contents' = [i \in 1..Count' |-> Item(i)'] /\ Contents \in Seq(Values) /\ Len(Contents) = Count
  <2>1. (Contents = [i \in 1..Count |-> Item(i)])'
    BY DEF Contents, Item, Slot, Count
  <2> QED
    BY <2>1, ContentsAre
<1>3. \A i \in 1..(Count + 1) : Item(i)' = IF i = Count + 1 THEN prod.item ELSE Contents[i]
  <2>1. \A i : Slot(i)' = Slot(i)
    BY DEF Slot, PositionOf, cell_at_
  <2>2. ~(Count + 1 = 1 /\ cons.at = "publish")
    BY <1>1 DEF Fits
  <2>3. cells[Slot(Count + 1)] = prod.item
    BY DEF CellsMatch
  <2>6. \A i \in 1..Count : Item(i)' = Item(i)
    BY <2>1 DEF Item
  <2>7. \A i \in 1..Count : Contents[i] = Item(i)
    BY ContentsAre
  <2>8. ASSUME NEW i, i = Count + 1
        PROVE  Item(i)' = prod.item
    BY <2>1, <2>2, <2>3, <2>8 DEF Item
  <2> QED
    BY <1>1, <2>6, <2>7, <2>8
<1>4. Contents' = Append(Contents, prod.item)
  BY <1>1, <1>2, <1>3
<1> QED
  BY <1>1, <1>2, <1>4 DEF Fifo!Put

LEMMA PublishTakes ==
    ASSUME IInv, DequeuePublish
    PROVE  Fifo!Take
<1> USE DEF IInv, DequeuePublish
<1>1. Count \in 1..Capacity /\ Count' = Count - 1
  BY Counters, Sizes DEF Fits, Count, Positions
<1>2. Contents' = [i \in 1..Count' |-> Item(i)']
  BY DEF Contents, Item, Slot, Count
<1>3. ASSUME NEW i \in 1..Count'
      PROVE  Item(i)' = Item(i + 1)
  <2>1. Slot(i)' = Slot(i + 1)
    BY <1>1, SlotShift, Sizes
  <2>2. i + 1 # 1 /\ cons'.at = "idle"
    BY <1>1
  <2> QED
    BY <2>1, <2>2 DEF Item
<1>4. /\ Contents = [i \in 1..Count |-> Item(i)]
      /\ Contents \in Seq(Values) /\ Len(Contents) = Count
  BY ContentsAre
<1>5. Contents # <<>> /\ Head(Contents) = cons.item
  BY <1>1, <1>4 DEF Item
<1>6. Contents' = Tail(Contents)
  BY <1>1, <1>2, <1>3, <1>4
<1> QED
  BY <1>5, <1>6 DEF Fifo!Take

\* The other steps leave the queue as it is to the outside.
LEMMA OthersKeep ==
    ASSUME IInv, (\E v \in Values : EnqueueTest(v)) \/ EnqueueWrite \/ DequeueTest \/ DequeueRead
    PROVE  UNCHANGED Fifo!vars
<1>1. ASSUME NEW v \in Values, EnqueueTest(v)
      PROVE  UNCHANGED Fifo!vars
  BY <1>1, ContentsKept, SameSlots DEF EnqueueTest, Item
<1>2. CASE EnqueueWrite
  <2>1. Count \in Nat /\ Count < Capacity
    BY <1>2, Counters DEF EnqueueWrite, IInv, Fits, Positions
  <2>2. \A i \in 1..Count : cells'[Slot(i)] = cells[Slot(i)]
    <3> SUFFICES ASSUME NEW i \in 1..Count PROVE cells'[Slot(i)] = cells[Slot(i)]
      OBVIOUS
    <3>1. i \in 1..Capacity /\ Count + 1 \in 1..Capacity /\ i # Count + 1
      BY <2>1, Sizes
    <3>2. Slot(i) # Slot(Count + 1) /\ Slot(Count + 1) = cell_at_(head)
      BY <3>1, SlotsDistinct, SlotEnds DEF IInv
    <3>3. Slot(i) \in Cells
      BY <3>1, SlotType DEF IInv
    <3> QED
      BY <1>2, <3>2, <3>3 DEF EnqueueWrite, IInv, QueueTypeOK, Cells
  <2> QED
    BY <1>2, <2>2, ContentsKept, SameSlots DEF EnqueueWrite, Item
<1>3. CASE DequeueTest
  <2>1. \A i \in 1..Count : Item(i)' = Item(i)
    BY <1>3, SameSlots DEF DequeueTest, Item, IInv, QueueTypeOK
  <2> QED
    BY <1>3, <2>1, ContentsKept DEF DequeueTest
<1>4. CASE DequeueRead
  <2>1. Count \in Nat /\ Count <= Capacity /\ Slot(1) = cell_at_(tail)
    BY Counters, SlotEnds DEF IInv, Fits, Positions
  <2>2. /\ cons.at = "read" /\ cons'.at = "publish" /\ cons'.item = cells[Slot(1)]
        /\ cells' = [cells EXCEPT ![Slot(1)] = Raw]
    BY <1>4, <2>1 DEF DequeueRead
  <2>3. ASSUME NEW i \in 1..Count
        PROVE  Item(i)' = Item(i)
    <3>1. Slot(i)' = Slot(i)
      BY <1>4, SameSlots DEF DequeueRead
    <3>2. CASE i = 1
      BY <2>2, <3>1, <3>2 DEF Item
    <3>3. CASE i # 1
      <4>1. Slot(i) # Slot(1) /\ Slot(i) \in Cells
        BY <2>1, <3>3, SlotsDistinct, SlotType, Sizes DEF IInv
      <4>2. cells'[Slot(i)] = cells[Slot(i)]
        BY <2>2, <4>1 DEF IInv, QueueTypeOK, Cells
      <4> QED
        BY <2>2, <3>1, <3>3, <4>2 DEF Item
    <3> QED
      BY <3>2, <3>3
  <2> QED
    BY <1>4, <2>3, ContentsKept DEF DequeueRead
<1> QED
  BY <1>1, <1>2, <1>3, <1>4

\* Every step of the queue is a step of the FIFO, or none to the outside.
LEMMA StepMaps == IInv /\ IInv' /\ [QueueNext]_queueVars => [Fifo!Next]_(Fifo!vars)
<1> SUFFICES ASSUME IInv, IInv', [QueueNext]_queueVars PROVE [Fifo!Next]_(Fifo!vars)
  OBVIOUS
<1>1. CASE EnqueuePublish
  BY <1>1, PublishPuts DEF Fifo!Next, EnqueuePublish, IInv, Fits
<1>2. CASE DequeuePublish
  BY <1>2, PublishTakes DEF Fifo!Next
<1>3. CASE UNCHANGED queueVars
  BY <1>3, ContentsKept, SameSlots DEF queueVars, Item
<1> QED
  BY <1>1, <1>2, <1>3, OthersKeep DEF QueueNext, Produce, Consume

LEMMA InitMaps == IInv /\ QueueInit => Fifo!Init
<1> SUFFICES ASSUME IInv, QueueInit PROVE Fifo!Init
  OBVIOUS
<1>1. Count = 0
  BY DEF QueueInit, Count, Minus
<1> QED
  BY <1>1, ContentsAre DEF QueueInit, Fifo!Init

\* What the invariant says of the cells about to be used.
LEMMA CellsAreLive == IInv => CellsLive
<1> SUFFICES ASSUME IInv PROVE CellsLive
  OBVIOUS
<1> USE DEF IInv
<1>1. Count \in Nat /\ Slot(1) = cell_at_(tail) /\ Slot(Count + 1) = cell_at_(head)
  BY Counters, SlotEnds DEF Positions
<1>2. ASSUME prod.at = "write"
      PROVE  cells[cell_at_(head)] = Raw
  <2>1. Count + 1 \in 1..Capacity /\ ~Holds(Count + 1)
    BY <1>1, <1>2, Sizes DEF Fits, Holds
  <2> QED
    BY <1>1, <2>1, CellValues, SlotType DEF CellsMatch
<1>3. ASSUME cons.at = "read"
      PROVE  cells[cell_at_(tail)] # Raw
  <2>1. 1 \in 1..Capacity /\ Holds(1)
    BY <1>1, <1>3, Sizes DEF Fits, Holds
  <2> QED
    BY <1>1, <2>1, Sizes DEF CellsMatch
<1> QED
  BY <1>2, <1>3 DEF CellsLive

-----------------------------------------------------------------------------
(* The theorems.                                                            *)

\* No object is built over a live one and none is read from a raw cell, in a
\* ring of any size and wherever the counters wrap.
THEOREM CellsAlwaysLive == QueueSpec => []CellsLive
BY InitOK, Inductive, CellsAreLive, PTL DEF QueueSpec

\* try_enqueue() and try_dequeue() of one producer and one consumer are the
\* operations of a bounded FIFO, each at the store of its counter.
THEOREM ImplementsFifo == QueueSpec => FifoRefined
BY InitOK, Inductive, InitMaps, StepMaps, PTL DEF QueueSpec, FifoRefined, Fifo!Spec

==============================================================================
