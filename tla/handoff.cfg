SPECIFICATION Spec
CHECK_DEADLOCK FALSE
CONSTANTS
  producer = producer
  consumer = consumer
  NoSlot = NoSlot
  Raw = Raw
  Threads <- Both
  Values <- AllSlots
  BlocksPerSlab = 3
  MaxSlabs = 1
  Capacity = 2
  ChunkCapacity = 1
  Modulus = 4
INVARIANTS
  CellsLive
  OneOwner
  SinglePopperSafe
PROPERTIES
  FifoRefined
