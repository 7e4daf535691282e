SPECIFICATION MCSpec
CONSTANTS
  RingSize = 4
  Byte = {b0, b1, b2}
  Zero = b0
  Sync = sync
  None = none
  BufferSize = 7
  CounterSize = 5
  MaxChunk = 2
  MaxBytes = 5
INVARIANTS NoSlotRace SentInOrder
PROPERTIES ImplementsQueue QueueProgress InImplementsQueue InQueueProgress EverythingIsSent
CHECK_DEADLOCK TRUE
