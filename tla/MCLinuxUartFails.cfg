\* Both of these fail, and TLC stops at the first that it meets: leave one of
\* the last lines to see that one.
CONSTANTS
  BufferSize = 7
  CounterSize = 5
  MaxChunk = 2
  MaxBytes = 5
SPECIFICATION UartSpec
CHECK_DEADLOCK TRUE
PROPERTY TransmittingIsLeftAlone
PROPERTY CopiedIsCounted
