SPECIFICATION Spec
CONSTANTS
  None = None
  Connection = Connection
  CallID = {Connection, a, b}
  Size = {1, 6}
  Overhead = 1
  Limit = 6
  MaxFrameSize = 6
  MaxFrames = 4
SYMMETRY Symmetry
INVARIANTS TypeOK QueueConsistent MemoryBounded NoLostWakeup AnsweredBeforeGoingAway
PROPERTIES NoMonopoly FIFOPerCall
CHECK_DEADLOCK FALSE
