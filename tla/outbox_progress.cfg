SPECIFICATION FairSpec
CONSTANTS
  None = None
  Connection = Connection
  CallID = {Connection, a, b}
  Size = {1}
  Overhead = 1
  Limit = 5
  MaxFrameSize = 1
  MaxFrames = 4
PROPERTIES FramesGetWritten IdlePeersGoAway
CHECK_DEADLOCK FALSE
