SPECIFICATION Spec
CONSTANTS
  BufSize = 2
  Counts = {1, 2}
  None = None
  Junk = Junk
  MaxRequests = 1
  MaxPackets = 1
INVARIANT InIsReadable
CHECK_DEADLOCK FALSE
