SPECIFICATION FairSpec
CONSTANTS
  BufSize = 2
  Counts = {1, 2}
  None = None
  Junk = Junk
  MaxRequests = 3
  MaxPackets = 2
INVARIANTS TypeOK ReadsInOrder Told
PROPERTY Completes
CHECK_DEADLOCK FALSE
