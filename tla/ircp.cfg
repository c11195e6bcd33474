SPECIFICATION FairSpec
CONSTANTS
  Nodes <- MCNodes
  ArgLists <- MCArgLists
  Here <- MCHere
  None = None
  MaxFaults = 3
INVARIANTS TypeOK InPlace Unmixed ReportedIsStored
PROPERTY Completes
CHECK_DEADLOCK FALSE
