CONSTANTS
  Handle = {h1, h2}
  UsbHandle = {h1, h2}
  Socket = {0, 1, 2}
  INVALID_SOCKET = none
  Absent = absent
  Bus <- MCBus
  Mixes = {{"INET"}, {"IRDA"}, {"BLUETOOTH", "FD"}, {"FD", "CUSTOM"}, {"USB"}}
  MaxKept <- MCMaxKept
SYMMETRY MCHandles
SPECIFICATION Spec
CHECK_DEADLOCK FALSE
INVARIANTS
  TypeOK
  Owned
  ConnectedIsUsable
  CrashesOnlyKnown
PROPERTIES
  LosesOnlyOverwritten
