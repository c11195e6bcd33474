CONSTANTS
  Handle = {h1}
  UsbHandle = {h1}
  Socket = {0, 1, 2}
  INVALID_SOCKET = none
  Absent = absent
  Bus <- MCBus
  Mixes = {{"IRDA"}}
  MaxKept <- MCMaxKept
SPECIFICATION Spec
CHECK_DEADLOCK FALSE
INVARIANTS
  AcceptedIsHeld
