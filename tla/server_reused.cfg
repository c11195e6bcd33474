CONSTANTS
  Cli = cli
  Srv = srv
  NULL = null
  Commands = {"PUT"}
  RequestQueues <- MCShortQueues
  ResponseQueues <- MCShortQueues
  Answers = {"SUCCESS", "FORBIDDEN", "NOT_IMPLEMENTED"}
  Suspenders = {}
  NiceCancellers = {}
  HardCancellers = {}
  CancelsLate = FALSE
  SuspendsFirst = FALSE
  SuspendsLate = FALSE
  AddsLate = FALSE
  CallsBack = {}
  StreamFails = FALSE
  AllocFails = FALSE
  LinkFails = TRUE
  Reconnects = TRUE
  ReusedHandles = {cli, srv}
  ClosesOn = {"LINKERR"}
  MaxRequests = 2
  MaxItems = 2
  MaxDepth = 1
  MaxFaults = 1
  MtuRx <- MCMtuRx
  MtuTxMax <- MCMtuTxMax
  MinimumMtu = 2
SPECIFICATION Spec
CHECK_DEADLOCK FALSE
INVARIANTS
  NoCrash
