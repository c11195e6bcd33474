CONSTANTS
  Cli = cli
  Srv = srv
  NULL = null
  Commands = {"PUT", "GET"}
  RequestQueues <- MCShortQueues
  ResponseQueues <- MCShortQueues
  Answers = {"SUCCESS", "FORBIDDEN", "NOT_IMPLEMENTED"}
  Suspenders = {}
  NiceCancellers = {}
  HardCancellers = {}
  CancelsLate = FALSE
  SuspendsFirst = TRUE
  SuspendsLate = FALSE
  AddsLate = FALSE
  CallsBack = {}
  StreamFails = FALSE
  AllocFails = FALSE
  LinkFails = FALSE
  Reconnects = FALSE
  ReusedHandles = {}
  ClosesOn = {"LINKERR"}
  MaxRequests = 1
  MaxItems = 2
  MaxDepth = 1
  MaxFaults = 1
  MtuRx <- MCMtuRx
  MtuTxMax <- MCMtuTxMax
  MinimumMtu = 2
SPECIFICATION Spec
CHECK_DEADLOCK FALSE
INVARIANTS
  NotStuck
