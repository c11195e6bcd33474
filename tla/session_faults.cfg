CONSTANTS
  Cli = cli
  Srv = srv
  NULL = null
  Commands = {"PUT", "GET"}
  RequestQueues <- MCOneQueue
  ResponseQueues <- MCLastingQueues
  Answers = {"SUCCESS"}
  Suspenders = {}
  NiceCancellers = {cli}
  HardCancellers = {cli}
  CancelsLate = FALSE
  SuspendsFirst = FALSE
  SuspendsLate = FALSE
  AddsLate = TRUE
  CallsBack = {}
  StreamFails = TRUE
  AllocFails = TRUE
  LinkFails = TRUE
  Reconnects = TRUE
  ReusedHandles = {cli}
  ClosesOn = {"LINKERR", "PARSEERR"}
  MaxRequests = 2
  MaxItems = 2
  MaxDepth = 1
  MaxFaults = 1
  MtuRx <- MCMtuRx
  MtuTxMax <- MCMtuTxMax
  MinimumMtu = 2
SPECIFICATION FairSpec
CHECK_DEADLOCK FALSE
INVARIANTS
  NoCrash
  Answered
  EndsOnce
PROPERTIES
  AbortStopsData
  Completes
