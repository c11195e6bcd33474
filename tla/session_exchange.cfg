CONSTANTS
  Cli = cli
  Srv = srv
  NULL = null
  Commands = {"CONNECT", "DISCONNECT", "PUT"}
  RequestQueues <- MCQueues
  ResponseQueues <- MCQueues
  Answers = {"SUCCESS", "FORBIDDEN", "NOT_IMPLEMENTED"}
  Suspenders = {cli, srv}
  NiceCancellers = {}
  HardCancellers = {}
  CancelsLate = FALSE
  SuspendsFirst = FALSE
  SuspendsLate = FALSE
  AddsLate = FALSE
  CallsBack = {"request"}
  StreamFails = FALSE
  AllocFails = FALSE
  LinkFails = FALSE
  Reconnects = FALSE
  ReusedHandles = {}
  ClosesOn = {"LINKERR"}
  MaxRequests = 2
  MaxItems = 2
  MaxDepth = 2
  MaxFaults = 2
  MtuRx <- MCMtuRx
  MtuTxMax <- MCMtuTxMax
  MinimumMtu = 2
SPECIFICATION FairSpec
CHECK_DEADLOCK FALSE
INVARIANTS
  TypeOK
  Orderly
  MtuAgreed
  ContinueIsOurTurn
PROPERTIES
  ImplementsExchange
  Completes
