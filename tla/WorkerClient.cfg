SPECIFICATION Spec
CONSTANTS
  Null = Null
  NegativeZero = NegativeZero
  WorkerName = "w"
  MaxVersion = 2
  AsyncNames = {"loadAsync"}
  RuntimeNames = {"worker-runtime", "worker-runtime-more"}
  Programs <- MCPrograms
  NextPrograms <- MCNextPrograms
INVARIANTS
  RefusedForCause
  ImportsReachTheirModule
  ClientCallsWorker
  ClientIsOfOneVersion
  RegisteredAreTheWorkers
CHECK_DEADLOCK FALSE
