SPECIFICATION Spec
CONSTANTS
  Null = Null
  NegativeZero = NegativeZero
  Throws = Throws
  one = one
  text = text
  empty = empty
  Layers <- MCLayers
  Worker <- MCWorker
  Heaps <- MCHeaps
  Calls <- MCCalls
  Says <- MCSays
  Pushes <- MCPushes
INVARIANTS
  ReturnPreserved
  TransferComplete
  RefusedForCause
  ReceivedAsMeant
CHECK_DEADLOCK FALSE
