SPECIFICATION FairSpec
CONSTANTS
  Events = {e}
  Data = {k}
  Callers = {a, b}
  Nobody = Nobody
  MaxConnections = 2
  MaxCalls = 3
  HeaderRange = 8
  Operations = {"subscribe", "unsubscribe", "watch", "unwatch", "request", "remove", "close", "lose"}
  Exclusive = TRUE
INVARIANTS
  AnswersReachTheirCall
  ListenersAreSubscribed
PROPERTIES
  CallsSettle
CHECK_DEADLOCK FALSE
