SPECIFICATION FairSpec
CONSTANTS
  Workers = {1, 2, 3}
  Ports <- MCPorts
  Pids = {1, 2}
  Threads = {t1}
  NoPid = 0
  Absent = Absent
INVARIANTS
  OneProcessPerWorker
  PortsExclusive
  PortsNotLeaked
  LiveProcessHasEntry
  NoLostWork
PROPERTIES
  DeletedUntilStopped
  EndpointOfRequestedWorker
  RequestsAnswered
  EntriesAttendedTo
CONSTRAINT NotTorn
