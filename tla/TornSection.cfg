SPECIFICATION Spec
CONSTANTS
  Workers = {1, 2}
  Ports <- MCPorts
  Pids = {1, 2, 3}
  Threads = {t1, t2}
  NoPid = 0
  Absent = Absent
SYMMETRY MCSymmetry
PROPERTY ReclaimedAreOfTheDead
CHECK_DEADLOCK FALSE
