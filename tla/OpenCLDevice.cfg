SPECIFICATION FairSpec
CONSTANTS
  b1 = b1  b2 = b2  p1 = p1
  Buffers <- MCOneBuffer
  Hosts <- MCHosts
  MaxEvents = 3
  MaxFaults = 1
  MaxActions = 1
  Kernels <- MCBothWays
  Faults = {"enqueue", "hook", "abnormal", "throw"}
INVARIANTS IInv RefsAreCounted
PROPERTIES ImplementsOrdered EveryCallReturns
CHECK_DEADLOCK FALSE
