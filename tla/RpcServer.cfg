SPECIFICATION FairSpec
CONSTANTS
  t1 = t1  t2 = t2  t3 = t3  o1 = o1  o2 = o2  o3 = o3  i1 = i1  i2 = i2  c1 = c1  c2 = c2
  Threads <- MCThreads
  Objects <- MCObjects
  Interfaces <- MCInterfaces
  InterfaceOf <- MCInterfaceOf
  Calls <- MCCalls
  FinalizeAnytime = FALSE
  None = None
INVARIANTS StartIsAtomic IInv NothingLeft
PROPERTIES MutexIsReleased
