\* Three blocks, hence chains and cycles of two and of three, and two threads,
\* whose messages interleave and wait in the queue while the heap is small.
CONSTANTS
  Blocks = {b1, b2, b3}
  Roots = {r1, r2}
  Slots = 1
  Vertices = {v1, v2, v3, v4}
  Null = Null
  Threads = {t1, t2}
  MaxMsgs = 2
  MaxLoad = 2
  MaxDepth = 2
  Usage = {}
SYMMETRY Symmetry
SPECIFICATION Spec
INVARIANTS HeldIsAllocated SourceIsAlive NoFault GraphConsistent AgreesWhenQuiet NothingLeft
