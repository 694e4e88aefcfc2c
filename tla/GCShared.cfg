\* A block kept by pointers of more than one other block.
CONSTANTS
  Blocks = {b1, b2, b3}
  Roots = {r1, r2}
  Slots = 1
  Vertices = {v1, v2, v3, v4, v5}
  Null = Null
  Threads = {t1}
  MaxMsgs = 2
  MaxLoad = 3
  MaxDepth = 1
  Usage = {"shared"}
SYMMETRY Symmetry
SPECIFICATION Spec
INVARIANTS HeldIsAllocated
