\* Two pointers in a block; no symmetry, which liveness does not allow.
CONSTANTS
  Blocks = {b1, b2}
  Roots = {r1, r2}
  Slots = 2
  Vertices = {v1, v2, v3, v4}
  Null = Null
  Threads = {t1}
  MaxMsgs = 1
  MaxLoad = 3
  MaxDepth = 1
  Usage = {}
SPECIFICATION FairSpec
PROPERTIES DestroyedAsConstructed Reclaimed ShutdownEnds
