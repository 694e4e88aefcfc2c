\* A first pool of three blocks, then pools of two (a factor of 0.75).
CONSTANTS
  Pools = {p1, p2, p3}
  InitialSize = 3
  FactorNum = 3
  FactorDen = 4
  MaxSize = 4
SYMMETRY Symmetry
SPECIFICATION PoolSpec
INVARIANTS UniqueOwner EveryBlockAccounted QueueSound
