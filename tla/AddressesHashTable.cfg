\* Arrays of two, four and eight buckets; every assignment of the hashes.
CONSTANTS
  Keys = {k1, k2, k3, k4}
  Values = {x, y}
  Hashes = {3, 7}
  Fold <- MCFold
  InitialSize = 2
  ThresholdNum = 7
  ThresholdDen = 10
  MaxSize = 8
  Null = Null
SPECIFICATION FairSpec
INVARIANTS RefDenotesItsKey RoomToProbe IInv
PROPERTIES ImplementsMap EveryCallReturns
