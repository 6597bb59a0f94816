SPECIFICATION Spec
CONSTANTS
  Objects = {a, b}
  Strings = {}
  Vals = {v, w}
  Addrs = {3, 7}
  MapAddrs = {0, 1}
  StringHash = 7
  Iters = {i}
  InitialCapacity = 2
  MinBuckets = 4
  MaxEpoch = 1
  Hole = Hole
  Absent = Absent
SYMMETRY TableSymmetry
INVARIANTS TypeOK ProbesEnd NeverGivenTwice
PROPERTY ImplementsOrderedMap
