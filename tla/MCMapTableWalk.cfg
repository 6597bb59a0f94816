SPECIFICATION Spec
CONSTANTS
  Objects = {}
  Strings = {s, t}
  Vals = {v}
  Addrs = {3, 7}
  MapAddrs = {0}
  StringHash = 3
  Iters = {i}
  InitialCapacity = 2
  MinBuckets = 4
  MaxEpoch = 0
  Hole = Hole
  Absent = Absent
INVARIANT FinishedGaveAll
