SPECIFICATION StrongFairSpec
CONSTANTS
  Requesters = {r1}
  MaxStores = 2
PROPERTY PendingIsTaken
CHECK_DEADLOCK FALSE
