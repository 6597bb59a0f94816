SPECIFICATION FairSpec
CONSTANTS
  Requesters = {r1, r2}
  MaxStores = 4
INVARIANTS
  TypeOK
  NoRequestForgotten
  OwedIsPending
PROPERTIES
  RequestServed
  LaterPollTakesIt
CHECK_DEADLOCK FALSE
