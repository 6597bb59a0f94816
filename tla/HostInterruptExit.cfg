SPECIFICATION Spec
CONSTANTS
  Requesters = {r1}
  MaxStores = 2
PROPERTY DeadThreadNotArmed
CHECK_DEADLOCK FALSE
