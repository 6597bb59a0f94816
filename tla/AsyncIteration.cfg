SPECIFICATION FairSpec
CONSTANTS
  MaxRequests = 3
  MaxAwaits = 1
  MaxDepth = 9
  MaxElements = 2
INVARIANTS NothingStuck ValuesInOrder FinishesWithAll
PROPERTIES EveryRequestAnswered CombinatorSettles
