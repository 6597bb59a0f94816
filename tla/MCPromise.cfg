SPECIFICATION FairSpec
CONSTANTS
  Made = {m1}
  Derived = {d1}
  Async = {a1}
  None = None
  Foreign = Foreign
INVARIANTS TypeOK OneSettler RecheckNeverNeeded AdoptsOutcome NoContinuationLost RejectionsTracked
PROPERTY AwaitsResume
