SPECIFICATION FairSpec
CONSTANTS
  Host = Host
  Comps = {c1, c2}
  NestFrom = {Host, c1, c2}
  ScopeStacks = {Host, c1, c2}
INVARIANTS
  TypeOK
  HostRunsUndisturbed
  WatchdogSeesLiveSlices
  YieldedIsSuspended
  DeadHasNoFrames
  NoYieldHolds
  CallersAreInJobs
  NoPhantomError
PROPERTIES
  FreedWithoutFrames
  ImplementsContract
  RunawayYields
  TerminateStopsJob
