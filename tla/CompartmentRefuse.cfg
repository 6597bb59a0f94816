SPECIFICATION Spec
CONSTANTS
  Host = Host
  Comps = {c1, c2}
  NestFrom = {Host}
  ScopeStacks = {Host, c1, c2}
PROPERTY TerminatedRunsNoJob
