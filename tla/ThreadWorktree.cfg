SPECIFICATION FairSpec
CONSTANTS
  a1 = a1
  a2 = a2
  o1 = o1
  d1 = d1
  None = None
  Provisions = {a1, a2}
  Openings = {o1}
  Removals = {d1}
  OpenWhileRemoving = FALSE
  MaxSlow = 1
  MaxFaults = 1
CHECK_DEADLOCK FALSE
INVARIANTS
  TypeOK
  ReadyHasWorktree
PROPERTIES
  WorkspaceComes
