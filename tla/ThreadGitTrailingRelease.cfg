SPECIFICATION Spec
CONSTANTS
  o1 = o1
  o2 = o2
  r1 = r1
  r2 = r2
  r3 = r3
  OpIds = {o1, o2}
  Requests = {r1, r2, r3}
  None = None
  base = base
  temp = temp
  named = named
  BaseBranch = base
  ThreadBranch = temp
  NewBranch = named
  Branches = {base, temp, named}
  MaxCommits = 1
  WorkspaceMode = "worktree"
  Actions = {"commit_push"}
  Faults = {"handler"}
  MaxFaults = 1
  RetriesOverlap = TRUE
  OutliveLease = FALSE
SYMMETRY Symmetry
INVARIANTS
  MutualExclusion
