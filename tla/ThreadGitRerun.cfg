SPECIFICATION Spec
CONSTANTS
  o1 = o1
  r1 = r1
  r2 = r2
  OpIds = {o1}
  Requests = {r1, r2}
  None = None
  base = base
  temp = temp
  named = named
  BaseBranch = base
  ThreadBranch = temp
  NewBranch = named
  Branches = {base, temp, named}
  MaxCommits = 1
  WorkspaceMode = "worktree"
  Actions = {"commit_push_create_pr"}
  Faults = {"precheck", "handler"}
  MaxFaults = 2
  RetriesOverlap = FALSE
  OutliveLease = FALSE
SYMMETRY Symmetry
PROPERTIES
  CompletedPhasesKept
