SPECIFICATION SpecAll
CONSTANTS
  o1 = o1
  o2 = o2
  r1 = r1
  r2 = r2
  OpIds = {o1, o2}
  Requests = {r1, r2}
  None = None
  g1 = g1
  g2 = g2
  base = base
  temp = temp
  named = named
  BaseBranch = base
  ThreadBranch = temp
  NewBranch = named
  Branches = {base, temp, named}
  MaxCommits = 2
  WorkspaceMode = "worktree"
  Actions = {"commit_push_create_pr"}
  Faults = {"crash", "lost", "refused", "precheck", "handler", "timeout", "unready"}
  MaxFaults = 2
  RetriesOverlap = FALSE
  OutliveLease = FALSE
SYMMETRY Symmetry
INVARIANTS
  TypeOK
  MutualExclusion
  ReportIsTrue
  StatusIsTrue
PROPERTIES
  SucceededIsFinal
  ImplementsExclusiveWorkspace
