SPECIFICATION Spec
CONSTANTS
  m1 = m1
  m2 = m2
  p1 = p1
  p2 = p2
  d1 = d1
  Turns = {m1, m2}
  Posts = {p1, p2}
  Readers = {d1}
  None = None
  VisibilityLag = FALSE
  Faults = {}
  MaxFaults = 1
SYMMETRY Symmetry
CHECK_DEADLOCK FALSE
INVARIANTS
  OneActiveRun
