SPECIFICATION SpecAll
CONSTANTS
  c1 = c1
  c2 = c2
  c3 = c3
  f1 = f1
  Calls = {c1, c2, c3}
  Files = {f1}
  None = None
  m1 = m1
  p1 = p1
  p2 = p2
  d1 = d1
  i1 = i1
  i2 = i2
  o1 = o1
CHECK_DEADLOCK FALSE
INVARIANTS
  TypeOK
  NeverOverlap
  StrictOrder
  ReplyIsShown
  ComposerKeepsItsWord
PROPERTIES
  FilesChangeAtomically
  QueueMovesOn
  ThreadSettles
  StreamEnds
