SPECIFICATION FairSpec
CONSTANTS
  o1 = o1
  r1 = r1
  r2 = r2
  None = None
  base = base
  temp = temp
  named = named
INVARIANTS
  RecordIsTrue
PROPERTIES
  RunningSettles
  LeaseComesBack
