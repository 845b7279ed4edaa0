SPECIFICATION Spec
CONSTANTS
  i1 = i1
  i2 = i2
  i3 = i3
  x1 = x1
  x2 = x2
  y = y
  fst = fst
  snd = snd
  short = short
  None = None
  Unavailable = Unavailable
  Failed = Failed
SYMMETRY Symmetry
CHECK_DEADLOCK FALSE
INVARIANTS
  TypeOK
  AcceptedMessageRuns
  ReplyIsReadable
  NothingLostOrRedeemedTwice
  ConnectionsAreKept
  LiveSessionIsSound
  ContextIsKept
PROPERTIES
  ChargeIsRight
