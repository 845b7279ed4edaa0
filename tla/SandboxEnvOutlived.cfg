SPECIFICATION Spec
CONSTANTS
  a = a
  b = b
  x = x
  None = None
  Original = Original
  Ops = {a, b}
  Names = {x}
  Providers = {"e2b"}
  OutliveLock = TRUE
  MaxFaults = 0
CHECK_DEADLOCK FALSE
INVARIANTS
  NoDanglingSecret
