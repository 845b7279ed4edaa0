SPECIFICATION Spec
CONSTANTS
  r1 = r1
  r2 = r2
  Requests = {r1, r2}
  None = None
  MaxCodes = 2
  MaxTokens = 2
  MaxExpiries = 1
CHECK_DEADLOCK FALSE
INVARIANTS
  RepeatedClicksKeepTheCode
