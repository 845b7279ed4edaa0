SPECIFICATION Spec
CONSTANTS
  i1 = i1
  i2 = i2
  i3 = i3
  x1 = x1
  x2 = x2
  y = y
  k = k
  d = d
  None = None
  Original = Original
  base = base
  temp = temp
  named = named
SYMMETRY Symmetry
CHECK_DEADLOCK FALSE
INVARIANTS
  TypeOK
  EnvironmentIsWhole
  SandboxIsKept
  DesktopIsKept
  ActsOnWhatItSaw
  RowFollowsLatestAttempt
  TurnIsServed
  PushedIsOnRemote
  ToolsShareTheSandbox
PROPERTIES
  RunsKeepTheirRecord
