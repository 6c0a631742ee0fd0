SPECIFICATION Spec
CONSTANTS
  None = None
  Dest = upbound
  Prev = previous
  Others = {hub, mine}
  Free = {previous1, previous2, previous3}
  Targets = {h, x, y}
  Procs = {p, q}
  Hub = hub
  HubTarget = h
  MaxCommands = 3
  MaxEdits = 2
SYMMETRY Symmetry
INVARIANTS
  NoDanglingRefs
  RoundTrip
PROPERTIES
  SwitchArrives
  OthersKeepTarget
  LeftBehindIsKept
CHECK_DEADLOCK FALSE
