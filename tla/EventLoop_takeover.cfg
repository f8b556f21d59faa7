\* A reload fails after it has bound a socket to the control path.
SPECIFICATION Spec
CONSTANTS
  MaxEvents = 0
  MaxCommands = 0
  MaxSignals = 1
  MaxEdits = 0
  XKinds = {"event"}
  Faults = {"late"}
  Paths = {p1}
  NoPath = NoPath
INVARIANT
  ReloadKeepsControl
CHECK_DEADLOCK FALSE
