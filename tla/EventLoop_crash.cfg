SPECIFICATION Spec
CONSTANTS
  MaxEvents = 0
  MaxCommands = 0
  MaxSignals = 1
  MaxEdits = 1
  XKinds = {"event"}
  Faults = {"gfx"}
  Paths = {p1}
  NoPath = NoPath
INVARIANT
  ReloadKeepsPager
CHECK_DEADLOCK FALSE
