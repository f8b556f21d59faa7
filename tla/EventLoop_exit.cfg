\* An exit command and a reload.
SPECIFICATION FairSpec
CONSTANTS
  MaxEvents = 0
  MaxCommands = 1
  MaxSignals = 1
  MaxEdits = 0
  XKinds = {"event"}
  Faults = {}
  Paths = {p1}
  NoPath = NoPath
PROPERTY
  ExitHonoured
CHECK_DEADLOCK FALSE
