SPECIFICATION FairSpec
CONSTANTS
  MaxEvents = 1
  MaxCommands = 1
  MaxSignals = 2
  MaxEdits = 2
  XKinds = {"event"}
  Faults = {"conf", "gfx", "init", "bind", "late"}
  Paths = {p1, p2}
  NoPath = NoPath
INVARIANTS
  SignalReloadNotLost
  ControlReachable
  NamesBelong
PROPERTIES
  QuitBeforeReload
  QuitHonoured
  ExitUnlessReload
  ReloadHonoured
CHECK_DEADLOCK FALSE
