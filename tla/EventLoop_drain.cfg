SPECIFICATION FairSpec
CONSTANTS
  MaxEvents = 4
  MaxCommands = 1
  MaxSignals = 1
  MaxEdits = 1
  XKinds = {"event", "error"}
  Faults = {"init"}
  Paths = {p1}
  NoPath = NoPath
INVARIANTS
  NoStrandedEvents
  RedrawNotForgotten
PROPERTIES
  ChannelInOrder
  EventsHandled
CHECK_DEADLOCK FALSE
