\* The pointer enters the window before it has been over a desktop.
SPECIFICATION FairSpec
CONSTANTS
  MaxDesktops = 3
  MaxChanges = 1
  MaxSwitches = 0
  MaxReloads = 0
  Configs <- Plain
INVARIANT
  NoGhostHighlight
CHECK_DEADLOCK FALSE
