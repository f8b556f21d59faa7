\* Two commands before the window manager obeys the first.
SPECIFICATION FairSpec
CONSTANTS
  MaxDesktops = 3
  MaxChanges = 1
  MaxSwitches = 2
  MaxReloads = 0
  Configs <- Plain
PROPERTY
  NextGoesOn
CHECK_DEADLOCK FALSE
