\* The pointer moves over a subset of desktops that does not begin at 0.
SPECIFICATION FairSpec
CONSTANTS
  MaxDesktops = 3
  MaxChanges = 0
  MaxSwitches = 0
  MaxReloads = 0
  Configs <- SecondHalf
INVARIANT
  HighlightFollowsPointer
CHECK_DEADLOCK FALSE
