SPECIFICATION FairSpec
CONSTANTS
  MaxDesktops = 3
  MaxChanges = 2
  MaxSwitches = 1
  MaxReloads = 1
  Configs <- Layouts
INVARIANTS
  Converged
  SelectedExists
  ViewExists
  ViewIsSubset
  MovesStayInView
PROPERTY
  FollowsManager
CHECK_DEADLOCK FALSE
