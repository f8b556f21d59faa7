SPECIFICATION Spec
CONSTANTS
  MaxDesktops = 7
  MaxWrap = 3
  MaxFirst = 1
  MaxHidden = 6
  Styles <- MCStyles
  Screens <- MCScreens
  Images <- MCImages
  Workareas <- MCWorkareas
  Offsets <- MCOffsets
INVARIANTS
  DrawnApart
  MovesOnScreen
  BordersOnce
  ClicksFind
  WindowsKeepPlace
  IconsShown
  OnWorkarea
CHECK_DEADLOCK FALSE
