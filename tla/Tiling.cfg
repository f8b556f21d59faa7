\* Tiling: the places asked for, and the counts they depend on.
CONSTANTS
  MaxDesktops = 2
  Area <- MCArea
  Frame <- MCFrame
  Lists <- MCLists
  MaxPlain = 7
  MaxVaried = 2
SPECIFICATION Spec
INVARIANTS NoDivisionByZero TiledApart TiledFills
CHECK_DEADLOCK FALSE
