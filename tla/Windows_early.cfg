\* A window is listed before it has a desktop.
SPECIFICATION Spec
CONSTANTS
  Window = {w1, w2}
  Number = {0}
  Box = {b1, b2}
  None = None
  Nobody = Nobody
  Reparents = TRUE
  EarlyList = TRUE
  MaxChanges = 2
INVARIANT
  ListedShown
SYMMETRY Symmetry
CHECK_DEADLOCK FALSE
