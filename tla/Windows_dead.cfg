\* A window is destroyed and the pointer is where it was drawn.
SPECIFICATION Spec
CONSTANTS
  Window = {w1, w2}
  Number = {0}
  Box = {b1, b2}
  None = None
  Nobody = Nobody
  Reparents = TRUE
  EarlyList = FALSE
  MaxChanges = 2
INVARIANT
  DeadIgnored
SYMMETRY Symmetry
CHECK_DEADLOCK FALSE
