SPECIFICATION Spec
CONSTANTS
  Window = {w1, w2}
  Number = {0, 1}
  Box = {b1, b2}
  None = None
  Nobody = Nobody
  Reparents = TRUE
  EarlyList = FALSE
  MaxChanges = 2
INVARIANTS
  ListFollows
  StateFollows
  FieldsFollow
  FwindowListed
  ActiveFollows
SYMMETRY Symmetry
CHECK_DEADLOCK FALSE
