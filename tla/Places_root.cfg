\* The root window is resized.
SPECIFICATION Spec
CONSTANTS
  w1 = w1
  w2 = w2
  Window = {w1, w2}
  None = None
  MaxDesktop = 1
  Sizes = {20, 30}
  RootSize = 20
  Areas <- MCAreas
  Views <- MCViews
  Roots <- MCRoots
  Places = {3}
  Names = {n1}
  n1 = n1
  MaxChanges = 2
  MaxReloads = 1
INVARIANT
  RootFollows
SYMMETRY MCSymmetry
CHECK_DEADLOCK FALSE
