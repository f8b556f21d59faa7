\* Skins that use the root window for the pager's background.
CONSTANTS
  Texture = {"desktop"}
  Source = {"color"}
  PagerSource = {":root:"}
  None = None
  MaxPagers = 1
  MaxImages = 2
SPECIFICATION Spec
INVARIANT NothingForgotten
CHECK_DEADLOCK FALSE
