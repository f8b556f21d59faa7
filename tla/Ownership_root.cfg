\* Skins that use the root window for desktops too.
CONSTANTS
  Texture = {"desktop", "desktop-active"}
  Source = {"file", ":root:", "color"}
  PagerSource = {"file", "color"}
  None = None
  MaxPagers = 2
  MaxImages = 2
SPECIFICATION Spec
INVARIANT NothingFreedTwice
CHECK_DEADLOCK FALSE
