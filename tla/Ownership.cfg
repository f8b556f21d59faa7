\* Skins whose desktops have colours or images of their own.
CONSTANTS
  Texture = {"desktop", "desktop-active"}
  Source = {"file", "color"}
  PagerSource = {"file", ":root:", "color"}
  None = None
  MaxPagers = 4
  MaxImages = 3
SPECIFICATION Spec
INVARIANTS RunningKeepsItsOwn MakersReleased NothingFreedTwice
CHECK_DEADLOCK FALSE
