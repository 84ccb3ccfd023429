SPECIFICATION Spec
CONSTANTS
  Sizes = {small, vga, large}
  FitsShm = {small, vga}
  Upscaled = {small}
  None = None
CHECK_DEADLOCK FALSE
PROPERTIES StreamEnds
