CONSTANTS
  MaxOpenings = 2
  MaxClicks = 1
SPECIFICATION Spec
CHECK_DEADLOCK FALSE
PROPERTY LinkShowsReset
