CONSTANTS
  BrowserFrames <- AllFrames
  Notices = {126, 65536}
  AnswerLength = 125
  MaxFrames = 3
  MaxNotices = 1
SPECIFICATION Spec
CHECK_DEADLOCK FALSE
INVARIANTS FramesWhole 
PROPERTY ConnectionEnds
