CONSTANTS
  MaxMessages = 2
  Windows = {2}
SPECIFICATION Spec
CHECK_DEADLOCK FALSE
INVARIANT AnswersMatch
