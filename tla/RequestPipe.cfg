\* A browser that waits for each answer, and one that sends whenever the user
\* asks for something.
CONSTANTS
  MaxMessages = 4
  Windows = {1, 4}
SPECIFICATION Spec
CHECK_DEADLOCK FALSE
INVARIANTS PatientIsServed HandledInOrder LabelIsNear
PROPERTIES RequestsSettle MainEnds
