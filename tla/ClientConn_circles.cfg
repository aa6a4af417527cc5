\* Two signals and two dispatches, so that two connections can wait for each
\* other through one lock or through two.  Liveness, so without symmetry.
CONSTANTS
  Conn = {a, b}
  SignalOrder <- TwoSignals
  MaxLogins = 1
  MaxDispatches = 2
SPECIFICATION Spec
CHECK_DEADLOCK FALSE
PROPERTIES CircularWaitIsForever DispatchEnds ConnectionReturns
