\* One dispatch and two logins a connection: channels are replaced while the
\* dispatch runs, on any of three signals.
CONSTANTS
  Conn = {a, b}
  SignalOrder <- ThreeSignals
  MaxLogins = 2
  MaxDispatches = 1
SPECIFICATION SafeSpec
CHECK_DEADLOCK FALSE
SYMMETRY Perms
INVARIANTS TypeOK ListensToAllOrNone ToldOnce
PROPERTY ImplementsSignals
