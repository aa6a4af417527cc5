\* A restart between any two steps, and a user who registers at any time.
\* Liveness, so without symmetry; all messages in one second, so that a
\* snapshot has them in any order.
CONSTANTS
  Browser = {b1}
  User = {u0, u1}
  Channel = {c0}
  Message = {m1, m2}
  Old = {u0, c0}
  None = None
  MaxRestarts = 1
  MaxSeconds = 1
SPECIFICATION Spec
CHECK_DEADLOCK FALSE
INVARIANT NothingLost
PROPERTY AllAreTold
