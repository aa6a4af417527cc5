\* One user and one channel are there from the start and one of each may
\* come; two messages, of one second or of two, so that each of them can be
\* told before another.
CONSTANTS
  Browser = {b1}
  User = {u0, u1}
  Channel = {c0, c1}
  Message = {m1, m2}
  Old = {u0, c0}
  None = None
  MaxRestarts = 0
  MaxSeconds = 2
SPECIFICATION SafeSpec
SYMMETRY Perms
CHECK_DEADLOCK FALSE
INVARIANTS NothingLost AuthorsKnown TwiceAtMost ShownInOrder
