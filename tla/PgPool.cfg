\* Three callers for two connections, so that one has to wait; two faults, so
\* that both connections may die under it.
CONSTANTS
  Caller = {k1, k2, k3}
  Connection = {x1, x2}
  MaxConnections = 2
  MaxCalls = 4
  MaxFaults = 2
  Card <- MCCard
  MaxFloat = 100
  Micro = 10
  Day = 200
  Y2K = 40
  Local <- MCLocal
SPECIFICATION Spec
CHECK_DEADLOCK FALSE
SYMMETRY Perms
INVARIANTS PoolSound WaitersAreServed AnswersAreOwn SuccessIsReal
