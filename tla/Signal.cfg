\* Three listeners, so that a removal can move a listener that is neither the
\* removed one nor its neighbour.
CONSTANTS
  Chan = {c1, c2, c3}
  Msg = {m1, m2}
  Unlocked = Unlocked
SPECIFICATION Spec
CHECK_DEADLOCK FALSE
INVARIANTS TypeOK ListenersMatchOwners SameOrder
PROPERTIES DispatchReachesAll MutualWaitIsForever ImplementsBroadcast
