CONSTANTS
    s1 = s1
    Sids <- MCSids
    None = None
    InboxCap = 1

SPECIFICATION Spec

\* The code can deadlock (see MCLockOrderDeadlock.cfg), so a state with no
\* successor is a behaviour of the node, not an error of the model.
CHECK_DEADLOCK FALSE

INVARIANT TypeOK LockedSendTargetsCurrent
