---------------------------- MODULE MCLockOrder ----------------------------
EXTENDS LockOrder

CONSTANTS s1

\* One session: every wait cycle of the node runs through a single session
\* and one task that holds a guard while sending to it.
MCSids == {s1}

====
