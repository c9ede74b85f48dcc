CONSTANTS
    k1 = k1
    k2 = k2
    Keys <- MCKeys
    NoKey = NoKey
    ReadFaults = TRUE
    MaxStarts = 4

SPECIFICATION Spec
SYMMETRY KeySymmetry

\* A behaviour ends when the bound on calls of start is used up.
CHECK_DEADLOCK FALSE


INVARIANT IdentityStable
