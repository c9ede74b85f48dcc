CONSTANTS
    Driver = "permissionless"
    NodeCap = 1
    AppCap = 1
    MaxNet = 3
    NoMsg = NoMsg

SPECIFICATION Spec

CHECK_DEADLOCK FALSE

INVARIANT NoWaitCycle
