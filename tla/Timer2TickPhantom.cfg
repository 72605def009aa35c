SPECIFICATION Spec
CONSTANTS
    MaxPending = 2
    MaxOverruns = 5
    Byte = 2
    Horizon = 8
INVARIANT TicksSinceInitialize
