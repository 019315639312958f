\* A frame handled just after the deadline, across a second boundary.
CONSTANTS
    USEC_PER_SEC = 4
    Timeout = 1
    MaxTime = 12
    MaxLag = 2
    SelectUpdatesTimeout = TRUE
SPECIFICATION Spec
INVARIANT SelectGetsValidInterval
CHECK_DEADLOCK FALSE
