\* Linux select(): the deadline is kept across EINTR and frames.
CONSTANTS
    USEC_PER_SEC = 4
    Timeout = 1
    MaxTime = 12
    MaxLag = 2
    SelectUpdatesTimeout = TRUE
SPECIFICATION Spec
INVARIANTS
    TypeOK
    NoEarlyTimeout
    NoOverrun
CHECK_DEADLOCK FALSE
