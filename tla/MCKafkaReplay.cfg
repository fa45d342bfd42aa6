\* Two records completing on two threads.
CONSTANTS
    Partitions = {p1}
    LogEnd = 2
    MaxPulls = 2
    MaxSends = 0
    MaxRebalances = 0
    MaxRestarts = 0
SPECIFICATION Spec
INVARIANT ReplayWindow
CHECK_DEADLOCK FALSE
