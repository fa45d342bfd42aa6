\* Two records of one partition or of two, and two sends that hold them back,
\* under the fairness the scheduling gives.
CONSTANTS
    Partitions = {p1, p2}
    LogEnd = 2
    MaxPulls = 2
    MaxSends = 2
    MaxRebalances = 0
    MaxRestarts = 0
SPECIFICATION FairSpec
INVARIANT FrontWaits
PROPERTIES
    SendsSettle
    HeldResolves
CHECK_DEADLOCK FALSE
