\* One partition: out-of-order completion, sends, a rebalance, a restart.
CONSTANTS
    Partitions = {p1}
    LogEnd = 2
    MaxPulls = 3
    MaxSends = 2
    MaxRebalances = 1
    MaxRestarts = 1
SPECIFICATION Spec
INVARIANTS
    AtLeastOnce
    WatermarkExact
    OwnPullDone
    IInv
PROPERTY ImplementsGroup
CHECK_DEADLOCK FALSE
