\* Three leases for two slots, every worker giving its agent the same id, one
\* call; a stream with two guest tools and a shell command, a window of two ticks
\* and a cap of four.
CONSTANTS
    Leases = {l1, l2, l3}
    AgentIds = {i1}
    MaxAgents = 2
    MaxCalls = 1
    None = None
    Calls = {g1, g2, sh}
    Shell = {sh}
    Inactivity = 2
    Cap = 4
    NoCall = NoCall
SPECIFICATION CursorSpec
INVARIANTS
    PoolInv
    StreamInv
PROPERTIES
    PoolServes
    StreamEnds
CHECK_DEADLOCK FALSE
