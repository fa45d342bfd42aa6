\* The files: two clients and three operations without faults, or three clients
\* racing over two keys with them.  The stream: two clients and one publish given
\* up on, or three clients on an entry that lasts.  The server: two clients
\* and three operations over two buckets.
CONSTANTS
    Keys <- MCKeys
    Clients = {c1, c2, c3}
    Values = {blob}
    Counters = {1, 2, 3, 4}
    MaxOps = 3
    MaxRetries = 2
    Terms <- MCTerms
    blob = blob
    None = None
SPECIFICATION StoresSpec
SYMMETRY Symmetry
INVARIANT StoreInv
PROPERTIES
    BucketsLinearizable
    NatsLinearizable
CHECK_DEADLOCK FALSE
