\* Three records of one key, or without one, two slots, two places; three calls
\* over one subject and one id, three fetches.
CONSTANTS
    Keys = {k1}
    NoKey = NoKey
    InFlight = 2
    Backlog = 2
    MaxRecords = 3
    Calls = {c1, c2, c3}
    Subjects = {s1}
    Ids = {i1}
    MaxFetches = 3
SPECIFICATION LiveSpec
INVARIANT RegistryInv
PROPERTIES
    EveryRecordReaped
    FailureEndsLoop
    SuccessKept
    EveryCallEnds
CHECK_DEADLOCK FALSE
