\* Two attempts of one round each without tool calls, or one attempt of two rounds
\* and two tool calls.
CONSTANTS
    MaxAttempts = 2
    Terms <- MCTerms
SPECIFICATION FairSpec
INVARIANTS
    AgentInv
    RestartInv
PROPERTY AgentEnds
CHECK_DEADLOCK FALSE
