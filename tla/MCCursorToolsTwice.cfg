\* Two attempts, one tool call in each.
CONSTANTS
    MaxAttempts = 2
    Terms <- MCRestartTerms
SPECIFICATION Spec
INVARIANT RestartRanNothing
CHECK_DEADLOCK FALSE
