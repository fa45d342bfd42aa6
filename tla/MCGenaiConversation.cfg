\* Four rounds, two candidates, two repeats, two calls a reply.
CONSTANTS
    guest = guest
    shell = shell
    list = list
    Calls = {guest, shell, list}
    Kind <- MCKind
    Reasons = {"refused"}
    MaxBatch = 2
    MaxRounds = 4
    MaxCandidates = 2
    MaxRepeats = 2
SPECIFICATION FairSpec
INVARIANTS
    BudgetsHeld
    ChatSound
    CountsTrue
PROPERTY Ends
CHECK_DEADLOCK FALSE
