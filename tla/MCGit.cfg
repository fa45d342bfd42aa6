\* Two paths; two revisions and three operations without faults, one revision and
\* two operations with them; three settings; one place for two repositories and two
\* calls at a time; two labels and two calls; patterns of four
\* bytes and paths of three.
CONSTANTS
    p = p
    q = q
    b = b
    x = x
    y = y
    r1 = r1
    r2 = r2
    Paths <- MCPaths
    Revs = {r1, r2}
    BaseTree <- MCBase
    HeadTrees <- MCHeads
    RevTrees <- MCOthers
    Policies <- MCPolicies
    Edited = Edited
    Markers = Markers
    MergeTerms <- MCTerms
    None = None
    Empty = Empty
    v1 = v1
    v2 = v2
    Places = {p}
    Repos = {r1, r2}
    Calls = {k1, k2}
    EmptyPlace = EmptyPlace
    OwnRepo = OwnRepo
    Foreign = Foreign
    Names = {"main", "next"}
    Main = "main"
    Worktrees = {"place", "copy"}
    Place = "place"
    Commits <- MCCommits
    Root = "c0"
    Parent <- MCParent
    Requests = {"one", "two"}
    MaxRequests = 2
    MaxPattern = 4
    MaxPath = 3
SPECIFICATION GitSpec
SYMMETRY Symmetry
INVARIANTS
    MergeInv
    PinsInv
    CopiesInv
    LabelsInv
    GlobInv
PROPERTY SealedByPolicy
CHECK_DEADLOCK FALSE
