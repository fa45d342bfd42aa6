\* A fork, two stops, a call, a runtime that may shut down; three writes of the
\* one-shot, two of them within the cap; a connection, a command and two handles.
CONSTANTS
    Forks = {f1}
    MaxStops = 2
    MaxCalls = 1
    ExitGrace = 2
    Shutdown = TRUE
    MaxWrites = 3
    OutputBytes = 2
    Conns = {c1}
    Procs = {p1}
    MaxHandles = 2
    None = None
    Ranges <- MCRanges
    V6 <- MCV6
    Carries <- MCCarries
    Held <- MCHeld
    Requests <- MCRequests
    Answers <- MCAnswers
    Lower <- MCLower
    Grants <- MCGrants
    Links <- MCLinks
    Workspaces <- MCWorkspaces
    ShellRoots <- MCShellRoots
    Dirs <- MCDirs
    Files <- MCFiles
    Stores <- MCStores
    HasHome = TRUE
    HostEnv = {"PATH", "HOME", "KEY"}
    Always = {"PATH"}
    Inherit = {"KEY"}
    Names = {"HOME", "TERM", "LD_X", "GIT_DIR", "KEY"}
    Refused = {}
    Loader = {"LD_X"}
    Git = {"GIT_DIR"}
    FromHome = {"TERM"}
SPECIFICATION BoxSpec
INVARIANTS
    ChildInv
    OneShotInv
    SessionInv
PROPERTY SandboxEnds
CHECK_DEADLOCK FALSE
