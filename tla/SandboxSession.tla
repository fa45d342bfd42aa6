--------------------------- MODULE SandboxSession ---------------------------
(***************************************************************************)
(* A sandbox session (sandbox session.rs, lib.rs): prepared from a grant   *)
(* step by step, shared by handles, commands and processes, and released   *)
(* with the last of them, its scratch and its egress proxy included.       *)
(***************************************************************************)
EXTENDS EgressProxy

CONSTANTS
    Grants,      \* [egress, read, env]: hosts, and sequences of paths and of names
    Workspaces,  \* paths that may be lent, or None
    ShellRoots,  \* shell_roots as resolved at connect
    Links,       \* a path that is a link |-> where it leads, canonical
    Dirs, Files, \* what there is, canonical
    HasHome,     \* whether the host has a home: Home
    Stores,      \* the credential stores, beneath the home
    HostEnv,     \* the host's variables, as read at connect
    Always,      \* what every process inherits of them
    Inherit,     \* what the backend inherits beside it
    Names, Refused, Loader, Git, \* variable names by what they are
    FromHome,    \* variables a grant gives a path beneath the home, `~/...`
    MaxHandles,  \* bound: handles of the caller at a time
    Procs        \* commands, each run at most once

VARIABLES
    stage,    \* how far Session::prepare came, or how it ended
    grant,    \* what it was given
    access,   \* what the processes may do where they work
    roots,    \* the read roots, a set
    env,      \* the environment: variable |-> where its value is from
    scratch,  \* the scratch directory exists
    handles,  \* handles the callers hold
    proc      \* "none", "command", "running" or "gone"

sessionVars == <<stage, grant, access, roots, env, scratch, handles, proc>>
boxVars == <<proxyVars, sessionVars>>

Home == <<"home">>
Scratch == {"HOME", "TMPDIR"}
ProxyNames == {"HTTPS_PROXY"}
NoProxy == {"NO_PROXY"}

SessionInit ==
    /\ ProxyInit
    /\ stage = "scratch" /\ grant \in Grants /\ access = None
    /\ roots = {} /\ env = <<>> /\ scratch = FALSE
    /\ handles = 0 /\ proc = [p \in Procs |-> "none"]

-----------------------------------------------------------------------------
\* canonicalize: links followed segment by segment.
Canon(path) ==
    LET Step(at, segment) ==
            LET p == Append(at, segment) IN IF p \in DOMAIN Links THEN Links[p] ELSE p
    IN  FoldLeft(Step, <<>>, path)

Exists(path) == Canon(path) \in Dirs \cup Files

\* overlaps: a directory grants every store within it.
Overlaps(a, b) == IsPrefix(a, b) \/ IsPrefix(b, a)

\* overlaps_store: each store as spelled and as it resolves.
OverlapsStore(root) ==
    \E s \in Stores :
        \/ Overlaps(root, Home \o s)
        \/ Exists(Home \o s) /\ Overlaps(root, Canon(Home \o s))

\* read_root: what an entry, the path after its `~/`, comes to.
ReadRoot(rest) ==
    LET root == Canon(Home \o rest) IN
    IF \/ rest = <<>> \/ ToSet(rest) \cap {".", ".."} # {}
       \/ \E s \in Stores : Overlaps(rest, s)
       \/ ~HasHome
    THEN "denied"
    ELSE IF ~Exists(Home \o rest) THEN "absent"
    ELSE IF root = Home \/ ~IsPrefix(Home, root) \/ OverlapsStore(root) \/ root \notin Dirs
         THEN "denied" ELSE "granted"

\* read_roots: the granted ones, once each; None where an entry is denied.
ReadRoots(entries) ==
    IF \E rest \in ToSet(entries) : ReadRoot(rest) = "denied" THEN None
    ELSE {Canon(Home \o rest) : rest \in {e \in ToSet(entries) : ReadRoot(e) = "granted"}}

\* reserved: neither the backend's to inherit nor a grant's to set.
Reserved(name) == name \in Scratch \cup ProxyNames \cup NoProxy \cup Refused \cup Loader \cup Git

\* Sandbox::connect refuses a backend that would inherit a reserved variable.
ConnectAssumption == \A name \in Inherit : ~Reserved(name)

\* A path is a sequence of segments.
ASSUME SessionAssumption ==
    /\ ConnectAssumption
    /\ \A at \in Dirs \cup Files : at = [i \in 1 .. Len(at) |-> at[i]] /\ Len(at) \in Nat
    /\ IsFiniteSet(Procs) /\ MaxHandles \in Nat \ {0}

\* inherits.
Inherited == HostEnv \cap (Always \cup Inherit)

\* environment: the sandbox's own over the inherited, the grant's over them; None
\* where a variable of the grant is denied.
Environment(granted) ==
    IF \E name \in granted :
         name \notin Names \/ Reserved(name) \/ name \in Inherit \/ (name \in FromHome /\ ~HasHome)
    THEN None
    ELSE [name \in Inherited \cup Scratch \cup ProxyNames \cup NoProxy \cup granted |->
            IF name \in granted THEN "grant"
            ELSE IF name \in NoProxy THEN "loopback"
            ELSE IF name \in ProxyNames THEN "proxy"
            ELSE IF name \in Scratch THEN "scratch" ELSE "host"]

\* Sandbox::workspace: created, canonical, a shell at or beneath a shell root as
\* the root resolves now; a private directory where none is lent.
AccessOf(workspace) ==
    IF workspace = None THEN "private"
    ELSE IF \E root \in ShellRoots : IsPrefix(Canon(root), Canon(workspace))
         THEN "shell" ELSE "read"

-----------------------------------------------------------------------------
\* Session::prepare, a step to an await.
Reach(from, to) == stage = from /\ stage' = to

MakeScratch ==
    /\ Reach("scratch", "cwd")
    /\ scratch' = TRUE
    /\ UNCHANGED <<proxyVars, grant, access, roots, env, handles, proc>>

Workspace(workspace) ==
    /\ Reach("cwd", "read")
    /\ access' = AccessOf(workspace)
    /\ UNCHANGED <<proxyVars, grant, roots, env, scratch, handles, proc>>

\* An error or a dropped future releases what was made so far: the scratch, and
\* the proxy once bound.
Release(to) ==
    /\ stage' = to /\ scratch' = FALSE
    /\ proxy' = (IF proxy = "bound" THEN "aborted" ELSE proxy)
    /\ UNCHANGED <<listed, own, connVars, grant, access, env, roots, handles, proc>>

ReadGrant ==
    /\ stage = "read"
    /\ IF ReadRoots(grant.read) = None
       THEN Release("denied")
       ELSE /\ Reach("read", "bind")
            /\ roots' = ReadRoots(grant.read)
            /\ UNCHANGED <<proxyVars, grant, access, env, scratch, handles, proc>>

\* Proxy::bind: the server accepts from here on.
Bind ==
    /\ Reach("bind", "env")
    /\ proxy' = "bound"
    /\ listed' = {EntryOf(text) : text \in grant.egress}
    /\ UNCHANGED <<own, connVars, grant, access, roots, env, scratch, handles, proc>>

Made ==
    /\ stage = "env"
    /\ IF Environment(grant.env) = None
       THEN Release("denied")
       ELSE /\ Reach("env", "made")
            /\ env' = Environment(grant.env)
            /\ handles' = 1
            /\ UNCHANGED <<proxyVars, grant, access, roots, scratch, proc>>

\* The host fails a step of the preparation, or its caller drops it.
Fails == stage \in {"scratch", "cwd", "read", "bind", "env"} /\ Release("failed")

-----------------------------------------------------------------------------
\* The handles on the session: the callers', and one in every command and process.
Holders == handles + Cardinality({p \in Procs : proc[p] \in {"command", "running"}})

\* Mutant of Settle: the processes' handles keep nothing.
SettleByCallers ==
    /\ scratch' = (handles' > 0)
    /\ proxy' = (IF handles' > 0 THEN proxy ELSE "aborted")
    /\ UNCHANGED <<listed, own, connVars, stage, grant, access, roots, env>>

\* Inner is dropped with the last handle: the scratch removed, the proxy aborted.
Settle ==
    /\ scratch' = (Holders' > 0)
    /\ proxy' = (IF Holders' > 0 THEN proxy ELSE "aborted")
    /\ UNCHANGED <<listed, own, connVars, stage, grant, access, roots, env>>

Clone ==
    /\ handles \in 1 .. MaxHandles - 1
    /\ handles' = handles + 1
    /\ UNCHANGED proc /\ Settle

DropClone ==
    /\ handles > 0
    /\ handles' = handles - 1
    /\ UNCHANGED proc /\ Settle

Turn(p, from, to) ==
    /\ proc[p] \in from
    /\ proc' = [proc EXCEPT ![p] = to]
    /\ UNCHANGED handles

\* Session::command: a program not on the PATH is refused and changes nothing.
Command(p) == handles > 0 /\ Turn(p, {"none"}, "command") /\ Settle

\* Command::spawn and Command::output take the command's handle with them.
Spawn(p) == Turn(p, {"command"}, "running") /\ Settle

\* The command is dropped, or its process is gone and reaped.
Ends(p) == Turn(p, {"command", "running"}, "gone") /\ Settle

SessionStep ==
    \/ MakeScratch \/ ReadGrant \/ Bind \/ Made \/ Fails \/ Clone \/ DropClone
    \/ \E workspace \in Workspaces : Workspace(workspace)
    \/ \E p \in Procs : Command(p) \/ Spawn(p) \/ Ends(p)

SessionNext ==
    \/ SessionStep
    \/ Interfaces /\ UNCHANGED sessionVars
    \/ \E c \in Conns : ConnStep(c) /\ UNCHANGED sessionVars

\* A cancelled task is dropped at its next await.
SessionFairness == \A c \in Conns : WF_boxVars(Cancel(c) /\ UNCHANGED sessionVars)

SessionSpec == SessionInit /\ [][SessionNext]_boxVars /\ SessionFairness

-----------------------------------------------------------------------------
SessionTypeOK ==
    /\ ProxyTypeOK
    /\ stage \in {"scratch", "cwd", "read", "bind", "env", "made", "denied", "failed"}
    /\ access \in {None, "private", "read", "shell"}
    /\ roots \subseteq Dirs
    /\ scratch \in BOOLEAN /\ handles \in 0 .. MaxHandles
    /\ \A p \in Procs : proc[p] \in {"none", "command", "running", "gone"}

\* Nothing a process may read under its grant lies in a credential store, whatever
\* links lead to the one or to the other.
StoresClosed ==
    \A root \in roots : \A at \in Dirs \cup Files :
        IsPrefix(root, at) =>
            \A s \in Stores : ~(Exists(Home \o s) /\ IsPrefix(Canon(Home \o s), at))

\* A process has its scratch and its proxy as long as it runs, whoever let go of
\* the session; and what was begun of a session that was denied, failed or let go
\* of is released.
LivesWithProcesses ==
    /\ (\E p \in Procs : proc[p] = "running") => scratch /\ proxy = "bound"
    /\ scratch \/ proxy = "bound" => Holders > 0 \/ stage \in {"cwd", "read", "bind", "env"}

SessionInv == SessionTypeOK /\ TunnelsVetted /\ StoresClosed /\ LivesWithProcesses

\* A proxy that was dropped ends, its open tunnels included.
TunnelsEnd ==
    \A c \in Conns : (proxy = "aborted" /\ pc[c] \in Open) ~> (pc[c] = "ended")

=============================================================================
