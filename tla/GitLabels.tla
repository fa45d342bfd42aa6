------------------------------ MODULE GitLabels ------------------------------
(***************************************************************************)
(* Labels: the branches of one repository as label, labelled, fetched,     *)
(* fetch and push of crates/git/src/vcs.rs read and move them, each a      *)
(* sequence of git processes, while working copies commit, other calls run *)
(* and others push to the same remote. A refusal is typed by the phrases   *)
(* git said (vcs/refusal.rs).                                              *)
(*                                                                         *)
(* git itself is external. Commits are model values of a fixed history;    *)
(* a commit is made by a working copy or by the others at the remote.      *)
(***************************************************************************)
EXTENDS GitValues

CONSTANTS
    Names, Main,    \* labels, and the branch the repository's own place is on
    Worktrees, Place,  \* working copies; the repository's own place among them
    Commits, Root,  \* commits, and the first
    Parent,         \* commit -> its parent, None for Root
    Requests,       \* calls under way at a time
    MaxRequests     \* bound: calls, and rewrites by others

ASSUME LabelsAssumption ==
    /\ Main \in Names /\ Place \in Worktrees /\ Root \in Commits /\ MaxRequests \in Nat
    /\ Parent \in [Commits -> Commits \cup {None}] /\ None \notin Names \cup Commits

VARIABLES
    branch,   \* refs/heads: label -> commit or None
    tracked,  \* refs/remotes: label -> commit or None, as last fetched or pushed
    remote,   \* the remote's own branches
    heads,    \* working copy -> the branch it is on, or None, and its commit when detached
    request,  \* the calls under way and their locals
    asked,    \* how many calls, and rewrites by others
    made,     \* commits that exist
    sealed,   \* history: per working copy, the commits made there
    held      \* history: per label of the remote, what it held since others rewrote it

repoVars == <<branch, tracked, heads, made, sealed>>
labelVars == <<repoVars, remote, held, request, asked>>

NoRequest == [kind |-> "none", copy |-> Place, name |-> Main, rev |-> "HEAD", known |-> TRUE,
              pc |-> "idle", got |-> None, answer |-> "none"]

\* The commit a working copy is on: None on an unborn branch.
CommitAt(w) == IF heads[w].on # None THEN branch[heads[w].on] ELSE heads[w].at

\* A history holds the parent of each of its commits; that of b, what every history
\* that holds b does.
Histories == {s \in SUBSET Commits : \A d \in s : Parent[d] # None => Parent[d] \in s}
Ancestors == [b \in Commits |-> {a \in Commits : \A s \in Histories : b \in s => a \in s}]

\* Whether b's history holds a.
Reaches(b, a) == b # None /\ a \in Ancestors[b]

\* The repository's place is on its branch, born or not; `add` lays the others detached.
LabelsStart(born) ==
    /\ branch = [n \in Names |-> IF n = Main /\ born THEN Root ELSE None]
    /\ tracked = [n \in Names |-> IF n = Main THEN Root ELSE None]
    /\ remote = tracked
    /\ heads = [w \in Worktrees |-> [on |-> IF w = Place THEN Main ELSE None, at |-> Root]]
    /\ request = [c \in Requests |-> NoRequest] /\ asked = 0
    /\ made = {Root} /\ sealed = [w \in Worktrees |-> {}]
    /\ held = [n \in Names |-> {remote[n]} \ {None}]

LabelsInit == \E born \in BOOLEAN : LabelsStart(born)

-------------------------------------------------------------------------------
(* What git says and how it is typed.                                        *)

\* classify: the first class one of whose phrases was said. An unknown remote
\* is said in the phrases of two, and is not found.
Classify(said) ==
    CASE "not a repository" \in said -> "not a repository"
      [] said \cap {"not a repository", "exists"} = {"exists"} -> "exists"
      [] said \cap {"not a repository", "exists", "diverged"} = {"diverged"} -> "diverged"
      [] said \cap {"not a repository", "exists", "diverged", "not found"} = {"not found"} -> "not found"
      [] said = {"access"} -> "access"
      [] OTHER -> "other"

\* refuse: only a push is ever diverged.
Refuse(said, push) == IF Classify(said) = "diverged" /\ ~push THEN "other" ELSE Classify(said)

\* refuse_push: not found is the label where no refspec names it, else the remote.
RefusePush(said) ==
    IF Refuse(said, TRUE) # "not found" THEN Refuse(said, TRUE)
    ELSE IF "access" \in said THEN "no remote" ELSE "no label"

-------------------------------------------------------------------------------
AskLabel(c, kind, w, n, rev, known) ==
    /\ request[c].pc = "idle" /\ asked < MaxRequests
    /\ asked' = asked + 1
    /\ request' = [request EXCEPT ![c] = [NoRequest EXCEPT !.kind = kind, !.copy = w, !.name = n, !.rev = rev,
                                                   !.known = known, !.pc = "first"]]
    /\ UNCHANGED <<repoVars, remote, held>>

Doing(c, kind, pc) == request[c].kind = kind /\ request[c].pc = pc
LabelGoto(c, pc) == request' = [request EXCEPT ![c].pc = pc]
LabelAnswer(c, a) == request' = [request EXCEPT ![c] = [NoRequest EXCEPT !.answer = a]]

\* A process that does not start, or fails for a reason of its own.
LabelFails(c) ==
    /\ request[c].pc # "idle" /\ LabelAnswer(c, "error")
    /\ UNCHANGED <<repoVars, remote, held, asked>>

\* rev_parse: an unknown revision is not found.
RevParse(c) ==
    /\ Doing(c, "label", "first")
    /\ LET at == IF request[c].rev = "HEAD" THEN CommitAt(request[c].copy) ELSE branch[request[c].rev] IN
       \/ at = None /\ LabelAnswer(c, "not found")
       \/ at # None /\ request' = [request EXCEPT ![c].got = at, ![c].pc = "symbolic"]
    /\ UNCHANGED <<repoVars, remote, held, asked>>

\* detach_from reads what HEAD is on.
SymbolicRef(c) ==
    /\ Doing(c, "label", "symbolic")
    /\ LabelGoto(c, IF heads[request[c].copy].on = request[c].name THEN "detach" ELSE "branch")
    /\ UNCHANGED <<repoVars, remote, held, asked>>

\* checkout --detach: the copy stays on its commit; an unborn branch has none.
Detach(c) ==
    /\ Doing(c, "label", "detach")
    /\ LET w == request[c].copy IN
       \/ CommitAt(w) = None /\ LabelAnswer(c, "other") /\ UNCHANGED heads
       \/ /\ CommitAt(w) # None /\ LabelGoto(c, "branch")
          /\ heads' = [heads EXCEPT ![w] = [on |-> None, at |-> CommitAt(w)]]
    /\ UNCHANGED <<branch, tracked, made, sealed, remote, held, asked>>

\* Mutant of ForceBranch: the ref is written whoever has it checked out.
ForceRef(c) ==
    /\ Doing(c, "label", "branch")
    /\ branch' = [branch EXCEPT ![request[c].name] = request[c].got] /\ LabelAnswer(c, "ok")
    /\ UNCHANGED <<tracked, heads, made, sealed, remote, held, asked>>

\* branch -f, which git refuses while a working copy is on the branch.
ForceBranch(c) ==
    /\ Doing(c, "label", "branch")
    /\ \/ /\ \E w \in Worktrees : heads[w].on = request[c].name
          /\ LabelAnswer(c, Refuse({}, FALSE)) /\ UNCHANGED branch
       \/ /\ \A w \in Worktrees : heads[w].on # request[c].name
          /\ branch' = [branch EXCEPT ![request[c].name] = request[c].got] /\ LabelAnswer(c, "ok")
    /\ UNCHANGED <<tracked, heads, made, sealed, remote, held, asked>>

\* labelled: read_ref of refs/heads/<name>, by its exact path.
Labelled(c) ==
    /\ Doing(c, "labelled", "first")
    /\ LabelAnswer(c, IF branch[request[c].name] = None THEN "no label" ELSE "ok")
    /\ UNCHANGED <<repoVars, remote, held, asked>>

\* fetched: read_ref of refs/remotes/<remote>/<name>; where there is none, the
\* remote or the label is what is not found.
Fetched(c) ==
    /\ Doing(c, "fetched", "first")
    /\ IF request[c].known /\ tracked[request[c].name] # None THEN LabelAnswer(c, "ok") ELSE LabelGoto(c, "remote")
    /\ UNCHANGED <<repoVars, remote, held, asked>>

HasRemote(c) ==
    /\ Doing(c, "fetched", "remote")
    /\ LabelAnswer(c, IF request[c].known THEN "no label" ELSE "no remote")
    /\ UNCHANGED <<repoVars, remote, held, asked>>

\* fetch: the remote's branches as they are now.
Fetch(c) ==
    /\ Doing(c, "fetch", "first")
    /\ \/ /\ request[c].known /\ LabelAnswer(c, "ok")
          /\ tracked' = [n \in Names |-> IF remote[n] = None THEN tracked[n] ELSE remote[n]]
       \/ /\ ~request[c].known /\ LabelAnswer(c, Refuse({"not found", "access"}, FALSE))
          /\ UNCHANGED tracked
    /\ UNCHANGED <<branch, heads, made, sealed, remote, held, asked>>

\* push of refs/heads/<label> to the same name, never forced.
Push(c) ==
    /\ Doing(c, "push", "first")
    /\ LET n == request[c].name
           fast == remote[n] = None \/ Reaches(branch[n], remote[n]) IN
       \/ /\ request[c].known /\ branch[n] # None /\ fast
          /\ remote' = [remote EXCEPT ![n] = branch[n]]
          /\ tracked' = [tracked EXCEPT ![n] = branch[n]]
          /\ held' = [held EXCEPT ![n] = @ \cup {branch[n]}]
          /\ LabelAnswer(c, "ok")
       \/ /\ \/ ~request[c].known /\ LabelAnswer(c, RefusePush({"not found", "access"}))
             \/ request[c].known /\ branch[n] = None /\ LabelAnswer(c, RefusePush({"not found"}))
             \/ request[c].known /\ branch[n] # None /\ ~fast /\ LabelAnswer(c, RefusePush({"diverged"}))
          /\ UNCHANGED <<tracked, remote, held>>
    /\ UNCHANGED <<branch, heads, made, sealed, asked>>

-------------------------------------------------------------------------------
\* A commit at a working copy moves the branch it is on, or the copy alone.
Commit(w) ==
    /\ \E d \in Commits \ made :
         /\ Parent[d] = CommitAt(w)
         /\ made' = made \cup {d} /\ sealed' = [sealed EXCEPT ![w] = @ \cup {d}]
         /\ \/ /\ heads[w].on # None /\ branch' = [branch EXCEPT ![heads[w].on] = d]
               /\ UNCHANGED heads
            \/ /\ heads[w].on = None /\ heads' = [heads EXCEPT ![w].at = d]
               /\ UNCHANGED branch
    /\ UNCHANGED <<tracked, remote, held, request, asked>>

\* Others rewrite a branch of the remote.
Others(n) ==
    /\ asked < MaxRequests /\ asked' = asked + 1
    /\ \E d \in Commits :
         /\ remote' = [remote EXCEPT ![n] = d] /\ made' = made \cup {d}
         /\ held' = [held EXCEPT ![n] = {d}]
    /\ UNCHANGED <<branch, tracked, heads, sealed, request>>

LabelsNext ==
    \/ \E c \in Requests :
         \/ \E n \in Names :
              \/ \E w \in Worktrees, rev \in Names \cup {"HEAD"} : AskLabel(c, "label", w, n, rev, TRUE)
              \/ AskLabel(c, "labelled", Place, n, "HEAD", TRUE)
              \/ \E kind \in {"fetched", "fetch", "push"}, known \in BOOLEAN :
                   AskLabel(c, kind, Place, n, "HEAD", known)
         \/ LabelFails(c) \/ RevParse(c) \/ SymbolicRef(c) \/ Detach(c) \/ ForceBranch(c)
         \/ Labelled(c) \/ Fetched(c) \/ HasRemote(c) \/ Fetch(c) \/ Push(c)
    \/ \E w \in Worktrees : Commit(w)
    \/ \E n \in Names : Others(n)

LabelsSpec == LabelsInit /\ [][LabelsNext]_labelVars

-------------------------------------------------------------------------------
\* Refs hold commits that exist, and a detached copy is on one.
LabelsTypeOK ==
    /\ \A n \in Names : {branch[n], tracked[n], remote[n]} \subseteq made \cup {None}
    /\ \A w \in Worktrees : heads[w].on \in Names \cup {None} /\ heads[w].at \in made
    /\ made \subseteq Commits /\ asked \in 0 .. MaxRequests
    /\ \A c \in Requests : request[c].pc \in {"idle", "first", "symbolic", "detach", "branch", "remote"}

\* detach_from: a working copy stays on what it sealed, wherever the labels are
\* moved, and through whichever working copy, while it commits.
CopiesStay == \A w \in Worktrees : \A d \in sealed[w] : Reaches(CommitAt(w), d)

\* push: no push takes from the remote's label a commit that others, or an earlier
\* push, put there.
RemoteKeeps == \A n \in Names : \A d \in held[n] : Reaches(remote[n], d)

\* Labels move under nobody, here or at the remote.
LabelsInv == LabelsTypeOK /\ CopiesStay /\ RemoteKeeps

==============================================================================
