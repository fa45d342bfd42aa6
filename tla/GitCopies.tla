------------------------------ MODULE GitCopies ------------------------------
(***************************************************************************)
(* Which gitdir a place is addressed through. A client remembers the gitdir *)
(* each working copy it laid was given (worktrees of crates/git/src/lib.rs) *)
(* and runs every later process there under it, rather than through the    *)
(* .git file a guest lent the copy can rewrite (command.rs); add, remove,  *)
(* init and clone of vcs.rs keep the registry in separate steps from the   *)
(* git processes that lay and remove the copies. Nothing in the code holds *)
(* two operations at one place apart.                                      *)
(*                                                                         *)
(* git is external: it lays a copy in an empty place its repository has no *)
(* record of, under a gitdir named for the repository and the place, and   *)
(* removes one only through the gitdir that is the copy's own and that the *)
(* .git at its root still leads to. A process that is killed has done its  *)
(* work or none of it; what it may leave half done is what Rewrite and     *)
(* Wipe, the guest's steps, make of a copy.                                *)
(***************************************************************************)
EXTENDS GitValues

CONSTANTS
    Places, Repos,
    Calls,       \* operations in flight at a time
    EmptyPlace, OwnRepo, Foreign

GitDirs == Repos \X Places

ASSUME CopiesAssumption ==
    /\ None \notin {OwnRepo, Foreign} /\ EmptyPlace \notin {OwnRepo, Foreign} /\ OwnRepo # Foreign
    /\ {None, EmptyPlace, OwnRepo, Foreign} \cap GitDirs = {}

VARIABLES
    disk,        \* place -> EmptyPlace, or what was laid there: the gitdir of a
                 \* copy, a repository of its own, or the guest's files
    dot,         \* place -> where the .git at its root leads
    admin,       \* the gitdirs repositories keep for their copies
    worktrees,   \* the registry: place -> gitdir or None
    call,        \* call -> [kind, at, repo, pc, under, got]
    laid,        \* place -> the gitdir of the copy there that add has answered for
    clear        \* place -> whether the copy there was laid on clear ground (history)

copyVars == <<disk, dot, admin, worktrees, call, laid, clear>>

Kinds == {"add", "remove", "init", "clone"}
NoCall == [kind |-> "none", at |-> None, repo |-> None, pc |-> "idle", under |-> None, got |-> None]

CallShape ==
    [kind : Kinds \cup {"none"}, at : Places \cup {None}, repo : Repos \cup {None},
     pc : {"idle", "git", "laid", "reading", "read", "removed"},
     under : GitDirs \cup {None, OwnRepo, Foreign}, got : GitDirs \cup {None, OwnRepo, Foreign}]

CopiesTypeOK ==
    /\ disk \in [Places -> {EmptyPlace, OwnRepo, Foreign} \cup GitDirs]
    /\ dot \in [Places -> {None, OwnRepo, Foreign} \cup GitDirs]
    /\ admin \subseteq GitDirs
    /\ worktrees \in [Places -> GitDirs \cup {None, OwnRepo, Foreign}]
    /\ laid \in [Places -> GitDirs \cup {None}]
    /\ clear \in [Places -> BOOLEAN]
    /\ call \in [Calls -> CallShape]
    \* a place with nothing in it has no .git, and a repository records every
    \* copy that is there
    /\ \A p \in Places : disk[p] = EmptyPlace => dot[p] = None
    /\ \A p \in Places : disk[p] \in GitDirs => disk[p] \in admin

\* A client starts with nothing recorded, at places that hold what was left there.
CopiesStart(found) ==
    /\ disk = found
    /\ dot = [p \in Places |-> IF found[p] = EmptyPlace THEN None ELSE found[p]]
    /\ admin = {found[p] : p \in {v \in Places : found[v] \in GitDirs}}
    /\ worktrees = [p \in Places |-> None] /\ call = [c \in Calls |-> NoCall]
    /\ laid = [p \in Places |-> None] /\ clear = [p \in Places |-> FALSE]

NothingFound == [p \in Places |-> EmptyPlace]

CopiesInit ==
    \E found \in [Places -> {EmptyPlace, OwnRepo} \cup GitDirs] :
        /\ \A p \in Places : found[p] \in GitDirs => found[p] \in Repos \X {p}
        /\ CopiesStart(found)

----------------------------------------------------------------------------
On(c, kind, pc) == call[c].kind = kind /\ call[c].pc = pc
At(c) == call[c].at
New(c) == <<call[c].repo, At(c)>>
End(c) == call' = [call EXCEPT ![c] = NoCall]

\* Mutant of Flag: the .git at the root is looked for first.
FlagUnlessDot(p) == IF dot[p] # None THEN None ELSE worktrees[p]

\* Client::git: the --git-dir a process at the place is given, None where it
\* is left to search.
Flag(p) == worktrees[p]

\* Where git goes from the place: the gitdir it is given, else the .git at the
\* root, which is what the gitdir of a repository in the place is.
Through(p, flag) == IF flag \in {None, OwnRepo} THEN dot[p] ELSE flag

Gitdir(p) == Through(p, Flag(p))

\* Calls whose copy is laid or gone and which the registry is still to hear of.
Unrecorded(p) == {c \in Calls : At(c) = p /\ call[c].pc \in {"laid", "reading", "read", "removed"}}

\* The processes that only read (the pins, a URL's address) come before, and change
\* nothing here.
Asked(c, kind, p, r) ==
    /\ call[c].pc = "idle"
    /\ call' = [call EXCEPT ![c] = [NoCall EXCEPT !.kind = kind, !.at = p, !.repo = r, !.pc = "git",
                                                  !.under = IF kind = "remove" THEN Flag(p) ELSE None]]

\* add runs git in the repository, remove at the place.
AskCopy(c, kind, p, r) ==
    /\ kind \in {"add", "remove"}
    /\ Asked(c, kind, p, r)
    /\ UNCHANGED <<disk, dot, admin, worktrees, laid, clear>>

\* init refuses a place that has a .git.
Exists(p) == dot[p] # None

\* init and clone go through create, which forgets the place before git runs,
\* whatever is there.
AskCreate(c, kind, p) ==
    /\ kind = "init" => ~Exists(p)
    /\ Asked(c, kind, p, None)
    /\ worktrees' = [worktrees EXCEPT ![p] = None]
    /\ clear' = [clear EXCEPT ![p] = FALSE]
    /\ UNCHANGED <<disk, dot, admin, laid>>

----------------------------------------------------------------------------
(* add                                                                     *)

\* The ground is clear where the registry leads nowhere else and no other call
\* is still to change it.
AddWorktree(c) ==
    /\ On(c, "add", "git")
    /\ disk[At(c)] = EmptyPlace /\ New(c) \notin admin
    /\ disk' = [disk EXCEPT ![At(c)] = New(c)]
    /\ dot' = [dot EXCEPT ![At(c)] = New(c)]
    /\ admin' = admin \cup {New(c)}
    /\ clear' = [clear EXCEPT ![At(c)] = Flag(At(c)) \in {None, New(c)} /\ Unrecorded(At(c)) = {}]
    /\ call' = [call EXCEPT ![c].pc = "laid"]
    /\ UNCHANGED <<worktrees, laid>>

\* read_gitdir is a process at the place like any other, under what the registry
\* holds as it starts.
StartRead(c) ==
    /\ On(c, "add", "laid")
    /\ call' = [call EXCEPT ![c].pc = "reading", ![c].under = Flag(At(c))]
    /\ UNCHANGED <<disk, dot, admin, worktrees, laid, clear>>

ReadGitdir(c) ==
    /\ On(c, "add", "reading")
    /\ LET g == Through(At(c), call[c].under) IN
         /\ g \in admin \cup {OwnRepo, Foreign}
         /\ call' = [call EXCEPT ![c].pc = "read", ![c].under = None, ![c].got = g]
    /\ UNCHANGED <<disk, dot, admin, worktrees, laid, clear>>

Register(c) ==
    /\ On(c, "add", "read")
    /\ worktrees' = [worktrees EXCEPT ![At(c)] = call[c].got]
    /\ laid' = IF disk[At(c)] = New(c) THEN [laid EXCEPT ![At(c)] = New(c)] ELSE laid
    /\ End(c)
    /\ UNCHANGED <<disk, dot, admin, clear>>

----------------------------------------------------------------------------
(* remove                                                                  *)

RemoveWorktree(c) ==
    /\ On(c, "remove", "git")
    /\ disk[At(c)] \in GitDirs
    /\ dot[At(c)] = disk[At(c)] /\ Through(At(c), call[c].under) = disk[At(c)]
    /\ disk' = [disk EXCEPT ![At(c)] = EmptyPlace]
    /\ dot' = [dot EXCEPT ![At(c)] = None]
    /\ admin' = admin \ {disk[At(c)]}
    /\ laid' = [laid EXCEPT ![At(c)] = None]
    /\ clear' = [clear EXCEPT ![At(c)] = FALSE]
    /\ call' = [call EXCEPT ![c].pc = "removed", ![c].under = None]
    /\ UNCHANGED worktrees

Forget(c) ==
    /\ On(c, "remove", "removed")
    /\ worktrees' = [worktrees EXCEPT ![At(c)] = None]
    /\ End(c)
    /\ UNCHANGED <<disk, dot, admin, laid, clear>>

----------------------------------------------------------------------------
(* init and clone                                                          *)

\* A repository of its own: clone asks for an empty place, init for none.
Create(c) ==
    /\ call[c].kind \in {"init", "clone"} /\ call[c].pc = "git"
    /\ dot[At(c)] = None /\ (call[c].kind = "clone" => disk[At(c)] = EmptyPlace)
    /\ disk' = [disk EXCEPT ![At(c)] = OwnRepo]
    /\ dot' = [dot EXCEPT ![At(c)] = OwnRepo]
    /\ laid' = [laid EXCEPT ![At(c)] = None]
    /\ clear' = [clear EXCEPT ![At(c)] = FALSE]
    /\ End(c)
    /\ UNCHANGED <<admin, worktrees>>

\* git ends and changes nothing: it refuses, or init finds a .git that has come
\* since. A future that is dropped ends at whatever it has got to.
Ends(c) ==
    /\ call[c].pc # "idle"
    /\ End(c)
    /\ UNCHANGED <<disk, dot, admin, worktrees, laid, clear>>

----------------------------------------------------------------------------
(* The guest the place was lent to.                                        *)

\* A .git of its own at the root, or none. The ground of a copy whose add is still
\* to read the .git is not clear.
Rewrite(p, to) ==
    /\ to \in {Foreign, None}
    /\ disk[p] # EmptyPlace \/ to = Foreign
    /\ dot' = [dot EXCEPT ![p] = to]
    /\ disk' = [disk EXCEPT ![p] = IF @ = EmptyPlace THEN Foreign ELSE @]
    /\ clear' = [clear EXCEPT ![p] = @ /\ \A c \in Unrecorded(p) : call[c].pc \notin {"laid", "reading"}]
    /\ UNCHANGED <<admin, worktrees, call, laid>>

\* Everything in the place is gone; the repository's record of a copy stays.
Wipe(p) ==
    /\ disk[p] # EmptyPlace
    /\ disk' = [disk EXCEPT ![p] = EmptyPlace]
    /\ dot' = [dot EXCEPT ![p] = None]
    /\ laid' = [laid EXCEPT ![p] = None]
    /\ clear' = [clear EXCEPT ![p] = FALSE]
    /\ UNCHANGED <<admin, worktrees, call>>

CopiesNext ==
    \/ \E c \in Calls, kind \in {"add", "remove"}, p \in Places, r \in Repos : AskCopy(c, kind, p, r)
    \/ \E c \in Calls, kind \in {"init", "clone"}, p \in Places : AskCreate(c, kind, p)
    \/ \E c \in Calls :
         \/ AddWorktree(c) \/ StartRead(c) \/ ReadGitdir(c) \/ Register(c)
         \/ RemoveWorktree(c) \/ Forget(c) \/ Create(c) \/ Ends(c)
    \/ \E p \in Places, to \in {Foreign, None} : Rewrite(p, to)
    \/ \E p \in Places : Wipe(p)

CopiesSpec == CopiesInit /\ [][CopiesNext]_copyVars

----------------------------------------------------------------------------
(* Properties                                                              *)

\* A working copy that add has answered for, laid on clear ground, and at which no
\* init or clone was asked for since, is addressed through the gitdir it was laid
\* under, a gitdir its repository keeps: whatever other calls there do or are
\* dropped at, and whatever the guest makes of the .git at its root once add has
\* read it.
OwnGitdir ==
    \A p \in Places :
        laid[p] # None /\ clear[p] => Gitdir(p) = laid[p] /\ laid[p] \in admin \cap {disk[p]}

\* A copy is addressed through its own gitdir.
CopiesInv == CopiesTypeOK /\ OwnGitdir

\* A working copy that add has answered for is in the registry, but for a create
\* that is under way (command.rs: one the client laid is "addressed through the
\* gitdir add recorded, never through the .git file at its root").
CopyRemembered ==
    \A p \in Places :
        laid[p] # None /\ (\A c \in Calls : At(c) = p => call[c].kind \notin {"init", "clone"})
            => worktrees[p] # None

\* What the registry holds for a copy is "the gitdir git laid the working copy at
\* `at` with" (vcs.rs, read_gitdir).
RecordedAsLaid == \A p \in Places : laid[p] # None => worktrees[p] \in {None, laid[p]}
=============================================================================
