------------------------------ MODULE GitMerge ------------------------------
(***************************************************************************)
(* Committing and merging in one working copy, one git process at a time   *)
(* (commit and merge of crates/git/src/vcs.rs, the policy's resolution in  *)
(* vcs/policy.rs, the process runner of command.rs). A merge is begun held *)
(* before its commit, its paths are settled by the policy, and it is       *)
(* sealed or unwound; every one of those is a process that may not start,  *)
(* may refuse, or may be killed with the future that waits for it.         *)
(*                                                                         *)
(* git itself is external: a tree is a function from paths to contents, a  *)
(* merge is the three-way merge of trees with exact renames followed, and  *)
(* where two sides changed a content differently git leaves a conflict or, *)
(* as hunks and attributes have it, merges them cleanly. Contents are      *)
(* model values, or the pair or triple they were combined from.            *)
(***************************************************************************)
EXTENDS GitValues, Sequences

CONSTANTS
    Paths, Revs,        \* paths; revisions that can be merged
    BaseTree,           \* the common ancestor of the head and every revision
    HeadTrees, RevTrees,  \* trees the head, and the revisions, may hold
    Policies,           \* sequences of rules [paths, strategy]
    Edited, Markers,    \* contents the guest, and git at a conflict, write
    MergeTerms          \* what a behaviour may be of, below

\* What a path that is not there holds, and what the index does of an unmerged one.
NoBlob == <<"absent">>
Conflict == <<"unmerged">>

Faults == {"write", "probe", "abort", "drop", "killed"}

\* A behaviour's revisions, what may go wrong in it beyond a step that fails, and the
\* bounds on the operations asked for and the guest's writes.
ASSUME MergeAssumption ==
    /\ None \notin Revs /\ None # BaseTree /\ Conflict \notin {Edited, Markers}
    /\ \A t \in HeadTrees \cup RevTrees \cup {BaseTree} :
         t = [p \in Paths |-> t[p]] /\ \A p \in Paths : t[p] # Conflict
    /\ \A policy \in Policies :
         /\ policy = [i \in 1 .. Len(policy) |-> policy[i]] /\ Len(policy) \in Nat
         /\ \A i \in 1 .. Len(policy) : policy[i].strategy \in {"ours", "theirs", "union"}
    /\ \A t \in MergeTerms :
         t.revs \subseteq Revs /\ t.faults \subseteq Faults /\ t.ops \in Nat /\ t.edits \in Nat

VARIABLES
    terms,      \* what this behaviour is of
    head,       \* [tree, has]: the head commit's tree, the revisions in it
    index,      \* path -> content staged, Conflict for an unmerged path
    work,       \* path -> content in the working tree
    mergeHead,  \* MERGE_HEAD: the revision a merge in progress takes
    theirs,     \* revision -> its tree
    op,         \* the operation under way and its locals
    ops, edits, \* how many were asked, how often the guest wrote
    start       \* head, work and mergeHead when the operation was asked

mergeVars == <<terms, head, index, work, mergeHead, theirs, op, ops, edits, start>>
treeVars == <<head, index, work, mergeHead, theirs>>

Idle == [kind |-> "none", rev |-> None, policy |-> <<>>, pc |-> "idle", clean |-> FALSE,
         base |-> None, todo |-> {}, path |-> None, blob |-> NoBlob, answer |-> "none",
         conflicts |-> {}]

Steps == {"idle", "status", "addAll", "commitAll", "open", "resolve", "merge", "probe", "readHead",
          "base", "touched", "next", "show", "lay", "stage", "rm", "conflicts",
          "seal", "sealed", "abort", "answered"}

\* Only the index holds unmerged paths, and only while a merge is in
\* progress; the operation's step and answer are of their kinds.
MergeTypeOK ==
    /\ head.has \subseteq Revs /\ mergeHead \in Revs \cup {None}
    /\ DOMAIN index = Paths /\ DOMAIN work = Paths /\ DOMAIN head.tree = Paths
    /\ \A p \in Paths : Conflict \notin {work[p], head.tree[p]}
    /\ mergeHead = None => \A p \in Paths : index[p] # Conflict
    /\ op.pc \in Steps /\ op.todo \subseteq Paths /\ op.conflicts \subseteq Paths
    /\ op.kind \in {"none", "commit", "merge"}
    /\ op.answer \in {"none", "commit", "nothing", "conflicts", "error", "dropped"}
    /\ op.answer = "none" <=> op.pc # "answered"
    /\ ops \in 0 .. terms.ops /\ edits \in 0 .. terms.edits

MergeStart(tree, trees) ==
    /\ terms \in MergeTerms
    /\ head = [tree |-> tree, has |-> {}]
    /\ index = head.tree /\ work = head.tree
    /\ mergeHead = None
    /\ theirs = trees
    /\ op = Idle /\ ops = 0 /\ edits = 0
    /\ start = [tree |-> head.tree, has |-> {}, work |-> head.tree, mergeHead |-> None]

MergeInit == \E tree \in HeadTrees, t \in MergeTerms : \E trees \in [t.revs -> RevTrees] :
                terms = t /\ MergeStart(tree, trees)

----------------------------------------------------------------------------
(* git: how it merges trees.                                               *)

\* A side's exact renames since the base, as diff --find-renames lists them.
Renames(t) ==
    {r \in Paths \X Paths :
        /\ BaseTree[r[1]] # NoBlob /\ t[r[1]] = NoBlob
        /\ BaseTree[r[2]] = NoBlob /\ t[r[2]] = BaseTree[r[1]]}

\* What a content may come to when both sides may have changed it.
Three(b, o, t) ==
    IF o = t \/ t = b THEN {o}
    ELSE IF o = b THEN {t}
    ELSE IF NoBlob \in {b, o, t} THEN {Conflict}
    ELSE {Conflict, <<"mixed", o, t>>}

\* The merged contents of path p: a change to a renamed path follows it, and
\* one that cannot is a conflict at the new name.
Outcomes(o, t, p) ==
    LET mine == Renames(o) yours == Renames(t)
        oldTo(rs) == {r[1] : r \in {s \in rs : s[2] = p}}
        Follow(old, other, kept) ==
            IF other[p] # NoBlob \/ other[old] = NoBlob THEN {Conflict} ELSE {kept}
    IN  IF \E r \in mine, s \in yours : r[1] = s[1] /\ r # s /\ p \in {r[1], r[2], s[2]}
          THEN {Conflict}
        ELSE IF mine \cap yours # {} /\ p \in UNION {{r[1], r[2]} : r \in mine \cap yours}
          THEN {o[p]}
        ELSE IF oldTo(yours) # {} THEN LET old == CHOOSE x \in oldTo(yours) : TRUE
                                       IN  Follow(old, o, o[old])
        ELSE IF oldTo(mine) # {} THEN LET old == CHOOSE x \in oldTo(mine) : TRUE
                                      IN  Follow(old, t, t[old])
        ELSE IF p \in {r[1] : r \in mine \cup yours} THEN {NoBlob}
        ELSE Three(BaseTree[p], o[p], t[p])

Merges(o, t) == {m \in [Paths -> UNION {Outcomes(o, t, p) : p \in Paths}] :
                    \A p \in Paths : m[p] \in Outcomes(o, t, p)}

----------------------------------------------------------------------------
(* The guest: it asks, and it writes in the working tree.                  *)

AskOp(kind, rev, policy) ==
    /\ op.pc \in {"idle", "answered"} /\ ops < terms.ops
    /\ op' = [Idle EXCEPT !.kind = kind, !.rev = rev, !.policy = policy, !.pc = "open"]
    /\ start' = [tree |-> head.tree, has |-> head.has, work |-> work, mergeHead |-> mergeHead]
    /\ ops' = ops + 1
    /\ UNCHANGED <<terms, treeVars, edits>>

Edit(p) ==
    /\ op.pc \in {"idle", "answered"} /\ edits < terms.edits
    /\ work' = [work EXCEPT ![p] = Edited]
    /\ op' = Idle
    /\ edits' = edits + 1
    /\ UNCHANGED <<terms, head, index, mergeHead, theirs, ops, start>>

----------------------------------------------------------------------------
(* Answering.                                                              *)

Answer(a) == op' = [op EXCEPT !.pc = "answered", !.answer = a]
Goto(step) == op' = [op EXCEPT !.pc = step]
Kept == UNCHANGED <<terms, ops, edits, start>>

\* A step of seal_merge that fails unwinds; one before it is the error.
Fail ==
    IF op.pc \in {"base", "touched", "show", "lay", "stage", "rm", "conflicts", "seal", "sealed"}
      THEN op' = [op EXCEPT !.pc = "abort", !.answer = "none", !.conflicts = {}]
      ELSE Answer("error")

\* A process that does not start, or whose exit is not a success where the
\* code holds it to one. Laying a path, and staging it once it is laid, the
\* probe for a merge and the abort are faults of their own.
StepFails ==
    /\ op.pc \in Steps \ {"idle", "answered", "next", "lay", "stage", "probe", "abort"}
    /\ Fail
    /\ UNCHANGED treeVars /\ Kept

\* The future is dropped: the process dies with it, and nothing unwinds.
DropOp ==
    /\ "drop" \in terms.faults
    /\ op.pc \notin {"idle", "answered"}
    /\ Answer("dropped")
    /\ UNCHANGED treeVars /\ Kept

----------------------------------------------------------------------------
(* Client::commit                                                          *)

\* Pins::read, the listing that fails to read included.
Open ==
    /\ op.pc = "open"
    /\ Goto(IF op.kind = "commit" THEN "status" ELSE "resolve")
    /\ UNCHANGED treeVars /\ Kept

Status ==
    /\ op.pc = "status"
    /\ IF work = index /\ index = head.tree THEN Answer("nothing") ELSE Goto("addAll")
    /\ UNCHANGED treeVars /\ Kept

AddAll ==
    /\ op.pc = "addAll"
    /\ index' = work
    /\ Goto("commitAll")
    /\ UNCHANGED <<head, work, mergeHead, theirs>> /\ Kept

\* git commit: it refuses an unmerged index, and nothing to commit.
GitCommit ==
    /\ \A p \in Paths : index[p] # Conflict
    /\ index # head.tree \/ mergeHead # None
    /\ head' = [tree |-> index,
                has |-> head.has \cup (IF mergeHead = None THEN {} ELSE {mergeHead})]
    /\ mergeHead' = None
    /\ UNCHANGED <<index, work, theirs>>

CommitAll ==
    /\ op.pc = "commitAll"
    /\ GitCommit
    /\ Goto("readHead")
    /\ Kept

----------------------------------------------------------------------------
(* Client::merge and Repo::begin_merge                                     *)

Resolve ==
    /\ op.pc = "resolve"
    /\ Goto("merge")
    /\ UNCHANGED treeVars /\ Kept

\* git merge --no-commit starts: it takes no other merge in progress, nothing
\* staged and no pending change in what it would write.
MergeStarts ==
    /\ op.pc = "merge"
    /\ mergeHead = None /\ op.rev \notin head.has /\ index = head.tree
    /\ \E m \in Merges(head.tree, theirs[op.rev]) :
         /\ \A p \in Paths : m[p] # head.tree[p] => work[p] = index[p]
         /\ index' = m
         /\ work' = [p \in Paths |-> IF m[p] = head.tree[p] THEN work[p]
                                     ELSE IF m[p] = Conflict THEN Markers ELSE m[p]]
         /\ op' = [op EXCEPT !.pc = "probe", !.clean = \A p \in Paths : m[p] # Conflict]
    /\ mergeHead' = op.rev
    /\ UNCHANGED <<head, theirs>> /\ Kept

\* An ancestor: git says so, and starts nothing.
MergeUpToDate ==
    /\ op.pc = "merge" /\ mergeHead = None /\ op.rev \in head.has
    /\ op' = [op EXCEPT !.pc = "probe", !.clean = TRUE]
    /\ UNCHANGED treeVars /\ Kept

\* git refuses, whatever the reason; a merge in progress is one.
MergeRefused ==
    /\ op.pc = "merge"
    /\ op' = [op EXCEPT !.pc = "probe", !.clean = FALSE]
    /\ UNCHANGED treeVars /\ Kept

\* merging: MERGE_HEAD decides, before git's exit does.
Probed ==
    /\ op.pc = "probe"
    /\ IF mergeHead # None THEN Goto("base")
       ELSE IF op.clean THEN Goto("readHead") ELSE Answer("error")
    /\ UNCHANGED treeVars /\ Kept

ProbeFails ==
    /\ "probe" \in terms.faults
    /\ op.pc = "probe"
    /\ Answer("error")
    /\ UNCHANGED treeVars /\ Kept

\* rev_parse HEAD: the commit the operation answers with.
ReadHead ==
    /\ op.pc = "readHead"
    /\ Answer("commit")
    /\ UNCHANGED treeVars /\ Kept

----------------------------------------------------------------------------
(* policy.rs: the paths a rule resolves                                    *)

MergeBase ==
    /\ op.pc = "base"
    /\ \/ op' = [op EXCEPT !.pc = "touched", !.base = BaseTree]
       \/ "killed" \in terms.faults /\ op' = [op EXCEPT !.pc = "touched", !.base = None]
    /\ UNCHANGED treeVars /\ Kept

\* diff_tree: the paths one tree changed of another, and its renames.
Diff(from, to) == {p \in Paths : from[p] # to[p]}

\* TreeDiff::shared: a path one side renamed and the other changed is the
\* new name too.
Shared(o, t) ==
    LET ours == Diff(BaseTree, o) yours == Diff(BaseTree, t) IN
    (ours \cap yours)
      \cup {r[2] : r \in {s \in Renames(o) : s[1] \in yours}}
      \cup {r[2] : r \in {s \in Renames(t) : s[1] \in ours}}

Touched(base) ==
    LET t == theirs[mergeHead] IN
    IF base = None THEN Diff(head.tree, t) ELSE Shared(head.tree, t)

\* rule_for: the first rule that names the path.
RuleFor(p, policy) ==
    LET naming == {i \in DOMAIN policy : p \in policy[i].paths} IN
    IF naming = {} THEN "none"
    ELSE policy[CHOOSE i \in naming : \A k \in naming : i <= k].strategy

Ruled(paths) == {p \in paths : RuleFor(p, op.policy) # "none"}

ReadTouched ==
    /\ op.pc = "touched"
    /\ op' = [op EXCEPT !.pc = "next", !.todo = Ruled(Touched(op.base))]
    /\ UNCHANGED treeVars /\ Kept

NextPath ==
    /\ op.pc = "next"
    /\ IF op.todo = {} THEN Goto("conflicts")
       ELSE \E p \in op.todo :
              op' = [op EXCEPT !.pc = "show", !.path = p, !.todo = @ \ {p}]
    /\ UNCHANGED treeVars /\ Kept

\* keep: one side's version, whole.
Keep(side, p) == IF side = "ours" THEN head.tree[p] ELSE theirs[mergeHead][p]

\* union: the lines of both, over the ancestor's, nothing where there is none.
Union(p) == <<"union", IF op.base = None THEN NoBlob ELSE BaseTree[p], Keep("ours", p), Keep("theirs", p)>>

\* apply: the content the rule lays over the path.
Chosen(p) ==
    IF RuleFor(p, op.policy) = "union" THEN Union(p) ELSE Keep(RuleFor(p, op.policy), p)

\* A show that is no success is read as a commit that lacks the path.
Show ==
    /\ op.pc = "show"
    /\ \E blob \in {Chosen(op.path)} \cup (IF "killed" \in terms.faults THEN {NoBlob} ELSE {}) :
         op' = [op EXCEPT !.pc = IF blob = NoBlob THEN "rm" ELSE "lay", !.blob = blob]
    /\ UNCHANGED treeVars /\ Kept

Lay ==
    /\ op.pc = "lay"
    /\ work' = [work EXCEPT ![op.path] = op.blob]
    /\ Goto("stage")
    /\ UNCHANGED <<head, index, mergeHead, theirs>> /\ Kept

\* Mutant of Stage: the path is laid and never staged.
StageNot ==
    /\ op.pc = "stage"
    /\ Goto("next")
    /\ UNCHANGED treeVars /\ Kept

Stage ==
    /\ op.pc = "stage"
    /\ index' = [index EXCEPT ![op.path] = work[op.path]]
    /\ Goto("next")
    /\ UNCHANGED <<head, work, mergeHead, theirs>> /\ Kept

\* A write cut short, or a path laid that git would not stage.
LayFails ==
    /\ "write" \in terms.faults
    /\ op.pc \in {"lay", "stage"}
    /\ work' = [work EXCEPT ![op.path] = IF op.pc = "lay" THEN Edited ELSE @]
    /\ Fail
    /\ UNCHANGED <<head, index, mergeHead, theirs>> /\ Kept

Remove ==
    /\ op.pc = "rm"
    /\ index' = [index EXCEPT ![op.path] = NoBlob]
    /\ work' = [work EXCEPT ![op.path] = NoBlob]
    /\ Goto("next")
    /\ UNCHANGED <<head, mergeHead, theirs>> /\ Kept

----------------------------------------------------------------------------
(* seal_merge                                                              *)

Unmerged == {p \in Paths : index[p] = Conflict}

Conflicts ==
    /\ op.pc = "conflicts"
    /\ op' = IF Unmerged = {} THEN [op EXCEPT !.pc = "seal"]
             ELSE [op EXCEPT !.pc = "abort", !.conflicts = Unmerged]
    /\ UNCHANGED treeVars /\ Kept

Seal ==
    /\ op.pc = "seal"
    /\ GitCommit
    /\ Goto("sealed")
    /\ Kept

Sealed ==
    /\ op.pc = "sealed"
    /\ Answer("commit")
    /\ UNCHANGED treeVars /\ Kept

\* git merge --abort, a reset --merge: it will not write over a path staged
\* one way and laid another.
AbortTakes ==
    /\ mergeHead # None
    /\ \A p \in Paths : index[p] \in {Conflict, head.tree[p]} \/ work[p] = index[p]

Outcome == IF op.conflicts = {} THEN "error" ELSE "conflicts"

\* Mutant of Abort: the unwinding left out where the merge came to conflicts.
AbortErrorsOnly ==
    /\ op.pc = "abort"
    /\ IF AbortTakes /\ op.conflicts = {}
         THEN /\ index' = head.tree /\ mergeHead' = None
              /\ work' = [p \in Paths |-> IF index[p] = head.tree[p] THEN work[p] ELSE head.tree[p]]
         ELSE UNCHANGED <<index, work, mergeHead>>
    /\ Answer(Outcome)
    /\ UNCHANGED <<head, theirs>> /\ Kept

Abort ==
    /\ op.pc = "abort"
    /\ IF AbortTakes
         THEN /\ index' = head.tree /\ mergeHead' = None
              /\ work' = [p \in Paths |-> IF index[p] = head.tree[p] THEN work[p] ELSE head.tree[p]]
         ELSE UNCHANGED <<index, work, mergeHead>>
    /\ Answer(Outcome)
    /\ UNCHANGED <<head, theirs>> /\ Kept

\* Its outcome is ignored.
AbortFails ==
    /\ "abort" \in terms.faults
    /\ op.pc = "abort"
    /\ Answer(Outcome)
    /\ UNCHANGED treeVars /\ Kept

Progress ==
    \/ Open \/ Status \/ AddAll \/ CommitAll
    \/ Resolve \/ MergeStarts \/ MergeUpToDate \/ MergeRefused \/ Probed \/ ReadHead
    \/ MergeBase \/ ReadTouched \/ NextPath \/ Show \/ Lay \/ Stage \/ Remove
    \/ Conflicts \/ Seal \/ Sealed \/ Abort \/ StepFails

MergeNext ==
    \/ AskOp("commit", None, <<>>)
    \/ \E r \in terms.revs, policy \in Policies : AskOp("merge", r, policy)
    \/ \E p \in Paths : Edit(p)
    \/ Progress
    \/ ProbeFails \/ LayFails \/ AbortFails \/ DropOp

MergeSpec == MergeInit /\ [][MergeNext]_mergeVars
----------------------------------------------------------------------------
(* Properties                                                              *)

\* A merge seals what its policy says of every path: one both sides changed
\* that a rule names is the rule's, whatever git made of it, any other is
\* git's clean merge, and none is sealed in conflict (seal_merge, and the
\* resolution from the commits rather than git's attributes).
SealsByPolicy ==
    op.kind = "merge" /\ head' # head =>
        LET o == head.tree t == theirs[mergeHead] IN
        \A p \in Paths :
            head'.tree[p] \in
              IF p \notin Ruled(Shared(o, t)) THEN Outcomes(o, t, p) \ {Conflict}
              ELSE CASE RuleFor(p, op.policy) = "ours" -> {o[p]}
                     [] RuleFor(p, op.policy) = "theirs" -> {t[p]}
                     [] OTHER -> {<<"union", BaseTree[p], o[p], t[p]>>}

\* What a merge seals, or answers as already there, is the revision it was
\* asked for (begin_merge: a merge that never started is the refusal git gave,
\* naming the revision).
MergedIsAsked ==
    /\ op.kind = "merge" /\ op.answer = "commit" => op.rev \in head.has
    /\ op.kind = "merge" => head.has \subseteq start.has \cup {op.rev}

\* Nothing of a failed merge stays in progress for a later commit to finish:
\* an operation that answered leaves no MERGE_HEAD and no unmerged path.
NothingLeft ==
    op.pc = "answered" => mergeHead = None /\ Unmerged = {}

\* A pending change of the guest's in a path no rule resolves is there, as the
\* guest left it, however the merge ended: nothing of a policy touches the
\* working tree but the resolved paths.
PendingKept ==
    op.kind = "merge" /\ op.pc = "answered" =>
        \A p \in Paths :
            /\ start.work[p] # start.tree[p]
            /\ p \notin Ruled(Shared(start.tree, theirs[op.rev]))
            => work[p] = start.work[p]

\* A conflict that comes back to the guest is a path no rule names: what a
\* rule resolved is staged, the names of a rename each ruled on their own.
ConflictsUnruled ==
    op.base # None => \A p \in op.conflicts : RuleFor(p, op.policy) = "none"

\* The conflicts a merge hands back are those no rule names; one that git and the
\* disk do not fail is the one asked for, leaves nothing in progress and keeps what
\* the guest had pending.
MergeInv ==
    /\ MergeTypeOK /\ ConflictsUnruled
    /\ terms.faults = {} => MergedIsAsked /\ NothingLeft /\ PendingKept

\* A merge that nothing fails seals of every path what its policy says, whatever git
\* makes of it.
SealedByPolicy == [][terms.faults = {} => SealsByPolicy]_mergeVars
=============================================================================
