-------------------------------- MODULE MCGit --------------------------------
(***************************************************************************)
(* The git backend: merges without and with faults, the pins an operation  *)
(* runs under, the registry of working copies, the labels of a repository  *)
(* and the globs of a policy. A behaviour is of one of the six, so that    *)
(* their states add up and do not multiply.                                *)
(***************************************************************************)
EXTENDS GitMerge, GitCopies, GitLabels, TLC

CONSTANTS
    p, q, b, x, y, r1, r2,   \* of a merge
    Empty, v1, v2,           \* of the pins
    MaxPattern, MaxPath      \* of a glob

VARIABLES
    part,
    listing, purpose, read, settings, pins, blocked, pc,
    pattern, path, rest, toks, text, row, taken, answer

pinsOnly == <<listing, purpose, read, settings, pins, blocked>>
globOnly == <<pattern, path, rest, toks, text, row, taken, answer>>
allVars == <<part, pc, mergeVars, pinsOnly, copyVars, labelVars, globOnly>>

-------------------------------------------------------------------------------
\* Trees over two paths, of which the base holds p alone: a change, a deletion, a
\* rename of p to q, an added q, and a copy of the other side.
MCPaths == {p, q}
Tree(m, n) == [i \in MCPaths |-> IF i = p THEN m ELSE n]
MCBase == Tree(b, NoBlob)
MCHeads == {Tree(x, NoBlob), Tree(NoBlob, b), Tree(NoBlob, NoBlob), Tree(b, x)}
MCOthers == {Tree(y, NoBlob), Tree(x, y), Tree(NoBlob, b)}

Rule(paths, strategy) == [paths |-> paths, strategy |-> strategy]
MCPolicies == {<<>>, <<Rule({p}, "theirs")>>, <<Rule({q}, "ours"), Rule({p, q}, "union")>>}

MCTerms ==
    {[revs |-> {r1, r2}, faults |-> {}, ops |-> 3, edits |-> 1],
     [revs |-> {r1}, faults |-> Faults, ops |-> 2, edits |-> 0]}

\* A history of two branches over two labels.
MCCommits == {"c0", "c1", "d1"}
MCParent == [c \in MCCommits |-> IF c = "c0" THEN None ELSE "c0"]

\* One key of each kind, and two of helpers. What a program, a driver or a helper
\* is set to matters; of the others only that they are set.
MCSaid == [k \in {"hooksPath", "sshCommand", "driver", "helper", "urlHelper", "insteadOf", "bad"} |->
              IF k \in {"hooksPath", "insteadOf", "bad"} THEN {"set"} ELSE {v1, v2, Empty}]

Pins == INSTANCE GitPins WITH
    ForcedKeys <- {"hooksPath"}, ProgramKeys <- {"sshCommand"}, DriverKeys <- {"driver"},
    HelperKeys <- {"helper", "urlHelper"}, TransportKeys <- {"insteadOf"}, BadKeys <- {"bad"},
    Said <- MCSaid, MaxSettings <- 3, op <- purpose

\* Every pattern and every path up to a length.
Glob == INSTANCE GitGlob WITH
    Patterns <- UNION {[1 .. n -> {"a", "/", "*", "?"}] : n \in 0 .. MaxPattern},
    Paths <- UNION {[1 .. n -> {"a", "b", "/"}] : n \in 1 .. MaxPath}

-------------------------------------------------------------------------------
\* What a behaviour is not of stays as it starts.
NoMerge == MergeStart(MCBase, [r \in {} |-> MCBase]) /\ terms.faults = {}

NoPins ==
    /\ listing = None /\ purpose = None /\ read = None /\ settings = None /\ pins = None
    /\ blocked = None

NoGlob ==
    /\ pattern = None /\ path = None /\ rest = None /\ toks = None /\ text = None
    /\ row = None /\ taken = None /\ answer = None

GitInit ==
    \/ part = "merge" /\ MergeInit /\ CopiesStart(NothingFound) /\ LabelsStart(TRUE) /\ pc = None /\ NoPins /\ NoGlob
    \/ part = "copies" /\ NoMerge /\ CopiesInit /\ LabelsStart(TRUE) /\ pc = None /\ NoPins /\ NoGlob
    \/ part = "labels" /\ NoMerge /\ CopiesStart(NothingFound) /\ LabelsInit /\ pc = None /\ NoPins /\ NoGlob
    \/ part = "pins" /\ NoMerge /\ CopiesStart(NothingFound) /\ LabelsStart(TRUE) /\ Pins!Init /\ NoGlob
    \/ part = "glob" /\ NoMerge /\ CopiesStart(NothingFound) /\ LabelsStart(TRUE) /\ NoPins /\ Glob!Init

GitNext ==
    /\ \/ part = "merge" /\ MergeNext /\ UNCHANGED <<pc, pinsOnly, copyVars, labelVars, globOnly>>
       \/ part = "copies" /\ CopiesNext /\ UNCHANGED <<pc, mergeVars, pinsOnly, labelVars, globOnly>>
       \/ part = "labels" /\ LabelsNext /\ UNCHANGED <<pc, mergeVars, pinsOnly, copyVars, globOnly>>
       \/ part = "pins" /\ Pins!Next /\ UNCHANGED <<mergeVars, copyVars, labelVars, globOnly>>
       \/ part = "glob" /\ Glob!Next /\ UNCHANGED <<mergeVars, pinsOnly, copyVars, labelVars>>
    /\ UNCHANGED part

GitSpec == GitInit /\ [][GitNext]_allVars

\* Nothing tells apart what a setting says, or the calls at the places.
Symmetry == Permutations({v1, v2}) \cup Permutations(Calls)

-------------------------------------------------------------------------------
\* What a run of git is under is the host's alone wherever the listing was read, and
\* the forced keys are off and nothing the host set is refused wherever it was not.
PinsInv == part = "pins" => Pins!PinsInv

\* The glob's table decides what the pattern means.
GlobInv == part = "glob" => Glob!GlobInv

\* README: a driver is pinned to the operator's own value, a credential program is
\* the host's as at a prompt.
HostDriversKept == part = "pins" => Pins!HostDriversKept
HostHelpersKept == part = "pins" => Pins!HostHelpersKept

\* vcs.rs: the repository's own configuration cannot choose a program.
NoRepoProgram == part = "pins" => Pins!NoRepoProgram

\* README: the SSH, prompt and signing programs are the host's, and a transport is
\* refused over a repository that set how it runs.
HostAsAtPrompt == part = "pins" => Pins!HostAsAtPrompt
TransportHeld == part = "pins" => Pins!TransportHeld

===============================================================================
