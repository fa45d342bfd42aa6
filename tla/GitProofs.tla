------------------------------- MODULE GitProofs -------------------------------
(***************************************************************************)
(* For any history, labels and working copies: labels move under nobody,   *)
(* here or at the remote.  For any places, repositories and calls: a       *)
(* working copy is addressed through its own gitdir.  For any paths, trees *)
(* and policies: a merge seals what its policy says, or leaves nothing in  *)
(* progress.                                                               *)
(***************************************************************************)
EXTENDS GitMerge, GitCopies, GitLabels, WellFoundedInduction, TLAPS

-------------------------------------------------------------------------------
(***************************************************************************)
(* Labels                                                                  *)
(***************************************************************************)

\* A commit is of its own history, which holds its parent's, and histories nest.
LEMMA OwnHistory ==
    ASSUME NEW d \in Commits
    PROVE  d # None /\ Reaches(d, d)
  BY LabelsAssumption DEF Reaches, Ancestors

LEMMA ParentHistory ==
    ASSUME NEW d \in Commits, NEW a, Reaches(Parent[d], a)
    PROVE  Reaches(d, a)
<1>1. Parent[d] \in Commits /\ Parent[d] # None
  BY LabelsAssumption DEF Reaches
<1>2. \A s \in Histories : d \in s => Parent[d] \in s
  BY <1>1 DEF Histories
<1>3. QED
  BY <1>1, <1>2, OwnHistory DEF Reaches, Ancestors

LEMMA HistoriesNest ==
    ASSUME NEW b \in Commits, NEW a \in Commits, NEW d, Reaches(b, a), Reaches(a, d)
    PROVE  Reaches(b, d)
  BY DEF Reaches, Ancestors

LabelAnswers ==
    {"none", "ok", "error", "other", "not a repository", "exists", "diverged", "not found", "access",
     "no remote", "no label"}

RequestShape ==
    [kind : {"none", "label", "labelled", "fetched", "fetch", "push"}, copy : Worktrees, name : Names,
     rev : Names \cup {"HEAD"}, known : BOOLEAN,
     pc : {"idle", "first", "symbolic", "detach", "branch", "remote"},
     got : Commits \cup {None}, answer : LabelAnswers]

LabelsShape ==
    /\ branch \in [Names -> Commits \cup {None}] /\ tracked \in [Names -> Commits \cup {None}]
    /\ remote \in [Names -> Commits \cup {None}]
    /\ heads \in [Worktrees -> [on : Names \cup {None}, at : Commits]]
    /\ request \in [Requests -> RequestShape]
    /\ sealed \in [Worktrees -> SUBSET Commits] /\ held \in [Names -> SUBSET Commits]
    /\ \A c \in Requests : request[c].got \in made \cup {None}

LabelsIInv == LabelsShape /\ LabelsInv

LEMMA NoRequestShape == NoRequest \in RequestShape /\ NoRequest.pc = "idle" /\ NoRequest.got = None
<1>1. TRUE \in BOOLEAN
  OBVIOUS
<1>2. QED
  BY <1>1, LabelsAssumption DEF NoRequest, RequestShape, LabelAnswers

\* A request goes on, or is answered.
LEMMA RequestGoes ==
    ASSUME LabelsIInv, NEW c \in Requests, NEW r \in RequestShape, r.got \in made \cup {None},
           request' = [request EXCEPT ![c] = r]
    PROVE  /\ request' \in [Requests -> RequestShape]
           /\ \A d \in Requests : request'[d].got \in made \cup {None}
           /\ \A d \in Requests : request'[d].pc \in {"idle", "first", "symbolic", "detach", "branch", "remote"}
<1>1. request' \in [Requests -> RequestShape]
  BY DEF LabelsIInv, LabelsShape
<1>2. \A d \in Requests : request'[d].got \in made \cup {None}
  BY DEF LabelsIInv, LabelsShape
<1>3. QED
  BY <1>1, <1>2 DEF RequestShape

LEMMA AnswerShape ==
    ASSUME LabelsIInv, NEW c \in Requests, NEW a \in LabelAnswers, LabelAnswer(c, a)
    PROVE  /\ request' \in [Requests -> RequestShape]
           /\ \A d \in Requests : request'[d].got \in made \cup {None}
           /\ \A d \in Requests : request'[d].pc \in {"idle", "first", "symbolic", "detach", "branch", "remote"}
<1> DEFINE r == [NoRequest EXCEPT !.answer = a]
<1>1. r \in RequestShape /\ r.got \in made \cup {None}
  BY NoRequestShape DEF RequestShape
<1>2. request' = [request EXCEPT ![c] = r]
  BY DEF LabelAnswer
<1>3. QED
  BY <1>1, <1>2, RequestGoes

LEMMA GotoShape ==
    ASSUME LabelsIInv, NEW c \in Requests, NEW p \in {"symbolic", "detach", "branch", "remote"}, LabelGoto(c, p)
    PROVE  /\ request' \in [Requests -> RequestShape]
           /\ \A d \in Requests : request'[d].got \in made \cup {None}
           /\ \A d \in Requests : request'[d].pc \in {"idle", "first", "symbolic", "detach", "branch", "remote"}
<1> DEFINE r == [request[c] EXCEPT !.pc = p]
<1>1. request[c] \in RequestShape /\ request[c].got \in made \cup {None}
  BY DEF LabelsIInv, LabelsShape
<1>2. r \in RequestShape /\ r.got \in made \cup {None}
  BY <1>1 DEF RequestShape
<1>3. request' = [request EXCEPT ![c] = r]
  BY DEF LabelGoto
<1>4. QED
  BY <1>2, <1>3, RequestGoes

\* What refuse makes of what git said.
LEMMA RefuseShape ==
    ASSUME NEW said, NEW push
    PROVE  Refuse(said, push) \in LabelAnswers /\ RefusePush(said) \in LabelAnswers
<1>1. Classify(said) \in {"not a repository", "exists", "diverged", "not found", "access", "other"}
  BY DEF Classify
<1>2. Refuse(said, push) \in LabelAnswers /\ Refuse(said, TRUE) \in LabelAnswers
  BY <1>1 DEF Refuse, LabelAnswers
<1>3. QED
  BY <1>2 DEF RefusePush, LabelAnswers

\* What a step that moves no ref keeps.
LEMMA RefsSame ==
    ASSUME LabelsIInv, UNCHANGED <<repoVars, remote, held>>, asked' \in 0 .. MaxRequests,
           request' \in [Requests -> RequestShape],
           \A d \in Requests : request'[d].got \in made \cup {None},
           \A d \in Requests : request'[d].pc \in {"idle", "first", "symbolic", "detach", "branch", "remote"}
    PROVE  LabelsIInv'
<1>1. LabelsShape'
  BY DEF LabelsIInv, LabelsShape, repoVars
<1>2. LabelsTypeOK'
  BY DEF LabelsIInv, LabelsInv, LabelsTypeOK, repoVars
<1>3. CopiesStay' /\ RemoteKeeps'
  BY DEF LabelsIInv, LabelsInv, CopiesStay, RemoteKeeps, CommitAt, repoVars
<1>4. QED
  BY <1>1, <1>2, <1>3 DEF LabelsIInv, LabelsInv

LEMMA AskLabelStep ==
    ASSUME LabelsIInv, NEW c \in Requests, NEW kind \in {"label", "labelled", "fetched", "fetch", "push"},
           NEW w \in Worktrees, NEW n \in Names, NEW rev \in Names \cup {"HEAD"}, NEW known \in BOOLEAN,
           AskLabel(c, kind, w, n, rev, known)
    PROVE  LabelsIInv'
<1> DEFINE r == [NoRequest EXCEPT !.kind = kind, !.copy = w, !.name = n, !.rev = rev,
                                  !.known = known, !.pc = "first"]
<1>1. r \in RequestShape /\ r.got \in made \cup {None}
  BY NoRequestShape DEF RequestShape
<1>2. request' = [request EXCEPT ![c] = r] /\ UNCHANGED <<repoVars, remote, held>>
  BY DEF AskLabel
<1> HIDE DEF r
<1>3. asked' \in 0 .. MaxRequests
  BY LabelsAssumption DEF AskLabel, LabelsIInv, LabelsInv, LabelsTypeOK
<1>4. QED
  BY <1>1, <1>2, <1>3, RequestGoes, RefsSame

LEMMA RevParseStep ==
    ASSUME LabelsIInv, NEW c \in Requests, RevParse(c)
    PROVE  LabelsIInv'
<1> DEFINE at == IF request[c].rev = "HEAD" THEN CommitAt(request[c].copy) ELSE branch[request[c].rev]
<1>1. UNCHANGED <<repoVars, remote, held, asked>> /\ asked \in 0 .. MaxRequests
  BY DEF RevParse, LabelsIInv, LabelsInv, LabelsTypeOK
<1>2. request[c] \in RequestShape
  BY DEF LabelsIInv, LabelsShape
<1>3. at \in made \cup {None}
  BY <1>2 DEF LabelsIInv, LabelsInv, LabelsTypeOK, LabelsShape, CommitAt, RequestShape
<1>4. CASE LabelAnswer(c, "not found")
  BY <1>1, <1>4, AnswerShape, RefsSame DEF LabelAnswers
<1>5. CASE request' = [request EXCEPT ![c].got = at, ![c].pc = "symbolic"]
  <2> DEFINE r == [request[c] EXCEPT !.got = at, !.pc = "symbolic"]
  <2>1. made \subseteq Commits
    BY DEF LabelsIInv, LabelsInv, LabelsTypeOK
  <2>2. at \in Commits \cup {None}
    BY <1>3, <2>1
  <2>3. request' = [request EXCEPT ![c] = r]
    BY <1>5 DEF LabelsIInv, LabelsShape
  <2> HIDE DEF at
  <2>4. r \in RequestShape /\ r.got \in made \cup {None}
    BY <1>2, <1>3, <2>2 DEF RequestShape
  <2>5. QED
    BY <1>1, <2>3, <2>4, RequestGoes, RefsSame
<1>6. QED
  BY <1>4, <1>5 DEF RevParse

\* The steps that only read.
LEMMA ReadingStep ==
    ASSUME LabelsIInv, NEW c \in Requests,
           LabelFails(c) \/ SymbolicRef(c) \/ Labelled(c) \/ Fetched(c) \/ HasRemote(c)
    PROVE  LabelsIInv'
<1>1. UNCHANGED <<repoVars, remote, held, asked>> /\ asked \in 0 .. MaxRequests
  BY DEF LabelFails, SymbolicRef, Labelled, Fetched, HasRemote, LabelsIInv, LabelsInv, LabelsTypeOK
<1>2. CASE \E a \in LabelAnswers : LabelAnswer(c, a)
  BY <1>1, <1>2, AnswerShape, RefsSame
<1>3. CASE \E p \in {"detach", "branch", "remote"} : LabelGoto(c, p)
  BY <1>1, <1>3, GotoShape, RefsSame
<1>4. QED
  BY <1>2, <1>3 DEF LabelFails, SymbolicRef, Labelled, Fetched, HasRemote, LabelAnswers

\* A step of a call that moves refs among the commits there are.
LEMMA RefsMove ==
    ASSUME LabelsIInv, UNCHANGED <<made, sealed, asked>>,
           branch' \in [Names -> made \cup {None}], tracked' \in [Names -> made \cup {None}],
           remote' \in [Names -> made \cup {None}],
           heads' \in [Worktrees -> [on : Names \cup {None}, at : made]],
           held' \in [Names -> SUBSET Commits],
           request' \in [Requests -> RequestShape],
           \A d \in Requests : request'[d].got \in made \cup {None},
           \A d \in Requests : request'[d].pc \in {"idle", "first", "symbolic", "detach", "branch", "remote"}
    PROVE  LabelsShape' /\ LabelsTypeOK'
<1>1. made \subseteq Commits /\ asked \in 0 .. MaxRequests
  BY DEF LabelsIInv, LabelsInv, LabelsTypeOK
<1>2. sealed' \in [Worktrees -> SUBSET Commits]
  BY DEF LabelsIInv, LabelsShape
<1>3. heads' \in [Worktrees -> [on : Names \cup {None}, at : Commits]]
  BY <1>1
<1>4. /\ branch' \in [Names -> Commits \cup {None}] /\ tracked' \in [Names -> Commits \cup {None}]
      /\ remote' \in [Names -> Commits \cup {None}]
  BY <1>1
<1>5. LabelsShape'
  BY <1>2, <1>3, <1>4 DEF LabelsShape
<1>6. LabelsTypeOK'
  BY <1>1 DEF LabelsTypeOK
<1>7. QED
  BY <1>5, <1>6

\* The same shapes, of the state before.
LEMMA RefsShape ==
    ASSUME LabelsIInv
    PROVE  /\ branch \in [Names -> made \cup {None}] /\ tracked \in [Names -> made \cup {None}]
           /\ remote \in [Names -> made \cup {None}]
           /\ heads \in [Worktrees -> [on : Names \cup {None}, at : made]]
           /\ held \in [Names -> SUBSET Commits] /\ sealed \in [Worktrees -> SUBSET Commits]
           /\ made \subseteq Commits
  BY DEF LabelsIInv, LabelsShape, LabelsInv, LabelsTypeOK

LEMMA DetachStep ==
    ASSUME LabelsIInv, NEW c \in Requests, Detach(c)
    PROVE  LabelsIInv'
<1> DEFINE w == request[c].copy
<1>1. w \in Worktrees
  BY DEF LabelsIInv, LabelsShape, RequestShape
<1>2. UNCHANGED <<branch, tracked, made, sealed, remote, held, asked>>
  BY DEF Detach
<1>3. CASE LabelAnswer(c, "other") /\ UNCHANGED heads
  BY <1>2, <1>3, AnswerShape, RefsSame DEF LabelAnswers, repoVars, LabelsIInv, LabelsInv, LabelsTypeOK
<1>4. CASE CommitAt(w) # None /\ LabelGoto(c, "branch") /\ heads' = [heads EXCEPT ![w] = [on |-> None, at |-> CommitAt(w)]]
  <2>1. CommitAt(w) \in made
    BY <1>1, <1>4, RefsShape DEF CommitAt
  <2>2. heads' \in [Worktrees -> [on : Names \cup {None}, at : made]]
    BY <1>4, <2>1, RefsShape
  <2>3. LabelsShape' /\ LabelsTypeOK'
    BY <1>2, <1>4, <2>2, GotoShape, RefsShape, RefsMove
  <2>4. \A v \in Worktrees : CommitAt(v)' = CommitAt(v)
    BY <1>1, <1>2, <1>4, RefsShape DEF CommitAt
  <2>5. CopiesStay' /\ RemoteKeeps'
    BY <1>2, <2>4 DEF LabelsIInv, LabelsInv, CopiesStay, RemoteKeeps
  <2>6. QED
    BY <2>3, <2>5 DEF LabelsIInv, LabelsInv
<1>5. QED
  BY <1>3, <1>4 DEF Detach

LEMMA ForceBranchStep ==
    ASSUME LabelsIInv, NEW c \in Requests, ForceBranch(c)
    PROVE  LabelsIInv'
<1> DEFINE n == request[c].name
<1>1. n \in Names /\ request[c].got \in made \cup {None}
  BY DEF LabelsIInv, LabelsShape, RequestShape
<1>2. UNCHANGED <<tracked, heads, made, sealed, remote, held, asked>>
  BY DEF ForceBranch
<1>3. CASE LabelAnswer(c, Refuse({}, FALSE)) /\ UNCHANGED branch
  BY <1>2, <1>3, RefuseShape, AnswerShape, RefsSame DEF repoVars, LabelsIInv, LabelsInv, LabelsTypeOK
<1>4. CASE /\ \A w \in Worktrees : heads[w].on # n
           /\ branch' = [branch EXCEPT ![n] = request[c].got] /\ LabelAnswer(c, "ok")
  <2>1. branch' \in [Names -> made \cup {None}]
    BY <1>1, <1>4, RefsShape
  <2>2. LabelsShape' /\ LabelsTypeOK'
    BY <1>2, <1>4, <2>1, AnswerShape, RefsShape, RefsMove DEF LabelAnswers
  <2>3. \A v \in Worktrees : CommitAt(v)' = CommitAt(v)
    BY <1>2, <1>4, RefsShape DEF CommitAt
  <2>4. CopiesStay' /\ RemoteKeeps'
    BY <1>2, <2>3 DEF LabelsIInv, LabelsInv, CopiesStay, RemoteKeeps
  <2>5. QED
    BY <2>2, <2>4 DEF LabelsIInv, LabelsInv
<1>5. QED
  BY <1>3, <1>4 DEF ForceBranch

LEMMA FetchStep ==
    ASSUME LabelsIInv, NEW c \in Requests, Fetch(c)
    PROVE  LabelsIInv'
<1>1. UNCHANGED <<branch, heads, made, sealed, remote, held, asked>>
  BY DEF Fetch
<1>2. request' \in [Requests -> RequestShape]
      /\ (\A d \in Requests : request'[d].got \in made \cup {None})
      /\ \A d \in Requests : request'[d].pc \in {"idle", "first", "symbolic", "detach", "branch", "remote"}
  BY AnswerShape, RefuseShape DEF Fetch, LabelAnswers
<1>3. tracked' \in [Names -> made \cup {None}]
  BY RefsShape DEF Fetch
<1>4. LabelsShape' /\ LabelsTypeOK'
  BY <1>1, <1>2, <1>3, RefsShape, RefsMove
<1>5. CopiesStay' /\ RemoteKeeps'
  BY <1>1 DEF LabelsIInv, LabelsInv, CopiesStay, RemoteKeeps, CommitAt
<1>6. QED
  BY <1>4, <1>5 DEF LabelsIInv, LabelsInv

LEMMA PushStep ==
    ASSUME LabelsIInv, NEW c \in Requests, Push(c)
    PROVE  LabelsIInv'
<1> DEFINE n == request[c].name
<1>1. n \in Names
  BY DEF LabelsIInv, LabelsShape, RequestShape
<1>2. UNCHANGED <<branch, heads, made, sealed, asked>>
  BY DEF Push
<1>3. request' \in [Requests -> RequestShape]
      /\ (\A d \in Requests : request'[d].got \in made \cup {None})
      /\ \A d \in Requests : request'[d].pc \in {"idle", "first", "symbolic", "detach", "branch", "remote"}
  BY AnswerShape, RefuseShape DEF Push, LabelAnswers
<1>4. CASE UNCHANGED <<tracked, remote, held>>
  BY <1>2, <1>3, <1>4, RefsSame DEF repoVars, LabelsIInv, LabelsInv, LabelsTypeOK
<1>5. CASE /\ branch[n] # None /\ (remote[n] = None \/ Reaches(branch[n], remote[n]))
           /\ remote' = [remote EXCEPT ![n] = branch[n]]
           /\ tracked' = [tracked EXCEPT ![n] = branch[n]]
           /\ held' = [held EXCEPT ![n] = @ \cup {branch[n]}]
  <2>1. branch[n] \in Commits
    BY <1>1, <1>5, RefsShape
  <2>2. /\ remote' \in [Names -> made \cup {None}] /\ tracked' \in [Names -> made \cup {None}]
        /\ held' \in [Names -> SUBSET Commits]
    BY <1>1, <1>5, <2>1, RefsShape
  <2>3. LabelsShape' /\ LabelsTypeOK'
    BY <1>2, <1>3, <2>2, RefsShape, RefsMove
  <2>4. CopiesStay'
    BY <1>2 DEF LabelsIInv, LabelsInv, CopiesStay, CommitAt
  <2>5. \A d \in held[n] : Reaches(branch[n], d)
    <3> SUFFICES ASSUME NEW d \in held[n] PROVE Reaches(branch[n], d)
      OBVIOUS
    <3>1. Reaches(remote[n], d)
      BY <1>1 DEF LabelsIInv, LabelsInv, RemoteKeeps
    <3>2. remote[n] # None /\ remote[n] \in Commits
      BY <1>1, <3>1, RefsShape DEF Reaches
    <3>3. QED
      BY <1>5, <2>1, <3>1, <3>2, HistoriesNest
  <2>6. RemoteKeeps'
    <3> SUFFICES ASSUME NEW m \in Names, NEW d \in held'[m] PROVE Reaches(remote'[m], d)
      BY DEF RemoteKeeps, Reaches, Ancestors, Histories
    <3>1. CASE m = n
      BY <1>1, <1>5, <2>1, <2>5, <3>1, OwnHistory, RefsShape
    <3>2. CASE m # n
      BY <1>1, <1>5, <3>2, RefsShape DEF LabelsIInv, LabelsInv, RemoteKeeps
    <3>3. QED
      BY <3>1, <3>2
  <2>7. QED
    BY <2>3, <2>4, <2>6 DEF LabelsIInv, LabelsInv
<1>6. QED
  BY <1>4, <1>5 DEF Push

LEMMA CommitStep ==
    ASSUME LabelsIInv, NEW w \in Worktrees, Commit(w)
    PROVE  LabelsIInv'
<1> PICK d \in Commits \ made :
      /\ Parent[d] = CommitAt(w)
      /\ made' = made \cup {d} /\ sealed' = [sealed EXCEPT ![w] = @ \cup {d}]
      /\ \/ /\ heads[w].on # None /\ branch' = [branch EXCEPT ![heads[w].on] = d]
            /\ UNCHANGED heads
         \/ /\ heads[w].on = None /\ heads' = [heads EXCEPT ![w].at = d]
            /\ UNCHANGED branch
  BY DEF Commit
<1>1. UNCHANGED <<tracked, remote, held, request, asked>>
  BY DEF Commit
<1>2. branch' \in [Names -> made' \cup {None}]
  BY RefsShape
<1>3. heads' \in [Worktrees -> [on : Names \cup {None}, at : made']]
  BY RefsShape
<1>4. made' \subseteq Commits /\ sealed' \in [Worktrees -> SUBSET Commits]
  BY RefsShape
<1>5. /\ branch' \in [Names -> Commits \cup {None}]
      /\ heads' \in [Worktrees -> [on : Names \cup {None}, at : Commits]]
  BY <1>2, <1>3, <1>4
<1>6. LabelsShape'
  BY <1>1, <1>4, <1>5 DEF LabelsIInv, LabelsShape
<1>7. LabelsTypeOK'
  BY <1>1, <1>2, <1>3, <1>4, RefsShape DEF LabelsIInv, LabelsInv, LabelsTypeOK
<1>8. CopiesStay'
  <2> SUFFICES ASSUME NEW v \in Worktrees, NEW e \in sealed'[v] PROVE Reaches(CommitAt(v)', e)
    BY DEF CopiesStay, Reaches, Ancestors, Histories
  <2>1. CommitAt(v)' = CommitAt(v) \/ (CommitAt(v)' = d /\ CommitAt(v) = Parent[d])
    BY RefsShape DEF CommitAt
  <2>2. v = w => CommitAt(v)' = d
    BY RefsShape DEF CommitAt
  <2>3. CASE v = w /\ e = d
    BY <2>2, <2>3, OwnHistory
  <2>4. CASE ~(v = w /\ e = d)
    <3>1. e \in sealed[v]
      BY <2>4, RefsShape
    <3>2. Reaches(CommitAt(v), e)
      BY <3>1 DEF LabelsIInv, LabelsInv, CopiesStay
    <3>3. QED
      BY <2>1, <3>2, ParentHistory
  <2>5. QED
    BY <2>3, <2>4
<1>9. RemoteKeeps'
  BY <1>1 DEF LabelsIInv, LabelsInv, RemoteKeeps
<1>10. QED
  BY <1>6, <1>7, <1>8, <1>9 DEF LabelsIInv, LabelsInv

LEMMA OthersStep ==
    ASSUME LabelsIInv, NEW n \in Names, Others(n)
    PROVE  LabelsIInv'
<1> PICK d \in Commits :
      /\ remote' = [remote EXCEPT ![n] = d] /\ made' = made \cup {d}
      /\ held' = [held EXCEPT ![n] = {d}]
  BY DEF Others
<1>1. UNCHANGED <<branch, tracked, heads, sealed, request>>
  BY DEF Others
<1>2. remote' \in [Names -> made' \cup {None}] /\ remote' \in [Names -> Commits \cup {None}]
  BY RefsShape
<1>3. made' \subseteq Commits /\ held' \in [Names -> SUBSET Commits]
  BY RefsShape
<1>4. asked' \in 0 .. MaxRequests
  BY LabelsAssumption DEF Others, LabelsIInv, LabelsInv, LabelsTypeOK
<1>5. LabelsShape'
  BY <1>1, <1>2, <1>3 DEF LabelsIInv, LabelsShape
<1>6. LabelsTypeOK'
  BY <1>1, <1>2, <1>3, <1>4, RefsShape DEF LabelsIInv, LabelsInv, LabelsTypeOK
<1>7. CopiesStay'
  BY <1>1 DEF LabelsIInv, LabelsInv, CopiesStay, CommitAt
<1>8. RemoteKeeps'
  <2> SUFFICES ASSUME NEW m \in Names, NEW e \in held'[m] PROVE Reaches(remote'[m], e)
    BY DEF RemoteKeeps, Reaches, Ancestors, Histories
  <2>1. CASE m = n
    BY <2>1, OwnHistory, RefsShape
  <2>2. CASE m # n
    BY <2>2, RefsShape DEF LabelsIInv, LabelsInv, RemoteKeeps
  <2>3. QED
    BY <2>1, <2>2
<1>9. QED
  BY <1>5, <1>6, <1>7, <1>8 DEF LabelsIInv, LabelsInv

LEMMA LabelsInitStep == LabelsInit => LabelsIInv
<1> SUFFICES ASSUME NEW born \in BOOLEAN, LabelsStart(born) PROVE LabelsIInv
  BY DEF LabelsInit
<1>1. /\ branch \in [Names -> made \cup {None}] /\ tracked \in [Names -> made \cup {None}]
      /\ remote \in [Names -> made \cup {None}]
  BY DEF LabelsStart
<1>2. heads \in [Worktrees -> [on : Names \cup {None}, at : made]]
  BY LabelsAssumption DEF LabelsStart
<1>3. made \subseteq Commits
  BY LabelsAssumption DEF LabelsStart
<1>4. held \in [Names -> SUBSET Commits] /\ sealed \in [Worktrees -> SUBSET Commits]
  BY <1>1, <1>3 DEF LabelsStart
<1>5. request \in [Requests -> RequestShape] /\ \A c \in Requests : request[c].got \in made \cup {None} /\ request[c].pc = "idle"
  BY NoRequestShape DEF LabelsStart
<1>6. /\ branch \in [Names -> Commits \cup {None}] /\ tracked \in [Names -> Commits \cup {None}]
      /\ remote \in [Names -> Commits \cup {None}]
      /\ heads \in [Worktrees -> [on : Names \cup {None}, at : Commits]]
  BY <1>1, <1>2, <1>3
<1>7. LabelsShape
  BY <1>4, <1>5, <1>6 DEF LabelsShape
<1>8. asked \in 0 .. MaxRequests
  BY LabelsAssumption DEF LabelsStart
<1>9. LabelsTypeOK
  BY <1>1, <1>2, <1>3, <1>5, <1>8 DEF LabelsTypeOK
<1>10. CopiesStay
  BY DEF LabelsStart, CopiesStay
<1>11. RemoteKeeps
  <2> SUFFICES ASSUME NEW n \in Names, NEW d \in held[n] PROVE Reaches(remote[n], d)
    BY DEF RemoteKeeps
  <2>1. d = remote[n] /\ d # None
    BY DEF LabelsStart
  <2>2. QED
    BY <1>6, <2>1, OwnHistory
<1>12. QED
  BY <1>7, <1>9, <1>10, <1>11 DEF LabelsIInv, LabelsInv

LEMMA LabelsStutter == LabelsIInv /\ UNCHANGED labelVars => LabelsIInv'
<1> SUFFICES ASSUME LabelsIInv, UNCHANGED labelVars PROVE LabelsIInv'
  OBVIOUS
<1>1. UNCHANGED <<repoVars, remote, held>> /\ UNCHANGED <<request, asked>>
  BY DEF labelVars, repoVars
<1>2. QED
  BY <1>1, RefsSame DEF LabelsIInv, LabelsShape, LabelsInv, LabelsTypeOK

LEMMA LabelsStep == LabelsIInv /\ LabelsNext => LabelsIInv'
<1> SUFFICES ASSUME LabelsIInv, LabelsNext PROVE LabelsIInv'
  OBVIOUS
<1>1. ASSUME NEW c \in Requests, NEW n \in Names,
             \/ \E w \in Worktrees, rev \in Names \cup {"HEAD"} : AskLabel(c, "label", w, n, rev, TRUE)
             \/ AskLabel(c, "labelled", Place, n, "HEAD", TRUE)
             \/ \E kind \in {"fetched", "fetch", "push"}, known \in BOOLEAN :
                  AskLabel(c, kind, Place, n, "HEAD", known)
      PROVE  LabelsIInv'
  <2>1. TRUE \in BOOLEAN
    OBVIOUS
  <2>2. CASE \E w \in Worktrees, rev \in Names \cup {"HEAD"} : AskLabel(c, "label", w, n, rev, TRUE)
    BY <2>1, <2>2, AskLabelStep
  <2>3. CASE AskLabel(c, "labelled", Place, n, "HEAD", TRUE)
    BY <2>1, <2>3, AskLabelStep, LabelsAssumption
  <2>4. CASE \E kind \in {"fetched", "fetch", "push"}, known \in BOOLEAN :
               AskLabel(c, kind, Place, n, "HEAD", known)
    <3>1. PICK kind \in {"fetched", "fetch", "push"}, known \in BOOLEAN :
                 AskLabel(c, kind, Place, n, "HEAD", known)
      BY <2>4
    <3>2. Place \in Worktrees /\ "HEAD" \in Names \cup {"HEAD"}
      BY LabelsAssumption
    <3>3. QED
      BY <3>1, <3>2, AskLabelStep
  <2>5. QED
    BY <1>1, <2>2, <2>3, <2>4
<1>2. ASSUME NEW c \in Requests,
             \/ LabelFails(c) \/ RevParse(c) \/ SymbolicRef(c) \/ Detach(c) \/ ForceBranch(c)
             \/ Labelled(c) \/ Fetched(c) \/ HasRemote(c) \/ Fetch(c) \/ Push(c)
      PROVE  LabelsIInv'
  BY <1>2, ReadingStep, RevParseStep, DetachStep, ForceBranchStep, FetchStep, PushStep
<1>3. QED
  BY <1>1, <1>2, CommitStep, OthersStep DEF LabelsNext

\* label, push, fetch: for any labels, working copies, history and number of calls at
\* once, every copy stays on what was sealed there and no push takes a commit from
\* the remote.
THEOREM LabelsKept == LabelsSpec => []LabelsInv
<1>1. LabelsIInv => LabelsInv
  BY DEF LabelsIInv
<1>2. QED
  BY <1>1, LabelsInitStep, LabelsStep, LabelsStutter, PTL DEF LabelsSpec


-------------------------------------------------------------------------------
(***************************************************************************)
(* Working copies                                                          *)
(***************************************************************************)

\* A call that runs is at a place, an add for a repository, and lays as an add.
CallsSound ==
    /\ call \in [Calls -> CallShape]
    /\ \A c \in Calls :
         /\ call[c].pc # "idle" => call[c].at \in Places
         /\ call[c].kind = "add" => call[c].repo \in Repos
         /\ call[c].pc \in {"laid", "reading", "read"} => call[c].kind = "add"

\* A copy is under a gitdir of its place, and what add answered for is there.
OwnPlace(p) ==
    /\ disk[p] \in GitDirs => disk[p] \in Repos \X {p}
    /\ laid[p] # None => disk[p] = laid[p]

\* What a call that is still to be recorded holds of the copy at its place.
HoldsOwn(c, p) ==
    /\ call[c].pc # "removed" /\ New(c) = disk[p]
    /\ call[c].pc \in {"laid", "reading"} => dot[p] = disk[p]
    /\ call[c].pc = "reading" => call[c].under \in {None, disk[p]}
    /\ call[c].pc = "read" => call[c].got = disk[p]

\* On clear ground the registry, and whoever is still to change it, name the copy.
ClearGround(p) ==
    clear[p] =>
        /\ disk[p] \in GitDirs
        /\ worktrees[p] \in {None, disk[p]}
        /\ laid[p] # None => worktrees[p] = disk[p]
        /\ \A c \in Unrecorded(p) : HoldsOwn(c, p)

CopiesIInv ==
    CopiesTypeOK /\ CallsSound /\ \A p \in Places : OwnPlace(p) /\ ClearGround(p)

\* One call moves, the others stay.
LEMMA CallMoves ==
    ASSUME CallsSound, NEW c \in Calls, NEW r \in CallShape, call' = [call EXCEPT ![c] = r],
           r.pc # "idle" => r.at \in Places,
           r.kind = "add" => r.repo \in Repos,
           r.pc \in {"laid", "reading", "read"} => r.kind = "add"
    PROVE  CallsSound' /\ call'[c] = r /\ \A d \in Calls : d # c => call'[d] = call[d]
  BY DEF CallsSound

LEMMA NoCallShape == NoCall \in CallShape /\ NoCall.pc = "idle" /\ NoCall.kind = "none"
  BY DEF NoCall, CallShape

LEMMA CallEnds ==
    ASSUME CallsSound, NEW c \in Calls, End(c)
    PROVE  /\ CallsSound' /\ call'[c].pc = "idle"
           /\ \A d \in Calls : d # c => call'[d] = call[d]
<1>1. call' = [call EXCEPT ![c] = NoCall]
  BY DEF End
<1>2. QED
  BY <1>1, NoCallShape, CallMoves

\* A call goes on: what it had, but for where it stands and what it read.
LEMMA CallGoes ==
    ASSUME CallsSound, NEW c \in Calls, call[c].pc # "idle",
           NEW pc1 \in {"laid", "reading", "read", "removed"},
           pc1 # "removed" => call[c].kind = "add",
           NEW u \in GitDirs \cup {None, OwnRepo, Foreign}, NEW g \in GitDirs \cup {None, OwnRepo, Foreign},
           call' = [call EXCEPT ![c] = [call[c] EXCEPT !.pc = pc1, !.under = u, !.got = g]]
    PROVE  /\ CallsSound' /\ call'[c].pc = pc1 /\ call'[c].under = u /\ call'[c].got = g
           /\ call'[c].at = call[c].at /\ call'[c].repo = call[c].repo /\ call'[c].kind = call[c].kind
           /\ \A d \in Calls : d # c => call'[d] = call[d]
<1> DEFINE r == [call[c] EXCEPT !.pc = pc1, !.under = u, !.got = g]
<1>1. /\ call[c] \in CallShape /\ call[c].at \in Places
      /\ call[c].kind = "add" => call[c].repo \in Repos
  BY DEF CallsSound
<1>2. /\ r \in CallShape /\ r.pc = pc1 /\ r.under = u /\ r.got = g
      /\ r.at = call[c].at /\ r.repo = call[c].repo /\ r.kind = call[c].kind
  <2>1. r.at = call[c].at /\ r.repo = call[c].repo /\ r.kind = call[c].kind
    BY <1>1 DEF CallShape
  <2>2. r.pc = pc1 /\ r.under = u /\ r.got = g
    BY <1>1 DEF CallShape
  <2>3. r \in CallShape
    BY <1>1 DEF CallShape
  <2>4. QED
    BY <2>1, <2>2, <2>3
<1> HIDE DEF r
<1>3. CallsSound' /\ call'[c] = r /\ \A d \in Calls : d # c => call'[d] = call[d]
  BY <1>1, <1>2, CallMoves DEF r
<1>4. QED
  BY <1>2, <1>3

\* Clear ground stays so at a place where nothing that counts is changed and no call
\* is new among those still to be recorded.
LEMMA ClearStands ==
    ASSUME NEW p \in Places, ClearGround(p), clear'[p] => clear[p],
           disk'[p] = disk[p], worktrees'[p] = worktrees[p], laid'[p] = laid[p],
           \A d \in Calls : d \in Unrecorded(p)' => call'[d] = call[d],
           dot'[p] = dot[p] \/ \A d \in Unrecorded(p)' : call'[d].pc \notin {"laid", "reading"}
    PROVE  ClearGround(p)'
<1> SUFFICES ASSUME clear[p], NEW d \in Calls, d \in Unrecorded(p)' PROVE HoldsOwn(d, p)'
  BY DEF ClearGround, Unrecorded
<1>1. call'[d] = call[d] /\ d \in Unrecorded(p)
  BY DEF Unrecorded, At
<1>2. HoldsOwn(d, p)
  BY <1>1 DEF ClearGround
<1>3. QED
  BY <1>1, <1>2 DEF HoldsOwn, New, At

\* A step that moves a call and nothing at the places.
LEMMA CallOnly ==
    ASSUME CopiesIInv, UNCHANGED <<disk, dot, admin, worktrees, laid, clear>>, CallsSound',
           \A p \in Places, d \in Calls : d \in Unrecorded(p)' => call'[d] = call[d]
    PROVE  CopiesIInv'
<1>1. CopiesTypeOK'
  BY DEF CopiesIInv, CopiesTypeOK, CallsSound
<1>2. \A p \in Places : OwnPlace(p)'
  BY DEF CopiesIInv, OwnPlace
<1>3. \A p \in Places : ClearGround(p)'
  BY ClearStands DEF CopiesIInv
<1>4. QED
  BY <1>1, <1>2, <1>3 DEF CopiesIInv

\* A call that ends, or one that is asked, is not among those still to be recorded.
LEMMA EndsStep ==
    ASSUME CopiesIInv, NEW c \in Calls, Ends(c)
    PROVE  CopiesIInv'
<1>1. End(c) /\ UNCHANGED <<disk, dot, admin, worktrees, laid, clear>> /\ CallsSound
  BY DEF Ends, CopiesIInv
<1>2. CallsSound' /\ call'[c].pc = "idle" /\ \A d \in Calls : d # c => call'[d] = call[d]
  BY <1>1, CallEnds
<1>3. \A p \in Places, d \in Calls : d \in Unrecorded(p)' => call'[d] = call[d]
  BY <1>2 DEF Unrecorded
<1>4. QED
  BY <1>1, <1>2, <1>3, CallOnly

LEMMA CallAsked ==
    ASSUME CopiesIInv, NEW c \in Calls, NEW kind \in Kinds, NEW p \in Places, NEW r \in Repos \cup {None},
           kind = "add" => r \in Repos, Asked(c, kind, p, r)
    PROVE  /\ CallsSound' /\ call'[c].pc = "git"
           /\ \A d \in Calls : d # c => call'[d] = call[d]
<1> DEFINE u == IF kind = "remove" THEN Flag(p) ELSE None
           s == [NoCall EXCEPT !.kind = kind, !.at = p, !.repo = r, !.pc = "git", !.under = u]
<1>1. u \in GitDirs \cup {None, OwnRepo, Foreign}
  BY DEF Flag, CopiesIInv, CopiesTypeOK
<1>2. call' = [call EXCEPT ![c] = s]
  BY DEF Asked
<1> HIDE DEF u
<1>3. s \in CallShape /\ s.kind = kind /\ s.at = p /\ s.repo = r /\ s.pc = "git"
  BY <1>1 DEF NoCall, CallShape
<1> HIDE DEF s
<1>4. CallsSound' /\ call'[c] = s /\ \A d \in Calls : d # c => call'[d] = call[d]
  BY <1>2, <1>3, CallMoves DEF CopiesIInv
<1>5. QED
  BY <1>3, <1>4

LEMMA AskCopyStep ==
    ASSUME CopiesIInv, NEW c \in Calls, NEW kind \in Kinds, NEW p \in Places, NEW r \in Repos,
           AskCopy(c, kind, p, r)
    PROVE  CopiesIInv'
<1>1. Asked(c, kind, p, r) /\ UNCHANGED <<disk, dot, admin, worktrees, laid, clear>>
  BY DEF AskCopy
<1>2. CallsSound' /\ call'[c].pc = "git" /\ \A d \in Calls : d # c => call'[d] = call[d]
  BY <1>1, CallAsked
<1>3. \A v \in Places, d \in Calls : d \in Unrecorded(v)' => call'[d] = call[d]
  BY <1>2 DEF Unrecorded
<1>4. QED
  BY <1>1, <1>2, <1>3, CallOnly

LEMMA AskCreateStep ==
    ASSUME CopiesIInv, NEW c \in Calls, NEW kind \in {"init", "clone"}, NEW p \in Places,
           AskCreate(c, kind, p)
    PROVE  CopiesIInv'
<1>1. /\ Asked(c, kind, p, None) /\ UNCHANGED <<disk, dot, admin, laid>>
      /\ worktrees' = [worktrees EXCEPT ![p] = None] /\ clear' = [clear EXCEPT ![p] = FALSE]
  BY DEF AskCreate
<1>2. CallsSound' /\ call'[c].pc = "git" /\ \A d \in Calls : d # c => call'[d] = call[d]
  BY <1>1, CallAsked DEF Kinds
<1>3. /\ worktrees' \in [Places -> GitDirs \cup {None, OwnRepo, Foreign}] /\ clear' \in [Places -> BOOLEAN]
      /\ ~clear'[p] /\ \A v \in Places \ {p} : worktrees'[v] = worktrees[v] /\ clear'[v] = clear[v]
  BY <1>1 DEF CopiesIInv, CopiesTypeOK
<1>4. CopiesTypeOK'
  BY <1>1, <1>2, <1>3 DEF CopiesIInv, CopiesTypeOK, CallsSound
<1>5. \A v \in Places : OwnPlace(v)'
  BY <1>1 DEF CopiesIInv, OwnPlace
<1>6. ASSUME NEW v \in Places \ {p} PROVE ClearGround(v)'
  <2>1. \A d \in Calls : d \in Unrecorded(v)' => call'[d] = call[d]
    BY <1>2 DEF Unrecorded
  <2>2. QED
    BY <1>1, <1>3, <2>1, ClearStands DEF CopiesIInv
<1>7. ClearGround(p)'
  BY <1>3 DEF ClearGround
<1>8. QED
  BY <1>2, <1>4, <1>5, <1>6, <1>7 DEF CopiesIInv

\* At every other place than the one a call is at, clear ground stands.
LEMMA ClearElsewhere ==
    ASSUME CopiesIInv, NEW c \in Calls, NEW p \in Places, call[c].at = p,
           call'[c].pc = "idle" \/ call'[c].at = p, \A d \in Calls : d # c => call'[d] = call[d],
           \A v \in Places \ {p} : /\ disk'[v] = disk[v] /\ dot'[v] = dot[v] /\ worktrees'[v] = worktrees[v]
                                   /\ laid'[v] = laid[v] /\ clear'[v] = clear[v]
    PROVE  \A v \in Places \ {p} : ClearGround(v)'
<1> SUFFICES ASSUME NEW v \in Places \ {p} PROVE ClearGround(v)'
  OBVIOUS
<1>1. \A d \in Calls : d \in Unrecorded(v)' => call'[d] = call[d]
  BY DEF Unrecorded, At
<1>2. QED
  BY <1>1, ClearStands DEF CopiesIInv

LEMMA AddWorktreeStep ==
    ASSUME CopiesIInv, NEW c \in Calls, AddWorktree(c)
    PROVE  CopiesIInv'
<1>0. PICK p \in Places : p = call[c].at
  BY DEF AddWorktree, On, CopiesIInv, CallsSound
<1> DEFINE n == <<call[c].repo, p>>
<1>1. /\ call[c].kind = "add" /\ call[c].pc = "git" /\ p \in Places /\ call[c].repo \in Repos
      /\ At(c) = p /\ New(c) = n /\ UNCHANGED <<worktrees, laid>> /\ call[c] \in CallShape
  BY <1>0 DEF AddWorktree, On, At, New, CopiesIInv, CallsSound
<1>2. n \in GitDirs /\ n \in Repos \X {p} /\ n # EmptyPlace /\ n # None
  BY <1>1, CopiesAssumption DEF GitDirs
<1>3. /\ disk[p] = EmptyPlace /\ admin' = admin \cup {n}
      /\ disk' = [disk EXCEPT ![p] = n] /\ dot' = [dot EXCEPT ![p] = n]
      /\ clear' = [clear EXCEPT ![p] = worktrees[p] \in {None, n} /\ Unrecorded(p) = {}]
  BY <1>1 DEF AddWorktree, Flag
<1>4. /\ CallsSound' /\ call'[c].pc = "laid" /\ call'[c].at = p /\ call'[c].repo = call[c].repo
      /\ \A d \in Calls : d # c => call'[d] = call[d]
  <2> DEFINE w == call[c].under
             h == call[c].got
  <2>1. w \in GitDirs \cup {None, OwnRepo, Foreign} /\ h \in GitDirs \cup {None, OwnRepo, Foreign}
    BY <1>1 DEF CallShape
  <2>2. call' = [call EXCEPT ![c] = [call[c] EXCEPT !.pc = "laid", !.under = w, !.got = h]]
    BY <1>1 DEF AddWorktree, CallShape, CopiesIInv, CallsSound
  <2>3. CallsSound /\ call[c].pc # "idle"
    BY <1>1 DEF CopiesIInv
  <2> HIDE DEF w, h, n
  <2>4. /\ CallsSound' /\ call'[c].at = call[c].at /\ call'[c].repo = call[c].repo
        /\ call'[c].pc = "laid" /\ \A d \in Calls : d # c => call'[d] = call[d]
    BY <1>1, <2>1, <2>2, <2>3, CallGoes
  <2>5. QED
    BY <1>0, <2>4
<1>5. /\ disk' \in [Places -> {EmptyPlace, OwnRepo, Foreign} \cup GitDirs]
      /\ dot' \in [Places -> {None, OwnRepo, Foreign} \cup GitDirs] /\ admin' \subseteq GitDirs
      /\ clear' \in [Places -> BOOLEAN]
      /\ \A v \in Places : disk'[v] = (IF v = p THEN n ELSE disk[v]) /\ dot'[v] = (IF v = p THEN n ELSE dot[v])
      /\ \A v \in Places \ {p} : clear'[v] = clear[v]
      /\ clear'[p] => worktrees[p] \in {None, n} /\ Unrecorded(p) = {}
  <2>1. clear \in [Places -> BOOLEAN]
    BY DEF CopiesIInv, CopiesTypeOK
  <2>2. QED
    BY <1>1, <1>2, <1>3, <2>1 DEF CopiesIInv, CopiesTypeOK
<1> HIDE DEF n
<1>6. laid[p] = None
  BY <1>1, <1>3, CopiesAssumption DEF CopiesIInv, CopiesTypeOK, OwnPlace
<1>7. CopiesTypeOK'
  <2>1. \A v \in Places : (disk'[v] = EmptyPlace => dot'[v] = None) /\ (disk'[v] \in GitDirs => disk'[v] \in admin')
    BY <1>2, <1>3, <1>5 DEF CopiesIInv, CopiesTypeOK
  <2>2. QED
    BY <1>1, <1>4, <1>5, <2>1 DEF CopiesIInv, CopiesTypeOK, CallsSound
<1>8. \A v \in Places : OwnPlace(v)'
  BY <1>1, <1>2, <1>5, <1>6 DEF CopiesIInv, OwnPlace
<1>9. \A v \in Places \ {p} : ClearGround(v)'
  BY <1>0, <1>1, <1>4, <1>5, ClearElsewhere
<1>10. ClearGround(p)'
  <2> SUFFICES ASSUME clear'[p], NEW d \in Calls, d \in Unrecorded(p)' PROVE HoldsOwn(d, p)'
    BY <1>1, <1>2, <1>5, <1>6 DEF ClearGround, Unrecorded
  <2>1. d = c
    BY <1>4, <1>5 DEF Unrecorded, At
  <2>2. QED
    BY <1>1, <1>4, <1>5, <2>1 DEF HoldsOwn, New, At, n
<1>11. QED
  BY <1>4, <1>7, <1>8, <1>9, <1>10 DEF CopiesIInv

\* An add goes on with what it read; nothing at the places moves.
LEMMA ReadStep ==
    ASSUME CopiesIInv, NEW c \in Calls, StartRead(c) \/ ReadGitdir(c)
    PROVE  CopiesIInv'
<1>0. PICK p \in Places : p = call[c].at
  BY DEF StartRead, ReadGitdir, On, CopiesIInv, CallsSound
<1>1. /\ call[c].kind = "add" /\ call[c].pc \in {"laid", "reading"} /\ p \in Places /\ At(c) = p
      /\ call[c] \in CallShape /\ UNCHANGED <<disk, dot, admin, worktrees, laid, clear>>
  BY <1>0 DEF StartRead, ReadGitdir, On, At, CopiesIInv, CallsSound
<1>2. /\ call[c].under \in GitDirs \cup {None, OwnRepo, Foreign}
      /\ call[c].got \in GitDirs \cup {None, OwnRepo, Foreign}
      /\ worktrees[p] \in GitDirs \cup {None, OwnRepo, Foreign}
      /\ dot[p] \in {None, OwnRepo, Foreign} \cup GitDirs
  BY <1>1 DEF CallShape, CopiesIInv, CopiesTypeOK
<1>3. CallsSound /\ call[c].pc # "idle" /\ call[c].kind = "add"
  BY <1>1 DEF CopiesIInv
<1>4. PICK pc1 \in {"reading", "read"}, u \in GitDirs \cup {None, OwnRepo, Foreign},
           g \in GitDirs \cup {None, OwnRepo, Foreign} :
        /\ CallsSound' /\ call'[c].pc = pc1 /\ call'[c].under = u /\ call'[c].got = g
        /\ call'[c].at = call[c].at /\ call'[c].repo = call[c].repo
        /\ \A d \in Calls : d # c => call'[d] = call[d]
        /\ pc1 = "reading" => u = worktrees[p]
        /\ pc1 = "read" => call[c].pc = "reading" /\ g = Through(p, call[c].under)
  <2>1. CASE StartRead(c)
    <3> DEFINE w == worktrees[p]
               h == call[c].got
    <3>1. w \in GitDirs \cup {None, OwnRepo, Foreign} /\ h \in GitDirs \cup {None, OwnRepo, Foreign}
      BY <1>2
    <3>2. call' = [call EXCEPT ![c] = [call[c] EXCEPT !.pc = "reading", !.under = w, !.got = h]]
      BY <1>1, <2>1 DEF StartRead, Flag, CallShape, CopiesIInv, CallsSound
    <3> HIDE DEF w, h
    <3>3. /\ CallsSound' /\ call'[c].at = call[c].at /\ call'[c].repo = call[c].repo
          /\ \A d \in Calls : d # c => call'[d] = call[d]
      BY <1>3, <3>1, <3>2, CallGoes
    <3>4. call'[c].pc = "reading" /\ call'[c].under = w /\ call'[c].got = h
      BY <1>1, <3>2 DEF CallShape, CopiesIInv, CallsSound
    <3>5. QED
      BY <3>1, <3>3, <3>4 DEF w
  <2>2. CASE ReadGitdir(c)
    <3> DEFINE t == Through(p, call[c].under)
    <3>1. t \in GitDirs \cup {None, OwnRepo, Foreign}
      BY <1>2 DEF Through
    <3>2. /\ call[c].pc = "reading"
          /\ call' = [call EXCEPT ![c] = [call[c] EXCEPT !.pc = "read", !.under = None, !.got = t]]
      BY <1>1, <2>2 DEF ReadGitdir, On, CopiesIInv, CallsSound
    <3> HIDE DEF t
    <3>3. /\ CallsSound' /\ call'[c].at = call[c].at /\ call'[c].repo = call[c].repo
          /\ \A d \in Calls : d # c => call'[d] = call[d]
      BY <1>3, <3>1, <3>2, CallGoes
    <3>4. call'[c].pc = "read" /\ call'[c].under = None /\ call'[c].got = t
      BY <1>1, <3>2 DEF CallShape, CopiesIInv, CallsSound
    <3>5. QED
      BY <3>1, <3>2, <3>3, <3>4 DEF t
  <2>3. QED
    BY <2>1, <2>2
<1>5. /\ CallsSound' /\ call'[c].pc = pc1 /\ call'[c].under = u /\ call'[c].got = g
      /\ call'[c].at = p /\ call'[c].repo = call[c].repo
      /\ \A d \in Calls : d # c => call'[d] = call[d]
  BY <1>0, <1>4
<1>6. CopiesTypeOK'
  BY <1>1, <1>5 DEF CopiesIInv, CopiesTypeOK, CallsSound
<1>7. \A v \in Places : OwnPlace(v)'
  BY <1>1 DEF CopiesIInv, OwnPlace
<1>8. \A v \in Places \ {p} : ClearGround(v)'
  BY <1>0, <1>1, <1>5, ClearElsewhere
<1>9. ClearGround(p)'
  <2> SUFFICES ASSUME clear[p], NEW d \in Calls, d \in Unrecorded(p)' PROVE HoldsOwn(d, p)'
    BY <1>1 DEF ClearGround, CopiesIInv, Unrecorded
  <2>1. ClearGround(p)
    BY <1>1 DEF CopiesIInv
  <2>2. CASE d = c
    <3>1. HoldsOwn(c, p) /\ disk[p] \in GitDirs /\ worktrees[p] \in {None, disk[p]}
      BY <1>1, <2>1 DEF ClearGround, Unrecorded
    <3>2. disk[p] # OwnRepo /\ disk[p] # None
      BY <3>1, CopiesAssumption
    <3>3. dot[p] = disk[p] /\ (call[c].pc = "reading" => call[c].under \in {None, disk[p]})
      BY <1>1, <3>1 DEF HoldsOwn
    <3>4. pc1 = "read" => g = disk[p]
      BY <1>4, <3>2, <3>3 DEF Through
    <3>5. QED
      BY <1>1, <1>4, <1>5, <2>2, <3>1, <3>3, <3>4 DEF HoldsOwn, New, At
  <2>3. CASE d # c
    <3>1. call'[d] = call[d] /\ d \in Unrecorded(p)
      BY <1>5, <2>3 DEF Unrecorded, At
    <3>2. HoldsOwn(d, p)
      BY <2>1, <3>1 DEF ClearGround
    <3>3. QED
      BY <1>1, <3>1, <3>2 DEF HoldsOwn, New, At
  <2>4. QED
    BY <2>2, <2>3
<1>10. QED
  BY <1>5, <1>6, <1>7, <1>8, <1>9 DEF CopiesIInv

LEMMA RegisterStep ==
    ASSUME CopiesIInv, NEW c \in Calls, Register(c)
    PROVE  CopiesIInv'
<1>0. PICK p \in Places : p = call[c].at
  BY DEF Register, On, CopiesIInv, CallsSound
<1> DEFINE n == <<call[c].repo, p>>
<1>1. /\ call[c].kind = "add" /\ call[c].pc = "read" /\ p \in Places /\ call[c].repo \in Repos
      /\ At(c) = p /\ New(c) = n /\ UNCHANGED <<disk, dot, admin, clear>> /\ End(c)
      /\ call[c].got \in GitDirs \cup {None, OwnRepo, Foreign}
  BY <1>0 DEF Register, On, At, New, CopiesIInv, CallsSound, CallShape
<1>2. n \in GitDirs /\ n # None
  BY <1>1, CopiesAssumption DEF GitDirs
<1>3. /\ worktrees' = [worktrees EXCEPT ![p] = call[c].got]
      /\ laid' = IF disk[p] = n THEN [laid EXCEPT ![p] = n] ELSE laid
  BY <1>1 DEF Register
<1>4. CallsSound' /\ call'[c].pc = "idle" /\ \A d \in Calls : d # c => call'[d] = call[d]
  BY <1>1, CallEnds DEF CopiesIInv
<1>5. /\ worktrees' \in [Places -> GitDirs \cup {None, OwnRepo, Foreign}]
      /\ laid' \in [Places -> GitDirs \cup {None}]
      /\ \A v \in Places \ {p} : worktrees'[v] = worktrees[v] /\ laid'[v] = laid[v]
      /\ worktrees'[p] = call[c].got /\ laid'[p] = (IF disk[p] = n THEN n ELSE laid[p])
  BY <1>1, <1>2, <1>3 DEF CopiesIInv, CopiesTypeOK
<1> HIDE DEF n
<1>6. CopiesTypeOK'
  BY <1>1, <1>4, <1>5 DEF CopiesIInv, CopiesTypeOK, CallsSound
<1>7. \A v \in Places : OwnPlace(v)'
  BY <1>1, <1>5 DEF CopiesIInv, OwnPlace
<1>8. \A v \in Places \ {p} : ClearGround(v)'
  BY <1>0, <1>1, <1>4, <1>5, ClearElsewhere
<1>9. ClearGround(p)'
  <2> SUFFICES ASSUME clear[p] PROVE ClearGround(p)'
    BY <1>1 DEF ClearGround
  <2>1. ClearGround(p) /\ c \in Unrecorded(p)
    BY <1>1 DEF CopiesIInv, Unrecorded
  <2>2. disk[p] \in GitDirs /\ call[c].got = disk[p]
    BY <1>1, <2>1 DEF ClearGround, HoldsOwn
  <2>3. ASSUME NEW d \in Calls, d \in Unrecorded(p)' PROVE HoldsOwn(d, p)'
    <3>1. call'[d] = call[d] /\ d \in Unrecorded(p)
      BY <1>4, <2>3 DEF Unrecorded, At
    <3>2. HoldsOwn(d, p)
      BY <2>1, <3>1 DEF ClearGround
    <3>3. QED
      BY <1>1, <3>1, <3>2 DEF HoldsOwn, New, At
  <2>4. QED
    BY <1>1, <1>5, <2>2, <2>3 DEF ClearGround, Unrecorded
<1>10. QED
  BY <1>4, <1>6, <1>7, <1>8, <1>9 DEF CopiesIInv

LEMMA RemoveWorktreeStep ==
    ASSUME CopiesIInv, NEW c \in Calls, RemoveWorktree(c)
    PROVE  CopiesIInv'
<1>0. PICK p \in Places : p = call[c].at
  BY DEF RemoveWorktree, On, CopiesIInv, CallsSound
<1> DEFINE n == disk[p]
<1>1. /\ call[c].kind = "remove" /\ call[c].pc = "git" /\ p \in Places
      /\ At(c) = p /\ UNCHANGED worktrees /\ call[c] \in CallShape /\ n \in GitDirs
      /\ disk' = [disk EXCEPT ![p] = EmptyPlace] /\ dot' = [dot EXCEPT ![p] = None]
      /\ admin' = admin \ {n} /\ laid' = [laid EXCEPT ![p] = None] /\ clear' = [clear EXCEPT ![p] = FALSE]
  BY <1>0 DEF RemoveWorktree, On, At, CopiesIInv, CallsSound
<1>2. /\ CallsSound' /\ call'[c].at = p
      /\ \A d \in Calls : d # c => call'[d] = call[d]
  <2> DEFINE h == call[c].got
  <2>1. None \in GitDirs \cup {None, OwnRepo, Foreign} /\ h \in GitDirs \cup {None, OwnRepo, Foreign}
    BY <1>1 DEF CallShape
  <2>2. call' = [call EXCEPT ![c] = [call[c] EXCEPT !.pc = "removed", !.under = None, !.got = h]]
    BY <1>1 DEF RemoveWorktree, CallShape, CopiesIInv, CallsSound
  <2>3. CallsSound /\ call[c].pc # "idle"
    BY <1>1 DEF CopiesIInv
  <2> HIDE DEF h, n
  <2>4. /\ CallsSound' /\ call'[c].at = call[c].at
        /\ \A d \in Calls : d # c => call'[d] = call[d]
    BY <2>1, <2>2, <2>3, CallGoes
  <2>5. QED
    BY <1>0, <2>4
<1>3. /\ disk' \in [Places -> {EmptyPlace, OwnRepo, Foreign} \cup GitDirs]
      /\ dot' \in [Places -> {None, OwnRepo, Foreign} \cup GitDirs] /\ admin' \subseteq GitDirs
      /\ laid' \in [Places -> GitDirs \cup {None}] /\ clear' \in [Places -> BOOLEAN] /\ ~clear'[p]
      /\ \A v \in Places : /\ disk'[v] = IF v = p THEN EmptyPlace ELSE disk[v]
                           /\ dot'[v] = IF v = p THEN None ELSE dot[v]
                           /\ laid'[v] = IF v = p THEN None ELSE laid[v]
      /\ \A v \in Places \ {p} : clear'[v] = clear[v]
  BY <1>1 DEF CopiesIInv, CopiesTypeOK
<1>4. CopiesTypeOK'
  <2>1. ASSUME NEW v \in Places
        PROVE  (disk'[v] = EmptyPlace => dot'[v] = None) /\ (disk'[v] \in GitDirs => disk'[v] \in admin')
    <3>1. CASE v = p
      BY <1>3, <3>1, CopiesAssumption
    <3>2. CASE v # p
      <4>1. n \in Repos \X {p} /\ (disk[v] \in GitDirs => disk[v] \in Repos \X {v})
        BY <1>1 DEF CopiesIInv, OwnPlace
      <4>2. disk[v] \in GitDirs => disk[v] # n
        BY <3>2, <4>1
      <4>3. QED
        BY <1>1, <1>3, <3>2, <4>2 DEF CopiesIInv, CopiesTypeOK
    <3>3. QED
      BY <3>1, <3>2
  <2>2. QED
    BY <1>1, <1>2, <1>3, <2>1 DEF CopiesIInv, CopiesTypeOK, CallsSound
<1>5. \A v \in Places : OwnPlace(v)'
  BY <1>3, CopiesAssumption DEF CopiesIInv, OwnPlace
<1>6. \A v \in Places \ {p} : ClearGround(v)'
  BY <1>0, <1>1, <1>2, <1>3, ClearElsewhere
<1>7. ClearGround(p)'
  BY <1>3 DEF ClearGround
<1>8. QED
  BY <1>2, <1>4, <1>5, <1>6, <1>7 DEF CopiesIInv

LEMMA ForgetStep ==
    ASSUME CopiesIInv, NEW c \in Calls, Forget(c)
    PROVE  CopiesIInv'
<1>0. PICK p \in Places : p = call[c].at
  BY DEF Forget, On, CopiesIInv, CallsSound
<1>1. /\ call[c].pc = "removed" /\ p \in Places /\ At(c) = p
      /\ UNCHANGED <<disk, dot, admin, laid, clear>> /\ End(c)
      /\ worktrees' = [worktrees EXCEPT ![p] = None]
  BY <1>0 DEF Forget, On, At, CopiesIInv, CallsSound
<1>2. CallsSound' /\ call'[c].pc = "idle" /\ \A d \in Calls : d # c => call'[d] = call[d]
  BY <1>1, CallEnds DEF CopiesIInv
<1>3. worktrees' \in [Places -> GitDirs \cup {None, OwnRepo, Foreign}]
      /\ \A v \in Places \ {p} : worktrees'[v] = worktrees[v]
  BY <1>1 DEF CopiesIInv, CopiesTypeOK
<1>4. CopiesTypeOK'
  BY <1>1, <1>2, <1>3 DEF CopiesIInv, CopiesTypeOK, CallsSound
<1>5. \A v \in Places : OwnPlace(v)'
  BY <1>1 DEF CopiesIInv, OwnPlace
<1>6. \A v \in Places \ {p} : ClearGround(v)'
  BY <1>0, <1>1, <1>2, <1>3, ClearElsewhere
<1>7. ~clear[p]
  <2>1. ClearGround(p) /\ c \in Unrecorded(p)
    BY <1>1 DEF CopiesIInv, Unrecorded
  <2>2. ~HoldsOwn(c, p)
    BY <1>1 DEF HoldsOwn
  <2>3. QED
    BY <2>1, <2>2 DEF ClearGround
<1>8. ClearGround(p)'
  BY <1>1, <1>7 DEF ClearGround
<1>9. QED
  BY <1>2, <1>4, <1>5, <1>6, <1>8 DEF CopiesIInv

LEMMA CreateStep ==
    ASSUME CopiesIInv, NEW c \in Calls, Create(c)
    PROVE  CopiesIInv'
<1>0. PICK p \in Places : p = call[c].at
  BY DEF Create, On, CopiesIInv, CallsSound
<1>1. /\ p \in Places /\ At(c) = p /\ End(c) /\ UNCHANGED <<admin, worktrees>>
      /\ disk' = [disk EXCEPT ![p] = OwnRepo] /\ dot' = [dot EXCEPT ![p] = OwnRepo]
      /\ laid' = [laid EXCEPT ![p] = None] /\ clear' = [clear EXCEPT ![p] = FALSE]
  BY <1>0 DEF Create, At, CopiesIInv, CallsSound
<1>2. CallsSound' /\ call'[c].pc = "idle" /\ \A d \in Calls : d # c => call'[d] = call[d]
  BY <1>1, CallEnds DEF CopiesIInv
<1>3. /\ disk' \in [Places -> {EmptyPlace, OwnRepo, Foreign} \cup GitDirs]
      /\ dot' \in [Places -> {None, OwnRepo, Foreign} \cup GitDirs]
      /\ laid' \in [Places -> GitDirs \cup {None}] /\ clear' \in [Places -> BOOLEAN] /\ ~clear'[p]
      /\ \A v \in Places : /\ disk'[v] = IF v = p THEN OwnRepo ELSE disk[v]
                           /\ dot'[v] = IF v = p THEN OwnRepo ELSE dot[v]
                           /\ laid'[v] = IF v = p THEN None ELSE laid[v]
      /\ \A v \in Places \ {p} : clear'[v] = clear[v]
  BY <1>1 DEF CopiesIInv, CopiesTypeOK
<1>4. CopiesTypeOK'
  <2>1. \A v \in Places : (disk'[v] = EmptyPlace => dot'[v] = None) /\ (disk'[v] \in GitDirs => disk'[v] \in admin')
    BY <1>1, <1>3, CopiesAssumption DEF CopiesIInv, CopiesTypeOK
  <2>2. QED
    BY <1>1, <1>2, <1>3, <2>1 DEF CopiesIInv, CopiesTypeOK, CallsSound
<1>5. \A v \in Places : OwnPlace(v)'
  BY <1>3, CopiesAssumption DEF CopiesIInv, OwnPlace
<1>6. \A v \in Places \ {p} : ClearGround(v)'
  BY <1>0, <1>1, <1>2, <1>3, ClearElsewhere
<1>7. ClearGround(p)'
  BY <1>3 DEF ClearGround
<1>8. QED
  BY <1>2, <1>4, <1>5, <1>6, <1>7 DEF CopiesIInv

\* The guest's steps move no call: a place whose copy they take is clear no more, and
\* one they rewrite only where no add is still to read.
LEMMA RewriteStep ==
    ASSUME CopiesIInv, NEW p \in Places, NEW to \in {Foreign, None}, Rewrite(p, to)
    PROVE  CopiesIInv'
<1>1. /\ disk[p] # EmptyPlace \/ to = Foreign
      /\ dot' = [dot EXCEPT ![p] = to]
      /\ disk' = [disk EXCEPT ![p] = IF disk[p] = EmptyPlace THEN Foreign ELSE disk[p]]
      /\ clear' = [clear EXCEPT ![p] = clear[p] /\ \A c \in Unrecorded(p) : call[c].pc \notin {"laid", "reading"}]
      /\ UNCHANGED <<admin, worktrees, call, laid>>
  BY DEF Rewrite
<1>2. clear \in [Places -> BOOLEAN]
  BY DEF CopiesIInv, CopiesTypeOK
<1>3. /\ disk' \in [Places -> {EmptyPlace, OwnRepo, Foreign} \cup GitDirs]
      /\ dot' \in [Places -> {None, OwnRepo, Foreign} \cup GitDirs] /\ clear' \in [Places -> BOOLEAN]
      /\ \A v \in Places \ {p} : disk'[v] = disk[v] /\ dot'[v] = dot[v] /\ clear'[v] = clear[v]
      /\ disk'[p] = (IF disk[p] = EmptyPlace THEN Foreign ELSE disk[p])
      /\ clear'[p] => clear[p] /\ \A c \in Unrecorded(p) : call[c].pc \notin {"laid", "reading"}
  BY <1>1, <1>2 DEF CopiesIInv, CopiesTypeOK
<1>4. disk'[p] # EmptyPlace /\ (disk'[p] \in GitDirs => disk'[p] = disk[p])
  BY <1>3, CopiesAssumption
<1>5. CallsSound'
  BY <1>1 DEF CopiesIInv, CallsSound
<1>6. CopiesTypeOK'
  <2>1. \A v \in Places : (disk'[v] = EmptyPlace => dot'[v] = None) /\ (disk'[v] \in GitDirs => disk'[v] \in admin')
    BY <1>1, <1>3, <1>4 DEF CopiesIInv, CopiesTypeOK
  <2>2. QED
    BY <1>1, <1>3, <2>1 DEF CopiesIInv, CopiesTypeOK
<1>7. laid[p] # None => disk[p] # EmptyPlace
  BY CopiesAssumption DEF CopiesIInv, CopiesTypeOK, OwnPlace
<1>8. \A v \in Places : OwnPlace(v)'
  BY <1>1, <1>3, <1>4, <1>7 DEF CopiesIInv, OwnPlace
<1>9. \A v \in Places : Unrecorded(v)' = Unrecorded(v)
  BY <1>1 DEF Unrecorded, At
<1>10. \A v \in Places \ {p} : ClearGround(v)'
  BY <1>1, <1>3, <1>9, ClearStands DEF CopiesIInv
<1>11. ClearGround(p)'
  <2> SUFFICES ASSUME clear'[p] PROVE ClearGround(p)'
    BY DEF ClearGround
  <2>1. ClearGround(p) /\ clear[p] /\ \A c \in Unrecorded(p) : call[c].pc \notin {"laid", "reading"}
    BY <1>3 DEF CopiesIInv
  <2>2. disk'[p] = disk[p]
    BY <1>3, <2>1, CopiesAssumption DEF ClearGround
  <2>3. QED
    BY <1>1, <1>9, <2>1, <2>2, ClearStands
<1>12. QED
  BY <1>5, <1>6, <1>8, <1>10, <1>11 DEF CopiesIInv

LEMMA WipeStep ==
    ASSUME CopiesIInv, NEW p \in Places, Wipe(p)
    PROVE  CopiesIInv'
<1>1. /\ disk' = [disk EXCEPT ![p] = EmptyPlace] /\ dot' = [dot EXCEPT ![p] = None]
      /\ laid' = [laid EXCEPT ![p] = None] /\ clear' = [clear EXCEPT ![p] = FALSE]
      /\ UNCHANGED <<admin, worktrees, call>>
  BY DEF Wipe
<1>2. /\ disk' \in [Places -> {EmptyPlace, OwnRepo, Foreign} \cup GitDirs]
      /\ dot' \in [Places -> {None, OwnRepo, Foreign} \cup GitDirs]
      /\ laid' \in [Places -> GitDirs \cup {None}] /\ clear' \in [Places -> BOOLEAN] /\ ~clear'[p]
      /\ \A v \in Places : /\ disk'[v] = IF v = p THEN EmptyPlace ELSE disk[v]
                           /\ dot'[v] = IF v = p THEN None ELSE dot[v]
                           /\ laid'[v] = IF v = p THEN None ELSE laid[v]
      /\ \A v \in Places \ {p} : clear'[v] = clear[v]
  BY <1>1 DEF CopiesIInv, CopiesTypeOK
<1>3. CallsSound'
  BY <1>1 DEF CopiesIInv, CallsSound
<1>4. CopiesTypeOK'
  <2>1. \A v \in Places : (disk'[v] = EmptyPlace => dot'[v] = None) /\ (disk'[v] \in GitDirs => disk'[v] \in admin')
    BY <1>1, <1>2, CopiesAssumption DEF CopiesIInv, CopiesTypeOK
  <2>2. QED
    BY <1>1, <1>2, <2>1 DEF CopiesIInv, CopiesTypeOK
<1>5. \A v \in Places : OwnPlace(v)'
  BY <1>2, CopiesAssumption DEF CopiesIInv, OwnPlace
<1>6. \A v \in Places \ {p} : ClearGround(v)'
  BY <1>1, <1>2, ClearStands DEF CopiesIInv
<1>7. ClearGround(p)'
  BY <1>2 DEF ClearGround
<1>8. QED
  BY <1>3, <1>4, <1>5, <1>6, <1>7 DEF CopiesIInv

LEMMA CopiesInitStep == CopiesInit => CopiesIInv
<1> SUFFICES ASSUME NEW found \in [Places -> {EmptyPlace, OwnRepo} \cup GitDirs],
                    \A p \in Places : found[p] \in GitDirs => found[p] \in Repos \X {p},
                    CopiesStart(found)
             PROVE  CopiesIInv
  BY DEF CopiesInit
<1>1. /\ disk = found /\ laid = [p \in Places |-> None] /\ clear = [p \in Places |-> FALSE]
      /\ dot = [p \in Places |-> IF found[p] = EmptyPlace THEN None ELSE found[p]]
      /\ admin = {found[p] : p \in {v \in Places : found[v] \in GitDirs}}
      /\ worktrees = [p \in Places |-> None] /\ call = [c \in Calls |-> NoCall]
  BY DEF CopiesStart
<1>2. CallsSound
  BY <1>1, NoCallShape DEF CallsSound
<1>3. CopiesTypeOK
  <2>1. dot \in [Places -> {None, OwnRepo, Foreign} \cup GitDirs] /\ admin \subseteq GitDirs
    BY <1>1
  <2>2. \A p \in Places : (disk[p] = EmptyPlace => dot[p] = None) /\ (disk[p] \in GitDirs => disk[p] \in admin)
    BY <1>1
  <2>3. QED
    BY <1>1, <1>2, <2>1, <2>2 DEF CopiesTypeOK, CallsSound
<1>4. \A p \in Places : OwnPlace(p) /\ ClearGround(p)
  BY <1>1 DEF OwnPlace, ClearGround
<1>5. QED
  BY <1>2, <1>3, <1>4 DEF CopiesIInv

LEMMA CopiesStutter == CopiesIInv /\ UNCHANGED copyVars => CopiesIInv'
<1> SUFFICES ASSUME CopiesIInv, UNCHANGED <<disk, dot, admin, worktrees, call, laid, clear>> PROVE CopiesIInv'
  BY DEF copyVars
<1>1. CallsSound' /\ \A p \in Places, d \in Calls : d \in Unrecorded(p)' => call'[d] = call[d]
  BY DEF CopiesIInv, CallsSound
<1>2. QED
  BY <1>1, CallOnly

LEMMA CopiesStep == CopiesIInv /\ CopiesNext => CopiesIInv'
<1> SUFFICES ASSUME CopiesIInv, CopiesNext PROVE CopiesIInv'
  OBVIOUS
<1>1. CASE \E c \in Calls, kind \in {"add", "remove"}, p \in Places, r \in Repos : AskCopy(c, kind, p, r)
  BY <1>1, AskCopyStep DEF Kinds
<1>2. CASE \E c \in Calls, kind \in {"init", "clone"}, p \in Places : AskCreate(c, kind, p)
  BY <1>2, AskCreateStep
<1>3. ASSUME NEW c \in Calls,
             \/ AddWorktree(c) \/ StartRead(c) \/ ReadGitdir(c) \/ Register(c)
             \/ RemoveWorktree(c) \/ Forget(c) \/ Create(c) \/ Ends(c)
      PROVE  CopiesIInv'
  BY <1>3, AddWorktreeStep, ReadStep, RegisterStep, RemoveWorktreeStep, ForgetStep, CreateStep, EndsStep
<1>4. QED
  BY <1>1, <1>2, <1>3, RewriteStep, WipeStep DEF CopiesNext

\* add, remove, init and clone: for any places, repositories and number of calls at
\* once, each of which may fail or be dropped at any step, a copy laid on clear ground
\* is addressed through the gitdir add recorded until it is removed or an init or a
\* clone is asked for there, whatever other calls do there and whatever the guest makes
\* of the .git that add has read.
THEOREM CopiesKept == CopiesSpec => []CopiesInv
<1>1. CopiesIInv => CopiesInv
  <2> SUFFICES ASSUME CopiesIInv, NEW p \in Places, laid[p] # None, clear[p]
               PROVE  Gitdir(p) = laid[p] /\ laid[p] \in admin \cap {disk[p]}
    BY DEF CopiesIInv, CopiesInv, OwnGitdir
  <2>1. disk[p] = laid[p] /\ worktrees[p] = disk[p] /\ disk[p] \in GitDirs /\ disk[p] \in admin
    BY DEF CopiesIInv, CopiesTypeOK, OwnPlace, ClearGround
  <2>2. worktrees[p] \notin {None, OwnRepo}
    BY <2>1, CopiesAssumption
  <2>3. QED
    BY <2>1, <2>2 DEF Gitdir, Through, Flag
<1>2. QED
  BY <1>1, CopiesStep, CopiesInitStep, CopiesStutter, PTL DEF CopiesSpec


-------------------------------------------------------------------------------
(***************************************************************************)
(* Merges                                                                  *)
(***************************************************************************)

IsTree(f) == f = [p \in Paths |-> f[p]]

\* The steps at one path, those of the policy's resolution up to the commit, those a
\* merge in progress is in, and those of a merge alone.
AtPath == {"show", "lay", "stage", "rm"}
Resolving == AtPath \cup {"next", "conflicts", "seal"}
Running == Resolving \cup {"base", "touched"}
OfMerge == Running \cup {"resolve", "merge", "probe", "sealed", "abort"}

\* The ruled paths still to resolve.
Left == op.todo \cup (IF op.pc \in AtPath THEN {op.path} ELSE {})

\* Trees are of the paths, and a path is unmerged only where both sides changed it and
\* while their merge is in progress.
TreesShape ==
    /\ terms \in MergeTerms /\ ops \in 0 .. terms.ops /\ edits \in 0 .. terms.edits
    /\ head.has \subseteq terms.revs /\ mergeHead \in terms.revs \cup {None}
    /\ \A r \in terms.revs : theirs[r] \in RevTrees
    /\ IsTree(head.tree) /\ IsTree(index) /\ IsTree(work)
    /\ \A p \in Paths : work[p] # Conflict /\ head.tree[p] # Conflict
    /\ \A p \in Paths : index[p] = Conflict => mergeHead # None /\ p \in Shared(head.tree, theirs[mergeHead])

OpFields ==
    op = [kind |-> op.kind, rev |-> op.rev, policy |-> op.policy, pc |-> op.pc, clean |-> op.clean,
          base |-> op.base, todo |-> op.todo, path |-> op.path, blob |-> op.blob, answer |-> op.answer,
          conflicts |-> op.conflicts]

OpShape ==
    /\ op.kind \in {"none", "commit", "merge"} /\ op.pc \in Steps
    /\ op.answer \in {"none", "commit", "nothing", "conflicts", "error", "dropped"}
    /\ op.answer = "none" <=> op.pc # "answered"
    /\ op.base \in {None, BaseTree} /\ op.todo \subseteq Paths /\ op.conflicts \subseteq Paths
    /\ op.kind = "merge" => op.rev \in terms.revs /\ op.policy \in Policies
    /\ op.pc \in OfMerge => op.kind = "merge"
    /\ op.pc \in {"status", "addAll", "commitAll"} => op.kind = "commit"
    /\ op.pc = "open" => op.kind # "none"
    /\ op.pc \notin {"abort", "answered"} => op.conflicts = {}

\* However it fails, what is left to resolve is ruled, and where the base was read it
\* is every ruled path that is unmerged, each of them changed by both sides.
ResolveInv ==
    /\ op.pc \in Running => mergeHead # None
    /\ op.pc \in Resolving => Left \subseteq Ruled(Paths)
    /\ op.pc \in Resolving /\ op.base # None =>
         Left \subseteq Shared(head.tree, theirs[mergeHead]) /\ Ruled(Unmerged) \subseteq Left
    /\ op.pc \in {"conflicts", "seal"} => op.todo = {}
    /\ op.pc \in {"lay", "stage"} => op.blob # Conflict
    /\ ConflictsUnruled

\* Where only steps fail, a merge in progress is the one asked for and may be unwound.
UnwindInv ==
    /\ mergeHead # None => op.pc \in Running \cup {"probe", "abort"} /\ mergeHead = op.rev
    /\ op.pc \in Resolving \cup {"touched"} => op.base = BaseTree
    /\ mergeHead # None =>
         \A p \in Paths : \/ index[p] \in {Conflict, head.tree[p]} \/ work[p] = index[p]
                          \/ op.pc = "stage" /\ p = op.path

\* A revision answered for is in the head, and no other was taken.
AskedInv ==
    /\ op.pc = "probe" /\ op.clean /\ mergeHead = None => op.rev \in head.has
    /\ op.pc \in {"readHead", "sealed"} /\ op.kind = "merge" => op.rev \in head.has
    /\ MergedIsAsked

\* A path the guest changed that no rule resolves was left alone, in the index too
\* while the merge is in progress.
PendingInv ==
    op.kind = "merge" =>
        /\ mergeHead # None \/ op.pc \in {"open", "resolve", "merge", "probe"} => head.tree = start.tree
        /\ \A p \in Paths :
             start.work[p] # start.tree[p] /\ p \notin Ruled(Shared(start.tree, theirs[op.rev])) =>
               work[p] = start.work[p] /\ (mergeHead # None => index[p] = head.tree[p])

\* What is staged is git's merge, and the rule's content where one was applied.
StagedInv ==
    /\ mergeHead # None =>
         \A p \in Paths :
            IF p \notin Ruled(Shared(head.tree, theirs[mergeHead]))
              THEN index[p] \in Outcomes(head.tree, theirs[mergeHead], p)
              ELSE op.pc \in Resolving /\ p \notin Left => index[p] = Chosen(p)
    /\ op.pc \in {"lay", "stage", "rm"} => op.blob = Chosen(op.path)
    /\ op.pc = "rm" => op.blob = NoBlob
    /\ op.pc = "stage" => work[op.path] = op.blob

CleanInv == UnwindInv /\ AskedInv /\ PendingInv /\ StagedInv

MergeIInv == TreesShape /\ OpFields /\ OpShape /\ ResolveInv /\ (terms.faults = {} => CleanInv)


LEMMA FirstNumber ==
    ASSUME NEW T, T \subseteq Nat, T # {}
    PROVE  \E n \in T : \A m \in T : n <= m
<1>1. PICK n \in T : \A m \in T : ~(<<m, n>> \in OpToRel(<, Nat))
  BY NatLessThanWellFounded, WFMin, Zenon
<1>2. \A m \in T : ~(m < n)
  BY <1>1 DEF OpToRel
<1>3. QED
  BY <1>2

\* rule_for: what it names is a strategy.
LEMMA RuleForNames ==
    ASSUME NEW policy \in Policies, NEW p, RuleFor(p, policy) # "none"
    PROVE  RuleFor(p, policy) \in {"ours", "theirs", "union"}
<1> DEFINE naming == {i \in DOMAIN policy : p \in policy[i].paths}
           first == CHOOSE i \in naming : \A k \in naming : i <= k
<1>1. /\ DOMAIN policy = 1 .. Len(policy) /\ Len(policy) \in Nat
      /\ \A i \in 1 .. Len(policy) : policy[i].strategy \in {"ours", "theirs", "union"}
  BY MergeAssumption
<1>2. naming \in SUBSET Nat /\ naming \subseteq 1 .. Len(policy)
  BY <1>1
<1>3. naming # {} /\ RuleFor(p, policy) = policy[first].strategy
  BY DEF RuleFor
<1>4. \E i \in naming : \A k \in naming : i <= k
  BY <1>2, <1>3, FirstNumber
<1>5. first \in naming
  BY <1>4
<1>6. QED
  BY <1>1, <1>2, <1>3, <1>5

\* git and diff_tree: what comes to a conflict is what both sides changed, or the name
\* one side moved to of what the other changed.
LEMMA ConflictsShared ==
    ASSUME NEW o, NEW t, NEW p \in Paths, Conflict \in Outcomes(o, t, p),
           \A q \in Paths : o[q] # Conflict /\ t[q] # Conflict
    PROVE  p \in Shared(o, t)
<1> DEFINE mine == Renames(o)
           yours == Renames(t)
           oldTo(rs) == {r[1] : r \in {s \in rs : s[2] = p}}
           Follow(old, other, kept) == IF other[p] # NoBlob \/ other[old] = NoBlob THEN {Conflict} ELSE {kept}
<1>0. NoBlob # Conflict
  BY DEF NoBlob, Conflict
<1>1. \A r \in mine : /\ r[1] \in Paths /\ r[2] \in Paths /\ BaseTree[r[1]] # NoBlob /\ o[r[1]] = NoBlob
                      /\ BaseTree[r[2]] = NoBlob /\ o[r[2]] = BaseTree[r[1]]
  BY DEF Renames
<1>2. \A r \in yours : /\ r[1] \in Paths /\ r[2] \in Paths /\ BaseTree[r[1]] # NoBlob /\ t[r[1]] = NoBlob
                       /\ BaseTree[r[2]] = NoBlob /\ t[r[2]] = BaseTree[r[1]]
  BY DEF Renames
<1>3. /\ \A r \in mine : r[1] \in Diff(BaseTree, o) /\ r[2] \in Diff(BaseTree, o)
      /\ \A r \in yours : r[1] \in Diff(BaseTree, t) /\ r[2] \in Diff(BaseTree, t)
  BY <1>1, <1>2 DEF Diff
<1>4. /\ p \in Diff(BaseTree, o) /\ p \in Diff(BaseTree, t) => p \in Shared(o, t)
      /\ \A r \in mine : r[1] \in Diff(BaseTree, t) => r[2] \in Shared(o, t)
      /\ \A r \in yours : r[1] \in Diff(BaseTree, o) => r[2] \in Shared(o, t)
  BY DEF Shared
<1>5. CASE \E r \in mine, s \in yours : r[1] = s[1] /\ r # s /\ p \in {r[1], r[2], s[2]}
  BY <1>3, <1>4, <1>5
<1> DEFINE both == mine \cap yours # {} /\ p \in UNION {{r[1], r[2]} : r \in mine \cap yours}
<1>6. CASE ~(\E r \in mine, s \in yours : r[1] = s[1] /\ r # s /\ p \in {r[1], r[2], s[2]})
  <2>1. CASE both
    <3>1. Outcomes(o, t, p) = {o[p]}
      BY <1>6, <2>1 DEF Outcomes
    <3>2. QED
      BY <3>1
  <2>2. CASE ~both /\ oldTo(yours) # {}
    <3> DEFINE old == CHOOSE x \in oldTo(yours) : TRUE
    <3>1. Outcomes(o, t, p) = Follow(old, o, o[old])
      BY <1>6, <2>2 DEF Outcomes
    <3>2. PICK r \in yours : r[1] = old /\ r[2] = p
      BY <2>2
    <3> HIDE DEF old
    <3>3. o[p] # NoBlob \/ o[old] = NoBlob
      BY <1>2, <3>1, <3>2
    <3>4. CASE o[p] # NoBlob
      BY <1>2, <1>3, <1>4, <3>2, <3>4 DEF Diff
    <3>5. CASE o[old] = NoBlob
      BY <1>2, <1>3, <1>4, <3>2, <3>5 DEF Diff
    <3>6. QED
      BY <3>3, <3>4, <3>5
  <2>3. CASE ~both /\ oldTo(yours) = {} /\ oldTo(mine) # {}
    <3> DEFINE old == CHOOSE x \in oldTo(mine) : TRUE
    <3>1. Outcomes(o, t, p) = Follow(old, t, t[old])
      BY <1>6, <2>3 DEF Outcomes
    <3>2. PICK r \in mine : r[1] = old /\ r[2] = p
      BY <2>3
    <3> HIDE DEF old
    <3>3. t[p] # NoBlob \/ t[old] = NoBlob
      BY <1>1, <3>1, <3>2
    <3>4. CASE t[p] # NoBlob
      BY <1>1, <1>3, <1>4, <3>2, <3>4 DEF Diff
    <3>5. CASE t[old] = NoBlob
      BY <1>1, <1>3, <1>4, <3>2, <3>5 DEF Diff
    <3>6. QED
      BY <3>3, <3>4, <3>5
  <2>4. CASE ~both /\ oldTo(yours) = {} /\ oldTo(mine) = {}
    <3>1. CASE p \in {r[1] : r \in mine \cup yours}
      <4>1. Outcomes(o, t, p) = {NoBlob}
        BY <1>6, <2>4, <3>1 DEF Outcomes
      <4>2. QED
        BY <1>0, <4>1
    <3>2. CASE p \notin {r[1] : r \in mine \cup yours}
      <4>1. Outcomes(o, t, p) = Three(BaseTree[p], o[p], t[p])
        BY <1>6, <2>4, <3>2 DEF Outcomes
      <4>2. BaseTree[p] # o[p] /\ BaseTree[p] # t[p]
        BY <4>1 DEF Three
      <4>3. QED
        BY <1>4, <4>2 DEF Diff
    <3>3. QED
      BY <3>1, <3>2
  <2>5. QED
    BY <2>1, <2>2, <2>3, <2>4
<1>7. QED
  BY <1>5, <1>6


\* What a step makes of the operation under way.
OpGoes(pc, clean, base, todo, path, blob, answer, conflicts) ==
    /\ OpFields' /\ op'.kind = op.kind /\ op'.rev = op.rev /\ op'.policy = op.policy
    /\ op'.pc = pc /\ op'.clean = clean /\ op'.base = base /\ op'.todo = todo /\ op'.path = path
    /\ op'.blob = blob /\ op'.answer = answer /\ op'.conflicts = conflicts

LEMMA OpGoto ==
    ASSUME OpFields, NEW s, Goto(s)
    PROVE  OpGoes(s, op.clean, op.base, op.todo, op.path, op.blob, op.answer, op.conflicts)
  BY DEF OpFields, OpGoes, Goto

LEMMA OpAnswers ==
    ASSUME OpFields, NEW a, Answer(a)
    PROVE  OpGoes("answered", op.clean, op.base, op.todo, op.path, op.blob, a, op.conflicts)
  BY DEF OpFields, OpGoes, Answer

LEMMA OpUnwinds ==
    ASSUME OpFields, op' = [op EXCEPT !.pc = "abort", !.answer = "none", !.conflicts = {}]
    PROVE  OpGoes("abort", op.clean, op.base, op.todo, op.path, op.blob, "none", {})
  BY DEF OpFields, OpGoes

LEMMA OpProbes ==
    ASSUME OpFields, NEW b, op' = [op EXCEPT !.pc = "probe", !.clean = b]
    PROVE  OpGoes("probe", b, op.base, op.todo, op.path, op.blob, op.answer, op.conflicts)
  BY DEF OpFields, OpGoes

LEMMA OpBases ==
    ASSUME OpFields, NEW b, op' = [op EXCEPT !.pc = "touched", !.base = b]
    PROVE  OpGoes("touched", op.clean, b, op.todo, op.path, op.blob, op.answer, op.conflicts)
  BY DEF OpFields, OpGoes

LEMMA OpTodo ==
    ASSUME OpFields, NEW s, op' = [op EXCEPT !.pc = "next", !.todo = s]
    PROVE  OpGoes("next", op.clean, op.base, s, op.path, op.blob, op.answer, op.conflicts)
  BY DEF OpFields, OpGoes

LEMMA OpNext ==
    ASSUME OpFields, NEW p, op' = [op EXCEPT !.pc = "show", !.path = p, !.todo = @ \ {p}]
    PROVE  OpGoes("show", op.clean, op.base, op.todo \ {p}, p, op.blob, op.answer, op.conflicts)
  BY DEF OpFields, OpGoes

LEMMA OpShows ==
    ASSUME OpFields, NEW s, NEW b, op' = [op EXCEPT !.pc = s, !.blob = b]
    PROVE  OpGoes(s, op.clean, op.base, op.todo, op.path, b, op.answer, op.conflicts)
  BY DEF OpFields, OpGoes

LEMMA OpConflicts ==
    ASSUME OpFields, NEW s, op' = [op EXCEPT !.pc = "abort", !.conflicts = s]
    PROVE  OpGoes("abort", op.clean, op.base, op.todo, op.path, op.blob, op.answer, s)
  BY DEF OpFields, OpGoes


LEMMA TreesSame ==
    ASSUME MergeIInv, UNCHANGED treeVars, Kept
    PROVE  TreesShape'
<1>1. UNCHANGED <<terms, ops, edits, head, index, work, mergeHead, theirs>>
  BY DEF Kept, treeVars
<1>2. QED
  BY <1>1 DEF MergeIInv, TreesShape, IsTree

\* What a step that moves no tree and resolves no path owes where only steps fail.
LeadsOn ==
    /\ op.pc # "stage"
    /\ mergeHead # None => op'.pc \in Running \cup {"probe", "abort"}
    /\ op'.pc = "touched" => op'.base = BaseTree
    /\ op'.pc = "probe" /\ op'.clean /\ mergeHead = None => op.rev \in head.has
    /\ op'.pc \in {"readHead", "sealed"} /\ op.kind = "merge" => op.rev \in head.has
    /\ op'.answer = "commit" /\ op.kind = "merge" => op.rev \in head.has
    /\ op'.pc \in {"open", "resolve", "merge", "probe"} => op.pc \in {"open", "resolve", "merge", "probe"}

LEMMA EarlyStep ==
    ASSUME MergeIInv, UNCHANGED treeVars, Kept, OpFields', OpShape',
           op'.kind = op.kind, op'.rev = op.rev, op'.policy = op.policy,
           op'.pc \notin Resolving, op'.pc \in Running => mergeHead # None, ConflictsUnruled',
           terms.faults = {} => LeadsOn
    PROVE  MergeIInv'
<1>1. UNCHANGED <<terms, ops, edits, start, head, index, work, mergeHead, theirs>>
  BY DEF Kept, treeVars
<1>2. op'.pc \notin {"lay", "stage", "rm", "conflicts", "seal"} /\ op'.pc \notin AtPath
  BY DEF Resolving, AtPath
<1>3. ResolveInv'
  BY <1>1, <1>2 DEF ResolveInv
<1>4. ASSUME terms.faults = {} PROVE CleanInv'
  <2>1. CleanInv /\ LeadsOn
    BY <1>4 DEF MergeIInv
  <2>2. UnwindInv'
    BY <1>1, <1>2, <2>1 DEF CleanInv, UnwindInv, LeadsOn
  <2>3. AskedInv'
    BY <1>1, <2>1 DEF CleanInv, AskedInv, MergedIsAsked, LeadsOn
  <2>4. PendingInv'
    BY <1>1, <2>1 DEF CleanInv, PendingInv, LeadsOn, Ruled
  <2>5. StagedInv'
    BY <1>1, <1>2, <2>1 DEF CleanInv, StagedInv, Ruled
  <2>6. QED
    BY <2>2, <2>3, <2>4, <2>5 DEF CleanInv
<1>5. QED
  BY <1>1, <1>3, <1>4, TreesSame DEF MergeIInv


LEMMA AnswerStep ==
    ASSUME MergeIInv, UNCHANGED treeVars, Kept,
           NEW a \in {"commit", "nothing", "conflicts", "error", "dropped"}, Answer(a),
           terms.faults = {} =>
             /\ mergeHead = None /\ op.pc # "stage"
             /\ a = "commit" /\ op.kind = "merge" => op.rev \in head.has
    PROVE  MergeIInv'
<1>1. OpGoes("answered", op.clean, op.base, op.todo, op.path, op.blob, a, op.conflicts)
  BY OpAnswers DEF MergeIInv
<1>2. UNCHANGED terms
  BY DEF Kept
<1>3. OpShape'
  BY <1>1, <1>2 DEF OpGoes, MergeIInv, OpShape, OfMerge, Running, Resolving, AtPath, Steps
<1>4. ConflictsUnruled'
  BY <1>1 DEF OpGoes, MergeIInv, ResolveInv, ConflictsUnruled
<1>5. op'.pc \notin Resolving /\ op'.pc \notin Running
  BY <1>1 DEF OpGoes, Running, Resolving, AtPath
<1>6. terms.faults = {} => LeadsOn
  BY <1>1 DEF OpGoes, LeadsOn
<1>7. QED
  BY <1>1, <1>3, <1>4, <1>5, <1>6, EarlyStep DEF OpGoes

\* The step a failure unwinds from, a write that may be laid half aside.
LEMMA UnwindStep ==
    ASSUME MergeIInv, UNCHANGED treeVars, Kept, op.pc \in Running \cup {"sealed"},
           op' = [op EXCEPT !.pc = "abort", !.answer = "none", !.conflicts = {}],
           terms.faults = {} => op.pc # "stage"
    PROVE  MergeIInv'
<1>1. OpGoes("abort", op.clean, op.base, op.todo, op.path, op.blob, "none", {})
  BY OpUnwinds DEF MergeIInv
<1>2. UNCHANGED terms
  BY DEF Kept
<1>3. OpShape'
  BY <1>1, <1>2 DEF OpGoes, MergeIInv, OpShape, OfMerge, Running, Resolving, AtPath, Steps
<1>4. ConflictsUnruled'
  BY <1>1 DEF OpGoes, ConflictsUnruled
<1>5. op'.pc \notin Resolving /\ op'.pc \notin Running
  BY <1>1 DEF OpGoes, Running, Resolving, AtPath
<1>6. terms.faults = {} => LeadsOn
  BY <1>1 DEF OpGoes, LeadsOn
<1>7. QED
  BY <1>1, <1>3, <1>4, <1>5, <1>6, EarlyStep DEF OpGoes

LEMMA GotoStep ==
    ASSUME MergeIInv, UNCHANGED treeVars, Kept,
           NEW s \in {"status", "resolve", "addAll", "merge", "base", "readHead"}, Goto(s),
           op.pc \in {"open", "status", "resolve", "probe"},
           s \in {"status", "addAll"} => op.kind = "commit",
           s \in {"resolve", "merge", "base"} => op.kind = "merge",
           s = "base" => mergeHead # None,
           s \in {"resolve", "merge"} => op.pc \in {"open", "resolve"},
           terms.faults = {} =>
             /\ mergeHead # None => s = "base"
             /\ s = "readHead" => op.rev \in head.has
    PROVE  MergeIInv'
<1>1. OpGoes(s, op.clean, op.base, op.todo, op.path, op.blob, op.answer, op.conflicts)
  BY OpGoto DEF MergeIInv
<1>2. UNCHANGED terms
  BY DEF Kept
<1>3. s \notin Resolving /\ s \in Steps /\ (s \in Running => s = "base")
  BY DEF Running, Resolving, AtPath, Steps
<1>4. OpShape'
  BY <1>1, <1>2, <1>3 DEF OpGoes, MergeIInv, OpShape, OfMerge
<1>5. ConflictsUnruled'
  BY <1>1 DEF OpGoes, MergeIInv, ResolveInv, ConflictsUnruled
<1>6. terms.faults = {} => LeadsOn
  BY <1>1 DEF OpGoes, LeadsOn, Running, MergeIInv, OpShape
<1>7. QED
  BY <1>1, <1>3, <1>4, <1>5, <1>6, EarlyStep DEF OpGoes

LEMMA ProbesStep ==
    ASSUME MergeIInv, UNCHANGED treeVars, Kept, op.pc = "merge", NEW b,
           op' = [op EXCEPT !.pc = "probe", !.clean = b],
           terms.faults = {} => (b => op.rev \in head.has)
    PROVE  MergeIInv'
<1>1. OpGoes("probe", b, op.base, op.todo, op.path, op.blob, op.answer, op.conflicts)
  BY OpProbes DEF MergeIInv
<1>2. UNCHANGED terms
  BY DEF Kept
<1>3. "probe" \notin Resolving /\ "probe" \in Steps /\ "probe" \notin Running /\ "merge" \notin Running
  BY DEF Running, Resolving, AtPath, Steps
<1>4. OpShape'
  BY <1>1, <1>2, <1>3 DEF OpGoes, MergeIInv, OpShape, OfMerge
<1>5. ConflictsUnruled'
  BY <1>1 DEF OpGoes, MergeIInv, ResolveInv, ConflictsUnruled
<1>6. terms.faults = {} => LeadsOn
  BY <1>1, <1>3 DEF OpGoes, LeadsOn, MergeIInv, OpShape
<1>7. QED
  BY <1>1, <1>3, <1>4, <1>5, <1>6, EarlyStep DEF OpGoes

LEMMA MergeBaseStep ==
    ASSUME MergeIInv, MergeBase
    PROVE  MergeIInv'
<1>1. op.pc = "base" /\ UNCHANGED treeVars /\ Kept
  BY DEF MergeBase
<1>2. PICK b \in {None, BaseTree} :
        op' = [op EXCEPT !.pc = "touched", !.base = b] /\ (terms.faults = {} => b = BaseTree)
  BY DEF MergeBase
<1>3. OpGoes("touched", op.clean, b, op.todo, op.path, op.blob, op.answer, op.conflicts)
  BY <1>2, OpBases DEF MergeIInv
<1>4. UNCHANGED terms
  BY <1>1 DEF Kept
<1>5. "touched" \notin Resolving /\ "touched" \in Steps /\ "touched" \in Running /\ "base" \in Running
  BY DEF Running, Resolving, AtPath, Steps
<1>6. OpShape'
  BY <1>1, <1>3, <1>4, <1>5 DEF OpGoes, MergeIInv, OpShape, OfMerge
<1>7. ConflictsUnruled' /\ mergeHead # None
  BY <1>1, <1>3, <1>5 DEF OpGoes, MergeIInv, ResolveInv, OpShape, ConflictsUnruled
<1>8. terms.faults = {} => LeadsOn
  BY <1>1, <1>2, <1>3, <1>5 DEF OpGoes, LeadsOn, MergeIInv, OpShape
<1>9. QED
  BY <1>1, <1>3, <1>5, <1>6, <1>7, <1>8, EarlyStep DEF OpGoes


\* Where only steps fail, no merge is in progress at a step that is not of one.
LEMMA NoneInProgress ==
    ASSUME MergeIInv, terms.faults = {},
           op.pc \in {"idle", "answered", "open", "status", "addAll", "commitAll", "resolve", "merge", "readHead", "sealed"}
    PROVE  mergeHead = None
  BY DEF MergeIInv, CleanInv, UnwindInv, Running, Resolving, AtPath

LEMMA BeginningStep ==
    ASSUME MergeIInv, Open \/ Status \/ Resolve \/ MergeUpToDate \/ MergeRefused \/ Probed
    PROVE  MergeIInv'
<1>1. CASE Open
  <2>1. op.pc = "open" /\ UNCHANGED treeVars /\ Kept
    BY <1>1 DEF Open
  <2>2. op.kind = "commit" \/ op.kind = "merge"
    BY <2>1 DEF MergeIInv, OpShape
  <2>3. CASE op.kind = "commit" /\ Goto("status")
    BY <2>1, <2>3, GotoStep, NoneInProgress
  <2>4. CASE op.kind = "merge" /\ Goto("resolve")
    BY <2>1, <2>4, GotoStep, NoneInProgress
  <2>5. QED
    BY <1>1, <2>2, <2>3, <2>4 DEF Open
<1>2. CASE Status
  <2>1. op.pc = "status" /\ op.kind = "commit" /\ UNCHANGED treeVars /\ Kept
    BY <1>2 DEF Status, MergeIInv, OpShape
  <2>2. CASE Answer("nothing")
    BY <2>1, <2>2, AnswerStep, NoneInProgress
  <2>3. CASE Goto("addAll")
    BY <2>1, <2>3, GotoStep, NoneInProgress
  <2>4. QED
    BY <1>2, <2>2, <2>3 DEF Status
<1>3. CASE Resolve
  <2>1. op.pc = "resolve" /\ op.kind = "merge" /\ UNCHANGED treeVars /\ Kept /\ Goto("merge")
    BY <1>3 DEF Resolve, MergeIInv, OpShape, OfMerge
  <2>2. QED
    BY <2>1, GotoStep, NoneInProgress
<1>4. CASE MergeUpToDate
  BY <1>4, ProbesStep DEF MergeUpToDate
<1>5. CASE MergeRefused
  BY <1>5, ProbesStep DEF MergeRefused
<1>6. CASE Probed
  <2>1. op.pc = "probe" /\ op.kind = "merge" /\ UNCHANGED treeVars /\ Kept
    BY <1>6 DEF Probed, MergeIInv, OpShape, OfMerge
  <2>2. CASE mergeHead # None /\ Goto("base")
    BY <2>1, <2>2, GotoStep
  <2>3. CASE mergeHead = None /\ op.clean /\ Goto("readHead")
    <3>1. terms.faults = {} => op.rev \in head.has
      BY <2>1, <2>3 DEF MergeIInv, CleanInv, AskedInv
    <3>2. QED
      BY <2>1, <2>3, <3>1, GotoStep
  <2>4. CASE mergeHead = None /\ Answer("error")
    BY <2>1, <2>4, AnswerStep
  <2>5. QED
    BY <1>6, <2>2, <2>3, <2>4 DEF Probed
<1>7. QED
  BY <1>1, <1>2, <1>3, <1>4, <1>5, <1>6

LEMMA EndingStep ==
    ASSUME MergeIInv, ReadHead \/ Sealed \/ ProbeFails \/ AbortFails \/ DropOp \/ StepFails
    PROVE  MergeIInv'
<1>1. CASE ReadHead \/ Sealed
  <2>1. op.pc \in {"readHead", "sealed"} /\ Answer("commit") /\ UNCHANGED treeVars /\ Kept
    BY <1>1 DEF ReadHead, Sealed
  <2>2. terms.faults = {} /\ op.kind = "merge" => op.rev \in head.has
    BY <2>1 DEF MergeIInv, CleanInv, AskedInv
  <2>3. QED
    BY <2>1, <2>2, AnswerStep, NoneInProgress
<1>2. CASE ProbeFails \/ AbortFails \/ DropOp
  <2>1. terms.faults # {} /\ UNCHANGED treeVars /\ Kept
    BY <1>2 DEF ProbeFails, AbortFails, DropOp
  <2>2. \E a \in {"conflicts", "error", "dropped"} : Answer(a)
    BY <1>2 DEF ProbeFails, AbortFails, DropOp, Outcome
  <2>3. QED
    BY <2>1, <2>2, AnswerStep
<1>3. CASE StepFails
  <2>1. /\ op.pc \in Steps \ {"idle", "answered", "next", "lay", "stage", "probe", "abort"}
        /\ Fail /\ UNCHANGED treeVars /\ Kept
    BY <1>3 DEF StepFails
  <2>2. CASE /\ op.pc \in {"base", "touched", "show", "rm", "conflicts", "seal", "sealed"}
             /\ op' = [op EXCEPT !.pc = "abort", !.answer = "none", !.conflicts = {}]
    BY <2>1, <2>2, UnwindStep DEF Running, Resolving, AtPath
  <2>3. CASE /\ op.pc \in {"open", "status", "addAll", "commitAll", "resolve", "merge", "readHead"}
             /\ Answer("error")
    BY <2>1, <2>3, AnswerStep, NoneInProgress
  <2>4. QED
    BY <2>1, <2>2, <2>3 DEF Fail, Steps
<1>4. QED
  BY <1>1, <1>2, <1>3


\* A step of the resolution that moves no tree.
LEMMA ResolvingStep ==
    ASSUME MergeIInv, UNCHANGED treeVars, Kept, OpFields', OpShape',
           op'.kind = op.kind, op'.rev = op.rev, op'.policy = op.policy, op'.base = op.base,
           op.pc \in {"touched", "next", "show", "conflicts"}, op'.pc \in Resolving, op'.pc # "stage",
           ResolveInv', terms.faults = {} => StagedInv'
    PROVE  MergeIInv'
<1>1. UNCHANGED <<terms, ops, edits, start, head, index, work, mergeHead, theirs>>
  BY DEF Kept, treeVars
<1>2. /\ op'.pc \notin {"probe", "readHead", "sealed", "open", "resolve", "merge", "answered"}
      /\ op'.pc \in Running /\ op.pc \in Resolving \cup {"touched"}
  BY DEF Running, Resolving, AtPath
<1>3. op'.answer = "none"
  BY <1>2 DEF OpShape
<1>4. ASSUME terms.faults = {} PROVE CleanInv'
  <2>1. CleanInv
    BY <1>4 DEF MergeIInv
  <2>2. UnwindInv'
    BY <1>1, <1>2, <2>1 DEF CleanInv, UnwindInv
  <2>3. AskedInv'
    BY <1>1, <1>2, <1>3, <2>1 DEF CleanInv, AskedInv, MergedIsAsked
  <2>4. PendingInv'
    BY <1>1, <1>2, <2>1 DEF CleanInv, PendingInv, Ruled
  <2>5. QED
    BY <1>4, <2>2, <2>3, <2>4 DEF CleanInv
<1>5. QED
  BY <1>1, <1>4, TreesSame DEF MergeIInv

LEMMA SharedPaths == \A o, t : Shared(o, t) \subseteq Paths /\ Diff(o, t) \subseteq Paths
  BY DEF Shared, Diff, Renames

LEMMA ReadTouchedStep ==
    ASSUME MergeIInv, ReadTouched
    PROVE  MergeIInv'
<1>1. /\ op.pc = "touched" /\ UNCHANGED treeVars /\ Kept
      /\ op' = [op EXCEPT !.pc = "next", !.todo = Ruled(Touched(op.base))]
  BY DEF ReadTouched
<1>2. UNCHANGED <<terms, ops, edits, start, head, index, work, mergeHead, theirs>>
  BY <1>1 DEF Kept, treeVars
<1> DEFINE s == Ruled(Touched(op.base))
<1>3. OpGoes("next", op.clean, op.base, s, op.path, op.blob, op.answer, op.conflicts)
  BY <1>1, OpTodo DEF MergeIInv
<1>4. s \subseteq Paths /\ s \subseteq Ruled(Paths)
  BY SharedPaths DEF Ruled, Touched
<1>5. /\ "next" \in Resolving /\ "next" \in Steps /\ "next" \in OfMerge /\ "touched" \in OfMerge
      /\ "next" \notin AtPath /\ "touched" \in Running
  BY DEF OfMerge, Running, Resolving, AtPath, Steps
<1>6. mergeHead # None
  BY <1>1, <1>5 DEF MergeIInv, ResolveInv
<1>7. op.base # None => s = Ruled(Shared(head.tree, theirs[mergeHead]))
  BY DEF Touched
<1>8. Ruled(Unmerged) \subseteq Ruled(Shared(head.tree, theirs[mergeHead]))
  BY DEF MergeIInv, TreesShape, Ruled, Unmerged
<1>9. Ruled(Shared(head.tree, theirs[mergeHead])) \subseteq Shared(head.tree, theirs[mergeHead])
  BY DEF Ruled
<1>10. op.base \in {None, BaseTree} /\ op.conflicts = {}
  BY <1>1 DEF MergeIInv, OpShape
<1> HIDE DEF s
<1>11. OpShape'
  BY <1>1, <1>2, <1>3, <1>4, <1>5 DEF OpGoes, MergeIInv, OpShape
<1>12. Left' = s /\ Ruled(Paths)' = Ruled(Paths) /\ Ruled(Unmerged)' = Ruled(Unmerged)
  BY <1>2, <1>3, <1>5 DEF OpGoes, Left, Ruled, Unmerged
<1>13. ResolveInv'
  BY <1>2, <1>3, <1>4, <1>6, <1>7, <1>8, <1>9, <1>10, <1>12 DEF OpGoes, ResolveInv, ConflictsUnruled
<1>14. ASSUME terms.faults = {} PROVE StagedInv'
  <2>1. StagedInv /\ UnwindInv
    BY <1>14 DEF MergeIInv, CleanInv
  <2>2. op.base # None
    BY <1>1, <2>1, MergeAssumption DEF UnwindInv
  <2>3. \A p \in Paths : p \in Ruled(Shared(head.tree, theirs[mergeHead]))' => p \in Left'
    BY <1>2, <1>3, <1>7, <1>12, <2>2 DEF OpGoes, Ruled
  <2>4. \A p \in Paths : p \notin Ruled(Shared(head.tree, theirs[mergeHead]))'
                         => p \notin Ruled(Shared(head.tree, theirs[mergeHead]))
    BY <1>2, <1>3 DEF OpGoes, Ruled
  <2>5. QED
    BY <1>2, <1>3, <2>1, <2>3, <2>4 DEF OpGoes, StagedInv
<1>15. QED
  BY <1>1, <1>3, <1>5, <1>11, <1>13, <1>14, ResolvingStep DEF OpGoes

\* The paths left stay, and what is staged of the others.
LEMMA LeftStays ==
    ASSUME MergeIInv, UNCHANGED <<terms, head, index, work, mergeHead, theirs>>,
           op'.policy = op.policy, op'.base = op.base, op.pc \in Resolving, op'.pc \in Resolving,
           Left' = Left, op'.conflicts = op.conflicts
    PROVE  /\ Left' \subseteq Ruled(Paths)'
           /\ op'.base # None =>
                Left' \subseteq Shared(head.tree, theirs[mergeHead])' /\ Ruled(Unmerged)' \subseteq Left'
           /\ mergeHead' # None /\ ConflictsUnruled'
           /\ terms.faults = {} /\ mergeHead # None =>
                \A p \in Paths :
                   IF p \notin Ruled(Shared(head.tree, theirs[mergeHead]))'
                     THEN index'[p] \in Outcomes(head.tree, theirs[mergeHead], p)'
                     ELSE op'.pc \in Resolving /\ p \notin Left' => index'[p] = Chosen(p)'
<1>1. ResolveInv /\ op.pc \in Running
  BY DEF MergeIInv, Running
<1>2. /\ Ruled(Paths)' = Ruled(Paths) /\ Ruled(Unmerged)' = Ruled(Unmerged)
      /\ Ruled(Shared(head.tree, theirs[mergeHead]))' = Ruled(Shared(head.tree, theirs[mergeHead]))
  BY DEF Ruled, Unmerged
<1>3. \A p \in Paths : Chosen(p)' = Chosen(p)
  BY DEF Chosen, Union, Keep
<1>4. ConflictsUnruled'
  BY <1>1 DEF ResolveInv, ConflictsUnruled
<1>5. terms.faults = {} => StagedInv
  BY DEF MergeIInv, CleanInv
<1>6. QED
  BY <1>1, <1>2, <1>3, <1>4, <1>5 DEF ResolveInv, StagedInv

LEMMA NextPathStep ==
    ASSUME MergeIInv, NextPath
    PROVE  MergeIInv'
<1>1. op.pc = "next" /\ UNCHANGED treeVars /\ Kept
  BY DEF NextPath
<1>2. UNCHANGED <<terms, ops, edits, start, head, index, work, mergeHead, theirs>>
  BY <1>1 DEF Kept, treeVars
<1>3. /\ {"next", "show", "conflicts"} \subseteq Resolving \cap Steps \cap OfMerge \cap Running
      /\ "next" \notin AtPath /\ "conflicts" \notin AtPath /\ "show" \in AtPath
  BY DEF OfMerge, Running, Resolving, AtPath, Steps
<1>4. Left = op.todo /\ op.todo \subseteq Paths
  BY <1>1, <1>3 DEF Left, MergeIInv, OpShape
<1>5. CASE op.todo = {} /\ Goto("conflicts")
  <2>1. OpGoes("conflicts", op.clean, op.base, op.todo, op.path, op.blob, op.answer, op.conflicts)
    BY <1>5, OpGoto DEF MergeIInv
  <2>2. OpShape'
    BY <1>1, <1>2, <1>3, <2>1 DEF OpGoes, MergeIInv, OpShape
  <2>3. Left' = Left
    BY <1>3, <1>4, <2>1 DEF OpGoes, Left
  <2>4. ResolveInv'
    BY <1>1, <1>2, <1>3, <1>5, <2>1, <2>3, LeftStays DEF OpGoes, ResolveInv
  <2>5. terms.faults = {} => StagedInv'
    BY <1>1, <1>2, <1>3, <2>1, <2>3, LeftStays DEF OpGoes, StagedInv
  <2>6. QED
    BY <1>1, <1>3, <2>1, <2>2, <2>4, <2>5, ResolvingStep DEF OpGoes
<1>6. ASSUME NEW p \in op.todo, op' = [op EXCEPT !.pc = "show", !.path = p, !.todo = @ \ {p}]
      PROVE  MergeIInv'
  <2>1. OpGoes("show", op.clean, op.base, op.todo \ {p}, p, op.blob, op.answer, op.conflicts)
    BY <1>6, OpNext DEF MergeIInv
  <2>2. OpShape'
    BY <1>1, <1>2, <1>3, <1>4, <2>1 DEF OpGoes, MergeIInv, OpShape
  <2>3. Left' = Left
    BY <1>3, <1>4, <2>1 DEF OpGoes, Left
  <2>4. ResolveInv'
    BY <1>1, <1>2, <1>3, <2>1, <2>3, LeftStays DEF OpGoes, ResolveInv
  <2>5. terms.faults = {} => StagedInv'
    BY <1>1, <1>2, <1>3, <2>1, <2>3, LeftStays DEF OpGoes, StagedInv
  <2>6. QED
    BY <1>1, <1>3, <2>1, <2>2, <2>4, <2>5, ResolvingStep DEF OpGoes
<1>7. QED
  BY <1>5, <1>6 DEF NextPath

\* apply: the content a rule lays is one, and no conflict.
LEMMA ChosenContent ==
    ASSUME MergeIInv, mergeHead # None, NEW p \in Paths
    PROVE  Chosen(p) # Conflict
<1>1. theirs[mergeHead] \in RevTrees /\ head.tree[p] # Conflict
  BY DEF MergeIInv, TreesShape
<1>2. theirs[mergeHead][p] # Conflict
  BY <1>1, MergeAssumption
<1>3. Union(p) # Conflict
  BY DEF Union, Conflict
<1>4. QED
  BY <1>1, <1>2, <1>3 DEF Chosen, Keep

LEMMA ShowStep ==
    ASSUME MergeIInv, Show
    PROVE  MergeIInv'
<1>1. op.pc = "show" /\ UNCHANGED treeVars /\ Kept
  BY DEF Show
<1>2. UNCHANGED <<terms, ops, edits, start, head, index, work, mergeHead, theirs>>
  BY <1>1 DEF Kept, treeVars
<1>3. /\ {"show", "lay", "rm"} \subseteq Resolving \cap Steps \cap OfMerge \cap Running \cap AtPath
  BY DEF OfMerge, Running, Resolving, AtPath, Steps
<1>4. op.path \in Paths /\ mergeHead # None
  BY <1>1, <1>3 DEF MergeIInv, ResolveInv, Left, Ruled
<1>5. PICK s \in {"rm", "lay"}, blob \in {Chosen(op.path), NoBlob} :
        /\ op' = [op EXCEPT !.pc = s, !.blob = blob]
        /\ s = "rm" <=> blob = NoBlob
        /\ terms.faults = {} => blob = Chosen(op.path)
  BY DEF Show
<1>6. OpGoes(s, op.clean, op.base, op.todo, op.path, blob, op.answer, op.conflicts)
  BY <1>5, OpShows DEF MergeIInv
<1>7. blob # Conflict
  BY <1>4, ChosenContent DEF NoBlob, Conflict
<1>8. OpShape'
  BY <1>1, <1>2, <1>3, <1>6 DEF OpGoes, MergeIInv, OpShape
<1>9. Left' = Left
  BY <1>1, <1>3, <1>6 DEF OpGoes, Left
<1>10. ResolveInv'
  BY <1>1, <1>2, <1>3, <1>6, <1>7, <1>9, LeftStays DEF OpGoes, ResolveInv
<1>11. Chosen(op.path)' = Chosen(op.path)
  BY <1>2, <1>6 DEF OpGoes, Chosen, Union, Keep
<1>12. terms.faults = {} => StagedInv'
  BY <1>1, <1>2, <1>3, <1>5, <1>6, <1>9, <1>11, LeftStays DEF OpGoes, StagedInv
<1>13. QED
  BY <1>1, <1>3, <1>6, <1>8, <1>10, <1>12, ResolvingStep DEF OpGoes

LEMMA ConflictsStep ==
    ASSUME MergeIInv, Conflicts
    PROVE  MergeIInv'
<1>1. op.pc = "conflicts" /\ UNCHANGED treeVars /\ Kept
  BY DEF Conflicts
<1>2. UNCHANGED <<terms, ops, edits, start, head, index, work, mergeHead, theirs>>
  BY <1>1 DEF Kept, treeVars
<1>3. /\ {"seal", "conflicts"} \subseteq Resolving \cap Steps \cap OfMerge \cap Running
      /\ "seal" \notin AtPath /\ "conflicts" \notin AtPath /\ "abort" \in OfMerge \cap Steps
      /\ "abort" \notin Resolving /\ "abort" \notin Running
  BY DEF OfMerge, Running, Resolving, AtPath, Steps
<1>4. Left = {} /\ op.todo = {}
  BY <1>1, <1>3 DEF Left, MergeIInv, ResolveInv
<1>5. CASE op' = [op EXCEPT !.pc = "seal"]
  <2>1. OpGoes("seal", op.clean, op.base, op.todo, op.path, op.blob, op.answer, op.conflicts)
    BY <1>5, OpGoto DEF MergeIInv, Goto
  <2>2. OpShape'
    BY <1>1, <1>2, <1>3, <2>1 DEF OpGoes, MergeIInv, OpShape
  <2>3. Left' = Left
    BY <1>3, <1>4, <2>1 DEF OpGoes, Left
  <2>4. ResolveInv'
    BY <1>1, <1>2, <1>3, <1>4, <2>1, <2>3, LeftStays DEF OpGoes, ResolveInv
  <2>5. terms.faults = {} => StagedInv'
    BY <1>1, <1>2, <1>3, <2>1, <2>3, LeftStays DEF OpGoes, StagedInv
  <2>6. QED
    BY <1>1, <1>3, <2>1, <2>2, <2>4, <2>5, ResolvingStep DEF OpGoes
<1>6. CASE op' = [op EXCEPT !.pc = "abort", !.conflicts = Unmerged]
  <2>1. OpGoes("abort", op.clean, op.base, op.todo, op.path, op.blob, op.answer, Unmerged)
    BY <1>6, OpConflicts DEF MergeIInv
  <2>2. OpShape'
    BY <1>1, <1>2, <1>3, <2>1 DEF OpGoes, MergeIInv, OpShape, Unmerged
  <2>3. op.base # None => Ruled(Unmerged) = {}
    BY <1>1, <1>3, <1>4 DEF MergeIInv, ResolveInv
  <2>4. ConflictsUnruled'
    BY <2>1, <2>3 DEF OpGoes, ConflictsUnruled, Ruled
  <2>5. terms.faults = {} => LeadsOn
    BY <1>1, <1>3, <2>1 DEF OpGoes, LeadsOn, MergeIInv, OpShape
  <2>6. QED
    BY <1>1, <1>3, <2>1, <2>2, <2>4, <2>5, EarlyStep DEF OpGoes
<1>7. QED
  BY <1>5, <1>6 DEF Conflicts


\* The path being resolved is no pending one that a rule leaves alone.
LEMMA PathResolved ==
    ASSUME MergeIInv, op.pc \in AtPath
    PROVE  /\ op.path \in Paths /\ mergeHead # None /\ op.kind = "merge"
           /\ terms.faults = {} =>
                /\ op.path \in Ruled(Shared(head.tree, theirs[mergeHead]))
                /\ op.path \in Ruled(Shared(start.tree, theirs[op.rev]))
                /\ op.base = BaseTree /\ op.base # None /\ mergeHead = op.rev
<1>1. op.pc \in Resolving /\ op.pc \in Running /\ op.pc \in OfMerge
  BY DEF Resolving, Running, OfMerge
<1>2. op.path \in Ruled(Paths) /\ mergeHead # None /\ op.kind = "merge"
  BY <1>1 DEF MergeIInv, ResolveInv, Left, OpShape
<1>3. ASSUME terms.faults = {} PROVE /\ op.path \in Ruled(Shared(head.tree, theirs[mergeHead]))
                                     /\ op.path \in Ruled(Shared(start.tree, theirs[op.rev]))
                                     /\ op.base = BaseTree /\ op.base # None /\ mergeHead = op.rev
  <2>1. UnwindInv /\ PendingInv
    BY <1>3 DEF MergeIInv, CleanInv
  <2>2. op.base = BaseTree /\ op.base # None /\ mergeHead = op.rev
    BY <1>1, <1>2, <2>1, MergeAssumption DEF UnwindInv
  <2>3. op.path \in Shared(head.tree, theirs[mergeHead])
    BY <1>1, <2>2 DEF MergeIInv, ResolveInv, Left
  <2>4. head.tree = start.tree
    BY <1>2, <2>1 DEF PendingInv
  <2>5. QED
    BY <1>2, <2>2, <2>3, <2>4 DEF Ruled
<1>4. QED
  BY <1>2, <1>3 DEF Ruled

LEMMA LayStep ==
    ASSUME MergeIInv, Lay
    PROVE  MergeIInv'
<1>1. op.pc = "lay" /\ UNCHANGED <<head, index, mergeHead, theirs, terms, ops, edits, start>>
  BY DEF Lay, Kept
<1>2. {"lay", "stage"} \subseteq Resolving \cap Steps \cap OfMerge \cap Running \cap AtPath
  BY DEF OfMerge, Running, Resolving, AtPath, Steps
<1>3. OpGoes("stage", op.clean, op.base, op.todo, op.path, op.blob, op.answer, op.conflicts)
  BY OpGoto DEF MergeIInv, Lay
<1>4. op.path \in Paths /\ mergeHead # None /\ op.blob # Conflict
  BY <1>1, <1>2, PathResolved DEF MergeIInv, ResolveInv
<1>5. IsTree(work') /\ work'[op.path] = op.blob /\ \A q \in Paths : q # op.path => work'[q] = work[q]
  BY <1>4 DEF Lay, MergeIInv, TreesShape, IsTree
<1>6. TreesShape'
  BY <1>1, <1>4, <1>5 DEF MergeIInv, TreesShape, IsTree
<1>7. OpShape'
  BY <1>1, <1>2, <1>3 DEF OpGoes, MergeIInv, OpShape
<1>8. /\ Left' = Left /\ Ruled(Paths)' = Ruled(Paths) /\ Ruled(Unmerged)' = Ruled(Unmerged)
      /\ Ruled(Shared(head.tree, theirs[mergeHead]))' = Ruled(Shared(head.tree, theirs[mergeHead]))
      /\ ConflictsUnruled'
  BY <1>1, <1>2, <1>3 DEF OpGoes, Left, Ruled, Unmerged, MergeIInv, ResolveInv, ConflictsUnruled
<1>9. ResolveInv'
  BY <1>1, <1>2, <1>3, <1>4, <1>8 DEF OpGoes, MergeIInv, ResolveInv
<1>10. ASSUME terms.faults = {} PROVE CleanInv'
  <2>1. CleanInv
    BY <1>10 DEF MergeIInv
  <2>2. \A p \in Paths : Chosen(p)' = Chosen(p)
    BY <1>1, <1>3 DEF OpGoes, Chosen, Union, Keep
  <2>3. UnwindInv'
    BY <1>1, <1>2, <1>3, <1>5, <2>1 DEF OpGoes, CleanInv, UnwindInv
  <2>4. AskedInv'
    BY <1>1, <1>3, <2>1 DEF OpGoes, CleanInv, AskedInv, MergedIsAsked
  <2>5. PendingInv'
    BY <1>1, <1>2, <1>3, <1>5, <1>10, <2>1, PathResolved DEF OpGoes, CleanInv, PendingInv, Ruled
  <2>6. StagedInv'
    BY <1>1, <1>2, <1>3, <1>4, <1>5, <1>8, <2>1, <2>2 DEF OpGoes, CleanInv, StagedInv
  <2>7. QED
    BY <2>3, <2>4, <2>5, <2>6 DEF CleanInv
<1>11. QED
  BY <1>1, <1>3, <1>6, <1>7, <1>9, <1>10 DEF OpGoes, MergeIInv

\* Staging a path, or removing it: in the index and the working tree it is what the
\* rule chose.
LEMMA ResolvedStep ==
    ASSUME MergeIInv, op.pc \in {"stage", "rm"}, Goto("next"),
           UNCHANGED <<head, mergeHead, theirs, terms, ops, edits, start>>, NEW v, v # Conflict,
           index' = [index EXCEPT ![op.path] = v], IsTree(work'), work'[op.path] = v,
           \A q \in Paths : q # op.path => work'[q] = work[q],
           terms.faults = {} => v = op.blob
    PROVE  MergeIInv'
<1>1. /\ {"next", "stage", "rm"} \subseteq Resolving \cap Steps \cap OfMerge \cap Running
      /\ {"stage", "rm"} \subseteq AtPath /\ "next" \notin AtPath
  BY DEF OfMerge, Running, Resolving, AtPath, Steps
<1>2. OpGoes("next", op.clean, op.base, op.todo, op.path, op.blob, op.answer, op.conflicts)
  BY OpGoto DEF MergeIInv
<1>3. op.path \in Paths /\ mergeHead # None
  BY <1>1, PathResolved
<1>4. IsTree(index') /\ index'[op.path] = v /\ \A q \in Paths : q # op.path => index'[q] = index[q]
  BY <1>3 DEF MergeIInv, TreesShape, IsTree
<1>5. TreesShape'
  BY <1>3, <1>4 DEF MergeIInv, TreesShape, IsTree
<1>6. OpShape'
  BY <1>1, <1>2 DEF OpGoes, MergeIInv, OpShape
<1>7. /\ Left' = op.todo /\ Left = op.todo \cup {op.path} /\ Ruled(Paths)' = Ruled(Paths)
      /\ Ruled(Shared(head.tree, theirs[mergeHead]))' = Ruled(Shared(head.tree, theirs[mergeHead]))
      /\ ConflictsUnruled'
  BY <1>1, <1>2 DEF OpGoes, Left, Ruled, MergeIInv, ResolveInv, ConflictsUnruled
<1>8. Ruled(Unmerged)' \subseteq Ruled(Unmerged) /\ op.path \notin Ruled(Unmerged)'
  BY <1>2, <1>3, <1>4 DEF OpGoes, Ruled, Unmerged
<1>9. ResolveInv'
  BY <1>1, <1>2, <1>3, <1>7, <1>8 DEF OpGoes, MergeIInv, ResolveInv
<1>10. ASSUME terms.faults = {} PROVE CleanInv'
  <2>1. CleanInv
    BY <1>10 DEF MergeIInv
  <2>2. (\A p \in Paths : Chosen(p)' = Chosen(p)) /\ v = Chosen(op.path)
    BY <1>2, <1>10, <2>1 DEF OpGoes, Chosen, Union, Keep, CleanInv, StagedInv
  <2>3. UnwindInv'
    BY <1>1, <1>2, <1>4, <2>1 DEF OpGoes, CleanInv, UnwindInv
  <2>4. AskedInv'
    BY <1>2, <2>1 DEF OpGoes, CleanInv, AskedInv, MergedIsAsked
  <2>5. PendingInv'
    BY <1>1, <1>2, <1>4, <1>10, <2>1, PathResolved DEF OpGoes, CleanInv, PendingInv, Ruled
  <2>6. StagedInv'
    BY <1>1, <1>2, <1>3, <1>4, <1>7, <1>10, <2>1, <2>2, PathResolved DEF OpGoes, CleanInv, StagedInv
  <2>7. QED
    BY <2>3, <2>4, <2>5, <2>6 DEF CleanInv
<1>11. QED
  BY <1>2, <1>5, <1>6, <1>9, <1>10 DEF OpGoes, MergeIInv

LEMMA StageStep ==
    ASSUME MergeIInv, Stage \/ Remove
    PROVE  MergeIInv'
<1>1. op.pc \in {"stage", "rm"} /\ Goto("next") /\ UNCHANGED <<head, mergeHead, theirs, terms, ops, edits, start>>
  BY DEF Stage, Remove, Kept
<1>2. op.path \in Paths
  BY <1>1, PathResolved DEF AtPath
<1>3. CASE Stage
  <2>1. /\ index' = [index EXCEPT ![op.path] = work[op.path]] /\ work' = work /\ work[op.path] # Conflict
        /\ IsTree(work)
    BY <1>2, <1>3 DEF Stage, MergeIInv, TreesShape
  <2>2. terms.faults = {} => work[op.path] = op.blob
    BY <1>3 DEF Stage, MergeIInv, CleanInv, StagedInv
  <2>3. QED
    BY <1>1, <2>1, <2>2, ResolvedStep
<1>4. CASE Remove
  <2>1. index' = [index EXCEPT ![op.path] = NoBlob] /\ NoBlob # Conflict
    BY <1>4 DEF Remove, NoBlob, Conflict
  <2>2. IsTree(work') /\ work'[op.path] = NoBlob /\ \A q \in Paths : q # op.path => work'[q] = work[q]
    BY <1>2, <1>4 DEF Remove, MergeIInv, TreesShape, IsTree
  <2>3. terms.faults = {} => NoBlob = op.blob
    BY <1>4 DEF Remove, MergeIInv, CleanInv, StagedInv
  <2>4. QED
    BY <1>1, <2>1, <2>2, <2>3, ResolvedStep
<1>5. QED
  BY <1>3, <1>4

LEMMA LayFailsStep ==
    ASSUME MergeIInv, LayFails
    PROVE  MergeIInv'
<1>1. /\ op.pc \in {"lay", "stage"} /\ terms.faults # {}
      /\ UNCHANGED <<head, index, mergeHead, theirs, terms, ops, edits, start>>
  BY DEF LayFails, Kept
<1>2. op' = [op EXCEPT !.pc = "abort", !.answer = "none", !.conflicts = {}]
  BY <1>1 DEF LayFails, Fail
<1>3. OpGoes("abort", op.clean, op.base, op.todo, op.path, op.blob, "none", {})
  BY <1>2, OpUnwinds DEF MergeIInv
<1>4. op.path \in Paths /\ mergeHead # None
  BY <1>1, PathResolved DEF AtPath
<1>5. work[op.path] # Conflict
  BY <1>4 DEF MergeIInv, TreesShape
<1> DEFINE v == IF op.pc = "lay" THEN Edited ELSE work[op.path]
<1>6. work' = [work EXCEPT ![op.path] = v] /\ v # Conflict
  BY <1>4, <1>5, MergeAssumption DEF LayFails, MergeIInv, TreesShape, IsTree
<1> HIDE DEF v
<1>7. IsTree(work') /\ work'[op.path] = v /\ \A q \in Paths : q # op.path => work'[q] = work[q]
  BY <1>4, <1>6 DEF MergeIInv, TreesShape, IsTree
<1>8. TreesShape'
  BY <1>1, <1>4, <1>6, <1>7 DEF MergeIInv, TreesShape, IsTree
<1>9. OpShape'
  BY <1>1, <1>3 DEF OpGoes, MergeIInv, OpShape, OfMerge, Running, Resolving, AtPath, Steps
<1>10. ResolveInv'
  BY <1>3 DEF OpGoes, ResolveInv, ConflictsUnruled, Running, Resolving, AtPath
<1>11. QED
  BY <1>1, <1>3, <1>8, <1>9, <1>10 DEF OpGoes, MergeIInv


LEMMA MergeStartsStep ==
    ASSUME MergeIInv, MergeStarts
    PROVE  MergeIInv'
<1>1. /\ op.pc = "merge" /\ mergeHead = None /\ index = head.tree /\ mergeHead' = op.rev
      /\ UNCHANGED <<head, theirs, terms, ops, edits, start>>
  BY DEF MergeStarts, Kept
<1>2. PICK m \in Merges(head.tree, theirs[op.rev]) :
         /\ \A p \in Paths : m[p] # head.tree[p] => work[p] = index[p]
         /\ index' = m
         /\ work' = [p \in Paths |-> IF m[p] = head.tree[p] THEN work[p]
                                     ELSE IF m[p] = Conflict THEN Markers ELSE m[p]]
         /\ op' = [op EXCEPT !.pc = "probe", !.clean = \A p \in Paths : m[p] # Conflict]
  BY DEF MergeStarts
<1> DEFINE b == \A p \in Paths : m[p] # Conflict
<1>3. OpGoes("probe", b, op.base, op.todo, op.path, op.blob, op.answer, op.conflicts)
  BY <1>2, OpProbes DEF MergeIInv
<1> HIDE DEF b
<1>4. op.kind = "merge" /\ op.rev \in terms.revs /\ op.conflicts = {}
  BY <1>1 DEF MergeIInv, OpShape, OfMerge
<1>5. op.rev # None /\ theirs[op.rev] \in RevTrees
  BY <1>4, MergeAssumption DEF MergeIInv, TreesShape
<1>6. IsTree(m) /\ \A p \in Paths : m[p] \in Outcomes(head.tree, theirs[op.rev], p)
  BY DEF Merges, IsTree
<1>7. \A q \in Paths : head.tree[q] # Conflict /\ theirs[op.rev][q] # Conflict
  BY <1>5, MergeAssumption DEF MergeIInv, TreesShape
<1>8. \A p \in Paths : m[p] = Conflict => p \in Shared(head.tree, theirs[op.rev])
  BY <1>6, <1>7, ConflictsShared
<1>9. IsTree(work')
      /\ \A p \in Paths : work'[p] = IF m[p] = head.tree[p] THEN work[p]
                                     ELSE IF m[p] = Conflict THEN Markers ELSE m[p]
  BY <1>2 DEF IsTree
<1>10. \A p \in Paths : work'[p] # Conflict
  BY <1>9, MergeAssumption DEF MergeIInv, TreesShape
<1>11. TreesShape'
  BY <1>1, <1>2, <1>4, <1>5, <1>6, <1>8, <1>9, <1>10 DEF MergeIInv, TreesShape, IsTree
<1>12. {"probe", "merge"} \cap (Running \cup Resolving) = {} /\ "probe" \in Steps
  BY DEF Running, Resolving, AtPath, Steps
<1>13. OpShape'
  BY <1>1, <1>3, <1>4, <1>12 DEF OpGoes, MergeIInv, OpShape
<1>14. ResolveInv'
  BY <1>3, <1>4, <1>12 DEF OpGoes, ResolveInv, ConflictsUnruled
<1>15. ASSUME terms.faults = {} PROVE CleanInv'
  <2>1. CleanInv
    BY <1>15 DEF MergeIInv
  <2>2. UnwindInv'
    BY <1>1, <1>2, <1>3, <1>9, <1>12 DEF OpGoes, UnwindInv
  <2>3. AskedInv'
    BY <1>1, <1>3, <1>5, <2>1 DEF OpGoes, CleanInv, AskedInv, MergedIsAsked
  <2>4. PendingInv'
    BY <1>1, <1>2, <1>3, <1>4, <1>9, <2>1 DEF OpGoes, CleanInv, PendingInv, Ruled
  <2>5. StagedInv'
    BY <1>1, <1>2, <1>3, <1>6, <1>12 DEF OpGoes, StagedInv
  <2>6. QED
    BY <2>2, <2>3, <2>4, <2>5 DEF CleanInv
<1>16. QED
  BY <1>1, <1>3, <1>11, <1>13, <1>14, <1>15 DEF OpGoes, MergeIInv

LEMMA AddAllStep ==
    ASSUME MergeIInv, AddAll
    PROVE  MergeIInv'
<1>1. /\ op.pc = "addAll" /\ index' = work /\ op.kind = "commit"
      /\ UNCHANGED <<head, work, mergeHead, theirs, terms, ops, edits, start>>
  BY DEF AddAll, Kept, MergeIInv, OpShape
<1>2. OpGoes("commitAll", op.clean, op.base, op.todo, op.path, op.blob, op.answer, op.conflicts)
  BY OpGoto DEF MergeIInv, AddAll
<1>3. TreesShape'
  BY <1>1 DEF MergeIInv, TreesShape, IsTree
<1>4. "commitAll" \notin Running /\ "commitAll" \notin Resolving /\ "commitAll" \in Steps /\ "commitAll" \notin OfMerge
  BY DEF Running, Resolving, AtPath, Steps, OfMerge
<1>5. OpShape'
  BY <1>1, <1>2, <1>4 DEF OpGoes, MergeIInv, OpShape
<1>6. ResolveInv'
  BY <1>2, <1>4 DEF OpGoes, MergeIInv, ResolveInv, ConflictsUnruled
<1>7. terms.faults = {} => CleanInv'
  BY <1>1, <1>2, <1>4, NoneInProgress
     DEF OpGoes, MergeIInv, CleanInv, UnwindInv, AskedInv, MergedIsAsked, PendingInv, StagedInv
<1>8. QED
  BY <1>1, <1>2, <1>3, <1>5, <1>6, <1>7 DEF OpGoes, MergeIInv

LEMMA GitCommitTrees ==
    ASSUME MergeIInv, GitCommit, Kept
    PROVE  TreesShape'
<1>1. /\ UNCHANGED <<index, work, theirs, terms, ops, edits>> /\ mergeHead' = None
      /\ head'.tree = index /\ head'.has = head.has \cup (IF mergeHead = None THEN {} ELSE {mergeHead})
      /\ \A p \in Paths : index[p] # Conflict
  BY DEF GitCommit, Kept
<1>2. head'.has \subseteq terms.revs
  BY <1>1 DEF MergeIInv, TreesShape
<1>3. QED
  BY <1>1, <1>2 DEF MergeIInv, TreesShape, IsTree

LEMMA CommitAllStep ==
    ASSUME MergeIInv, CommitAll
    PROVE  MergeIInv'
<1>1. op.pc = "commitAll" /\ op.kind = "commit" /\ GitCommit /\ Kept
  BY DEF CommitAll, MergeIInv, OpShape
<1>2. UNCHANGED <<index, work, theirs, terms, ops, edits, start>> /\ mergeHead' = None
  BY <1>1 DEF GitCommit, Kept
<1>3. OpGoes("readHead", op.clean, op.base, op.todo, op.path, op.blob, op.answer, op.conflicts)
  BY OpGoto DEF MergeIInv, CommitAll
<1>4. "readHead" \notin Running /\ "readHead" \notin Resolving /\ "readHead" \in Steps /\ "readHead" \notin OfMerge
  BY DEF Running, Resolving, AtPath, Steps, OfMerge
<1>5. OpShape'
  BY <1>1, <1>2, <1>3, <1>4 DEF OpGoes, MergeIInv, OpShape
<1>6. ResolveInv'
  BY <1>3, <1>4 DEF OpGoes, MergeIInv, ResolveInv, ConflictsUnruled
<1>7. terms.faults = {} => CleanInv'
  BY <1>1, <1>2, <1>3, <1>4
     DEF OpGoes, CleanInv, UnwindInv, AskedInv, MergedIsAsked, PendingInv, StagedInv
<1>8. QED
  BY <1>1, <1>2, <1>3, <1>5, <1>6, <1>7, GitCommitTrees DEF OpGoes, MergeIInv

LEMMA SealStep ==
    ASSUME MergeIInv, Seal
    PROVE  MergeIInv'
<1>1. /\ {"seal"} \subseteq Running \cap Resolving \cap OfMerge
      /\ "sealed" \notin Running /\ "sealed" \notin Resolving /\ "sealed" \in Steps /\ "sealed" \in OfMerge
  BY DEF Running, Resolving, AtPath, Steps, OfMerge
<1>2. op.pc = "seal" /\ op.kind = "merge" /\ GitCommit /\ Kept /\ mergeHead # None
  BY <1>1 DEF Seal, MergeIInv, OpShape, ResolveInv
<1>3. /\ UNCHANGED <<index, work, theirs, terms, ops, edits, start>> /\ mergeHead' = None
      /\ head'.has = head.has \cup {mergeHead}
  BY <1>2 DEF GitCommit, Kept
<1>4. OpGoes("sealed", op.clean, op.base, op.todo, op.path, op.blob, op.answer, op.conflicts)
  BY OpGoto DEF MergeIInv, Seal
<1>5. OpShape'
  BY <1>1, <1>2, <1>3, <1>4 DEF OpGoes, MergeIInv, OpShape
<1>6. ResolveInv'
  BY <1>1, <1>4 DEF OpGoes, MergeIInv, ResolveInv, ConflictsUnruled
<1>7. ASSUME terms.faults = {} PROVE CleanInv'
  <2>1. CleanInv /\ mergeHead = op.rev
    BY <1>2, <1>7 DEF MergeIInv, CleanInv, UnwindInv
  <2>2. UnwindInv'
    BY <1>1, <1>3, <1>4 DEF OpGoes, UnwindInv
  <2>3. AskedInv'
    BY <1>2, <1>3, <1>4, <2>1 DEF OpGoes, CleanInv, AskedInv, MergedIsAsked
  <2>4. PendingInv'
    BY <1>2, <1>3, <1>4, <2>1 DEF OpGoes, CleanInv, PendingInv, Ruled
  <2>5. StagedInv'
    BY <1>3, <1>4 DEF OpGoes, StagedInv
  <2>6. QED
    BY <2>2, <2>3, <2>4, <2>5 DEF CleanInv
<1>8. QED
  BY <1>2, <1>3, <1>4, <1>5, <1>6, <1>7, GitCommitTrees DEF OpGoes, MergeIInv

LEMMA AbortStep ==
    ASSUME MergeIInv, Abort
    PROVE  MergeIInv'
<1>1. /\ op.pc = "abort" /\ op.kind = "merge" /\ Answer(Outcome) /\ Outcome \in {"error", "conflicts"}
      /\ UNCHANGED <<head, theirs, terms, ops, edits, start>> /\ Kept
  BY DEF Abort, Kept, Outcome, MergeIInv, OpShape, OfMerge
<1>2. CASE ~AbortTakes
  <2>1. UNCHANGED treeVars
    BY <1>1, <1>2 DEF Abort, treeVars
  <2>2. terms.faults = {} => mergeHead = None
    BY <1>1, <1>2 DEF AbortTakes, MergeIInv, CleanInv, UnwindInv
  <2>3. QED
    BY <1>1, <2>1, <2>2, AnswerStep
<1>3. CASE AbortTakes
  <2>1. /\ index' = head.tree /\ mergeHead' = None /\ mergeHead # None
        /\ work' = [p \in Paths |-> IF index[p] = head.tree[p] THEN work[p] ELSE head.tree[p]]
    BY <1>3 DEF Abort, AbortTakes
  <2>2. OpGoes("answered", op.clean, op.base, op.todo, op.path, op.blob, Outcome, op.conflicts)
    BY <1>1, OpAnswers DEF MergeIInv
  <2>3. /\ IsTree(work')
        /\ \A p \in Paths : work'[p] = IF index[p] = head.tree[p] THEN work[p] ELSE head.tree[p]
    BY <2>1 DEF IsTree
  <2>4. \A p \in Paths : work'[p] # Conflict
    BY <2>3 DEF MergeIInv, TreesShape
  <2>5. TreesShape'
    BY <1>1, <2>1, <2>3, <2>4 DEF MergeIInv, TreesShape, IsTree
  <2>6. "answered" \notin Running /\ "answered" \notin Resolving /\ "answered" \in Steps /\ "answered" \notin OfMerge
    BY DEF Running, Resolving, AtPath, Steps, OfMerge
  <2>7. OpShape'
    BY <1>1, <2>2, <2>6 DEF OpGoes, MergeIInv, OpShape
  <2>8. ResolveInv'
    BY <2>2, <2>6 DEF OpGoes, MergeIInv, ResolveInv, ConflictsUnruled
  <2>9. ASSUME terms.faults = {} PROVE CleanInv'
    <3>1. CleanInv
      BY <2>9 DEF MergeIInv
    <3>2. UnwindInv'
      BY <2>1, <2>2, <2>6 DEF OpGoes, UnwindInv
    <3>3. AskedInv'
      BY <1>1, <2>2, <3>1 DEF OpGoes, CleanInv, AskedInv, MergedIsAsked
    <3>4. PendingInv'
      BY <1>1, <2>1, <2>2, <2>3, <3>1 DEF OpGoes, CleanInv, PendingInv, Ruled
    <3>5. StagedInv'
      BY <2>1, <2>2 DEF OpGoes, StagedInv
    <3>6. QED
      BY <3>2, <3>3, <3>4, <3>5 DEF CleanInv
  <2>10. QED
    BY <1>1, <2>2, <2>5, <2>7, <2>8, <2>9 DEF OpGoes, MergeIInv
<1>4. QED
  BY <1>2, <1>3

LEMMA AskOpStep ==
    ASSUME MergeIInv, NEW kind \in {"commit", "merge"}, NEW rev, NEW policy,
           kind = "merge" => rev \in terms.revs /\ policy \in Policies, AskOp(kind, rev, policy)
    PROVE  MergeIInv'
<1>1. /\ op.pc \in {"idle", "answered"} /\ ops < terms.ops /\ ops' = ops + 1
      /\ start'.tree = head.tree /\ start'.has = head.has /\ start'.work = work
      /\ UNCHANGED <<terms, head, index, work, mergeHead, theirs, edits>>
  BY DEF AskOp, treeVars
<1>2. op' = [kind |-> kind, rev |-> rev, policy |-> policy, pc |-> "open", clean |-> FALSE,
             base |-> None, todo |-> {}, path |-> None, blob |-> NoBlob, answer |-> "none",
             conflicts |-> {}]
  BY DEF AskOp, Idle
<1>3. OpFields'
  BY <1>2 DEF OpFields
<1>4. /\ op'.kind = kind /\ op'.rev = rev /\ op'.policy = policy /\ op'.pc = "open" /\ op'.base = None
      /\ op'.todo = {} /\ op'.answer = "none" /\ op'.conflicts = {}
  BY <1>2
<1>5. ops' \in 0 .. terms.ops
  <2>1. terms.ops \in Nat
    BY MergeAssumption DEF MergeIInv, TreesShape
  <2>2. QED
    BY <1>1, <2>1 DEF MergeIInv, TreesShape
<1>6. TreesShape'
  BY <1>1, <1>5 DEF MergeIInv, TreesShape, IsTree
<1>7. "open" \notin Running /\ "open" \notin Resolving /\ "open" \in Steps /\ "open" \notin OfMerge
  BY DEF Running, Resolving, AtPath, Steps, OfMerge
<1>8. OpShape'
  BY <1>1, <1>4, <1>7 DEF OpShape
<1>9. ResolveInv'
  BY <1>4, <1>7 DEF ResolveInv, ConflictsUnruled
<1>10. ASSUME terms.faults = {} PROVE CleanInv'
  <2>1. mergeHead = None
    BY <1>1, <1>10, NoneInProgress
  <2>2. UnwindInv' /\ StagedInv'
    BY <1>1, <1>4, <1>7, <2>1 DEF UnwindInv, StagedInv
  <2>3. AskedInv' /\ PendingInv'
    BY <1>1, <1>4, <2>1 DEF AskedInv, MergedIsAsked, PendingInv
  <2>4. QED
    BY <2>2, <2>3 DEF CleanInv
<1>11. QED
  BY <1>1, <1>3, <1>6, <1>8, <1>9, <1>10 DEF MergeIInv

LEMMA EditStep ==
    ASSUME MergeIInv, NEW p \in Paths, Edit(p)
    PROVE  MergeIInv'
<1>1. /\ op.pc \in {"idle", "answered"} /\ edits < terms.edits /\ edits' = edits + 1
      /\ work' = [work EXCEPT ![p] = Edited] /\ op' = Idle
      /\ UNCHANGED <<terms, head, index, mergeHead, theirs, ops, start>>
  BY DEF Edit
<1>2. edits' \in 0 .. terms.edits
  <2>1. terms.edits \in Nat
    BY MergeAssumption DEF MergeIInv, TreesShape
  <2>2. QED
    BY <1>1, <2>1 DEF MergeIInv, TreesShape
<1>3. IsTree(work') /\ \A q \in Paths : work'[q] = IF q = p THEN Edited ELSE work[q]
  BY <1>1 DEF MergeIInv, TreesShape, IsTree
<1>4. TreesShape'
  BY <1>1, <1>2, <1>3, MergeAssumption DEF MergeIInv, TreesShape, IsTree
<1>5. /\ op'.kind = "none" /\ op'.pc = "idle" /\ op'.base = None /\ op'.todo = {} /\ op'.answer = "none"
      /\ op'.conflicts = {}
  BY <1>1 DEF Idle
<1>6. OpFields' /\ OpShape' /\ ResolveInv' /\ (mergeHead' = None => CleanInv')
  <2>1. "idle" \notin Running /\ "idle" \notin Resolving /\ "idle" \in Steps /\ "idle" \notin OfMerge
    BY DEF Running, Resolving, AtPath, Steps, OfMerge
  <2>2. OpFields'
    BY <1>1 DEF OpFields, Idle
  <2>3. OpShape' /\ ResolveInv'
    BY <1>5, <2>1 DEF OpShape, ResolveInv, ConflictsUnruled
  <2>4. mergeHead' = None => CleanInv'
    BY <1>5, <2>1 DEF CleanInv, UnwindInv, AskedInv, MergedIsAsked, PendingInv, StagedInv
  <2>5. QED
    BY <2>2, <2>3, <2>4
<1>7. terms.faults = {} => mergeHead' = None
  BY <1>1, NoneInProgress
<1>8. QED
  BY <1>1, <1>4, <1>6, <1>7 DEF MergeIInv

\* An operation not under way.
LEMMA IdleOp ==
    ASSUME op = Idle
    PROVE  /\ OpFields /\ OpShape /\ ResolveInv
           /\ mergeHead = None => CleanInv
<1>1. /\ op.kind = "none" /\ op.pc = "idle" /\ op.base = None /\ op.todo = {} /\ op.answer = "none"
      /\ op.conflicts = {}
  BY DEF Idle
<1>2. "idle" \notin Running /\ "idle" \notin Resolving /\ "idle" \in Steps /\ "idle" \notin OfMerge
  BY DEF Running, Resolving, AtPath, Steps, OfMerge
<1>3. OpFields
  BY DEF OpFields, Idle
<1>4. OpShape
  BY <1>1, <1>2 DEF OpShape
<1>5. ResolveInv
  BY <1>1, <1>2 DEF ResolveInv, ConflictsUnruled
<1>6. mergeHead = None => CleanInv
  BY <1>1, <1>2 DEF CleanInv, UnwindInv, AskedInv, MergedIsAsked, PendingInv, StagedInv
<1>7. QED
  BY <1>3, <1>4, <1>5, <1>6

LEMMA MergeInitStep == MergeInit => MergeIInv
<1> SUFFICES ASSUME NEW tree \in HeadTrees, NEW t \in MergeTerms, NEW trees \in [t.revs -> RevTrees],
                    terms = t, MergeStart(tree, trees)
             PROVE  MergeIInv
  BY DEF MergeInit
<1>1. /\ head.tree = tree /\ head.has = {} /\ index = tree /\ work = tree /\ mergeHead = None
      /\ theirs = trees /\ op = Idle /\ ops = 0 /\ edits = 0
  BY DEF MergeStart
<1>2. terms.ops \in Nat /\ terms.edits \in Nat
  BY MergeAssumption
<1>3. IsTree(tree) /\ \A p \in Paths : tree[p] # Conflict
  BY MergeAssumption DEF IsTree
<1>4. ops \in 0 .. terms.ops /\ edits \in 0 .. terms.edits
  BY <1>1, <1>2
<1>5. TreesShape
  BY <1>1, <1>3, <1>4 DEF TreesShape, IsTree
<1>6. QED
  BY <1>1, <1>5, IdleOp DEF MergeIInv

LEMMA MergeStutter == MergeIInv /\ UNCHANGED mergeVars => MergeIInv'
<1> SUFFICES ASSUME MergeIInv, UNCHANGED <<terms, head, index, work, mergeHead, theirs, op, ops, edits, start>>
             PROVE  MergeIInv'
  BY DEF mergeVars
<1>1. TreesShape' /\ OpFields' /\ OpShape'
  BY DEF MergeIInv, TreesShape, IsTree, OpFields, OpShape
<1>2. ResolveInv'
  BY DEF MergeIInv, ResolveInv, ConflictsUnruled, Left, Ruled, Unmerged
<1>3. UnwindInv => UnwindInv'
  BY DEF UnwindInv
<1>4. AskedInv => AskedInv'
  BY DEF AskedInv, MergedIsAsked
<1>5. PendingInv => PendingInv'
  BY DEF PendingInv, Ruled
<1>6. StagedInv => StagedInv'
  BY DEF StagedInv, Left, Ruled, Chosen, Union, Keep
<1>7. QED
  BY <1>1, <1>2, <1>3, <1>4, <1>5, <1>6 DEF MergeIInv, CleanInv

LEMMA MergeStep == MergeIInv /\ MergeNext => MergeIInv'
<1> SUFFICES ASSUME MergeIInv, MergeNext PROVE MergeIInv'
  OBVIOUS
<1>1. CASE AskOp("commit", None, <<>>)
  BY <1>1, AskOpStep
<1>2. ASSUME NEW r \in terms.revs, NEW policy \in Policies, AskOp("merge", r, policy) PROVE MergeIInv'
  BY <1>2, AskOpStep
<1>3. CASE Progress
  BY <1>3, BeginningStep, EndingStep, AddAllStep, CommitAllStep, MergeStartsStep, MergeBaseStep,
     ReadTouchedStep, NextPathStep, ShowStep, LayStep, StageStep, ConflictsStep, SealStep, AbortStep
     DEF Progress
<1>4. CASE ProbeFails \/ LayFails \/ AbortFails \/ DropOp
  BY <1>4, EndingStep, LayFailsStep
<1>5. QED
  BY <1>1, <1>2, <1>3, <1>4, EditStep DEF MergeNext

LEMMA MergeIInvHolds == MergeSpec => []MergeIInv
  BY MergeInitStep, MergeStep, MergeStutter, PTL DEF MergeSpec

\* merge and commit: for any paths, trees, policies and number of operations, the
\* conflicts a merge hands back are those no rule names, whatever fails; and where only
\* processes fail to start or refuse, a merge takes the revision asked for, leaves
\* nothing in progress however it ends, and keeps what the guest had pending.
THEOREM MergeKept == MergeSpec => []MergeInv
<1>1. MergeIInv => MergeInv
  <2> SUFFICES ASSUME MergeIInv PROVE MergeInv
    OBVIOUS
  <2>1. MergeTypeOK
    <3>1. DOMAIN index = Paths /\ DOMAIN work = Paths /\ DOMAIN head.tree = Paths
      BY DEF MergeIInv, TreesShape, IsTree
    <3>2. terms.revs \subseteq Revs
      BY MergeAssumption DEF MergeIInv, TreesShape
    <3>3. QED
      BY <3>1, <3>2 DEF MergeIInv, TreesShape, OpShape, MergeTypeOK
  <2>2. ConflictsUnruled
    BY DEF MergeIInv, ResolveInv
  <2>3. ASSUME terms.faults = {} PROVE MergedIsAsked /\ NothingLeft /\ PendingKept
    <3>1. MergedIsAsked
      BY <2>3 DEF MergeIInv, CleanInv, AskedInv
    <3>2. NothingLeft
      BY <2>3, NoneInProgress DEF NothingLeft, Unmerged, MergeIInv, TreesShape
    <3>3. PendingKept
      BY <2>3 DEF PendingKept, MergeIInv, CleanInv, PendingInv
    <3>4. QED
      BY <3>1, <3>2, <3>3
  <2>4. QED
    BY <2>1, <2>2, <2>3 DEF MergeInv
<1>2. QED
  BY <1>1, MergeIInvHolds, PTL

\* Only Seal moves the head of a merge.
LEMMA HeadMoves ==
    ASSUME MergeIInv, MergeNext, op.kind = "merge", head' # head
    PROVE  Seal
<1>1. op.pc # "commitAll"
  BY DEF MergeIInv, OpShape
<1>2. CASE Progress
  BY <1>1, <1>2
     DEF Progress, Open, Status, AddAll, CommitAll, Resolve, MergeStarts, MergeUpToDate, MergeRefused,
         Probed, ReadHead, MergeBase, ReadTouched, NextPath, Show, Lay, Stage, Remove, Conflicts, Sealed,
         Abort, StepFails, treeVars
<1>3. QED
  BY <1>2 DEF MergeNext, AskOp, Edit, ProbeFails, LayFails, AbortFails, DropOp, treeVars

\* seal_merge: what is staged when the merge is sealed is the policy's.
LEMMA SealsChosen ==
    ASSUME MergeIInv, Seal, terms.faults = {}
    PROVE  SealsByPolicy
<1>1. "seal" \in Running /\ "seal" \in Resolving /\ "seal" \in OfMerge /\ "seal" \notin AtPath
  BY DEF Running, Resolving, AtPath, OfMerge
<1>2. /\ op.pc = "seal" /\ mergeHead # None /\ op.todo = {} /\ op.kind = "merge" /\ op.policy \in Policies
      /\ head'.tree = index /\ \A p \in Paths : index[p] # Conflict
  BY <1>1 DEF Seal, GitCommit, MergeIInv, OpShape, ResolveInv
<1>3. Left = {} /\ op.base = BaseTree /\ op.base # None
  BY <1>1, <1>2, MergeAssumption DEF Left, MergeIInv, CleanInv, UnwindInv
<1> DEFINE o == head.tree
           t == theirs[mergeHead]
<1>4. ASSUME NEW p \in Paths, p \notin Ruled(Shared(o, t)) PROVE index[p] \in Outcomes(o, t, p) \ {Conflict}
  BY <1>2, <1>4 DEF MergeIInv, CleanInv, StagedInv
<1>5. ASSUME NEW p \in Paths, p \in Ruled(Shared(o, t)) PROVE index[p] = Chosen(p) /\ RuleFor(p, op.policy) # "none"
  BY <1>1, <1>2, <1>3, <1>5 DEF MergeIInv, CleanInv, StagedInv, Ruled
<1>6. ASSUME NEW p \in Paths, p \in Ruled(Shared(o, t))
      PROVE  index[p] \in CASE RuleFor(p, op.policy) = "ours" -> {o[p]}
                            [] RuleFor(p, op.policy) = "theirs" -> {t[p]}
                            [] OTHER -> {<<"union", BaseTree[p], o[p], t[p]>>}
  <2>1. RuleFor(p, op.policy) \in {"ours", "theirs", "union"}
    BY <1>2, <1>5, <1>6, RuleForNames
  <2>2. Chosen(p) = IF RuleFor(p, op.policy) = "union" THEN <<"union", BaseTree[p], o[p], t[p]>>
                    ELSE IF RuleFor(p, op.policy) = "ours" THEN o[p] ELSE t[p]
    BY <1>3 DEF Chosen, Union, Keep
  <2>3. QED
    BY <1>5, <1>6, <2>1, <2>2
<1>7. ASSUME NEW p \in Paths
      PROVE  head'.tree[p] \in
               IF p \notin Ruled(Shared(o, t)) THEN Outcomes(o, t, p) \ {Conflict}
               ELSE CASE RuleFor(p, op.policy) = "ours" -> {o[p]}
                      [] RuleFor(p, op.policy) = "theirs" -> {t[p]}
                      [] OTHER -> {<<"union", BaseTree[p], o[p], t[p]>>}
  <2>1. CASE p \notin Ruled(Shared(o, t))
    BY <1>2, <1>4, <2>1
  <2>2. CASE p \in Ruled(Shared(o, t))
    BY <1>2, <1>6, <2>2
  <2>3. QED
    BY <2>1, <2>2
<1>8. QED
  BY <1>7 DEF SealsByPolicy

\* seal_merge and policy.rs: for any trees and policies, and whatever git makes of a
\* path, a merge nothing fails seals the rule's content of each path both sides changed
\* that a rule names, git's clean merge of any other, and no conflict.
THEOREM PolicyKept == MergeSpec => SealedByPolicy
<1>1. MergeIInv /\ [MergeNext]_mergeVars => [terms.faults = {} => SealsByPolicy]_mergeVars
  <2> SUFFICES ASSUME MergeIInv, MergeNext, terms.faults = {} PROVE SealsByPolicy
    OBVIOUS
  <2>1. CASE op.kind = "merge" /\ head' # head
    BY <2>1, HeadMoves, SealsChosen
  <2>2. CASE ~(op.kind = "merge" /\ head' # head)
    BY <2>2 DEF SealsByPolicy
  <2>3. QED
    BY <2>1, <2>2
<1>2. QED
  BY <1>1, MergeIInvHolds, PTL DEF MergeSpec, SealedByPolicy


===============================================================================
