----------------------- MODULE GenaiConversationProofs ------------------------
(***************************************************************************)
(* Proofs about GenaiConversation, for any tool calls, any batch bound and   *)
(* any budgets.                                                              *)
(***************************************************************************)
EXTENDS GenaiConversation, SequenceTheorems, TLAPS

\* What a call's outcome in its history can be.
Results == Reasons \cup {"ok", "arguments", "no shell", "unreadable", "undeclared"}

\* Where the last success of a history is: nothing but failures follows it.
Cut(s, i) ==
    /\ i \in 0 .. Len(s)
    /\ i > 0 => s[i] = "ok"
    /\ \A j \in i + 1 .. Len(s) : s[j] # "ok"

\* Each count reaches back to the last success of its call.
CountsCut ==
    /\ hist \in [Calls -> Seq(Results)]
    /\ \A c \in Calls :
         /\ Cut(hist[c], Len(hist[c]) - repeats[c])
         /\ outcome = "open" => repeats[c] < MaxRepeats

\* A completion is open until its line is booked; before its first round it has
\* nothing; without a check it has no candidates.
Staging ==
    /\ outcome = "open" <=> pc # "done"
    /\ pc \in {"translate", "shell"} => ~session /\ round = 0 /\ candidates = 0 /\ ~nudged /\ ~corrected
    /\ ~req.check => candidates = 0 /\ ~nudged /\ pc # "check"

\* How far the completion is: a round asks for a reply that is not booked yet, a
\* nudge stands for one reply over two a candidate, and a correction for every
\* candidate but the one in hand.
Progress ==
    /\ attempts \in Nat /\ attempts <= round
    /\ attempts <= 2 * candidates + 1
    /\ pc \in {"model", "wait", "tool"} =>
         /\ attempts < round /\ candidates < MaxCandidates
         /\ ~nudged => attempts <= 2 * candidates
         /\ corrected <=> candidates > 0
    /\ pc = "check" =>
         /\ attempts <= 2 * candidates /\ candidates > 0
         /\ corrected <=> candidates > 1

\* What is owed is what is left of the batch, and outside a batch nothing is.
Owing ==
    /\ pc = "tool" => batch # <<>> /\ owed = Len(batch)
    /\ pc \notin {"tool", "done"} => owed = 0

\* The inductive invariant.
IInv ==
    /\ TypeOK /\ Staging /\ Progress /\ Owing /\ CountsCut
    /\ InvalidFirst /\ ExhaustedSpent /\ ClosingRunsNothing /\ CorrectedTrue /\ WaitingTrue

-------------------------------------------------------------------------------
(***************************************************************************)
(* Histories and batches                                                   *)
(***************************************************************************)

\* A history has one cut.
LEMMA CutUnique ==
    ASSUME NEW s \in Seq(Results), NEW i, NEW k, Cut(s, i), Cut(s, k)
    PROVE  i = k
<1>1. Len(s) \in Nat /\ i \in 0 .. Len(s) /\ k \in 0 .. Len(s)
  BY DEF Cut
<1>2. ~(i < k)
  BY <1>1 DEF Cut
<1>3. ~(k < i)
  BY <1>1 DEF Cut
<1>4. QED
  BY <1>1, <1>2, <1>3

\* A success cuts the history at its end.
LEMMA CutOk ==
    ASSUME NEW s \in Seq(Results)
    PROVE  Cut(Append(s, "ok"), Len(Append(s, "ok")) - 0)
<1>1. "ok" \in Results
  BY DEF Results
<1>2. /\ Len(Append(s, "ok")) = Len(s) + 1 /\ Len(s) \in Nat
      /\ Append(s, "ok")[Len(s) + 1] = "ok"
  BY <1>1, AppendProperties
<1>3. QED
  BY <1>2 DEF Cut

\* A failure leaves the cut where it was, one further back from the end.
LEMMA CutFailure ==
    ASSUME NEW s \in Seq(Results), NEW n \in Nat, Cut(s, Len(s) - n),
           NEW r \in Results, r # "ok"
    PROVE  Cut(Append(s, r), Len(Append(s, r)) - (n + 1))
<1> DEFINE t == Append(s, r)
<1>1. /\ Len(t) = Len(s) + 1 /\ Len(s) \in Nat
      /\ \A i \in 1 .. Len(s) : t[i] = s[i]
      /\ t[Len(s) + 1] = r
  BY AppendProperties
<1> HIDE DEF t
<1>2. Len(t) - (n + 1) = Len(s) - n
  BY <1>1
<1>3. PICK i : i = Len(s) - n /\ Cut(s, i)
  OBVIOUS
<1>4. Cut(t, i)
  BY <1>1, <1>3 DEF Cut
<1>5. QED
  BY <1>2, <1>3, <1>4 DEF t

\* The counts are those of the failures at the end of each history.
LEMMA CountsTrailing ==
    ASSUME TypeOK, CountsCut, NEW c \in Calls
    PROVE  repeats[c] = TrailingFailures(c)
<1>1. hist[c] \in Seq(Results) /\ Len(hist[c]) \in Nat /\ repeats[c] \in Nat
  BY BudgetAssumption DEF TypeOK, CountsCut
<1> DEFINE i == CHOOSE i \in 0 .. Len(hist[c]) :
                  /\ i > 0 => hist[c][i] = "ok"
                  /\ \A j \in i + 1 .. Len(hist[c]) : hist[c][j] # "ok"
<1>2. Cut(hist[c], Len(hist[c]) - repeats[c])
  BY DEF CountsCut
<1>3. Cut(hist[c], i)
  BY <1>2 DEF Cut
<1>4. i = Len(hist[c]) - repeats[c]
  BY <1>1, <1>2, <1>3, CutUnique
<1>5. TrailingFailures(c) = Len(hist[c]) - i
  BY DEF TrailingFailures
<1> HIDE DEF i
<1>6. QED
  BY <1>1, <1>4, <1>5

\* A batch is a sequence of at most MaxBatch calls.
LEMMA Batches ==
    ASSUME NEW b
    PROVE  b \in BoundedSeq(Calls, MaxBatch) <=> b \in Seq(Calls) /\ Len(b) <= MaxBatch
<1>1. ASSUME b \in BoundedSeq(Calls, MaxBatch) PROVE b \in Seq(Calls) /\ Len(b) <= MaxBatch
  <2>1. PICK m \in 0 .. MaxBatch : b \in [1 .. m -> Calls]
    BY <1>1 DEF BoundedSeq, SeqOf
  <2>2. QED
    BY <2>1, BudgetAssumption
<1>2. ASSUME b \in Seq(Calls), Len(b) <= MaxBatch PROVE b \in BoundedSeq(Calls, MaxBatch)
  <2>1. Len(b) \in 0 .. MaxBatch /\ b \in [1 .. Len(b) -> Calls]
    BY <1>2, BudgetAssumption
  <2>2. QED
    BY <2>1 DEF BoundedSeq, SeqOf
<1>3. QED
  BY <1>1, <1>2

\* What is left of a batch once its head was answered is a batch.
LEMMA BatchTail ==
    ASSUME TypeOK, batch # <<>>
    PROVE  /\ Tail(batch) \in BoundedSeq(Calls, MaxBatch)
           /\ Len(Tail(batch)) = Len(batch) - 1
           /\ Len(batch) \in 1 .. MaxBatch
           /\ Head(batch) \in Calls
<1>1. batch \in Seq(Calls) /\ Len(batch) <= MaxBatch
  BY Batches DEF TypeOK
<1>2. /\ Head(batch) \in Calls /\ Tail(batch) \in Seq(Calls)
      /\ Len(Tail(batch)) = Len(batch) - 1
  BY <1>1, HeadTailProperties
<1>3. Len(batch) \in 1 .. MaxBatch
  BY <1>1, EmptySeq, BudgetAssumption
<1>4. Len(Tail(batch)) <= MaxBatch
  BY <1>2, <1>3, BudgetAssumption
<1>5. QED
  BY <1>2, <1>3, <1>4, Batches

\* A failure that is counted is a result, and not a success.
LEMMA FailureResults ==
    ASSUME NEW c \in Calls, NEW r \in Failures(c)
    PROVE  r \in Results /\ r # "ok"
<1>1. Kind[c] \in {"guest", "workspace", "shell", "unknown"}
  BY BudgetAssumption
<1>2. CASE Kind[c] = "shell"
  BY <1>2 DEF Failures, Call, Shell, Run, Results
<1>3. CASE Kind[c] = "guest"
  BY <1>3 DEF Failures, Call, Declared, Guest, Results
<1>4. CASE Kind[c] \in {"workspace", "unknown"} /\ ~Declared(c)
  BY <1>4 DEF Failures, Call, Results
<1>5. CASE Kind[c] = "workspace" /\ Declared(c)
  BY <1>5 DEF Failures, Call, Workspace, Results
<1>6. QED
  BY <1>1, <1>2, <1>3, <1>4, <1>5 DEF Declared

-------------------------------------------------------------------------------
(***************************************************************************)
(* What the steps do                                                       *)
(***************************************************************************)

\* Where a round, a reply or a check ends the completion and changes nothing else.
Closes ==
    /\ pc \in {"translate", "shell", "model", "wait", "tool", "check"}
    /\ pc' = "done"
    /\ UNCHANGED <<req, session, budgetVars, waits, toolVars, phase, attempts>>

\* A step that ends the completion outright books an outcome that its place justifies.
LEMMA ClosingSteps ==
    ASSUME TypeOK, Staging, Progress,
           \/ ShellRefused \/ ReplyFails \/ CheckPasses \/ CheckFails \/ ToolFailsHard
           \/ Timeout \/ Dropped
    PROVE  /\ Closes
           /\ outcome' \in {"ok", "corrected", "timeout", "abort", "exhausted", "provider",
                            "transport", "error", "invalid"}
           /\ outcome' = "invalid" => pc = "shell"
           /\ outcome' = "exhausted" => hostSpent'
           /\ outcome' = "corrected" => candidates > 1
           /\ outcome' = "ok" => candidates <= 1
           /\ UNCHANGED hostSpent \/ hostSpent'
<1>1. CASE ShellRefused \/ Timeout \/ Dropped
  BY <1>1 DEF ShellRefused, Timeout, Dropped, Finish, Closes
<1>2. CASE ReplyFails
  BY <1>2 DEF ReplyFails, Finish, OutcomeOf, Closes
<1>3. CASE CheckPasses \/ CheckFails
  BY <1>3 DEF CheckPasses, CheckFails, Finish, Closes, Progress, TypeOK
<1>4. CASE ToolFailsHard
  BY <1>4 DEF ToolFailsHard, Finish, Closes
<1>5. QED
  BY <1>1, <1>2, <1>3, <1>4

\* A call that was answered is one of the batch; what follows is the next call, the
\* next round, or the end of the repeat budget.
LEMMA ToolSteps ==
    ASSUME ToolDone \/ ToolFails
    PROVE  /\ pc = "tool"
           /\ UNCHANGED <<req, session, candidates, nudged, corrected, attempts, hostSpent>>
           /\ \/ Responded
              \/ Finish("exhausted") /\ UNCHANGED <<batch, owed, round, waits, phase>>
BY DEF ToolDone, ToolFails

\* The cases every proof below goes through.
LEMMA Steps ==
    ASSUME [Next]_vars
    PROVE  \/ ShellRefused \/ ReplyFails \/ CheckPasses \/ CheckFails \/ ToolFailsHard
           \/ Timeout \/ Dropped
           \/ Translate \/ Staged \/ TransportFails \/ WaitOver
           \/ \E b \in BoundedSeq(Calls, MaxBatch) \ {<<>>}, cut \in BOOLEAN : ReplyCalls(b, cut)
           \/ \E off \in BOOLEAN : ReplyText(off)
           \/ CheckRejects \/ ToolDone \/ ToolFails \/ UNCHANGED vars
BY DEF Next

\* An open completion awaits something.
LEMMA StagingStep ==
    ASSUME TypeOK, Staging, Progress, [Next]_vars
    PROVE  Staging'
<1>1. ASSUME Closes, outcome' # "open" PROVE Staging'
  BY <1>1 DEF Closes, Staging, budgetVars
<1>2. CASE ShellRefused \/ ReplyFails \/ CheckPasses \/ CheckFails \/ ToolFailsHard
           \/ Timeout \/ Dropped
  BY <1>1, <1>2, ClosingSteps
<1>3. CASE Translate
  BY <1>3 DEF Translate, Finish, Staging, budgetVars
<1>4. CASE Staged
  BY <1>4 DEF Staged, NextRound, Finish, Staging
<1>5. CASE TransportFails \/ WaitOver
  BY <1>5 DEF TransportFails, WaitOver, Finish, OutcomeOf, Staging, budgetVars
<1>6. ASSUME NEW b, NEW cut, ReplyCalls(b, cut) PROVE Staging'
  BY <1>6 DEF ReplyCalls, ToolRound, NextRound, Finish, Staging
<1>7. ASSUME NEW off, ReplyText(off) PROVE Staging'
  BY <1>7 DEF ReplyText, NextRound, Finish, Staging, budgetVars
<1>8. CASE CheckRejects
  BY <1>8 DEF CheckRejects, NextRound, Finish, Staging, budgetVars
<1>9. CASE ToolDone \/ ToolFails
  BY <1>9 DEF ToolDone, ToolFails, Responded, NextRound, Finish, Staging
<1>10. CASE UNCHANGED vars
  BY <1>10 DEF vars, budgetVars, Staging
<1>11. QED
  BY <1>2, <1>3, <1>4, <1>5, <1>6, <1>7, <1>8, <1>9, <1>10, Steps

\* Rounds, replies and candidates keep step.
LEMMA ProgressStep ==
    ASSUME TypeOK, Staging, Progress, [Next]_vars
    PROVE  Progress'
<1> USE BudgetAssumption
<1>1. ASSUME pc' = "done", UNCHANGED <<round, candidates, attempts>> PROVE Progress'
  BY <1>1 DEF Progress
<1>2. CASE ShellRefused \/ ReplyFails \/ CheckPasses \/ CheckFails \/ ToolFailsHard
           \/ Timeout \/ Dropped
  BY <1>1, <1>2, ClosingSteps DEF Closes, budgetVars
<1>3. CASE Translate
  BY <1>3 DEF Translate, Finish, Progress, budgetVars
<1>4. CASE Staged
  BY <1>4 DEF Staged, NextRound, Finish, Progress, Staging, TypeOK
<1>5. CASE TransportFails \/ WaitOver
  BY <1>5 DEF TransportFails, WaitOver, Finish, Progress, budgetVars
<1>6. ASSUME NEW b, NEW cut, ReplyCalls(b, cut) PROVE Progress'
  BY <1>6 DEF ReplyCalls, ToolRound, NextRound, Finish, Progress, TypeOK
<1>7. ASSUME NEW off, ReplyText(off) PROVE Progress'
  <2>1. attempts' = attempts + 1 /\ attempts' \in Nat /\ attempts < round /\ candidates < MaxCandidates
    BY <1>7 DEF ReplyText, Answered, Progress
  <2>2. CASE ~req.check /\ Finish("ok") /\ UNCHANGED budgetVars
    BY <2>1, <2>2, <1>7 DEF ReplyText, Finish, Progress, Staging, TypeOK, budgetVars
  <2>3. CASE ~nudged /\ nudged' = TRUE /\ NextRound /\ UNCHANGED <<candidates, corrected>>
    BY <2>1, <2>3, <1>7 DEF ReplyText, NextRound, Finish, Progress, TypeOK
  <2>4. CASE candidates' = candidates + 1 /\ pc' = "check" /\ UNCHANGED <<round, nudged, corrected>>
    BY <2>1, <2>4, <1>7 DEF ReplyText, Progress, TypeOK
  <2>5. QED
    BY <1>7, <2>2, <2>3, <2>4 DEF ReplyText, Nudge
<1>8. CASE CheckRejects
  BY <1>8 DEF CheckRejects, NextRound, Finish, Progress, TypeOK, budgetVars
<1>9. CASE ToolDone \/ ToolFails
  <2>1. /\ pc = "tool" /\ UNCHANGED <<candidates, nudged, corrected, attempts>>
        /\ NextRound \/ (pc' \in {pc, "done"} /\ UNCHANGED round)
    BY <1>9, ToolSteps DEF Responded, Finish
  <2>2. CASE NextRound
    BY <2>1, <2>2 DEF NextRound, Finish, Progress, TypeOK
  <2>3. CASE pc' \in {pc, "done"} /\ UNCHANGED round
    BY <2>1, <2>3 DEF Progress
  <2>4. QED
    BY <2>1, <2>2, <2>3
<1>10. CASE UNCHANGED vars
  BY <1>10 DEF vars, budgetVars, Progress
<1>11. QED
  BY <1>2, <1>3, <1>4, <1>5, <1>6, <1>7, <1>8, <1>9, <1>10, Steps

\* Every call of a reply is answered before the next request is put.
LEMMA OwingStep ==
    ASSUME TypeOK, Staging, Progress, Owing, [Next]_vars
    PROVE  Owing'
<1>1. ASSUME pc' = "done" PROVE Owing'
  BY <1>1 DEF Owing
<1>2. CASE ShellRefused \/ ReplyFails \/ CheckPasses \/ CheckFails \/ ToolFailsHard
           \/ Timeout \/ Dropped
  BY <1>1, <1>2, ClosingSteps DEF Closes
<1>3. CASE Translate \/ Staged \/ TransportFails \/ WaitOver
  BY <1>3 DEF Translate, Staged, TransportFails, WaitOver, NextRound, Finish, Owing, toolVars
<1>4. ASSUME NEW b \in BoundedSeq(Calls, MaxBatch) \ {<<>>}, NEW cut, ReplyCalls(b, cut) PROVE Owing'
  BY <1>4 DEF ReplyCalls, Refuse, ToolRound, NextRound, Finish, Owing
<1>5. ASSUME NEW off, ReplyText(off) PROVE Owing'
  BY <1>5 DEF ReplyText, NextRound, Finish, Owing, toolVars
<1>6. CASE CheckRejects
  BY <1>6 DEF CheckRejects, NextRound, Finish, Owing, toolVars
<1>7. ASSUME pc = "tool", Responded PROVE Owing'
  <2>1. batch # <<>> /\ owed = Len(batch)
    BY <1>7 DEF Owing
  <2>2. Len(Tail(batch)) = Len(batch) - 1 /\ Tail(batch) \in Seq(Calls)
    BY <2>1, BatchTail, Batches
  <2>3. Tail(batch) = <<>> => Len(Tail(batch)) = 0
    BY <2>2, EmptySeq
  <2>4. owed' = Len(Tail(batch)) /\ batch' = Tail(batch)
    BY <1>7, <2>1, <2>2 DEF Responded
  <2>5. CASE Tail(batch) # <<>> /\ UNCHANGED pc
    BY <1>7, <2>4, <2>5 DEF Owing
  <2>6. CASE Tail(batch) = <<>> /\ NextRound
    BY <2>3, <2>4, <2>6 DEF NextRound, Finish, Owing
  <2>7. QED
    BY <1>7, <2>5, <2>6 DEF Responded
<1>8. CASE ToolDone \/ ToolFails
  BY <1>1, <1>7, <1>8, ToolSteps DEF Finish
<1>9. CASE UNCHANGED vars
  BY <1>9 DEF vars, toolVars, Owing
<1>10. QED
  BY <1>2, <1>3, <1>4, <1>5, <1>6, <1>8, <1>9, Steps

\* The counts follow the histories: a success takes both to the end, a failure
\* lengthens both by one.
LEMMA CountsStep ==
    ASSUME TypeOK, Staging, Progress, Owing, CountsCut, [Next]_vars
    PROVE  CountsCut'
<1> USE BudgetAssumption
<1>1. ASSUME UNCHANGED <<repeats, hist>>, outcome' = "open" => outcome = "open" PROVE CountsCut'
  BY <1>1 DEF CountsCut
<1>2. CASE ShellRefused \/ ReplyFails \/ CheckPasses \/ CheckFails \/ ToolFailsHard
           \/ Timeout \/ Dropped
  BY <1>1, <1>2, ClosingSteps DEF Closes, toolVars
<1>3. CASE Translate \/ Staged \/ TransportFails \/ WaitOver
  BY <1>1, <1>3 DEF Translate, Staged, TransportFails, WaitOver, NextRound, Finish, OutcomeOf, toolVars
<1>4. ASSUME NEW b, NEW cut, ReplyCalls(b, cut) PROVE CountsCut'
  BY <1>1, <1>4 DEF ReplyCalls, NextRound, Finish
<1>5. ASSUME NEW off, ReplyText(off) PROVE CountsCut'
  BY <1>1, <1>5 DEF ReplyText, NextRound, Finish, toolVars
<1>6. CASE CheckRejects
  BY <1>1, <1>6 DEF CheckRejects, NextRound, Finish, toolVars
<1>7. CASE ToolDone \/ ToolFails
  <2>1. PICK c : c = Head(batch)
    OBVIOUS
  <2>2. c \in Calls /\ outcome = "open"
    BY <1>7, <2>1, ToolSteps, BatchTail DEF Owing, Staging
  <2>3. /\ hist \in [Calls -> Seq(Results)]
        /\ \A d \in Calls : repeats[d] \in Nat /\ repeats[d] < MaxRepeats
                            /\ Cut(hist[d], Len(hist[d]) - repeats[d])
        /\ repeats \in [Calls -> 0 .. MaxRepeats]
    BY <2>2 DEF CountsCut, TypeOK
  <2>4. CASE ToolDone
    <3>1. /\ repeats' = [repeats EXCEPT ![c] = 0]
          /\ hist' = [hist EXCEPT ![c] = Append(hist[c], "ok")]
      BY <2>1, <2>4 DEF ToolDone
    <3>2. "ok" \in Results
      BY DEF Results
    <3>3. hist' \in [Calls -> Seq(Results)]
      BY <2>2, <2>3, <3>1, <3>2, AppendProperties
    <3>4. Cut(hist'[c], Len(hist'[c]) - repeats'[c]) /\ repeats'[c] < MaxRepeats
      <4>1. hist'[c] = Append(hist[c], "ok") /\ repeats'[c] = 0
        BY <2>2, <2>3, <3>1
      <4>2. QED
        BY <2>2, <2>3, <4>1, CutOk
    <3>5. ASSUME NEW d \in Calls, d # c
          PROVE  Cut(hist'[d], Len(hist'[d]) - repeats'[d]) /\ repeats'[d] < MaxRepeats
      <4>1. hist'[d] = hist[d] /\ repeats'[d] = repeats[d]
        BY <2>3, <3>1, <3>5
      <4>2. QED
        BY <2>3, <4>1
    <3>6. QED
      BY <3>3, <3>4, <3>5 DEF CountsCut
  <2>5. CASE ToolFails
    <3>1. PICK r \in Failures(c) :
            /\ repeats' = [repeats EXCEPT ![c] = repeats[c] + 1]
            /\ hist' = [hist EXCEPT ![c] = Append(hist[c], r)]
            /\ \/ outcome' = "exhausted"
               \/ repeats[c] + 1 < MaxRepeats
      BY <2>1, <2>5 DEF ToolFails, Finish
    <3>2. r \in Results /\ r # "ok"
      BY <2>2, FailureResults
    <3>3. hist' \in [Calls -> Seq(Results)]
      BY <2>2, <2>3, <3>1, <3>2, AppendProperties
    <3>4. /\ Cut(hist'[c], Len(hist'[c]) - repeats'[c])
          /\ outcome' = "open" => repeats'[c] < MaxRepeats
      <4>1. hist'[c] = Append(hist[c], r) /\ repeats'[c] = repeats[c] + 1
        BY <2>2, <2>3, <3>1
      <4>2. QED
        BY <2>2, <2>3, <3>1, <3>2, <4>1, CutFailure
    <3>5. ASSUME NEW d \in Calls, d # c
          PROVE  Cut(hist'[d], Len(hist'[d]) - repeats'[d]) /\ repeats'[d] < MaxRepeats
      <4>1. hist'[d] = hist[d] /\ repeats'[d] = repeats[d]
        BY <2>3, <3>1, <3>5
      <4>2. QED
        BY <2>3, <4>1
    <3>6. QED
      BY <3>3, <3>4, <3>5 DEF CountsCut
  <2>6. QED
    BY <1>7, <2>4, <2>5
<1>8. CASE UNCHANGED vars
  BY <1>1, <1>8 DEF vars, toolVars
<1>9. QED
  BY <1>2, <1>3, <1>4, <1>5, <1>6, <1>7, <1>8, Steps

\* What the outcome says stays true, and is true when it is booked.
LEMMA OutcomeStep ==
    ASSUME TypeOK, Staging, Progress, Owing, CountsCut, [Next]_vars,
           InvalidFirst, ExhaustedSpent, CorrectedTrue
    PROVE  InvalidFirst' /\ ExhaustedSpent' /\ CorrectedTrue'
<1> USE BudgetAssumption
<1> USE DEF InvalidFirst, ExhaustedSpent, CorrectedTrue
<1>1. CASE outcome' = "open"
  BY <1>1
<1>2. CASE ShellRefused \/ ReplyFails \/ CheckPasses \/ CheckFails \/ ToolFailsHard
           \/ Timeout \/ Dropped
  BY <1>2, ClosingSteps DEF Closes, budgetVars, Staging
<1>3. ASSUME NextRound, UNCHANGED <<session, candidates, hostSpent>>, outcome = "open"
      PROVE  InvalidFirst' /\ ExhaustedSpent' /\ CorrectedTrue'
  BY <1>3 DEF NextRound, Finish
<1>4. CASE Translate
  BY <1>4 DEF Translate, Finish, Staging, budgetVars
<1>5. CASE TransportFails \/ WaitOver
  BY <1>1, <1>5 DEF TransportFails, WaitOver, Finish, OutcomeOf, Staging
<1>6. CASE Staged
  BY <1>6 DEF Staged, NextRound, Finish, Staging, TypeOK
<1>7. ASSUME NEW b, NEW cut, ReplyCalls(b, cut)
      PROVE  InvalidFirst' /\ ExhaustedSpent' /\ CorrectedTrue'
  BY <1>1, <1>3, <1>7 DEF ReplyCalls, Staging
<1>8. ASSUME NEW off, ReplyText(off)
      PROVE  InvalidFirst' /\ ExhaustedSpent' /\ CorrectedTrue'
  <2>1. outcome = "open" /\ UNCHANGED <<session, hostSpent>>
    BY <1>8 DEF ReplyText, Staging
  <2>2. CASE ~req.check /\ Finish("ok") /\ UNCHANGED budgetVars
    BY <2>1, <2>2 DEF Finish, Staging, budgetVars
  <2>3. CASE NextRound /\ UNCHANGED candidates
    BY <1>3, <2>1, <2>3
  <2>4. CASE UNCHANGED outcome
    BY <1>1, <2>1, <2>4
  <2>5. QED
    BY <1>8, <2>2, <2>3, <2>4 DEF ReplyText
<1>9. CASE CheckRejects
  <2>1. outcome = "open" /\ UNCHANGED <<session, hostSpent>>
    BY <1>9 DEF CheckRejects, Staging
  <2>2. CASE (candidates >= MaxCandidates \/ round = MaxRounds) /\ Finish("exhausted") /\ UNCHANGED budgetVars
    BY <2>1, <2>2 DEF Finish, budgetVars, TypeOK
  <2>3. CASE NextRound /\ UNCHANGED candidates
    BY <1>3, <2>1, <2>3
  <2>4. QED
    BY <1>9, <2>2, <2>3 DEF CheckRejects
<1>10. CASE ToolDone \/ ToolFails
  <2>1. outcome = "open" /\ UNCHANGED <<session, candidates, hostSpent>> /\ batch # <<>>
    BY <1>10, ToolSteps DEF Staging, Owing
  <2>2. CASE Responded
    BY <1>1, <1>3, <2>1, <2>2 DEF Responded
  <2>3. CASE ToolFails /\ ~Responded
    <3>1. PICK c : c = Head(batch)
      OBVIOUS
    <3>2. c \in Calls /\ repeats[c] \in Nat /\ repeats[c] < MaxRepeats /\ repeats \in [Calls -> 0 .. MaxRepeats]
      BY <2>1, <3>1, BatchTail DEF TypeOK, CountsCut
    <3>3. /\ repeats' = [repeats EXCEPT ![c] = repeats[c] + 1]
          /\ repeats[c] + 1 >= MaxRepeats /\ outcome' = "exhausted"
      BY <2>3, <3>1 DEF ToolFails, Finish
    <3>4. repeats'[c] = MaxRepeats
      BY <3>2, <3>3
    <3>5. QED
      BY <3>2, <3>3, <3>4
  <2>4. QED
    BY <1>10, <2>2, <2>3 DEF ToolDone
<1>11. CASE UNCHANGED vars
  BY <1>11 DEF vars, budgetVars, toolVars
<1>12. QED
  BY <1>2, <1>4, <1>5, <1>6, <1>7, <1>8, <1>9, <1>10, <1>11, Steps

\* No tool round opens where an answer is due, and the phase follows what is awaited.
LEMMA PhaseStep ==
    ASSUME TypeOK, Staging, Progress, Owing, [Next]_vars, ClosingRunsNothing, WaitingTrue
    PROVE  ClosingRunsNothing' /\ WaitingTrue'
<1> USE DEF ClosingRunsNothing, WaitingTrue
<1>1. CASE pc' = "done"
  BY <1>1
<1>2. CASE ShellRefused \/ ReplyFails \/ CheckPasses \/ CheckFails \/ ToolFailsHard
           \/ Timeout \/ Dropped
  BY <1>1, <1>2, ClosingSteps DEF Closes
<1>3. CASE NextRound
  BY <1>3 DEF NextRound, Finish, Enter
<1>4. CASE Translate \/ TransportFails \/ WaitOver
  BY <1>1, <1>4 DEF Translate, TransportFails, WaitOver, Finish
<1>5. CASE Staged
  BY <1>3, <1>5 DEF Staged
<1>6. ASSUME NEW b, NEW cut, ReplyCalls(b, cut)
      PROVE  ClosingRunsNothing' /\ WaitingTrue'
  <2>1. CASE ~Closing /\ ToolRound(b) /\ UNCHANGED <<round, nudged>>
    <3>1. ~nudged' /\ round' < MaxRounds
      BY <2>1, BudgetAssumption DEF Closing, TypeOK
    <3>2. pc' = "tool" /\ phase' = PhaseOf(Head(batch'))
      BY <2>1 DEF ToolRound, Enter
    <3>3. QED
      BY <3>1, <3>2 DEF PhaseOf
  <2>2. QED
    BY <1>3, <1>6, <2>1 DEF ReplyCalls
<1>7. ASSUME NEW off, ReplyText(off)
      PROVE  ClosingRunsNothing' /\ WaitingTrue'
  BY <1>1, <1>3, <1>7 DEF ReplyText, Finish, Enter
<1>8. CASE CheckRejects
  BY <1>1, <1>3, <1>8 DEF CheckRejects, Finish
<1>9. CASE ToolDone \/ ToolFails
  <2>1. CASE Responded /\ ~NextRound
    <3>1. pc = "tool" /\ UNCHANGED <<pc, round, nudged>> /\ phase' = PhaseOf(Head(batch'))
      BY <1>9, <2>1, ToolSteps DEF Responded, Enter
    <3>2. QED
      BY <3>1 DEF PhaseOf
  <2>2. QED
    BY <1>1, <1>3, <1>9, <2>1, ToolSteps DEF Finish
<1>10. CASE UNCHANGED vars
  BY <1>10 DEF vars, budgetVars, toolVars, PhaseOf
<1>11. QED
  BY <1>2, <1>4, <1>5, <1>6, <1>7, <1>8, <1>9, <1>10, Steps

-------------------------------------------------------------------------------
(***************************************************************************)
(* Types, and the theorems                                                 *)
(***************************************************************************)

\* The phase an entry books is one there is.
LEMMA PhaseTyped ==
    ASSUME NEW c
    PROVE  PhaseOf(c) \in {"model", "tool", "shell", "check"}
BY DEF PhaseOf

\* A round that opens, or is refused, keeps the types of what it writes.
LEMMA NextRoundTyped ==
    ASSUME TypeOK, NextRound
    PROVE  /\ pc' \in {"model", "done"} /\ round' \in 0 .. MaxRounds
           /\ phase' \in {"model", "tool", "shell", "check"}
           /\ waits' \in 0 .. TransportRetryWaits
           /\ outcome' \in {outcome, "exhausted"}
BY BudgetAssumption DEF TypeOK, NextRound, Finish, Enter, TransportRetryWaits

\* The types of the tools' part: the counts, the batch and what is owed.
ToolTypes ==
    /\ repeats \in [Calls -> 0 .. MaxRepeats]
    /\ batch \in BoundedSeq(Calls, MaxBatch) /\ owed \in 0 .. MaxBatch

\* The types of the rest.
RoundTypes ==
    /\ req \in Requests /\ session \in BOOLEAN
    /\ pc \in {"translate", "shell", "model", "wait", "tool", "check", "done"}
    /\ round \in 0 .. MaxRounds /\ candidates \in 0 .. MaxCandidates
    /\ nudged \in BOOLEAN /\ corrected \in BOOLEAN
    /\ waits \in 0 .. TransportRetryWaits
    /\ phase \in {"model", "tool", "shell", "check"}
    /\ outcome \in {"open", "ok", "corrected", "timeout", "abort", "exhausted", "provider",
                    "transport", "error", "invalid"}

\* The tools' part keeps its types.
LEMMA ToolTypeStep ==
    ASSUME TypeOK, Staging, Progress, Owing, CountsCut, [Next]_vars
    PROVE  ToolTypes'
<1> USE BudgetAssumption
<1>1. ASSUME UNCHANGED <<repeats, batch, owed>> PROVE ToolTypes'
  BY <1>1 DEF ToolTypes, TypeOK
<1>2. CASE ShellRefused \/ ReplyFails \/ CheckPasses \/ CheckFails \/ ToolFailsHard
           \/ Timeout \/ Dropped
  BY <1>1, <1>2, ClosingSteps DEF Closes, toolVars
<1>3. CASE Translate \/ Staged \/ TransportFails \/ WaitOver
  BY <1>1, <1>3 DEF Translate, Staged, TransportFails, WaitOver, toolVars
<1>4. ASSUME NEW b \in BoundedSeq(Calls, MaxBatch) \ {<<>>}, NEW cut, ReplyCalls(b, cut)
      PROVE  ToolTypes'
  <2>1. Len(b) \in 0 .. MaxBatch
    BY Batches
  <2>2. QED
    BY <1>4, <2>1 DEF ReplyCalls, Refuse, ToolRound, ToolTypes, TypeOK
<1>5. ASSUME NEW off, ReplyText(off) PROVE ToolTypes'
  BY <1>1, <1>5 DEF ReplyText, toolVars
<1>6. CASE CheckRejects
  BY <1>1, <1>6 DEF CheckRejects, toolVars
<1>7. CASE ToolDone \/ ToolFails
  <2>1. PICK c : c = Head(batch)
    OBVIOUS
  <2>2. /\ c \in Calls /\ outcome = "open" /\ owed = Len(batch)
        /\ Len(batch) \in 1 .. MaxBatch /\ Tail(batch) \in BoundedSeq(Calls, MaxBatch)
    BY <1>7, <2>1, ToolSteps, BatchTail DEF Owing, Staging
  <2>3. batch' \in BoundedSeq(Calls, MaxBatch) /\ owed' \in 0 .. MaxBatch
    <3>1. CASE Responded
      BY <2>2, <3>1 DEF Responded
    <3>2. CASE UNCHANGED <<batch, owed>>
      BY <3>2 DEF TypeOK
    <3>3. QED
      BY <1>7, <3>1, <3>2, ToolSteps
  <2>4. /\ repeats \in [Calls -> 0 .. MaxRepeats]
        /\ repeats[c] \in Nat /\ repeats[c] < MaxRepeats
    BY <2>2 DEF TypeOK, CountsCut
  <2>5. \/ repeats' = [repeats EXCEPT ![c] = 0]
        \/ repeats' = [repeats EXCEPT ![c] = repeats[c] + 1]
    BY <1>7, <2>1 DEF ToolDone, ToolFails
  <2>6. repeats' \in [Calls -> 0 .. MaxRepeats]
    BY <2>2, <2>4, <2>5
  <2>7. QED
    BY <2>3, <2>6 DEF ToolTypes
<1>8. CASE UNCHANGED vars
  BY <1>1, <1>8 DEF vars, toolVars
<1>9. QED
  BY <1>2, <1>3, <1>4, <1>5, <1>6, <1>7, <1>8, Steps

\* The rest keeps its types.
LEMMA RoundTypeStep ==
    ASSUME TypeOK, Staging, Progress, [Next]_vars
    PROVE  RoundTypes'
<1> USE BudgetAssumption
<1>1. CASE ShellRefused \/ ReplyFails \/ CheckPasses \/ CheckFails \/ ToolFailsHard
           \/ Timeout \/ Dropped
  <2>1. /\ Closes
        /\ outcome' \in {"ok", "corrected", "timeout", "abort", "exhausted", "provider",
                         "transport", "error", "invalid"}
    BY <1>1, ClosingSteps
  <2>2. QED
    BY <2>1 DEF Closes, RoundTypes, TypeOK, budgetVars
<1>2. CASE Translate
  BY <1>2 DEF Translate, Finish, RoundTypes, TypeOK, budgetVars
<1>3. CASE Staged
  <2>1. /\ NextRound /\ session' \in BOOLEAN /\ UNCHANGED <<req, candidates, nudged, corrected>>
    BY <1>3 DEF Staged
  <2>2. QED
    BY <2>1, NextRoundTyped DEF RoundTypes, TypeOK
<1>4. CASE TransportFails
  <2>1. /\ pc' \in {"wait", "done"} /\ waits' \in 0 .. TransportRetryWaits
        /\ outcome' \in {outcome, "transport"}
        /\ UNCHANGED <<req, session, budgetVars, phase>>
    BY <1>4 DEF TransportFails, Finish, OutcomeOf, TypeOK, TransportRetryWaits
  <2>2. QED
    BY <2>1 DEF RoundTypes, TypeOK, budgetVars
<1>5. CASE WaitOver
  BY <1>5 DEF WaitOver, RoundTypes, TypeOK, budgetVars
<1>6. ASSUME NEW b, NEW cut, ReplyCalls(b, cut) PROVE RoundTypes'
  <2>1. UNCHANGED <<req, session, candidates, nudged, corrected>>
    BY <1>6 DEF ReplyCalls
  <2>2. CASE NextRound
    BY <2>1, <2>2, NextRoundTyped DEF RoundTypes, TypeOK
  <2>3. CASE ToolRound(b) /\ UNCHANGED <<round, waits, outcome>>
    BY <2>1, <2>3, PhaseTyped DEF ToolRound, Enter, RoundTypes, TypeOK
  <2>4. QED
    BY <1>6, <2>2, <2>3 DEF ReplyCalls
<1>7. ASSUME NEW off, ReplyText(off) PROVE RoundTypes'
  <2>1. pc = "model" /\ UNCHANGED <<req, session>>
    BY <1>7 DEF ReplyText
  <2>2. CASE Finish("ok") /\ UNCHANGED <<budgetVars, waits, phase>>
    BY <2>1, <2>2 DEF Finish, RoundTypes, TypeOK, budgetVars
  <2>3. CASE nudged' = TRUE /\ NextRound /\ UNCHANGED <<candidates, corrected>>
    BY <2>1, <2>3, NextRoundTyped DEF RoundTypes, TypeOK
  <2>4. CASE /\ candidates' = candidates + 1 /\ pc' = "check" /\ Enter("check")
             /\ UNCHANGED <<round, nudged, corrected, waits, outcome>>
    <3>1. candidates' \in 0 .. MaxCandidates
      BY <2>1, <2>4 DEF Progress, TypeOK
    <3>2. QED
      BY <2>1, <2>4, <3>1 DEF Enter, RoundTypes, TypeOK
  <2>5. QED
    BY <1>7, <2>2, <2>3, <2>4 DEF ReplyText
<1>8. CASE CheckRejects
  <2>1. UNCHANGED <<req, session>>
    BY <1>8 DEF CheckRejects
  <2>2. CASE Finish("exhausted") /\ UNCHANGED <<budgetVars, waits, phase>>
    BY <2>1, <2>2 DEF Finish, RoundTypes, TypeOK, budgetVars
  <2>3. CASE corrected' = TRUE /\ nudged' = FALSE /\ NextRound /\ UNCHANGED candidates
    BY <2>1, <2>3, NextRoundTyped DEF RoundTypes, TypeOK
  <2>4. QED
    BY <1>8, <2>2, <2>3 DEF CheckRejects
<1>9. CASE ToolDone \/ ToolFails
  <2>1. UNCHANGED <<req, session, candidates, nudged, corrected>>
    BY <1>9, ToolSteps
  <2>2. CASE NextRound
    BY <2>1, <2>2, NextRoundTyped DEF RoundTypes, TypeOK
  <2>3. CASE Enter(PhaseOf(Head(Tail(batch)))) /\ UNCHANGED <<pc, round, waits, outcome>>
    BY <2>1, <2>3, PhaseTyped DEF Enter, RoundTypes, TypeOK
  <2>4. CASE Finish("exhausted") /\ UNCHANGED <<round, waits, phase>>
    BY <2>1, <2>4 DEF Finish, RoundTypes, TypeOK
  <2>5. QED
    BY <1>9, <2>2, <2>3, <2>4, ToolSteps DEF Responded
<1>10. CASE UNCHANGED vars
  BY <1>10 DEF vars, budgetVars, RoundTypes, TypeOK
<1>11. QED
  BY <1>1, <1>2, <1>3, <1>4, <1>5, <1>6, <1>7, <1>8, <1>9, <1>10, Steps

\* A completion that has just been opened.
LEMMA InitStep ==
    ASSUME Init
    PROVE  IInv
<1> USE BudgetAssumption
<1>1. TypeOK
  <2>1. <<>> \in BoundedSeq(Calls, MaxBatch)
    <3>1. <<>> \in Seq(Calls) /\ Len(<<>>) <= MaxBatch
      OBVIOUS
    <3>2. QED
      BY <3>1, Batches
  <2>2. owed \in 0 .. MaxBatch /\ repeats \in [Calls -> 0 .. MaxRepeats]
    BY DEF Init
  <2>3. /\ round \in 0 .. MaxRounds /\ candidates \in 0 .. MaxCandidates
        /\ waits \in 0 .. TransportRetryWaits /\ attempts \in 0 .. MaxRounds
    BY DEF Init, TransportRetryWaits
  <2>4. QED
    BY <2>1, <2>2, <2>3 DEF Init, TypeOK
<1>2. CountsCut
  <2>1. Cut(<<>>, 0) /\ <<>> \in Seq(Results) /\ Len(<<>>) - 0 = 0
    BY DEF Cut
  <2>2. \A c \in Calls : hist[c] = <<>> /\ repeats[c] = 0
    BY DEF Init
  <2>3. hist \in [Calls -> Seq(Results)]
    BY <2>1 DEF Init
  <2>4. QED
    BY <2>1, <2>2, <2>3 DEF CountsCut
<1>3. Staging /\ Progress /\ Owing
  BY DEF Init, Staging, Progress, Owing
<1>4. InvalidFirst /\ ExhaustedSpent /\ ClosingRunsNothing /\ CorrectedTrue /\ WaitingTrue
  BY DEF Init, InvalidFirst, ExhaustedSpent, ClosingRunsNothing, CorrectedTrue, WaitingTrue
<1>5. QED
  BY <1>1, <1>2, <1>3, <1>4 DEF IInv

\* IInv holds in every reachable state.
LEMMA Inductive == Spec => []IInv
<1>1. Init => IInv
  BY InitStep
<1>2. IInv /\ [Next]_vars => IInv'
  <2> SUFFICES ASSUME IInv, [Next]_vars PROVE IInv'
    OBVIOUS
  <2>1. Staging' /\ Progress' /\ Owing' /\ CountsCut'
    BY StagingStep, ProgressStep, OwingStep, CountsStep DEF IInv
  <2>2. InvalidFirst' /\ ExhaustedSpent' /\ CorrectedTrue' /\ ClosingRunsNothing' /\ WaitingTrue'
    BY OutcomeStep, PhaseStep DEF IInv
  <2>3. ToolTypes' /\ RoundTypes'
    BY ToolTypeStep, RoundTypeStep DEF IInv
  <2>4. attempts' \in 0 .. MaxRounds
    BY <2>1, <2>3, BudgetAssumption DEF Progress, RoundTypes
  <2>5. TypeOK'
    BY <2>3, <2>4 DEF TypeOK, ToolTypes, RoundTypes
  <2>6. QED
    BY <2>1, <2>2, <2>5 DEF IInv
<1>3. QED
  BY <1>1, <1>2, PTL DEF Spec

\* For any budgets: a completion stays within its rounds and candidates, costs at most
\* two replies of text a candidate and one more, and is booked as exhausted only when a
\* budget is spent, as invalid only before its session and its first round.
THEOREM BudgetsKept == Spec => []BudgetsHeld
<1>1. IInv => BudgetsHeld
  BY DEF IInv, Progress, BudgetsHeld, RepliesBounded
<1>2. QED
  BY <1>1, Inductive, PTL

\* Every request put to the provider answers every tool call of its chat, and no tool
\* runs once an answer is due.
THEOREM ChatKept == Spec => []ChatSound
<1>1. IInv => ChatSound
  BY DEF IInv, Owing, ChatSound, CallsAnswered
<1>2. QED
  BY <1>1, Inductive, PTL

\* The repeat counts are the consecutive failures of each call, the line says
\* `corrected` exactly when a later candidate passed, and the phase is what is awaited.
THEOREM CountsKept == Spec => []CountsTrue
<1>1. IInv => CountsTrue
  <2> SUFFICES ASSUME IInv PROVE CountsTrue
    OBVIOUS
  <2>1. RepeatsConsecutive
    BY CountsTrailing DEF IInv, CountsCut, RepeatsConsecutive
  <2>2. QED
    BY <2>1 DEF IInv, CountsTrue
<1>2. QED
  BY <1>1, Inductive, PTL

===============================================================================
