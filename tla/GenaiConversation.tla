-------------------------- MODULE GenaiConversation --------------------------
(***************************************************************************)
(* One completion of the genai backend: the request is staged (model.rs,    *)
(* request.rs), then the conversation runs its rounds (conversation.rs)     *)
(* against the provider, the tools (tools.rs, shell.rs) and the guest's     *)
(* check, and its one log line is booked (observe.rs).  The provider, the   *)
(* tools and the guest answer as they like.  What is said is abstracted to  *)
(* whether a reply is on shape, cut, or calls tools.                        *)
(***************************************************************************)
EXTENDS Naturals, Sequences, SequencesExt

CONSTANTS
    Calls,          \* (tool, arguments) pairs the model calls
    Kind,           \* the kind of tool of each: guest, workspace, shell, unknown
    Reasons,        \* what a guest tool fails with
    MaxBatch,       \* bound: tool calls in one reply
    MaxRounds, MaxCandidates, MaxRepeats  \* Budgets

ASSUME BudgetAssumption ==
    /\ Kind \in [Calls -> {"guest", "workspace", "shell", "unknown"}]
    /\ {MaxBatch, MaxRounds, MaxCandidates, MaxRepeats} \subseteq Nat \ {0}

VARIABLES
    req,         \* the request and its lend
    session,     \* a sandbox session was prepared
    pc,          \* what is awaited
    round, candidates, nudged, corrected,
    waits,       \* transport waits taken in this round
    repeats,     \* Conversation::repeats
    batch,       \* calls of the reply still to run
    owed,        \* calls in the chat without a response
    phase,       \* the phase Completion last entered
    outcome,     \* "open", or how the completion ended
    attempts,    \* Completion::attempts: replies of text
    hist,        \* history: what each call came to, over the completion
    hostSpent    \* history: the host said its own budget is spent

budgetVars == <<round, candidates, nudged, corrected>>
toolVars == <<repeats, batch, owed, hist>>
vars == <<req, session, pc, budgetVars, waits, toolVars, phase, outcome, attempts, hostSpent>>

TransportRetryWaits == 3

\* What a lend comes to: Client::access.
Accesses == {"private", "read", "shell"}

\* fault: a schema that is not one, or a tool that is reserved, unsupported or has
\* parameters that do not parse.
Requests == [check : BOOLEAN, json : BOOLEAN, worker : BOOLEAN,
             fault : {"none", "format", "tool"}, access : Accesses]

Init ==
    /\ req \in Requests
    /\ session = FALSE /\ pc = "translate"
    /\ round = 0 /\ candidates = 0 /\ nudged = FALSE /\ corrected = FALSE
    /\ waits = 0
    /\ repeats = [c \in Calls |-> 0] /\ batch = <<>> /\ owed = 0
    /\ phase = "model" /\ outcome = "open"
    /\ attempts = 0 /\ hist = [c \in Calls |-> <<>>] /\ hostSpent = FALSE

\* Completion::finish: the one line is booked.
Finish(o) == pc' = "done" /\ outcome' = o

\* Completion::enter: what is waited on from here.
Enter(p) == phase' = p

\* Completion::answered: the round is booked, as an attempt when it is text alone.
Answered == attempts' = attempts + 1

\* Outcome::of: what an error of the provider's client is booked as.
OutcomeOf(e) ==
    CASE e = "status" -> "provider"
      [] e \in {"reqwest", "body"} -> "transport"
      [] OTHER -> "error"

\* The head of next_reply's loop: another round, or none is left.
NextRound ==
    \/ /\ round < MaxRounds
       /\ round' = round + 1 /\ pc' = "model" /\ Enter("model") /\ waits' = 0
       /\ UNCHANGED outcome
    \/ /\ round = MaxRounds
       /\ Finish("exhausted")
       /\ UNCHANGED <<round, phase, waits>>

-------------------------------------------------------------------------------
translate_format == req.fault # "format"
chat_request == req.fault # "tool"

\* PreparedRequest::translate: a faulty request ends here.
Translate ==
    /\ pc = "translate"
    /\ \/ ~(translate_format /\ chat_request) /\ Finish("invalid")
       \/ translate_format /\ chat_request /\ pc' = "shell" /\ UNCHANGED outcome
    /\ UNCHANGED <<req, session, budgetVars, waits, toolVars, phase, attempts, hostSpent>>

\* Client::shell: a worker grant needs a shell, and the sandbox may refuse it.
ShellRefused ==
    /\ pc = "shell"
    /\ \/ req.worker /\ req.access # "shell" /\ Finish("invalid")
       \/ req.worker /\ req.access = "shell" /\ Finish("invalid")   \* Denied
       \/ req.access = "shell" /\ Finish("error")                   \* prepare failed
    /\ UNCHANGED <<req, session, budgetVars, waits, toolVars, phase, attempts, hostSpent>>

\* The conversation opens with its first round.
Staged ==
    /\ pc = "shell" /\ (req.worker => req.access = "shell")
    /\ session' = (req.access = "shell")
    /\ NextRound /\ UNCHANGED attempts
    /\ UNCHANGED <<req, candidates, nudged, corrected, toolVars, hostSpent>>

-------------------------------------------------------------------------------
\* exec_chat fails at the transport: put again after a wait while any is left.
TransportFails ==
    /\ pc = "model"
    /\ \/ waits < TransportRetryWaits /\ waits' = waits + 1 /\ pc' = "wait" /\ UNCHANGED outcome
       \/ waits = TransportRetryWaits /\ Finish(OutcomeOf("reqwest")) /\ UNCHANGED waits
    /\ UNCHANGED <<req, session, budgetVars, toolVars, phase, attempts, hostSpent>>

WaitOver ==
    /\ pc = "wait" /\ pc' = "model"
    /\ UNCHANGED <<req, session, budgetVars, waits, toolVars, phase, outcome, attempts, hostSpent>>

\* exec_chat fails otherwise, or answers neither text nor calls, and is not put again.
ReplyFails ==
    /\ pc = "model"
    /\ \E e \in {"status", "body", "json", "neither"} : Finish(OutcomeOf(e))
    /\ UNCHANGED <<req, session, budgetVars, waits, toolVars, phase, attempts, hostSpent>>

\* The rounds an answer is due in.
Closing == nudged \/ round = MaxRounds

PhaseOf(c) == IF Kind[c] = "shell" THEN "shell" ELSE "tool"

\* Mutant of Refuse: only the first call is answered.
RefuseFirst(b) == owed' = Len(b) - 1 /\ UNCHANGED batch

\* Every call of the reply gets the refusal as its response.
Refuse(b) == owed' = 0 /\ UNCHANGED batch

\* tool_round: the calls are run one by one.
ToolRound(b) ==
    /\ batch' = b /\ owed' = Len(b)
    /\ pc' = "tool" /\ Enter(PhaseOf(Head(b)))

\* A reply calls tools: refused where an answer is due or the reply was cut at its
\* token bound.
ReplyCalls(b, cut) ==
    /\ pc = "model"
    /\ \/ (Closing \/ cut) /\ Refuse(b) /\ NextRound
       \/ ~(Closing \/ cut) /\ ToolRound(b) /\ UNCHANGED <<round, waits, outcome>>
    /\ UNCHANGED <<req, session, candidates, nudged, corrected, repeats, hist, attempts, hostSpent>>

\* off_shape: text is always on shape.
OffShape(off) == req.json /\ off

\* Mutant of Nudge: every reply off shape is nudged.
NudgeAlways(off) == OffShape(off)

\* Nudge once per candidate.
Nudge(off) == ~nudged /\ OffShape(off)

\* A reply of text alone: the answer where nothing checks it; nudged when off
\* shape, and put again under a fresh timeout; else a candidate for the guest.
ReplyText(off) ==
    /\ pc = "model" /\ Answered
    /\ \/ /\ ~req.check /\ Finish("ok")
          /\ UNCHANGED <<budgetVars, waits, phase>>
       \/ /\ req.check /\ Nudge(off)
          /\ nudged' = TRUE
          /\ NextRound
          /\ UNCHANGED <<candidates, corrected>>
       \/ /\ req.check /\ ~Nudge(off)
          /\ candidates' = candidates + 1
          /\ pc' = "check" /\ Enter("check")
          /\ UNCHANGED <<round, nudged, corrected, waits, outcome>>
    /\ UNCHANGED <<req, session, toolVars, hostSpent>>

-------------------------------------------------------------------------------
\* The guest passes the candidate, or its check fails hard, with a budget of the
\* host's spent or otherwise.
CheckPasses ==
    /\ pc = "check"
    /\ Finish(IF corrected THEN "corrected" ELSE "ok")
    /\ UNCHANGED <<req, session, budgetVars, waits, toolVars, phase, attempts, hostSpent>>

CheckFails ==
    /\ pc = "check"
    /\ \/ Finish("error") /\ UNCHANGED hostSpent
       \/ Finish("exhausted") /\ hostSpent' = TRUE
    /\ UNCHANGED <<req, session, budgetVars, waits, toolVars, phase, attempts>>

\* The guest rejects it: its correction opens another candidate, or the last
\* candidate or round is spent.
CheckRejects ==
    /\ pc = "check"
    /\ \/ /\ candidates >= MaxCandidates \/ round = MaxRounds
          /\ Finish("exhausted")
          /\ UNCHANGED <<budgetVars, waits, phase>>
       \/ /\ candidates < MaxCandidates /\ round < MaxRounds
          /\ corrected' = TRUE /\ nudged' = FALSE
          /\ NextRound
          /\ UNCHANGED candidates
    /\ UNCHANGED <<req, session, toolVars, attempts, hostSpent>>

-------------------------------------------------------------------------------
\* What a call of each kind can come to: "ok", a reason the model reads and
\* repairs, "hard" for a failure of the host, "spent" for the host's own limit.

\* Shell::run: a command killed at its bound is a result like any other.
Run == {"ok", "hard"}

Shell == IF req.access = "shell" THEN {"arguments"} \cup Run ELSE {"no shell"}

\* read and list: bad arguments, no such path, not text, or over the cap.
Workspace == {"ok", "unreadable"}

Guest == Reasons \cup {"ok", "hard", "spent"}

\* workspace_tools and the request's own.
Declared(c) == Kind[c] = "guest" \/ (Kind[c] = "workspace" /\ req.access # "private")

\* Tools::call: a shell call is answered before the declared names are checked.
Call(c) ==
    CASE Kind[c] = "shell" -> Shell
      [] Kind[c] # "shell" /\ ~Declared(c) -> {"undeclared"}
      [] Kind[c] = "workspace" /\ Declared(c) -> Workspace
      [] Kind[c] = "guest" -> Guest

Failures(c) == Call(c) \ {"ok", "hard", "spent"}

\* The response joins the chat, and the next call, or the next round, is due.
Responded ==
    /\ owed' = owed - 1 /\ batch' = Tail(batch)
    /\ \/ /\ Tail(batch) # <<>>
          /\ Enter(PhaseOf(Head(Tail(batch))))
          /\ UNCHANGED <<pc, round, waits, outcome>>
       \/ Tail(batch) = <<>> /\ NextRound

\* Mutant of ToolDone: a success leaves the count of failures.
ToolDoneCounted ==
    /\ pc = "tool" /\ "ok" \in Call(Head(batch))
    /\ hist' = [hist EXCEPT ![Head(batch)] = Append(@, "ok")]
    /\ Responded
    /\ UNCHANGED <<req, session, candidates, nudged, corrected, repeats, attempts, hostSpent>>

\* A call that succeeds is forgiven its failures.
ToolDone ==
    /\ pc = "tool" /\ "ok" \in Call(Head(batch))
    /\ repeats' = [repeats EXCEPT ![Head(batch)] = 0]
    /\ hist' = [hist EXCEPT ![Head(batch)] = Append(@, "ok")]
    /\ Responded
    /\ UNCHANGED <<req, session, candidates, nudged, corrected, attempts, hostSpent>>

\* A call that fails is counted whatever it failed with; the last of the budget
\* ends the completion.
ToolFails ==
    /\ pc = "tool"
    /\ LET c == Head(batch) IN
       \E r \in Failures(c) :
         /\ repeats' = [repeats EXCEPT ![c] = @ + 1]
         /\ hist' = [hist EXCEPT ![c] = Append(@, r)]
         /\ \/ repeats[c] + 1 >= MaxRepeats /\ Finish("exhausted")
               /\ UNCHANGED <<batch, owed, round, waits, phase>>
            \/ repeats[c] + 1 < MaxRepeats /\ Responded
    /\ UNCHANGED <<req, session, candidates, nudged, corrected, attempts, hostSpent>>

\* A host failure ends the completion; the host's own tool-call limit is typed.
ToolFailsHard ==
    /\ pc = "tool"
    /\ \/ "hard" \in Call(Head(batch)) /\ Finish("error") /\ UNCHANGED hostSpent
       \/ "spent" \in Call(Head(batch)) /\ Finish("exhausted") /\ hostSpent' = TRUE
    /\ UNCHANGED <<req, session, budgetVars, waits, toolVars, phase, attempts>>

-------------------------------------------------------------------------------
\* Mutant of Timeout: the cap is not held over tools.
TimeoutModel ==
    /\ pc \in {"model", "wait"} /\ Finish("timeout")
    /\ UNCHANGED <<req, session, budgetVars, waits, toolVars, phase, attempts, hostSpent>>

\* The cap on one reply passes, at any await of next_reply; the check is outside.
Timeout ==
    /\ pc \in {"model", "wait", "tool"} /\ Finish("timeout")
    /\ UNCHANGED <<req, session, budgetVars, waits, toolVars, phase, attempts, hostSpent>>

\* The host drops the completion: Completion's drop books the abort.
Dropped ==
    /\ pc \in {"model", "wait", "tool", "check"} /\ Finish("abort")
    /\ UNCHANGED <<req, session, budgetVars, waits, toolVars, phase, attempts, hostSpent>>

Next ==
    \/ Translate \/ ShellRefused \/ Staged
    \/ TransportFails \/ WaitOver \/ ReplyFails
    \/ \E b \in BoundedSeq(Calls, MaxBatch) \ {<<>>}, cut \in BOOLEAN : ReplyCalls(b, cut)
    \/ \E off \in BOOLEAN : ReplyText(off)
    \/ CheckPasses \/ CheckFails \/ CheckRejects
    \/ ToolDone \/ ToolFails \/ ToolFailsHard
    \/ Timeout \/ Dropped

Spec == Init /\ [][Next]_vars

\* The staging runs on, the timer fires and the guest answers what it is asked;
\* neither the provider nor a tool need ever answer.
FairSpec ==
    /\ Spec
    /\ WF_vars(Translate) /\ WF_vars(ShellRefused \/ Staged)
    /\ SF_vars(Timeout)
    /\ WF_vars(CheckPasses \/ CheckFails \/ CheckRejects)

-------------------------------------------------------------------------------
\* Every variable keeps its type and every budget its bound.
TypeOK ==
    /\ req \in Requests /\ session \in BOOLEAN
    /\ pc \in {"translate", "shell", "model", "wait", "tool", "check", "done"}
    /\ round \in 0 .. MaxRounds /\ candidates \in 0 .. MaxCandidates
    /\ nudged \in BOOLEAN /\ corrected \in BOOLEAN
    /\ waits \in 0 .. TransportRetryWaits
    /\ repeats \in [Calls -> 0 .. MaxRepeats]
    /\ batch \in BoundedSeq(Calls, MaxBatch) /\ owed \in 0 .. MaxBatch
    /\ phase \in {"model", "tool", "shell", "check"}
    /\ outcome \in {"open", "ok", "corrected", "timeout", "abort", "exhausted", "provider",
                    "transport", "error", "invalid"}
    /\ attempts \in 0 .. MaxRounds

\* An invalid request fails before a session is prepared and before any round.
InvalidFirst == outcome = "invalid" => ~session /\ round = 0

\* A candidate costs at most two replies of text, itself and its one nudge, each
\* under a timeout of its own: with the candidates that bounds the completion whole.
RepliesBounded == attempts <= 2 * candidates + 1

\* Every request put to the provider answers every tool call in its chat.
CallsAnswered == pc \in {"model", "wait"} => owed = 0

\* No tool runs from a nudge until the guest saw a candidate, nor in the last round.
ClosingRunsNothing == pc = "tool" => ~nudged /\ round < MaxRounds

\* How many of a call's last outcomes in a row are failures.
TrailingFailures(c) ==
    Len(hist[c]) - (CHOOSE i \in 0 .. Len(hist[c]) :
        /\ i > 0 => hist[c][i] = "ok"
        /\ \A j \in i + 1 .. Len(hist[c]) : hist[c][j] # "ok")

\* The counts are the consecutive failures of each call, however its calls and
\* those of others interleave, and none reaches the budget in an open completion.
RepeatsConsecutive ==
    \A c \in Calls :
        /\ repeats[c] = TrailingFailures(c)
        /\ outcome = "open" => repeats[c] < MaxRepeats

\* The typed exhaustion is returned only when a budget is spent: the rounds, the
\* candidates, one call's repeats, or the host's own.
ExhaustedSpent ==
    outcome = "exhausted" =>
        \/ round = MaxRounds \/ candidates = MaxCandidates \/ hostSpent
        \/ \E c \in Calls : repeats[c] = MaxRepeats

\* The line says `corrected` exactly when the answer is not the first candidate.
CorrectedTrue ==
    /\ outcome = "corrected" => candidates > 1
    /\ outcome = "ok" => candidates <= 1

\* What a timeout or a heartbeat blames is what is awaited.
WaitingTrue ==
    /\ pc \in {"model", "wait"} => phase = "model"
    /\ pc = "tool" => phase = PhaseOf(Head(batch))
    /\ pc = "check" => phase = "check"

\* The budgets bound a completion, end it only when one of them is spent, and are
\* not touched by a request that is invalid.
BudgetsHeld == TypeOK /\ InvalidFirst /\ RepliesBounded /\ ExhaustedSpent

\* The chat put to the provider leaves no call unanswered, and once an answer is due
\* no tool runs.
ChatSound == CallsAnswered /\ ClosingRunsNothing

\* The counts, the outcome and the phase that are booked say what happened.
CountsTrue == RepeatsConsecutive /\ CorrectedTrue /\ WaitingTrue

\* A completion ends although the provider and every tool may stay silent.
Ends == <>(outcome # "open")

\* README: only past the third wait is a failure of the transport the completion's.
TransportAfterWaits == outcome = "transport" => waits = TransportRetryWaits

\* README and the log of failed: the repeat budget ends a completion on a call that
\* failed the same way each time.
RepeatsSameWay ==
    \A c \in Calls :
        repeats[c] = MaxRepeats =>
            \A i, j \in Len(hist[c]) - MaxRepeats + 1 .. Len(hist[c]) : hist[c][i] = hist[c][j]

==============================================================================
