----------------------------- MODULE CursorAgent -----------------------------
(***************************************************************************)
(* One completion of the cursor backend (model.rs, model/agent.rs): a lease, *)
(* an agent on it, the prompt and its corrections, the settling of a run cut *)
(* short, and the teardown on a task of its own; the whole of it once more   *)
(* if the worker is lost while the first attempt opens.  The guest may drop  *)
(* the completion at any time, the worker may exit at any time, and the      *)
(* worker's tool calls arrive beside the stream (callback.rs).               *)
(***************************************************************************)
EXTENDS Naturals, FiniteSets

CONSTANTS
    MaxAttempts,  \* 2: complete() restarts once
    Terms         \* what a completion may be held to

\* Whether its answer is checked, its attempts, its rounds (MAX_ROUNDS), and a
\* bound: the tool calls of one attempt.
ASSUME AgentAssumption ==
    /\ MaxAttempts \in Nat \ {0}
    /\ Terms \subseteq [check : BOOLEAN, attempts : 1 .. MaxAttempts, rounds : Nat \ {0}, tools : Nat]

VARIABLES
    guest,   \* the future the guest holds
    terms,   \* what this completion is held to
    agent,   \* the life of each attempt: Agent, Handle, Completion, Unanswered
    bridge,  \* each attempt's worker: the process, its latest run, its bill
    hist     \* history for the properties

vars == <<guest, terms, agent, bridge, hist>>

Attempts == 1 .. MaxAttempts
Opened == {"send", "opening", "follow", "candidate", "check", "settle", "cancel", "usage", "finish"}
\* How an attempt fails: it lost the worker or the socket to it (WorkerExited,
\* Transport), with another Failure or the budget, or with an error of no type.
Errors == {"lost", "typed", "other"}

Init ==
    /\ guest = "waiting" /\ terms \in Terms
    /\ agent = [a \in Attempts |->
         [pc |-> IF a = 1 THEN "stage" ELSE "idle", opening |-> FALSE, round |-> 1,
          nudged |-> FALSE, runId |-> FALSE, abort |-> FALSE, error |-> "none", bill |-> 0]]
    /\ bridge = [a \in Attempts |->
         [worker |-> "none", run |-> "none", call |-> FALSE, cost |-> 0]]
    /\ hist = [a \in Attempts |->
         [tools |-> 0, replied |-> FALSE, accepted |-> FALSE, sends |-> 0, shown |-> FALSE,
          asked |-> {}]]

At(a, pc) == agent[a].pc = pc
Alive(a) == bridge[a].worker = "alive"
Goto(a, pc) == agent' = [agent EXCEPT ![a].pc = pc]
Fail(a, pc, e) == agent' = [agent EXCEPT ![a].pc = pc, ![a].error = e]

-------------------------------------------------------------------------------
\* Session, turn, slot and handshake; a failure here never restarts.
Stage(a) ==
    /\ At(a, "stage")
    /\ \/ /\ agent' = [agent EXCEPT ![a].pc = "create", ![a].opening = TRUE]
          /\ bridge' = [bridge EXCEPT ![a].worker = "alive"]
       \/ \E e \in Errors : Fail(a, "done", e) /\ UNCHANGED bridge
    /\ UNCHANGED <<guest, terms, hist>>

\* A call to the bridge fails: the process is gone or the socket broke, or the
\* bridge answers with an error, or not within its bound.
Refusals(a) == IF Alive(a) THEN {"lost", "typed"} ELSE {"lost"}

\* CreateAgent.  Where it fails (an empty id is a failure too) the lease goes.
Create(a) ==
    /\ At(a, "create")
    /\ \/ Alive(a) /\ Goto(a, "send")
       \/ \E e \in Refusals(a) \cup {"other"} : Fail(a, "done", e)
    /\ UNCHANGED <<guest, terms, bridge, hist>>

\* A guest already gone sends nothing.
BeginSend(a) ==
    /\ At(a, "send")
    /\ IF guest = "dropped"
         THEN Fail(a, "settle", "typed") /\ UNCHANGED <<bridge, hist>>
         ELSE /\ Goto(a, "opening")
              /\ bridge' = [bridge EXCEPT ![a].run = "none"]
              /\ hist' = [hist EXCEPT ![a].sends = @ + 1, ![a].shown = FALSE]
    /\ UNCHANGED <<guest, terms>>

\* The bridge takes the Send up and starts a run, which is billed.
BridgeRuns(a) ==
    /\ At(a, "opening") /\ Alive(a) /\ bridge[a].run = "none"
    /\ bridge' = [bridge EXCEPT ![a].run = "open", ![a].cost = @ + 1]
    /\ UNCHANGED <<guest, terms, agent, hist>>

BridgeEnds(a) ==
    /\ Alive(a) /\ bridge[a].run = "open" /\ ~bridge[a].call
    /\ bridge' = [bridge EXCEPT ![a].run = "over"]
    /\ UNCHANGED <<guest, terms, agent, hist>>

Open(a) ==
    /\ At(a, "opening") /\ bridge[a].run \in {"open", "over"}
    /\ Goto(a, "follow")
    /\ UNCHANGED <<guest, terms, bridge, hist>>

\* Mutant of OpenFails: nothing bounds the wait for the stream.
OpenFailsLate(a) ==
    /\ At(a, "opening")
    /\ guest = "dropped" \/ ~Alive(a)
    /\ Fail(a, "settle", "lost")
    /\ UNCHANGED <<guest, terms, bridge, hist>>

\* The select around Send: dropped, failed, or past a bound.  Which of the
\* bounds passes is RunStream's matter.
OpenFails(a) ==
    /\ At(a, "opening")
    /\ \/ guest = "dropped" /\ Fail(a, "settle", "typed")
       \/ \E e \in Refusals(a) \cup {"typed"} : Fail(a, "settle", e)
    /\ UNCHANGED <<guest, terms, bridge, hist>>

\* A frame that carries the run id.
Frame(a) ==
    /\ At(a, "follow") /\ ~agent[a].runId
    /\ agent' = [agent EXCEPT ![a].runId = TRUE]
    /\ hist' = [hist EXCEPT ![a].shown = TRUE]
    /\ UNCHANGED <<guest, terms, bridge>>

\* The stream's end: the run's result with its usage, or without it, another
\* status than finished, or no result at all.
StreamDone(a) ==
    /\ At(a, "follow") /\ bridge[a].run = "over"
    /\ \/ \E u \in {0, 1} :
            /\ agent' = [agent EXCEPT ![a].pc = "candidate", ![a].runId = FALSE,
                                      ![a].opening = FALSE, ![a].bill = @ + u]
            /\ hist' = [hist EXCEPT ![a].replied = TRUE]
       \/ \E e \in {"typed", "other"} :
            /\ agent' = [agent EXCEPT ![a].pc = "settle", ![a].runId = FALSE, ![a].error = e]
            /\ UNCHANGED hist
    /\ UNCHANGED <<guest, terms, bridge>>

\* Mutant of FollowFails: the run is forgotten with its stream.
FollowFailsForgets(a) ==
    /\ At(a, "follow")
    /\ \E e \in Refusals(a) \cup {"typed"} :
         agent' = [agent EXCEPT ![a].pc = "settle", ![a].error = e, ![a].runId = FALSE]
    /\ UNCHANGED <<guest, terms, bridge, hist>>

\* The other branches of the select: any of those that are ready.
FollowFails(a) ==
    /\ At(a, "follow")
    /\ \/ \E e \in Refusals(a) \cup {"typed"} : Fail(a, "settle", e)
       \/ agent[a].abort /\ Fail(a, "settle", "typed")
       \/ guest = "dropped" /\ agent[a].runId /\ Fail(a, "settle", "typed")
    /\ UNCHANGED <<guest, terms, bridge, hist>>

\* A reply that is not JSON is nudged once; without a check the reply is the
\* answer.
Candidate(a) ==
    /\ At(a, "candidate")
    /\ IF terms.check
         THEN \/ Goto(a, "check")
              \/ ~agent[a].nudged /\ agent' = [agent EXCEPT ![a].pc = "send", ![a].nudged = TRUE]
         ELSE Goto(a, "settle")
    /\ UNCHANGED <<guest, terms, bridge, hist>>

\* The guest's check of the candidate: accepted, rejected with a correction for
\* the next round, rejected in the last one, or failed.
Check(a) ==
    /\ At(a, "check")
    /\ \/ Goto(a, "settle") /\ hist' = [hist EXCEPT ![a].accepted = TRUE]
       \/ /\ IF agent[a].round < terms.rounds
               THEN agent' = [agent EXCEPT ![a].pc = "send", ![a].round = @ + 1]
               ELSE Fail(a, "settle", "typed")
          /\ UNCHANGED hist
       \/ Fail(a, "settle", "other") /\ UNCHANGED hist
    /\ UNCHANGED <<guest, terms, bridge>>

-------------------------------------------------------------------------------
\* A worker's tool call, while a run of its agent is open and its route stands.
CallTool(a) ==
    /\ Alive(a) /\ bridge[a].run = "open" /\ ~bridge[a].call
    /\ agent[a].pc \in Opened \cup {"close", "delete"}
    /\ hist[a].tools < terms.tools
    /\ bridge' = [bridge EXCEPT ![a].call = TRUE]
    /\ hist' = [hist EXCEPT ![a].tools = @ + 1]
    /\ UNCHANGED <<guest, terms, agent>>

\* It returns, or fails hard: the first such failure takes the route's abort,
\* before it is answered.
ToolReturns(a) ==
    /\ bridge[a].call
    /\ bridge' = [bridge EXCEPT ![a].call = FALSE]
    /\ \/ UNCHANGED <<agent, hist>>
       \/ /\ agent[a].pc \in Opened
          /\ agent' = [agent EXCEPT ![a].abort = TRUE]
          /\ UNCHANGED hist
    /\ UNCHANGED <<guest, terms>>

WorkerExits(a) ==
    /\ Alive(a)
    /\ bridge' = [bridge EXCEPT ![a].worker = "exited",
                                ![a].run = IF @ = "open" THEN "lost" ELSE @]
    /\ UNCHANGED <<guest, terms, agent, hist>>

-------------------------------------------------------------------------------
\* A run still open is cancelled and what the agent was billed is read back,
\* unless the worker is gone.
Settle(a) ==
    /\ At(a, "settle")
    /\ agent' = [agent EXCEPT ![a].runId = FALSE,
                              ![a].pc = IF agent[a].runId /\ Alive(a) THEN "cancel" ELSE "finish"]
    /\ UNCHANGED <<guest, terms, bridge, hist>>

\* A teardown call: bounded, and its failures are only logged.
Ask(a, what) == hist' = [hist EXCEPT ![a].asked = @ \cup {what}]

CancelRun(a) ==
    /\ At(a, "cancel")
    /\ Ask(a, "cancel") /\ Goto(a, "usage")
    /\ \/ Alive(a) /\ bridge' = [bridge EXCEPT ![a].run = IF @ = "open" THEN "cancelled" ELSE @]
       \/ UNCHANGED bridge
    /\ UNCHANGED <<guest, terms>>

\* The agent's total covers the sends already booked: the bill is raised to it.
GetUsage(a) ==
    /\ At(a, "usage")
    /\ \/ Goto(a, "finish")
       \/ /\ Alive(a)
          /\ agent' = [agent EXCEPT ![a].pc = "finish",
                         ![a].bill = IF @ < bridge[a].cost THEN bridge[a].cost ELSE @]
    /\ UNCHANGED <<guest, terms, bridge, hist>>

\* The completion is recorded and its result returned; the teardown starts on
\* its own task.
Finish(a) ==
    /\ At(a, "finish")
    /\ Goto(a, "close")
    /\ UNCHANGED <<guest, terms, bridge, hist>>

\* Mutant of Close: the guest is gone, so nobody waits for the teardown.
CloseHeard(a) ==
    /\ At(a, "close")
    /\ IF Alive(a) /\ guest # "dropped" THEN Goto(a, "delete") /\ Ask(a, "close")
                   ELSE Goto(a, "done") /\ UNCHANGED hist
    /\ UNCHANGED <<guest, terms, bridge>>

Close(a) ==
    /\ At(a, "close")
    /\ IF Alive(a) THEN Goto(a, "delete") /\ Ask(a, "close")
                   ELSE Goto(a, "done") /\ UNCHANGED hist
    /\ UNCHANGED <<guest, terms, bridge>>

\* DeleteAgent, and the lease goes.
Delete(a) ==
    /\ At(a, "delete")
    /\ Goto(a, "done") /\ Ask(a, "delete")
    /\ UNCHANGED <<guest, terms, bridge>>

-------------------------------------------------------------------------------
\* The worker was lost before the opening prompt was answered.
Restartable(a) == agent[a].opening /\ agent[a].error = "lost"

\* complete(): the answer, the second attempt, or the failure.
Return(a) ==
    /\ guest = "waiting"
    /\ agent[a].pc \in {"close", "delete", "done"}
    /\ IF agent[a].error = "none"
         THEN guest' = "answered" /\ UNCHANGED agent
         ELSE IF a < terms.attempts /\ Restartable(a)
           THEN At(a + 1, "idle") /\ Goto(a + 1, "stage") /\ UNCHANGED guest
           ELSE guest' = "failed" /\ UNCHANGED agent
    /\ UNCHANGED <<terms, bridge, hist>>

\* The guest drops the completion: what is staged is dropped with it, a live
\* agent is cancelled.
GuestDrops ==
    /\ guest = "waiting"
    /\ guest' = "dropped"
    /\ agent' = [a \in Attempts |->
                   IF At(a, "stage") THEN [agent[a] EXCEPT !.pc = "idle"] ELSE agent[a]]
    /\ UNCHANGED <<terms, bridge, hist>>

Life(a) ==
    \/ Stage(a) \/ Create(a) \/ BeginSend(a) \/ Candidate(a) \/ Check(a)
    \/ Settle(a) \/ CancelRun(a) \/ GetUsage(a) \/ Finish(a) \/ Close(a) \/ Delete(a)

Waits(a) == Open(a) \/ OpenFails(a) \/ Frame(a) \/ StreamDone(a) \/ FollowFails(a)

Worker(a) ==
    BridgeRuns(a) \/ BridgeEnds(a) \/ CallTool(a) \/ ToolReturns(a) \/ WorkerExits(a)

Next == GuestDrops \/ \E a \in Attempts : Life(a) \/ Waits(a) \/ Worker(a) \/ Return(a)

Spec == Init /\ [][Next]_vars

\* The tasks are polled, and every wait on the worker is bounded by the cap if by
\* nothing else, so the select is left in the end.  The worker owes nothing.
Fairness ==
    \A a \in Attempts :
      /\ WF_vars(Life(a)) /\ WF_vars(OpenFails(a))
      /\ WF_vars(FollowFails(a)) /\ WF_vars(Return(a))

FairSpec == Spec /\ Fairness

-------------------------------------------------------------------------------
Over(a) == agent[a].pc \in {"close", "delete", "done"}
Answers(a) == guest = "answered" /\ Over(a) /\ agent[a].error = "none"

AgentType ==
    [pc : Opened \cup {"idle", "stage", "create", "close", "delete", "done"},
     opening : BOOLEAN, round : 1 .. terms.rounds, nudged : BOOLEAN, runId : BOOLEAN,
     abort : BOOLEAN, error : Errors \cup {"none"}, bill : Nat]

BridgeType ==
    [worker : {"none", "alive", "exited"}, run : {"none", "open", "over", "cancelled", "lost"},
     call : BOOLEAN, cost : Nat]

HistType ==
    [tools : 0 .. terms.tools, replied : BOOLEAN, accepted : BOOLEAN, sends : Nat,
     shown : BOOLEAN, asked : SUBSET {"cancel", "close", "delete"}]

\* Every variable keeps its type.
TypeOK ==
    /\ guest \in {"waiting", "dropped", "answered", "failed"} /\ terms \in Terms
    /\ agent \in [Attempts -> AgentType]
    /\ bridge \in [Attempts -> BridgeType]
    /\ hist \in [Attempts -> HistType]

\* A completion restarts only while no prompt of the earlier attempt was answered,
\* so the guest's check never sees candidates of two attempts.
RestartUnsaid == \A a, b \in Attempts : a < b /\ hist[a].replied => At(b, "idle")

\* An answer that was to be checked was accepted by the guest's check, through
\* corrections, nudges and restarts.
AnswerAccepted == \A a \in Attempts : Answers(a) /\ terms.check => hist[a].accepted

\* One agent is sent at most MAX_ROUNDS prompts and one nudge, however
\* corrections and the nudge come in turn.
SendsBounded == \A a \in Attempts : hist[a].sends <= terms.rounds + 1

\* A run cut short after its stream named it is not left open on a live worker
\* that was never asked to cancel it: whatever ended it, the guest's drop included.
ShownCancelled ==
    \A a \in Attempts :
      Over(a) /\ Alive(a) /\ bridge[a].run = "open" /\ hist[a].shown => "cancel" \in hist[a].asked

\* An attempt whose worker lives through it ends with its agent closed and
\* deleted, also when the guest is long gone.
TornDown ==
    \A a \in Attempts :
      At(a, "done") /\ Alive(a) /\ hist[a].sends > 0 => {"close", "delete"} \subseteq hist[a].asked

\* What is booked never exceeds what the bridge billed: answered sends are not
\* counted again with the total read back after a cut.
BillOnce == \A a \in Attempts : agent[a].bill <= bridge[a].cost

\* A checked answer was accepted, the sends and the bill are bounded by what was
\* asked, and a run the stream named is cancelled when it is cut short.
AgentInv == TypeOK /\ AnswerAccepted /\ SendsBounded /\ ShownCancelled /\ BillOnce

\* A second attempt never follows an answered prompt, and an attempt whose worker
\* lives through it leaves no agent behind.
RestartInv == RestartUnsaid /\ TornDown

\* The guest hears of its completion unless it drops it, and each attempt gives up
\* its lease, whatever the worker does.
AgentEnds ==
    /\ guest = "waiting" ~> guest # "waiting"
    /\ \A a \in Attempts : At(a, "create") ~> At(a, "done")

\* agent.rs: a restart happens "before anything the guest asked for has run".
RestartRanNothing == \A a, b \in Attempts : a < b /\ hist[a].tools > 0 => At(b, "idle")

\* callback.rs: a hard tool failure ends the completion.
HardFailureEnds == \A a \in Attempts : agent[a].abort => ~Answers(a)

\* agent.rs: an interrupted run is cancelled, shown or not.
CutShortCancelled ==
    \A a \in Attempts :
      Over(a) /\ Alive(a) /\ bridge[a].run = "open" => "cancel" \in hist[a].asked

\* README: every error complete returns downcasts to a Failure or to the budget.
ErrorsTyped == guest = "failed" => \A a \in Attempts : agent[a].error # "other"

===============================================================================
