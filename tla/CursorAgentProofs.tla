-------------------------- MODULE CursorAgentProofs --------------------------
(***************************************************************************)
(* The completion of the cursor backend keeps what AgentInv and RestartInv *)
(* say of it, for any number of attempts, rounds and tool calls.  Nearly   *)
(* every step is a step of one attempt, so the inductive invariant is one  *)
(* predicate per attempt, and the order in which attempts take turns.      *)
(***************************************************************************)
EXTENDS CursorAgent, TLAPS

Before == {"idle", "stage", "create"}
After  == {"settle", "cancel", "usage", "finish", "close", "delete", "done"}

\* An attempt that is past its candidates without an error had its answer
\* accepted, if there was a check to accept it.
Accepted(a) ==
    agent[a].pc \in After /\ agent[a].error = "none" /\ terms.check => hist[a].accepted

\* Every send is paid for by a round or the nudge, and one that is about to be
\* made is paid for already.
Allowed(a) == agent[a].round + (IF agent[a].nudged THEN 1 ELSE 0)
Counted(a) ==
    /\ agent[a].pc \in Before => hist[a].sends = 0
    /\ hist[a].sends <= Allowed(a)
    /\ agent[a].pc \in Before \cup {"send"} => hist[a].sends < Allowed(a)

\* An open run whose id was read is held by the id until it is asked to cancel.
Named(a) ==
    /\ bridge[a].run = "open" => Alive(a)
    /\ At(a, "opening") => ~hist[a].shown
    /\ hist[a].shown /\ bridge[a].run = "open" =>
         \/ agent[a].pc \in {"follow", "settle"} /\ agent[a].runId
         \/ At(a, "cancel")
         \/ "cancel" \in hist[a].asked

\* The teardown goes through its two calls or finds the worker gone.
Tearing(a) ==
    /\ At(a, "delete") => "close" \in hist[a].asked
    /\ At(a, "done") =>
         ~Alive(a) \/ hist[a].sends = 0 \/ {"close", "delete"} \subseteq hist[a].asked

\* The run that is followed is billed and not booked.
Billed(a) ==
    /\ agent[a].bill <= bridge[a].cost
    /\ At(a, "follow") \/ (At(a, "opening") /\ bridge[a].run # "none") =>
         agent[a].bill < bridge[a].cost

\* Once a prompt was answered the attempt is no longer opening.
Opens(a) ==
    /\ agent[a].pc \in {"idle", "stage"} => ~hist[a].replied
    /\ hist[a].replied => ~agent[a].opening

Sound(a) == Accepted(a) /\ Counted(a) /\ Named(a) /\ Tearing(a) /\ Billed(a) /\ Opens(a)

\* An attempt starts only when every one before it is over.
InTurn == \A a, b \in Attempts : a < b /\ ~At(b, "idle") => Over(a)

IInv == TypeOK /\ (\A a \in Attempts : Sound(a)) /\ InTurn /\ RestartUnsaid

-------------------------------------------------------------------------------
\* The terms are one of those a completion may be held to.
LEMMA TermsTyped ==
    ASSUME TypeOK
    PROVE  /\ terms.check \in BOOLEAN /\ terms.rounds \in Nat /\ terms.rounds >= 1
           /\ terms.tools \in Nat /\ terms.attempts \in 1 .. MaxAttempts
  BY AgentAssumption DEF TypeOK

\* A step of one attempt leaves the others, the guest and the terms alone.
LEMMA OneMoves ==
    ASSUME TypeOK, NEW a \in Attempts, Life(a) \/ Waits(a) \/ Worker(a)
    PROVE  /\ UNCHANGED <<guest, terms>>
           /\ \A b \in Attempts : b # a =>
                agent'[b] = agent[b] /\ bridge'[b] = bridge[b] /\ hist'[b] = hist[b]
<1>1. CASE Life(a)
  BY <1>1 DEF TypeOK, Life, Stage, Create, BeginSend, Candidate, Check, Settle, CancelRun,
    GetUsage, Finish, Close, Delete, Goto, Fail, Ask
<1>2. CASE Waits(a)
  BY <1>2 DEF TypeOK, Waits, Open, OpenFails, Frame, StreamDone, FollowFails, Goto, Fail, Ask
<1>3. CASE Worker(a)
  BY <1>3 DEF TypeOK, Worker, BridgeRuns, BridgeEnds, CallTool, ToolReturns, WorkerExits, Goto,
    Fail, Ask
<1>4. QED
  BY <1>1, <1>2, <1>3

Pcs == Opened \cup {"idle", "stage", "create", "close", "delete", "done"}

\* What the updates of the model make of a record of the right type.
LEMMA AgentPut ==
    ASSUME NEW r \in AgentType, terms.rounds \in Nat, NEW p \in Pcs, NEW t \in BOOLEAN, NEW n \in Nat
    PROVE  /\ [r EXCEPT !.pc = p] \in AgentType
           /\ [r EXCEPT !.runId = t] \in AgentType
           /\ [r EXCEPT !.abort = t] \in AgentType
           /\ [r EXCEPT !.opening = t] \in AgentType
           /\ [r EXCEPT !.nudged = t] \in AgentType
           /\ [r EXCEPT !.bill = n] \in AgentType
           /\ n \in 1 .. terms.rounds => [r EXCEPT !.round = n] \in AgentType
           /\ \A e \in Errors : [r EXCEPT !.error = e] \in AgentType
<1>1. [r EXCEPT !.pc = p] \in AgentType
  BY DEF AgentType, Pcs
<1>2. [r EXCEPT !.runId = t] \in AgentType
  BY DEF AgentType, Pcs
<1>3. [r EXCEPT !.abort = t] \in AgentType
  BY DEF AgentType, Pcs
<1>4. [r EXCEPT !.opening = t] \in AgentType
  BY DEF AgentType, Pcs
<1>5. [r EXCEPT !.nudged = t] \in AgentType
  BY DEF AgentType, Pcs
<1>6. [r EXCEPT !.bill = n] \in AgentType
  BY DEF AgentType, Pcs
<1>7. n \in 1 .. terms.rounds => [r EXCEPT !.round = n] \in AgentType
  BY DEF AgentType, Pcs
<1>8. \A e \in Errors : [r EXCEPT !.error = e] \in AgentType
  BY DEF AgentType, Pcs
<1>9. QED
  BY <1>1, <1>2, <1>3, <1>4, <1>5, <1>6, <1>7, <1>8

LEMMA BridgePut ==
    ASSUME NEW r \in BridgeType, NEW t \in BOOLEAN, NEW n \in Nat
    PROVE  /\ [r EXCEPT !.call = t] \in BridgeType
           /\ \A x \in {"none", "alive", "exited"} : [r EXCEPT !.worker = x] \in BridgeType
           /\ [r EXCEPT !.cost = n] \in BridgeType
           /\ \A x \in {"none", "open", "over", "cancelled", "lost"} : [r EXCEPT !.run = x] \in BridgeType
<1>1. [r EXCEPT !.call = t] \in BridgeType
  BY DEF BridgeType
<1>2. \A x \in {"none", "alive", "exited"} : [r EXCEPT !.worker = x] \in BridgeType
  BY DEF BridgeType
<1>3. [r EXCEPT !.cost = n] \in BridgeType
  BY DEF BridgeType
<1>4. \A x \in {"none", "open", "over", "cancelled", "lost"} : [r EXCEPT !.run = x] \in BridgeType
  BY DEF BridgeType
<1>5. QED
  BY <1>1, <1>2, <1>3, <1>4

LEMMA HistPut ==
    ASSUME NEW r \in HistType, terms.tools \in Nat, NEW t \in BOOLEAN, NEW n \in Nat
    PROVE  /\ [r EXCEPT !.shown = t] \in HistType
           /\ [r EXCEPT !.replied = t] \in HistType
           /\ [r EXCEPT !.accepted = t] \in HistType
           /\ [r EXCEPT !.sends = n] \in HistType
           /\ n \in 0 .. terms.tools => [r EXCEPT !.tools = n] \in HistType
           /\ \A x \in SUBSET {"cancel", "close", "delete"} : [r EXCEPT !.asked = x] \in HistType
<1>1. [r EXCEPT !.shown = t] \in HistType
  BY DEF HistType
<1>2. [r EXCEPT !.replied = t] \in HistType
  BY DEF HistType
<1>3. [r EXCEPT !.accepted = t] \in HistType
  BY DEF HistType
<1>4. [r EXCEPT !.sends = n] \in HistType
  BY DEF HistType
<1>5. n \in 0 .. terms.tools => [r EXCEPT !.tools = n] \in HistType
  BY DEF HistType
<1>6. \A x \in SUBSET {"cancel", "close", "delete"} : [r EXCEPT !.asked = x] \in HistType
  BY DEF HistType
<1>7. QED
  BY <1>1, <1>2, <1>3, <1>4, <1>5, <1>6

LEMMA GotoTyped ==
    ASSUME TypeOK, NEW a \in Attempts, NEW p \in Pcs, Goto(a, p)
    PROVE  agent' \in [Attempts -> AgentType]
  BY AgentPut, TermsTyped DEF TypeOK, Goto

LEMMA FailTyped ==
    ASSUME TypeOK, NEW a \in Attempts, NEW p \in Pcs, NEW e \in Errors, Fail(a, p, e)
    PROVE  agent' \in [Attempts -> AgentType]
  BY AgentPut, TermsTyped DEF TypeOK, Fail

LEMMA SameTypes ==
    ASSUME UNCHANGED terms
    PROVE  AgentType' = AgentType /\ HistType' = HistType /\ BridgeType' = BridgeType
  BY DEF AgentType, HistType, BridgeType

\* The next type lemmas take the variables one by one.
LEMMA AgentTyped ==
    ASSUME TypeOK, NEW a \in Attempts, Life(a) \/ Waits(a) \/ Worker(a)
    PROVE  agent' \in [Attempts -> AgentType]
<1>1. /\ agent[a] \in AgentType /\ agent \in [Attempts -> AgentType]
      /\ terms.rounds \in Nat /\ agent[a].round \in 1 .. terms.rounds
      /\ agent[a].bill \in Nat /\ bridge[a].cost \in Nat
  BY TermsTyped DEF TypeOK, AgentType, BridgeType
<1>2. CASE \/ \E p \in Pcs : Goto(a, p)
           \/ \E p \in Pcs, e \in Errors : Fail(a, p, e)
  BY <1>2, GotoTyped, FailTyped
<1>3. CASE Create(a) \/ BeginSend(a) \/ CancelRun(a) \/ Finish(a) \/ Close(a) \/ Delete(a)
           \/ Open(a) \/ OpenFails(a) \/ FollowFails(a)
  BY <1>3, <1>2 DEF Create, BeginSend, CancelRun, Finish, Close, Delete, Open, OpenFails,
    FollowFails,
    Refusals, Pcs, Opened, Errors
<1>4. CASE BridgeRuns(a) \/ BridgeEnds(a) \/ CallTool(a) \/ WorkerExits(a)
  BY <1>4, <1>1 DEF BridgeRuns, BridgeEnds, CallTool, WorkerExits
<1>5. CASE Frame(a)
  <2>1. [agent[a] EXCEPT !.runId = TRUE] \in AgentType
    BY <1>1 DEF AgentType
  <2>2. QED
    BY <1>5, <1>1, <2>1 DEF Frame
<1>6. CASE ToolReturns(a)
  <2>1. [agent[a] EXCEPT !.abort = TRUE] \in AgentType
    BY <1>1 DEF AgentType
  <2>2. QED
    BY <1>6, <1>1, <2>1 DEF ToolReturns
<1>7. CASE Settle(a)
  BY <1>7, <1>1, AgentPut DEF Settle, Pcs, Opened
<1>8. CASE Stage(a)
  <2>1. CASE agent' = [agent EXCEPT ![a].pc = "create", ![a].opening = TRUE]
    <3>1. "create" \in Pcs
      BY DEF Pcs
    <3>2. QED
      BY <2>1, <3>1, <1>1, AgentPut
  <2>2. QED
    BY <1>8, <1>2, <2>1 DEF Stage, Pcs
<1>9. CASE Candidate(a)
  <2>1. CASE agent' = [agent EXCEPT ![a].pc = "send", ![a].nudged = TRUE]
    <3>1. "send" \in Pcs
      BY DEF Pcs, Opened
    <3>2. QED
      BY <2>1, <3>1, <1>1, AgentPut
  <2>2. QED
    BY <1>9, <1>2, <2>1 DEF Candidate, Pcs, Opened
<1>10. CASE Check(a)
  <2>1. CASE agent[a].round < terms.rounds /\ agent' = [agent EXCEPT ![a].pc = "send", ![a].round = @ + 1]
    <3>1. "send" \in Pcs /\ agent[a].round + 1 \in Nat /\ agent[a].round + 1 \in 1 .. terms.rounds
      BY <2>1, <1>1 DEF Pcs, Opened
    <3>2. [agent[a] EXCEPT !.pc = "send", !.round = agent[a].round + 1] \in AgentType
      BY <1>1, <3>1 DEF AgentType, Pcs
    <3>3. agent' = [agent EXCEPT ![a] = [agent[a] EXCEPT !.pc = "send", !.round = agent[a].round + 1]]
      BY <2>1, <1>1 DEF AgentType
    <3>4. QED
      BY <3>2, <3>3, <1>1
  <2>2. QED
    BY <1>10, <1>2, <2>1 DEF Check, Pcs, Opened, Errors
<1>11. CASE GetUsage(a)
  <2>1. CASE agent' = [agent EXCEPT ![a].pc = "finish",
                         ![a].bill = IF @ < bridge[a].cost THEN bridge[a].cost ELSE @]
    <3>1. PICK n \in Nat : agent' = [agent EXCEPT ![a].pc = "finish", ![a].bill = n]
      BY <2>1, <1>1
    <3>2. "finish" \in Pcs
      BY DEF Pcs, Opened
    <3>3. QED
      BY <3>1, <3>2, <1>1, AgentPut
  <2>2. QED
    BY <1>11, <1>2, <2>1 DEF GetUsage, Pcs, Opened
<1>12. CASE StreamDone(a)
  <2>1. ASSUME NEW n \in Nat,
               agent' = [agent EXCEPT ![a].pc = "candidate", ![a].runId = FALSE,
                                      ![a].opening = FALSE, ![a].bill = n]
        PROVE  agent' \in [Attempts -> AgentType]
    <3>1. [agent[a] EXCEPT !.pc = "candidate", !.runId = FALSE, !.opening = FALSE, !.bill = n] \in AgentType
      BY <1>1 DEF AgentType, Opened
    <3>2. QED
      BY <2>1, <3>1, <1>1
  <2>2. ASSUME NEW e \in Errors,
               agent' = [agent EXCEPT ![a].pc = "settle", ![a].runId = FALSE, ![a].error = e]
        PROVE  agent' \in [Attempts -> AgentType]
    <3>1. [agent[a] EXCEPT !.pc = "settle", !.runId = FALSE, !.error = e] \in AgentType
      BY <1>1 DEF AgentType, Opened
    <3>2. QED
      BY <2>2, <3>1, <1>1
  <2>3. \A u \in {0, 1} : agent[a].bill + u \in Nat
    BY <1>1
  <2>4. QED
    BY <1>12, <2>1, <2>2, <2>3 DEF StreamDone, Errors
<1>13. QED
  BY <1>3, <1>4, <1>5, <1>6, <1>7, <1>8, <1>9, <1>10, <1>11, <1>12 DEF Life, Waits, Worker

LEMMA BridgeTyped ==
    ASSUME TypeOK, NEW a \in Attempts, Life(a) \/ Waits(a) \/ Worker(a)
    PROVE  bridge' \in [Attempts -> BridgeType]
<1>1. bridge[a] \in BridgeType /\ bridge \in [Attempts -> BridgeType] /\ bridge[a].cost + 1 \in Nat
  BY DEF TypeOK, BridgeType
<1>2. CASE UNCHANGED bridge
  BY <1>1, <1>2
<1>3. CASE Stage(a) \/ BeginSend(a)
  BY <1>3, <1>1, BridgePut DEF Stage, BeginSend
<1>4. CASE BridgeRuns(a) \/ BridgeEnds(a)
  <2>1. /\ [bridge[a] EXCEPT !.run = "open", !.cost = bridge[a].cost + 1] \in BridgeType
        /\ [bridge[a] EXCEPT !.run = "over"] \in BridgeType
    BY <1>1 DEF BridgeType
  <2>2. QED
    BY <1>4, <1>1, <2>1 DEF BridgeRuns, BridgeEnds
<1>5. CASE CallTool(a) \/ ToolReturns(a)
  BY <1>5, <1>1, BridgePut DEF CallTool, ToolReturns
<1>6. ASSUME NEW x \in {"none", "open", "over", "cancelled", "lost"}, bridge' = [bridge EXCEPT ![a].run = x]
      PROVE  bridge' \in [Attempts -> BridgeType]
  BY <1>6, <1>1, BridgePut
<1>7. CASE CancelRun(a)
  <2>1. bridge[a].run \in {"none", "open", "over", "cancelled", "lost"}
    BY <1>1 DEF BridgeType
  <2>2. QED
    BY <1>7, <1>2, <1>6, <2>1 DEF CancelRun
<1>8. CASE WorkerExits(a)
  <2>1. PICK x \in {"none", "open", "over", "cancelled", "lost"} :
          bridge' = [bridge EXCEPT ![a].worker = "exited", ![a].run = x]
    <3>1. bridge[a].run \in {"none", "open", "over", "cancelled", "lost"}
      BY <1>1 DEF BridgeType
    <3>2. QED
      BY <1>8, <1>1, <3>1 DEF WorkerExits
  <2>2. QED
    BY <2>1, <1>1, BridgePut
<1>9. QED
  BY <1>2, <1>3, <1>4, <1>5, <1>7, <1>8 DEF Life, Waits, Worker, Create, Candidate, Check, Settle,
    GetUsage, Finish, Close, Delete, Open, OpenFails, Frame, StreamDone, FollowFails

LEMMA HistTyped ==
    ASSUME TypeOK, NEW a \in Attempts, Life(a) \/ Waits(a) \/ Worker(a)
    PROVE  hist' \in [Attempts -> HistType]
<1>1. /\ hist[a] \in HistType /\ hist \in [Attempts -> HistType]
      /\ terms.tools \in Nat /\ hist[a].sends + 1 \in Nat
      /\ hist[a].tools \in Nat /\ hist[a].asked \subseteq {"cancel", "close", "delete"}
  BY TermsTyped DEF TypeOK, HistType
<1>2. CASE UNCHANGED hist
  BY <1>1, <1>2
<1>3. ASSUME NEW x \in {"cancel", "close", "delete"}, Ask(a, x)
      PROVE  hist' \in [Attempts -> HistType]
  <2>1. hist[a].asked \cup {x} \in SUBSET {"cancel", "close", "delete"}
    BY <1>1
  <2>2. QED
    BY <1>3, <1>1, <2>1, HistPut DEF Ask
<1>4. CASE BeginSend(a) \/ Check(a)
  <2>1. /\ [hist[a] EXCEPT !.sends = hist[a].sends + 1, !.shown = FALSE] \in HistType
        /\ [hist[a] EXCEPT !.accepted = TRUE] \in HistType
    BY <1>1 DEF HistType
  <2>2. QED
    BY <1>4, <1>1, <1>2, <2>1 DEF BeginSend, Check
<1>5. CASE Frame(a)
  BY <1>5, <1>1, HistPut DEF Frame
<1>6. CASE StreamDone(a)
  <2>1. CASE hist' = [hist EXCEPT ![a].replied = TRUE]
    BY <2>1, <1>1, HistPut
  <2>2. QED
    BY <1>6, <1>2, <2>1 DEF StreamDone
<1>7. CASE CallTool(a)
  <2>1. [hist[a] EXCEPT !.tools = hist[a].tools + 1] \in HistType
    BY <1>7, <1>1 DEF HistType, CallTool
  <2>2. QED
    BY <1>7, <1>1, <2>1 DEF CallTool
<1>8. QED
  BY <1>2, <1>3, <1>4, <1>5, <1>6, <1>7 DEF Life, Waits, Worker, Stage, Create, Candidate,
    Settle, CancelRun,
    GetUsage, Finish, Close, Delete, Open, OpenFails, FollowFails, BridgeRuns, BridgeEnds,
    ToolReturns, WorkerExits

\* Every step of an attempt keeps the types.
LEMMA TypeStep ==
    ASSUME TypeOK, NEW a \in Attempts, Life(a) \/ Waits(a) \/ Worker(a)
    PROVE  TypeOK'
  BY AgentTyped, BridgeTyped, HistTyped, OneMoves, SameTypes DEF TypeOK

\* What is left alone as an attempt moves on, fails or asks.
LEMMA GotoDoes ==
    ASSUME TypeOK, NEW a \in Attempts, NEW p, Goto(a, p)
    PROVE  /\ agent'[a].pc = p /\ agent'[a].error = agent[a].error /\ agent'[a].opening = agent[a].opening
           /\ agent'[a].round = agent[a].round /\ agent'[a].nudged = agent[a].nudged
           /\ agent'[a].runId = agent[a].runId /\ agent'[a].bill = agent[a].bill
  BY DEF TypeOK, AgentType, Goto

LEMMA FailDoes ==
    ASSUME TypeOK, NEW a \in Attempts, NEW p, NEW e \in Errors, Fail(a, p, e)
    PROVE  /\ agent'[a].pc = p /\ agent'[a].error # "none" /\ agent'[a].opening = agent[a].opening
           /\ agent'[a].round = agent[a].round /\ agent'[a].nudged = agent[a].nudged
           /\ agent'[a].runId = agent[a].runId /\ agent'[a].bill = agent[a].bill
  BY DEF TypeOK, AgentType, Fail, Errors

\* A step of an attempt keeps what holds of it.
LEMMA SoundStep ==
    ASSUME TypeOK, NEW a \in Attempts, Sound(a), Life(a) \/ Waits(a) \/ Worker(a)
    PROVE  Sound(a)'
<1>1. /\ agent \in [Attempts -> AgentType] /\ bridge \in [Attempts -> BridgeType]
      /\ hist \in [Attempts -> HistType] /\ terms' = terms
      /\ terms.check \in BOOLEAN /\ terms.rounds \in Nat /\ TypeOK
      /\ Accepted(a) /\ Counted(a) /\ Named(a) /\ Tearing(a) /\ Billed(a) /\ Opens(a)
  BY TermsTyped, OneMoves DEF TypeOK, Sound
<1>2. CASE Stage(a)
  <2>1. At(a, "stage") /\ hist' = hist
    BY <1>2 DEF Stage
  <2>2. CASE /\ agent' = [agent EXCEPT ![a].pc = "create", ![a].opening = TRUE]
             /\ bridge' = [bridge EXCEPT ![a].worker = "alive"]
    <3>1. /\ agent'[a].pc = "create" /\ agent'[a].round = agent[a].round
          /\ agent'[a].nudged = agent[a].nudged /\ agent'[a].bill = agent[a].bill
      BY <2>2, <1>1 DEF AgentType
    <3>2. /\ bridge'[a].worker = "alive" /\ bridge'[a].run = bridge[a].run
          /\ bridge'[a].cost = bridge[a].cost
      BY <2>2, <1>1 DEF BridgeType
    <3>3. QED
      BY <2>1, <3>1, <3>2, <1>1 DEF At, Alive, Sound, Accepted, Counted, Allowed, Named, Tearing,
        Billed, Opens, Before, After
  <2>3. CASE bridge' = bridge /\ \E e \in Errors : Fail(a, "done", e)
    BY <2>1, <2>3, <1>1, FailDoes DEF At, Alive, Sound, Accepted, Counted, Allowed, Named,
      Tearing, Billed, Opens, Before, After
  <2>4. QED
    BY <1>2, <2>2, <2>3 DEF Stage
<1>3. CASE Create(a)
  <2>1. bridge' = bridge /\ hist' = hist /\ At(a, "create")
    BY <1>3 DEF Create
  <2>2. CASE Goto(a, "send")
    BY <2>1, <2>2, <1>1, GotoDoes DEF At, Alive, Sound, Accepted, Counted, Allowed, Named,
      Tearing, Billed, Opens, Before, After
  <2>3. CASE \E e \in Errors : Fail(a, "done", e)
    BY <2>1, <2>3, <1>1, FailDoes DEF At, Alive, Sound, Accepted, Counted, Allowed, Named,
      Tearing, Billed, Opens, Before, After
  <2>4. QED
    BY <1>3, <2>2, <2>3 DEF Create, Refusals, Errors
<1>4. CASE BeginSend(a)
  <2>1. CASE Fail(a, "settle", "typed") /\ UNCHANGED <<bridge, hist>>
    <3>1. "typed" \in Errors
      BY DEF Errors
    <3>2. QED
      BY <1>4, <2>1, <3>1, <1>1, FailDoes DEF BeginSend, At, Alive, Sound, Accepted, Counted,
        Allowed, Named, Tearing, Billed, Opens, Before, After
  <2>2. CASE Goto(a, "opening") /\ guest # "dropped"
    <3>1. /\ At(a, "send") /\ bridge'[a].run = "none" /\ bridge'[a].cost = bridge[a].cost
          /\ bridge'[a].worker = bridge[a].worker
          /\ hist'[a].sends = hist[a].sends + 1 /\ ~hist'[a].shown /\ hist'[a].replied = hist[a].replied
      BY <1>4, <2>2, <1>1 DEF BeginSend, BridgeType, HistType
    <3>2. hist[a].sends \in Nat /\ Allowed(a) \in Nat
      BY <1>1 DEF Allowed, AgentType, HistType
    <3>3. QED
      BY <2>2, <3>1, <3>2, <1>1, GotoDoes
        DEF At, Alive, Sound, Accepted, Counted, Allowed, Named, Tearing, Billed, Opens, Before,
        After
  <2>3. QED
    BY <1>4, <2>1, <2>2 DEF BeginSend
<1>5. CASE Candidate(a)
  BY <1>1, <1>5 DEF AgentType, BridgeType, HistType, Candidate, Goto, At, Alive, Sound, Accepted,
    Counted, Allowed, Named, Tearing, Billed, Opens, Before, After
<1>6. CASE Check(a)
  <2>1. At(a, "check") /\ bridge' = bridge
    BY <1>6 DEF Check
  <2>2. CASE Goto(a, "settle") /\ hist' = [hist EXCEPT ![a].accepted = TRUE]
    <3>1. /\ hist'[a].accepted /\ hist'[a].sends = hist[a].sends /\ hist'[a].shown = hist[a].shown
          /\ hist'[a].replied = hist[a].replied /\ hist'[a].asked = hist[a].asked
      BY <2>2, <1>1 DEF HistType
    <3>2. QED
      BY <2>1, <2>2, <3>1, <1>1, GotoDoes
        DEF At, Alive, Sound, Accepted, Counted, Allowed, Named, Tearing, Billed, Opens, Before,
        After
  <2>3. CASE agent' = [agent EXCEPT ![a].pc = "send", ![a].round = @ + 1] /\ hist' = hist
    <3>1. /\ agent'[a].pc = "send" /\ agent'[a].round = agent[a].round + 1
          /\ agent'[a].nudged = agent[a].nudged /\ agent'[a].opening = agent[a].opening
          /\ agent'[a].bill = agent[a].bill
      BY <2>3, <1>1 DEF AgentType
    <3>2. hist[a].sends \in Nat /\ agent[a].round \in Nat
      BY <1>1 DEF AgentType, HistType
    <3>3. QED
      BY <2>1, <2>3, <3>1, <3>2, <1>1 DEF At, Alive, Sound, Accepted, Counted, Allowed, Named,
        Tearing, Billed, Opens, Before, After
  <2>4. CASE (\E e \in Errors : Fail(a, "settle", e)) /\ hist' = hist
    BY <2>1, <2>4, <1>1, FailDoes DEF At, Alive, Sound, Accepted, Counted, Allowed, Named,
      Tearing, Billed, Opens, Before, After
  <2>5. QED
    BY <1>6, <2>2, <2>3, <2>4 DEF Check, Errors
<1>7. CASE Settle(a)
  BY <1>1, <1>7 DEF AgentType, BridgeType, HistType, Settle, At, Alive, Sound, Accepted, Counted,
    Allowed, Named, Tearing, Billed, Opens, Before, After
<1>8. CASE CancelRun(a)
  <2>1. Accepted(a)'
    BY <1>1, <1>8 DEF AgentType, BridgeType, HistType, CancelRun, Goto, Ask, At, Alive, Accepted,
      After
  <2>2. Counted(a)'
    BY <1>1, <1>8 DEF AgentType, BridgeType, HistType, CancelRun, Goto, Ask, At, Alive, Counted,
      Allowed, Before
  <2>3. Named(a)'
    BY <1>1, <1>8 DEF AgentType, BridgeType, HistType, CancelRun, Goto, Ask, At, Alive, Named
  <2>4. Tearing(a)'
    BY <1>1, <1>8 DEF AgentType, BridgeType, HistType, CancelRun, Goto, Ask, At, Alive, Tearing,
      Counted, Before
  <2>5. Billed(a)'
    BY <1>1, <1>8 DEF AgentType, BridgeType, HistType, CancelRun, Goto, Ask, At, Alive, Billed
  <2>6. Opens(a)'
    BY <1>1, <1>8 DEF AgentType, BridgeType, HistType, CancelRun, Goto, Ask, At, Alive, Opens
  <2>7. QED
    BY <2>1, <2>2, <2>3, <2>4, <2>5, <2>6 DEF Sound
<1>9. CASE GetUsage(a)
  BY <1>1, <1>9 DEF AgentType, BridgeType, HistType, GetUsage, Goto, At, Alive, Sound, Accepted,
    Counted, Allowed, Named, Tearing, Billed, Opens, Before, After
<1>10. CASE Finish(a)
  BY <1>1, <1>10 DEF AgentType, BridgeType, HistType, Finish, Goto, At, Alive, Sound, Accepted,
    Counted, Allowed, Named, Tearing, Billed, Opens, Before, After
<1>11. CASE Close(a)
  <2>1. At(a, "close") /\ bridge' = bridge
    BY <1>11 DEF Close
  <2>2. CASE Goto(a, "delete") /\ Ask(a, "close")
    <3>1. /\ hist'[a].asked = hist[a].asked \cup {"close"} /\ hist'[a].accepted = hist[a].accepted
          /\ hist'[a].sends = hist[a].sends /\ hist'[a].shown = hist[a].shown
          /\ hist'[a].replied = hist[a].replied
      BY <2>2, <1>1 DEF Ask, HistType
    <3>2. QED
      BY <2>1, <2>2, <3>1, <1>1, GotoDoes
        DEF At, Alive, Sound, Accepted, Counted, Allowed, Named, Tearing, Billed, Opens, Before,
        After
  <2>3. CASE ~Alive(a) /\ Goto(a, "done") /\ hist' = hist
    BY <2>1, <2>3, <1>1, GotoDoes DEF At, Alive, Sound, Accepted, Counted, Allowed, Named,
      Tearing, Billed, Opens, Before, After
  <2>4. QED
    BY <1>11, <2>2, <2>3 DEF Close
<1>12. CASE Delete(a)
  BY <1>1, <1>12 DEF AgentType, BridgeType, HistType, Delete, Goto, Ask, At, Alive, Sound,
    Accepted, Counted, Allowed, Named, Tearing, Billed, Opens, Before, After
<1>13. CASE Open(a)
  BY <1>1, <1>13 DEF AgentType, BridgeType, HistType, Open, Goto, At, Alive, Sound, Accepted,
    Counted, Allowed, Named, Tearing, Billed, Opens, Before, After
<1>14. CASE OpenFails(a)
  <2>1. /\ bridge' = bridge /\ hist' = hist /\ At(a, "opening")
        /\ \E e \in Errors : Fail(a, "settle", e)
    BY <1>14 DEF OpenFails, Refusals, Errors
  <2>2. QED
    BY <2>1, <1>1, FailDoes DEF At, Alive, Sound, Accepted, Counted, Allowed, Named, Tearing,
      Billed, Opens, Before, After
<1>15. CASE Frame(a)
  BY <1>1, <1>15 DEF AgentType, BridgeType, HistType, Frame, At, Alive, Sound, Accepted, Counted,
    Allowed, Named, Tearing, Billed, Opens, Before, After
<1>16. CASE StreamDone(a)
  <2>1. At(a, "follow") /\ bridge' = bridge /\ bridge[a].run = "over"
    BY <1>16 DEF StreamDone
  <2>2. ASSUME NEW u \in {0, 1},
               agent' = [agent EXCEPT ![a].pc = "candidate", ![a].runId = FALSE,
                                      ![a].opening = FALSE, ![a].bill = @ + u],
               hist' = [hist EXCEPT ![a].replied = TRUE]
        PROVE  Sound(a)'
    <3>1. /\ agent'[a].pc = "candidate" /\ ~agent'[a].opening /\ agent'[a].bill = agent[a].bill + u
          /\ agent'[a].round = agent[a].round /\ agent'[a].nudged = agent[a].nudged
      BY <2>2, <1>1 DEF AgentType
    <3>2. hist'[a].sends = hist[a].sends
      BY <2>2, <1>1 DEF HistType
    <3>3. agent[a].bill \in Nat /\ bridge[a].cost \in Nat
      BY <1>1 DEF AgentType, BridgeType
    <3>4. QED
      BY <2>1, <3>1, <3>2, <3>3, <1>1 DEF At, Alive, Sound, Accepted, Counted, Allowed, Named,
        Tearing, Billed, Opens, Before, After
  <2>3. ASSUME NEW e \in Errors, hist' = hist,
               agent' = [agent EXCEPT ![a].pc = "settle", ![a].runId = FALSE, ![a].error = e]
        PROVE  Sound(a)'
    <3>1. /\ agent'[a].pc = "settle" /\ agent'[a].error # "none" /\ agent'[a].bill = agent[a].bill
          /\ agent'[a].round = agent[a].round /\ agent'[a].nudged = agent[a].nudged
          /\ agent'[a].opening = agent[a].opening
      BY <2>3, <1>1 DEF AgentType, Errors
    <3>2. QED
      BY <2>1, <2>3, <3>1, <1>1 DEF At, Alive, Sound, Accepted, Counted, Allowed, Named, Tearing,
        Billed, Opens, Before, After
  <2>4. QED
    BY <1>16, <2>2, <2>3 DEF StreamDone, Errors
<1>17. CASE FollowFails(a)
  <2>1. /\ bridge' = bridge /\ hist' = hist /\ At(a, "follow")
        /\ \E e \in Errors : Fail(a, "settle", e)
    BY <1>17 DEF FollowFails, Refusals, Errors
  <2>2. QED
    BY <2>1, <1>1, FailDoes DEF At, Alive, Sound, Accepted, Counted, Allowed, Named, Tearing,
      Billed, Opens, Before, After
<1>18. CASE BridgeRuns(a)
  BY <1>1, <1>18 DEF AgentType, BridgeType, HistType, BridgeRuns, At, Alive, Sound, Accepted,
    Counted, Allowed, Named, Tearing, Billed, Opens, Before, After
<1>19. CASE BridgeEnds(a)
  BY <1>1, <1>19 DEF AgentType, BridgeType, HistType, BridgeEnds, At, Alive, Sound, Accepted,
    Counted, Allowed, Named, Tearing, Billed, Opens, Before, After
<1>20. CASE CallTool(a)
  BY <1>1, <1>20 DEF AgentType, BridgeType, HistType, CallTool, At, Alive, Sound, Accepted,
    Counted, Allowed, Named, Tearing, Billed, Opens, Before, After
<1>21. CASE ToolReturns(a)
  <2>1. /\ hist' = hist /\ bridge'[a].worker = bridge[a].worker
        /\ bridge'[a].run = bridge[a].run /\ bridge'[a].cost = bridge[a].cost
    BY <1>21, <1>1 DEF ToolReturns, BridgeType
  <2>2. /\ agent'[a].pc = agent[a].pc /\ agent'[a].error = agent[a].error
        /\ agent'[a].opening = agent[a].opening /\ agent'[a].round = agent[a].round
        /\ agent'[a].nudged = agent[a].nudged /\ agent'[a].runId = agent[a].runId
        /\ agent'[a].bill = agent[a].bill
    BY <1>21, <1>1 DEF ToolReturns, AgentType
  <2>3. QED
    BY <2>1, <2>2, <1>1 DEF At, Alive, Sound, Accepted, Counted, Allowed, Named, Tearing, Billed,
      Opens, Before, After
<1>22. CASE WorkerExits(a)
  BY <1>1, <1>22 DEF AgentType, BridgeType, HistType, WorkerExits, At, Alive, Sound, Accepted,
    Counted, Allowed, Named, Tearing, Billed, Opens, Before, After
<1>23. QED
  BY <1>2, <1>3, <1>4, <1>5, <1>6, <1>7, <1>8, <1>9, <1>10, <1>11, <1>12, <1>13, <1>14, <1>15,
    <1>16, <1>17, <1>18, <1>19, <1>20, <1>21, <1>22 DEF Life, Waits, Worker

-------------------------------------------------------------------------------
\* A step of an attempt replies to it only while it follows its stream, and
\* leaves it neither idle nor, once it is over, anywhere but over.
LEMMA OneGoes ==
    ASSUME TypeOK, NEW a \in Attempts, Life(a) \/ Waits(a) \/ Worker(a)
    PROVE  /\ At(a, "idle") <=> At(a, "idle")'
           /\ Over(a) => Over(a)'
           /\ hist'[a].replied => hist[a].replied \/ At(a, "follow")
<1>1. /\ agent \in [Attempts -> AgentType] /\ bridge \in [Attempts -> BridgeType]
      /\ hist \in [Attempts -> HistType]
  BY DEF TypeOK
<1>2. CASE Life(a)
  <2>1. hist'[a].replied = hist[a].replied
    BY <1>1, <1>2 DEF Life, Stage, Create, BeginSend, Candidate, Check, Settle, CancelRun,
      GetUsage, Finish,
      Close, Delete, Ask, HistType
  <2>2. CASE Finish(a) \/ Close(a) \/ Delete(a) \/ CancelRun(a) \/ Create(a) \/ BeginSend(a)
    <3>1. \/ \E p \in Pcs \ {"idle"} : Goto(a, p) /\ (Over(a) => p \in {"close", "delete", "done"})
          \/ \E p \in Pcs \ {"idle"}, e \in Errors : Fail(a, p, e) /\ ~Over(a)
      BY <2>2 DEF Finish, Close, Delete, CancelRun, Create, BeginSend, At, Over, Pcs, Opened,
        Errors, Refusals
    <3>2. ~At(a, "idle")
      BY <2>2 DEF Finish, Close, Delete, CancelRun, Create, BeginSend, At
    <3>3. QED
      BY <2>1, <3>1, <3>2, GotoDoes, FailDoes DEF At, Over
  <2>3. CASE Stage(a) \/ Settle(a) \/ GetUsage(a)
    BY <1>1, <2>1, <2>3 DEF Stage, Settle, GetUsage, Goto, Fail, At, Over, AgentType
  <2>4. CASE Candidate(a) \/ Check(a)
    BY <1>1, <2>1, <2>4 DEF Candidate, Check, Goto, Fail, At, Over, AgentType
  <2>5. QED
    BY <1>2, <2>2, <2>3, <2>4 DEF Life
<1>3. CASE Waits(a)
  <2>1. ~At(a, "idle") /\ ~Over(a)
    BY <1>3 DEF Waits, Open, OpenFails, Frame, StreamDone, FollowFails, At, Over
  <2>2. hist'[a].replied => hist[a].replied \/ At(a, "follow")
    BY <1>1, <1>3 DEF Waits, Open, OpenFails, Frame, StreamDone, FollowFails
  <2>3. CASE Open(a) \/ OpenFails(a) \/ FollowFails(a)
    <3>1. \/ Goto(a, "follow")
          \/ \E e \in Errors : Fail(a, "settle", e)
      BY <2>3 DEF Open, OpenFails, FollowFails, Errors, Refusals
    <3>2. QED
      BY <2>1, <2>2, <3>1, GotoDoes, FailDoes DEF At
  <2>4. CASE Frame(a) \/ StreamDone(a)
    BY <1>1, <2>1, <2>2, <2>4 DEF Frame, StreamDone, At, AgentType
  <2>5. QED
    BY <1>3, <2>3, <2>4 DEF Waits
<1>4. CASE Worker(a)
  BY <1>1, <1>4 DEF Worker, BridgeRuns, BridgeEnds, CallTool, ToolReturns, WorkerExits, At, Over,
    AgentType, HistType
<1>5. QED
  BY <1>2, <1>3, <1>4

\* A step of one attempt keeps the turns: the next attempt waits for it to be
\* over, and then it replies to nothing.
LEMMA AttemptStep ==
    ASSUME IInv, NEW a \in Attempts, Life(a) \/ Waits(a) \/ Worker(a)
    PROVE  IInv'
<1>1. TypeOK /\ InTurn /\ RestartUnsaid /\ \A b \in Attempts : Sound(b)
  BY DEF IInv
<1>2. TypeOK'
  BY <1>1, TypeStep
<1>3. ASSUME NEW b \in Attempts
      PROVE  Sound(b)'
  <2>1. CASE b = a
    BY <1>1, <2>1, SoundStep
  <2>2. CASE b # a
    BY <1>1, <2>2, OneMoves DEF Sound, Accepted, Counted, Allowed, Named, Tearing, Billed, Opens,
      At, Alive
  <2>3. QED
    BY <2>1, <2>2
<1>4. \A b \in Attempts : /\ At(b, "idle")' <=> At(b, "idle")
                          /\ Over(b) => Over(b)'
                          /\ hist'[b].replied => hist[b].replied \/ ~Over(b)
  BY <1>1, OneMoves, OneGoes DEF At, Over
<1>5. InTurn'
  BY <1>1, <1>4 DEF InTurn
<1>6. RestartUnsaid'
  BY <1>1, <1>4 DEF RestartUnsaid, InTurn
<1>7. QED
  BY <1>2, <1>3, <1>5, <1>6 DEF IInv

\* The second attempt is started for a worker lost while the first one opened,
\* which no prompt was answered in.
LEMMA ReturnStep ==
    ASSUME IInv, NEW a \in Attempts, Return(a)
    PROVE  IInv'
<1>1. /\ TypeOK /\ InTurn /\ RestartUnsaid /\ \A b \in Attempts : Sound(b)
      /\ UNCHANGED <<terms, bridge, hist>> /\ Over(a)
  BY DEF IInv, Return, Over
<1>2. CASE UNCHANGED agent
  <2>1. guest' \in {"waiting", "dropped", "answered", "failed"}
    BY <1>1 DEF Return, TypeOK
  <2>2. TypeOK'
    BY <1>1, <1>2, <2>1, SameTypes DEF TypeOK
  <2>3. \A b \in Attempts : Sound(b)'
    BY <1>1, <1>2 DEF Sound, Accepted, Counted, Allowed, Named, Tearing, Billed, Opens, At, Alive
  <2>4. InTurn' /\ RestartUnsaid'
    BY <1>1, <1>2 DEF InTurn, RestartUnsaid, At, Over
  <2>5. QED
    BY <2>2, <2>3, <2>4 DEF IInv
<1>3. CASE ~UNCHANGED agent
  <2>1. /\ a < terms.attempts /\ agent[a].opening /\ UNCHANGED guest
        /\ At(a + 1, "idle") /\ Goto(a + 1, "stage")
    BY <1>3 DEF Return, Restartable
  <2>2. a + 1 \in Attempts /\ a \in Nat
    BY <1>1, <2>1, TermsTyped, AgentAssumption DEF Attempts
  <2>3. PICK n \in Attempts : n = a + 1
    BY <2>2
  <2>4. At(n, "idle") /\ Goto(n, "stage")
    BY <2>1, <2>3
  <2>5. TypeOK'
    <3>1. "stage" \in Pcs
      BY DEF Pcs
    <3>2. agent' \in [Attempts -> AgentType]
      BY <1>1, <2>4, <3>1, GotoTyped
    <3>3. QED
      BY <1>1, <2>1, <3>2, SameTypes DEF TypeOK
  <2>6. ASSUME NEW b \in Attempts, b # n
        PROVE  agent'[b] = agent[b]
    BY <1>1, <2>4, <2>6 DEF TypeOK, Goto
  <2>7. ASSUME NEW b \in Attempts
        PROVE  Sound(b)'
    <3>1. CASE b = n
      BY <1>1, <2>4, <3>1, GotoDoes
        DEF Sound, Accepted, Counted, Allowed, Named, Tearing, Billed, Opens, At, Alive, Before,
        After
    <3>2. CASE b # n
      BY <1>1, <2>6, <3>2 DEF Sound, Accepted, Counted, Allowed, Named, Tearing, Billed, Opens,
        At, Alive
    <3>3. QED
      BY <3>1, <3>2
  <2>8. \A b \in Attempts : /\ b # n => (At(b, "idle")' <=> At(b, "idle"))
                            /\ Over(b) => Over(b)' /\ b # n
    BY <1>1, <2>4, <2>6 DEF At, Over
  <2>9. ASSUME NEW b \in Attempts, b < n
        PROVE  Over(b) /\ ~hist[b].replied
    <3>1. b < a \/ b = a
      BY <2>2, <2>3, <2>9 DEF Attempts
    <3>2. ~At(a, "idle")
      BY <1>1 DEF At, Over
    <3>3. CASE b = a
      BY <1>1, <2>1, <3>3 DEF Sound, Opens
    <3>4. CASE b < a
      BY <1>1, <3>2, <3>4 DEF InTurn, RestartUnsaid
    <3>5. QED
      BY <3>1, <3>3, <3>4
  <2>10. InTurn'
    BY <1>1, <2>8, <2>9 DEF InTurn
  <2>11. RestartUnsaid'
    BY <1>1, <2>8, <2>9 DEF RestartUnsaid
  <2>12. QED
    BY <2>5, <2>7, <2>10, <2>11 DEF IInv
<1>4. QED
  BY <1>2, <1>3

\* A completion dropped while it is staged is idle again.
LEMMA DropStep ==
    ASSUME IInv, GuestDrops
    PROVE  IInv'
<1>1. /\ TypeOK /\ InTurn /\ RestartUnsaid /\ \A b \in Attempts : Sound(b)
      /\ UNCHANGED <<terms, bridge, hist>> /\ guest' = "dropped"
      /\ agent \in [Attempts -> AgentType]
  BY DEF IInv, GuestDrops, TypeOK
<1>2. ASSUME NEW b \in Attempts
      PROVE  /\ ~At(b, "stage") => agent'[b] = agent[b]
             /\ At(b, "stage") => agent'[b] = [agent[b] EXCEPT !.pc = "idle"]
             /\ agent'[b] \in AgentType
  <2>1. [agent[b] EXCEPT !.pc = "idle"] \in AgentType
    BY <1>1 DEF AgentType
  <2>2. QED
    BY <1>1, <2>1 DEF GuestDrops
<1>3. TypeOK'
  <2>1. agent' \in [Attempts -> AgentType]
    BY <1>2 DEF GuestDrops
  <2>2. QED
    BY <1>1, <2>1, SameTypes DEF TypeOK
<1>4. ASSUME NEW b \in Attempts
      PROVE  Sound(b)'
  <2>1. CASE ~At(b, "stage")
    BY <1>1, <1>2, <2>1 DEF Sound, Accepted, Counted, Allowed, Named, Tearing, Billed, Opens, At,
      Alive
  <2>2. CASE At(b, "stage")
    <3>1. /\ agent'[b].pc = "idle" /\ agent'[b].opening = agent[b].opening
          /\ agent'[b].round = agent[b].round /\ agent'[b].nudged = agent[b].nudged
          /\ agent'[b].bill = agent[b].bill
      <4>1. agent[b] \in AgentType /\ agent'[b] = [agent[b] EXCEPT !.pc = "idle"]
        BY <1>1, <1>2, <2>2
      <4>2. QED
        BY <4>1 DEF AgentType
    <3>2. QED
      BY <1>1, <2>2, <3>1
        DEF Sound, Accepted, Counted, Allowed, Named, Tearing, Billed, Opens, At, Alive, Before,
        After
  <2>3. QED
    BY <2>1, <2>2
<1>5. \A b \in Attempts : /\ At(b, "idle") => At(b, "idle")'
                          /\ Over(b) => Over(b)'
  BY <1>1, <1>2 DEF At, Over
<1>6. InTurn' /\ RestartUnsaid'
  BY <1>1, <1>5 DEF InTurn, RestartUnsaid
<1>7. QED
  BY <1>3, <1>4, <1>6 DEF IInv

LEMMA InitStep == Init => IInv
<1> SUFFICES ASSUME Init
             PROVE  IInv
  OBVIOUS
<1>1. terms \in Terms /\ terms.rounds \in Nat /\ terms.rounds >= 1 /\ terms.tools \in Nat
  BY AgentAssumption DEF Init
<1>2. TypeOK
  <2>1. agent \in [Attempts -> AgentType]
    <3>1. ASSUME NEW a \in Attempts PROVE agent[a] \in AgentType
      BY <1>1 DEF Init, AgentType
    <3>2. QED
      BY <3>1 DEF Init
  <2>2. bridge \in [Attempts -> BridgeType]
    BY DEF Init, BridgeType
  <2>3. hist \in [Attempts -> HistType]
    BY <1>1 DEF Init, HistType
  <2>4. QED
    BY <1>1, <2>1, <2>2, <2>3 DEF Init, TypeOK
<1>3. ASSUME NEW a \in Attempts
      PROVE  Sound(a)
  BY DEF Init, Sound, Accepted, Counted, Allowed, Named, Tearing, Billed, Opens, At, Alive,
    Before, After
<1>4. InTurn
  BY DEF Init, InTurn, At, Attempts
<1>5. RestartUnsaid
  BY DEF Init, RestartUnsaid
<1>6. QED
  BY <1>2, <1>3, <1>4, <1>5 DEF IInv

LEMMA Inductive == Spec => []IInv
<1>1. IInv /\ [Next]_vars => IInv'
  <2> SUFFICES ASSUME IInv, [Next]_vars
               PROVE  IInv'
    OBVIOUS
  <2>1. CASE Next
    BY <2>1, AttemptStep, ReturnStep, DropStep DEF Next
  <2>2. CASE UNCHANGED vars
    BY <2>2 DEF vars, IInv, TypeOK, AgentType, BridgeType, HistType, InTurn, RestartUnsaid, Over,
      Sound,
      Accepted, Counted, Allowed, Named, Tearing, Billed, Opens, At, Alive
  <2>3. QED
    BY <2>1, <2>2
<1>2. QED
  BY <1>1, InitStep, PTL DEF Spec

-------------------------------------------------------------------------------
\* An answer that was to be checked was accepted, an agent is sent at most its
\* rounds and one nudge, a run the stream named is cancelled when it is cut short,
\* and nothing is booked twice: whatever the worker, its tools and the guest do.
THEOREM AgentKept == Spec => []AgentInv
<1>1. IInv => AgentInv
  <2> SUFFICES ASSUME IInv
               PROVE  AgentInv
    OBVIOUS
  <2>1. TypeOK /\ \A a \in Attempts : Sound(a)
    BY DEF IInv
  <2>2. AnswerAccepted
    BY <2>1 DEF AnswerAccepted, Answers, Over, Sound, Accepted, After
  <2>3. SendsBounded
    <3>1. ASSUME NEW a \in Attempts
          PROVE  hist[a].sends <= terms.rounds + 1
      <4>1. hist[a].sends \in Nat /\ agent[a].round \in 1 .. terms.rounds
        BY <2>1 DEF TypeOK, AgentType, HistType
      <4>2. QED
        BY <2>1, <4>1, TermsTyped DEF Sound, Counted, Allowed
    <3>2. QED
      BY <3>1 DEF SendsBounded
  <2>4. ShownCancelled
    BY <2>1 DEF ShownCancelled, Sound, Named, Over, At
  <2>5. BillOnce
    BY <2>1 DEF BillOnce, Sound, Billed
  <2>6. QED
    BY <2>1, <2>2, <2>3, <2>4, <2>5 DEF AgentInv
<1>2. QED
  BY <1>1, Inductive, PTL

\* No attempt follows an answered prompt, and one whose worker lives through it
\* leaves no agent behind, also when the guest is gone.
THEOREM RestartKept == Spec => []RestartInv
<1>1. IInv => RestartInv
  <2> SUFFICES ASSUME IInv
               PROVE  RestartInv
    OBVIOUS
  <2>1. TypeOK /\ RestartUnsaid /\ \A a \in Attempts : Sound(a)
    BY DEF IInv
  <2>2. TornDown
    <3>1. ASSUME NEW a \in Attempts, At(a, "done"), Alive(a), hist[a].sends > 0
          PROVE  {"close", "delete"} \subseteq hist[a].asked
      BY <2>1, <3>1 DEF Sound, Tearing
    <3>2. QED
      BY <3>1 DEF TornDown
  <2>3. QED
    BY <2>1, <2>2 DEF RestartInv
<1>2. QED
  BY <1>1, Inductive, PTL

==============================================================================
