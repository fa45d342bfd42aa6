---------------------------- MODULE SandboxProofs -----------------------------
(***************************************************************************)
(* Proofs about a supervised child, for any set of forks, any number of      *)
(* stops and calls, any EXIT_GRACE, and a runtime that shuts down or not;    *)
(* about a one-shot run, for any writes and any OUTPUT_BYTES; and about a    *)
(* session with its proxy, for any grants, addresses and commands.           *)
(***************************************************************************)
EXTENDS SandboxChild, OneShot, SandboxSession, FiniteSetTheorems, SequenceTheorems, TLAPS

\* What the stages of the supervisor mean for the process group: from the kill on
\* nothing runs in it, and from the reap on the leader is gone.
Swept ==
    /\ sup \in {"reap", "stderr", "publish", "session", "done"} =>
         leader # "running" /\ \A f \in Forks : life[f] # "group"
    /\ sup \in {"stderr", "publish", "session", "done"} => leader = "reaped"

\* The exit is published, and the session let go, by their own steps alone.
Exits ==
    /\ published <=> sup \in {"session", "done"}
    /\ session = "dropped" <=> sup \in {"done", "cancelled"}

\* Why a supervisor that turned to the kill may not have run an ask: the process
\* was reaped, or the handle went before any stop was sent.
Heard ==
    /\ sup = "select" /\ stops > 0 /\ ~asked => queue = 1
    /\ sup \in {"ask", "answer"} => asked
    /\ sup \in {"kill", "reap", "stderr", "publish", "session", "done"} /\ ~asked =>
         leader = "reaped" \/ (handle = "dropped" /\ stops = 0)

\* A future failed under a dead process, and no stop is under way.
Dying == call = "grace" /\ deadAtErr /\ ~asked

\* What is left of EXIT_WAIT covers what is left of EXIT_GRACE: until the reap no
\* time passes, and from then on both run down together.
WaitCovers ==
    /\ Dying => leader # "running"
    /\ Dying /\ sup \in {"select", "kill", "reap"} => waitLeft = ExitWait
    /\ Dying /\ sup = "stderr" => waitLeft >= ExitGrace + graceLeft
    /\ Dying /\ sup = "publish" => waitLeft >= ExitGrace

\* The supervisor goes before its end only in a shutdown, and asks only behind a stop.
Causes ==
    /\ sup = "cancelled" => Shutdown
    /\ asked \/ queue = 1 => stops > 0

\* The inductive invariant.
ChildIInv == TypeOK /\ Swept /\ Exits /\ Heard /\ WaitCovers /\ DeathReported /\ Causes

-------------------------------------------------------------------------------
(***************************************************************************)
(* What the steps do to the process group                                  *)
(***************************************************************************)

\* The processes move by themselves in GroupNext, and otherwise only as the
\* supervisor has them waited for or killed.
LEMMA GroupSteps ==
    ASSUME [Next]_vars
    PROVE  \/ Processes
           \/ SeeExit \/ Answered \/ Kill \/ Reap \/ Cancelled
           \/ UNCHANGED groupVars
BY DEF Next, Supervisor, Reader, Caller, vars, Stop, DropHandle, TakeStop, HandleGone, AskDone,
       AskTimesOut, StderrEnds, StderrTimesOut, Publish, DropSession, WriteReady, ReadReady,
       ReadEof, FailOnExit, FutureOk, FutureErr, CallSeesExit, GraceEnds, Tick

\* Nothing is born into a group in which nothing runs, and what is dead stays so.
LEMMA GroupStays ==
    ASSUME GroupTypeOK, GroupNext
    PROVE  /\ leader # "running" => leader' # "running"
           /\ leader = "reaped" => leader' = "reaped"
           /\ leader # "running" /\ (\A f \in Forks : life[f] # "group") =>
                 \A f \in Forks : life'[f] # "group"
           /\ GroupTypeOK'
<1>1. CASE LeaderExits \/ ExitNoticed
  BY <1>1 DEF LeaderExits, ExitNoticed, GroupTypeOK
<1>2. ASSUME NEW f \in Forks, ForkBorn(f)
      PROVE  /\ leader' = leader /\ GroupTypeOK'
             /\ leader # "running" => \E g \in Forks : life[g] = "group"
  BY <1>2 DEF ForkBorn, GroupTypeOK, Alive, InGroup
<1>3. ASSUME NEW f \in Forks, ForkLeaves(f) \/ ForkExits(f)
      PROVE  /\ leader' = leader /\ GroupTypeOK'
             /\ \A g \in Forks : life'[g] = "group" => life[g] = "group"
  BY <1>3 DEF ForkLeaves, ForkExits, GroupTypeOK
<1>4. QED
  BY <1>1, <1>2, <1>3 DEF GroupNext

\* The leader, once it runs no more, never runs again, and once reaped stays so.
LEMMA LeaderStays ==
    ASSUME TypeOK, [Next]_vars
    PROVE  /\ leader # "running" => leader' # "running"
           /\ leader = "reaped" => leader' = "reaped"
<1>1. CASE Processes
  BY <1>1, GroupStays DEF Processes, TypeOK
<1>2. CASE SeeExit \/ Answered \/ Kill \/ Reap \/ Cancelled
  BY <1>2 DEF SeeExit, Answered, Kill, Reap, Cancelled, Waited, KillGroup, KillLeader
<1>3. CASE UNCHANGED groupVars
  BY <1>3 DEF groupVars
<1>4. QED
  BY <1>1, <1>2, <1>3, GroupSteps

\* The sweep: from the kill on nothing of the group runs.
LEMMA SweptStep ==
    ASSUME TypeOK, Swept, [Next]_vars
    PROVE  Swept'
<1>1. CASE Processes
  BY <1>1, GroupStays DEF Processes, TypeOK, Swept, supVars
<1>2. CASE SeeExit \/ Answered \/ Cancelled
  BY <1>2 DEF SeeExit, Answered, Cancelled, Goto, Swept
<1>3. CASE Kill
  <2>1. /\ leader' # "running"
        /\ \A f \in Forks : life'[f] # "group"
    BY <1>3 DEF Kill, KillGroup
  <2>2. QED
    BY <1>3, <2>1 DEF Kill, Goto, Swept
<1>4. CASE Reap
  BY <1>4 DEF Reap, Goto, Waited, Swept
<1>5. ASSUME UNCHANGED groupVars, UNCHANGED sup
      PROVE  Swept'
  BY <1>5 DEF Swept, groupVars
<1>6. CASE TakeStop \/ HandleGone \/ AskDone \/ AskTimesOut
  BY <1>6 DEF TakeStop, HandleGone, AskDone, AskTimesOut, Goto, Swept
<1>7. CASE StderrEnds \/ StderrTimesOut \/ Publish \/ DropSession
  BY <1>7 DEF StderrEnds, StderrTimesOut, Publish, DropSession, Goto, Swept, groupVars
<1>8. QED
  BY <1>1, <1>2, <1>3, <1>4, <1>5, <1>6, <1>7
     DEF Next, Supervisor, Reader, Caller, vars, supVars, Stop, DropHandle, WriteReady, ReadReady,
         ReadEof, FailOnExit, FutureOk, FutureErr, CallSeesExit, GraceEnds, Tick

-------------------------------------------------------------------------------
(***************************************************************************)
(* The supervisor's own order                                              *)
(***************************************************************************)

\* The exit is published once, and the session goes after it.
LEMMA ExitsStep ==
    ASSUME TypeOK, Exits, [Next]_vars
    PROVE  Exits'
<1>1. CASE SeeExit \/ TakeStop \/ HandleGone \/ AskDone \/ Answered \/ AskTimesOut \/ Kill \/ Reap
  BY <1>1 DEF SeeExit, TakeStop, HandleGone, AskDone, Answered, AskTimesOut, Kill, Reap, Goto, Exits
<1>2. CASE StderrEnds \/ StderrTimesOut \/ Publish \/ DropSession \/ Cancelled
  BY <1>2 DEF StderrEnds, StderrTimesOut, Publish, DropSession, Cancelled, Goto, Exits
<1>3. ASSUME UNCHANGED <<sup, published, session>> PROVE Exits'
  BY <1>3 DEF Exits
<1>4. QED
  BY <1>1, <1>2, <1>3
     DEF Next, Supervisor, Processes, Reader, Caller, vars, supVars, Stop, DropHandle, WriteReady,
         ReadReady, ReadEof, FailOnExit, FutureOk, FutureErr, CallSeesExit, GraceEnds, Tick

\* A stop stays in the channel until the supervisor leaves its select.
LEMMA HeardStep ==
    ASSUME TypeOK, Heard, [Next]_vars
    PROVE  Heard'
<1>1. leader = "reaped" => leader' = "reaped"
  BY LeaderStays
<1>2. CASE SeeExit \/ Answered \/ Reap
  BY <1>2 DEF SeeExit, Answered, Reap, Waited, Goto, Heard
<1>3. CASE TakeStop \/ HandleGone \/ AskDone \/ AskTimesOut
  BY <1>3, <1>1 DEF TakeStop, HandleGone, AskDone, AskTimesOut, Goto, Heard, TypeOK
<1>4. CASE Kill \/ StderrEnds \/ StderrTimesOut \/ Publish \/ DropSession \/ Cancelled
  BY <1>4, <1>1 DEF Kill, StderrEnds, StderrTimesOut, Publish, DropSession, Cancelled, Goto, Heard
<1>5. CASE Stop
  BY <1>5, <1>1 DEF Stop, Heard, TypeOK
<1>6. CASE DropHandle
  BY <1>6, <1>1 DEF DropHandle, Heard
<1>7. ASSUME UNCHANGED supVars PROVE Heard'
  BY <1>7, <1>1 DEF Heard, supVars
<1>8. ASSUME UNCHANGED <<handle, stops, queue, sup, asked>> PROVE Heard'
  BY <1>8, <1>1 DEF Heard
<1>9. QED
  BY <1>2, <1>3, <1>4, <1>5, <1>6, <1>7, <1>8
     DEF Next, Supervisor, Processes, Reader, Caller, vars, WriteReady,
         ReadReady, ReadEof, FailOnExit, FutureOk, FutureErr, CallSeesExit, GraceEnds, Tick

-------------------------------------------------------------------------------
(***************************************************************************)
(* The two bounds                                                          *)
(***************************************************************************)

\* While a call waits for the exit of a dead process, time passes only for stderr.
LEMMA TickOnlyForStderr ==
    ASSUME TypeOK, Swept, Exits, Heard, WaitCovers, Dying, Tick
    PROVE  \/ sup = "stderr" /\ graceLeft > 0
           \/ ExitKnown
<1>1. leader \in {"exited", "waitable", "reaped"}
  BY DEF TypeOK, GroupTypeOK, WaitCovers
<1>2. sup \notin {"kill", "publish", "session"} /\ leader # "exited"
  BY DEF Tick, Prompt
<1>3. sup \notin {"select", "answer", "reap"}
  BY <1>1, <1>2 DEF Tick, Prompt
<1>4. sup # "ask"
  BY DEF Heard, Dying
<1>5. CASE sup = "stderr"
  BY <1>5 DEF Tick, Prompt, TypeOK
<1>6. CASE sup \in {"done", "cancelled"}
  BY <1>6 DEF ExitKnown, Exits
<1>7. QED
  BY <1>2, <1>3, <1>4, <1>5, <1>6 DEF TypeOK, SupStates

\* What is left of EXIT_WAIT keeps covering what is left of EXIT_GRACE.
LEMMA WaitStep ==
    ASSUME TypeOK, Swept, Exits, Heard, WaitCovers, [Next]_vars
    PROVE  WaitCovers'
<1> USE ChildAssumption
<1>1. leader # "running" => leader' # "running"
  BY LeaderStays
<1>2. CASE Tick
  <2>1. ASSUME Dying' PROVE Dying
    BY <1>2, <2>1 DEF Tick, Dying
  <2>2. ASSUME Dying', sup = "stderr", graceLeft > 0 PROVE WaitCovers'
    BY <1>2, <1>1, <2>1, <2>2 DEF Tick, WaitCovers, TypeOK
  <2>3. ASSUME Dying', ExitKnown PROVE WaitCovers'
    BY <1>2, <1>1, <2>1, <2>3 DEF Tick, WaitCovers, ExitKnown, Exits
  <2>4. ASSUME ~Dying' PROVE WaitCovers'
    BY <2>4 DEF WaitCovers
  <2>5. QED
    BY <1>2, <2>1, <2>2, <2>3, <2>4, TickOnlyForStderr
<1>3. CASE FutureErr
  BY <1>3, <1>1 DEF FutureErr, WaitCovers, Dying, ExitWait, TypeOK, supVars, groupVars
<1>4. CASE FailOnExit \/ FutureOk \/ CallSeesExit \/ GraceEnds
  BY <1>4 DEF FailOnExit, FutureOk, CallSeesExit, GraceEnds, WaitCovers, Dying
<1>5. CASE TakeStop \/ AskDone \/ Answered \/ AskTimesOut
  BY <1>5 DEF TakeStop, AskDone, Answered, AskTimesOut, Goto, Heard, WaitCovers, Dying
<1>6. CASE SeeExit \/ HandleGone \/ Kill
  BY <1>6, <1>1 DEF SeeExit, HandleGone, Kill, Goto, WaitCovers, Dying, callVars
<1>7. CASE Reap
  BY <1>7, <1>1 DEF Reap, Goto, WaitCovers, Dying, callVars, ExitWait
<1>8. CASE StderrEnds \/ StderrTimesOut
  BY <1>8, <1>1 DEF StderrEnds, StderrTimesOut, Goto, WaitCovers, Dying, callVars, TypeOK
<1>9. CASE Publish \/ DropSession \/ Cancelled
  BY <1>9, <1>1 DEF Publish, DropSession, Cancelled, Goto, WaitCovers, Dying, callVars
<1>10. ASSUME UNCHANGED <<sup, asked, graceLeft, callVars>> PROVE WaitCovers'
  BY <1>10, <1>1 DEF WaitCovers, Dying, callVars
<1>11. QED
  BY <1>2, <1>3, <1>4, <1>5, <1>6, <1>7, <1>8, <1>9, <1>10
     DEF Next, Supervisor, Processes, Reader, Caller, vars, supVars, Stop, DropHandle, WriteReady,
         ReadReady, ReadEof

\* The grace runs out under a dead process only behind a stop.
LEMMA DeathStep ==
    ASSUME TypeOK, Exits, Heard, WaitCovers, DeathReported, [Next]_vars
    PROVE  DeathReported'
<1> USE ChildAssumption
<1>1. CASE GraceEnds
  <2>1. SUFFICES ASSUME deadAtErr, ~asked PROVE FALSE
    BY <1>1 DEF GraceEnds, DeathReported, supVars
  <2>2. Dying /\ waitLeft = 0 /\ ~ExitKnown
    BY <1>1, <2>1 DEF GraceEnds, Dying
  <2>3. sup \notin {"select", "kill", "reap"}
    BY <2>2 DEF WaitCovers, ExitWait
  <2>4. sup \notin {"stderr", "publish"}
    BY <2>2 DEF WaitCovers, TypeOK
  <2>5. sup \notin {"ask", "answer", "session", "done", "cancelled"}
    BY <2>2 DEF Heard, Exits, ExitKnown, Dying
  <2>6. QED
    BY <2>3, <2>4, <2>5 DEF TypeOK, SupStates
<1>2. CASE FailOnExit \/ FutureOk \/ FutureErr \/ CallSeesExit
  BY <1>2 DEF FailOnExit, FutureOk, FutureErr, CallSeesExit, DeathReported
<1>3. ASSUME UNCHANGED <<call, deadAtErr>>, asked => asked' PROVE DeathReported'
  BY <1>3 DEF DeathReported
<1>4. QED
  BY <1>1, <1>2, <1>3
     DEF Next, Supervisor, Processes, Reader, Caller, vars, supVars, callVars, Stop, DropHandle,
         SeeExit, TakeStop, HandleGone, AskDone, Answered, AskTimesOut, Kill, Reap, StderrEnds,
         StderrTimesOut, Publish, DropSession, Cancelled, WriteReady, ReadReady, ReadEof, Tick

-------------------------------------------------------------------------------
(***************************************************************************)
(* Types, and the theorems                                                 *)
(***************************************************************************)

\* A shutdown and a stop leave their traces.
LEMMA CausesStep ==
    ASSUME TypeOK, Causes, [Next]_vars
    PROVE  Causes'
<1>1. CASE Stop
  BY <1>1 DEF Stop, Causes, TypeOK
<1>2. CASE Cancelled
  BY <1>2 DEF Cancelled, Causes
<1>3. CASE SeeExit \/ TakeStop \/ HandleGone \/ AskDone \/ Answered \/ AskTimesOut \/ Kill \/ Reap
  BY <1>3 DEF SeeExit, TakeStop, HandleGone, AskDone, Answered, AskTimesOut, Kill, Reap, Goto, Causes
<1>4. CASE StderrEnds \/ StderrTimesOut \/ Publish \/ DropSession
  BY <1>4 DEF StderrEnds, StderrTimesOut, Publish, DropSession, Goto, Causes
<1>5. ASSUME UNCHANGED <<stops, queue, sup, asked>> PROVE Causes'
  BY <1>5 DEF Causes
<1>6. QED
  BY <1>1, <1>2, <1>3, <1>4, <1>5
     DEF Next, Supervisor, Processes, Reader, Caller, vars, supVars, DropHandle, WriteReady,
         ReadReady, ReadEof, FailOnExit, FutureOk, FutureErr, CallSeesExit, GraceEnds, Tick

\* The process group keeps its types.
LEMMA GroupTypeStep ==
    ASSUME TypeOK, [Next]_vars
    PROVE  GroupTypeOK'
<1>1. CASE Processes
  BY <1>1, GroupStays DEF Processes, TypeOK
<1>2. CASE SeeExit \/ Answered \/ Reap \/ Cancelled
  BY <1>2 DEF SeeExit, Answered, Reap, Cancelled, Waited, KillLeader, GroupTypeOK, TypeOK
<1>3. CASE Kill
  BY <1>3 DEF Kill, KillGroup, GroupTypeOK, TypeOK
<1>4. CASE UNCHANGED groupVars
  BY <1>4 DEF groupVars, GroupTypeOK, TypeOK
<1>5. QED
  BY <1>1, <1>2, <1>3, <1>4, GroupSteps

\* Every variable keeps its type.
LEMMA TypeStep ==
    ASSUME TypeOK, [Next]_vars
    PROVE  TypeOK'
<1> USE ChildAssumption
<1>1. GroupTypeOK'
  BY GroupTypeStep
<1>2. CASE Processes
  BY <1>1, <1>2 DEF Processes, TypeOK, supVars, pipeVars, callVars
<1>3. CASE Stop \/ DropHandle
  BY <1>1, <1>3 DEF Stop, DropHandle, TypeOK, pipeVars, callVars
<1>4. CASE SeeExit \/ HandleGone \/ AskDone \/ Answered \/ AskTimesOut \/ Kill \/ StderrEnds
  <2>1. /\ sup' \in SupStates
        /\ UNCHANGED <<handle, stops, queue, asked, graceLeft, published, session, pipeVars, callVars>>
    BY <1>4 DEF SeeExit, HandleGone, AskDone, Answered, AskTimesOut, Kill, StderrEnds, Goto, SupStates
  <2>2. QED
    BY <1>1, <2>1 DEF TypeOK, pipeVars, callVars
<1>5. CASE TakeStop
  BY <1>1, <1>5 DEF TakeStop, Goto, TypeOK, SupStates, pipeVars, callVars
<1>6. CASE Reap
  BY <1>1, <1>6 DEF Reap, Goto, TypeOK, SupStates, pipeVars, callVars
<1>7. CASE StderrTimesOut
  BY <1>1, <1>7 DEF StderrTimesOut, Goto, TypeOK, SupStates, callVars
<1>8. CASE Publish \/ DropSession
  <2>1. /\ sup' \in SupStates /\ published' \in BOOLEAN /\ session' \in {"held", "dropped"}
        /\ UNCHANGED <<handle, stops, queue, asked, graceLeft, pipeVars, callVars>>
    BY <1>8 DEF Publish, DropSession, Goto, SupStates, TypeOK
  <2>2. QED
    BY <1>1, <2>1 DEF TypeOK, pipeVars, callVars
<1>9. CASE Cancelled
  BY <1>1, <1>9 DEF Cancelled, TypeOK, SupStates, callVars
<1>10. CASE Reader
  BY <1>1, <1>10 DEF Reader, WriteReady, ReadReady, ReadEof, TypeOK, supVars, callVars
<1>11. CASE Caller
  <2>1. /\ calls' \in 0 .. MaxCalls /\ call' \in CallStates
        /\ waitLeft' \in 0 .. 2 * ExitGrace
    BY <1>11 DEF Caller, FailOnExit, FutureOk, FutureErr, CallSeesExit, GraceEnds, ExitWait, TypeOK,
       CallStates
  <2>2. deadAtErr' \in BOOLEAN
    BY <1>11 DEF Caller, FailOnExit, FutureOk, FutureErr, CallSeesExit, GraceEnds, TypeOK
  <2>3. UNCHANGED <<supVars, pipeVars>>
    BY <1>11 DEF Caller, FailOnExit, FutureOk, FutureErr, CallSeesExit, GraceEnds
  <2>4. QED
    BY <1>1, <2>1, <2>2, <2>3 DEF TypeOK, supVars, pipeVars
<1>12. CASE Tick
  BY <1>1, <1>12 DEF Tick, TypeOK, pipeVars
<1>13. CASE UNCHANGED vars
  BY <1>1, <1>13 DEF vars, supVars, pipeVars, callVars, TypeOK
<1>14. QED
  BY <1>2, <1>3, <1>4, <1>7, <1>9, <1>10, <1>11, <1>12, <1>13, <1>5, <1>6, <1>8
     DEF Next, Supervisor

\* A process that was launched, with nothing asked of it yet.
LEMMA InitStep ==
    ASSUME Init
    PROVE  ChildIInv
<1>1. TypeOK
  <2>1. GroupTypeOK
    BY DEF Init, GroupInit, GroupTypeOK
  <2>2. stops \in 0 .. MaxStops /\ queue \in 0 .. 1 /\ calls \in 0 .. MaxCalls
    BY ChildAssumption DEF Init
  <2>3. graceLeft \in 0 .. ExitGrace /\ waitLeft \in 0 .. 2 * ExitGrace
    BY ChildAssumption DEF Init
  <2>4. sup \in SupStates /\ call \in CallStates
    BY DEF Init, SupStates, CallStates
  <2>5. QED
    BY <2>1, <2>2, <2>3, <2>4 DEF Init, TypeOK
<1>2. Swept /\ Exits
  BY DEF Init, Swept, Exits
<1>3. Heard /\ Causes
  BY DEF Init, Heard, Causes
<1>4. WaitCovers /\ DeathReported
  BY DEF Init, WaitCovers, Dying, DeathReported
<1>5. QED
  BY <1>1, <1>2, <1>3, <1>4 DEF ChildIInv

\* ChildIInv holds in every reachable state.
LEMMA Inductive == Spec => []ChildIInv
<1>1. Init => ChildIInv
  BY InitStep
<1>2. ChildIInv /\ [Next]_vars => ChildIInv'
  BY TypeStep, SweptStep, ExitsStep, HeardStep, WaitStep, DeathStep, CausesStep DEF ChildIInv
<1>3. QED
  BY <1>1, <1>2, PTL DEF Spec

\* What holds of a child at every moment: the exit is published behind the sweep, the
\* session outlives the group, a stop that was sent is heard, and EXIT_WAIT covers
\* EXIT_GRACE, so that a future failing under a dead process is told of its exit.
THEOREM ChildKept == Spec => []ChildInv
<1>1. ChildIInv => ChildInv
  <2> SUFFICES ASSUME ChildIInv PROVE ChildInv
    OBVIOUS
  <2>1. ExitSwept
    BY DEF ChildIInv, Exits, Swept, ExitSwept, InGroup
  <2>2. SessionOutlives
    BY DEF ChildIInv, TypeOK, Exits, Swept, SessionOutlives, Alive, InGroup
  <2>3. AskHeard
    BY DEF ChildIInv, TypeOK, SupStates, Heard, AskHeard
  <2>4. QED
    BY <2>1, <2>2, <2>3 DEF ChildIInv, ChildInv
<1>2. QED
  BY <1>1, Inductive, PTL

\* Without a shutdown of the runtime nothing of the group outlives its supervisor: the
\* shutdown is the one way to what NothingOutlives rules out.
THEOREM OutlivedOnlyByShutdown == Spec => [](~Shutdown => NothingOutlives)
<1>1. ChildIInv => (~Shutdown => NothingOutlives)
  BY DEF ChildIInv, Causes, Swept, NothingOutlives, InGroup
<1>2. QED
  BY <1>1, Inductive, PTL

\* Until the first stop no failure under a dead process is reported as the failure: a
\* stop under way is the one way to what DeathNeverReset rules out.
THEOREM ResetOnlyByStop == Spec => [](stops = 0 => DeathNeverReset)
<1>1. ChildIInv => (stops = 0 => DeathNeverReset)
  BY DEF ChildIInv, TypeOK, Causes, DeathReported, DeathNeverReset
<1>2. QED
  BY <1>1, Inductive, PTL

-------------------------------------------------------------------------------
(***************************************************************************)
(* The one-shot run                                                        *)
(***************************************************************************)

\* Nothing of the group runs.
Still == leader # "running" /\ \A f \in Forks : life[f] # "group"

\* Where a run has ended, or drains, or saw its pipes end, nothing of the group runs.
Quiet ==
    /\ run \in Ended \cup {"exit_drained", "timeout_reap", "drain"} => Still
    /\ run = "sweep" /\ drained => Still

\* What was written is in the pipe or captured; pipes seen ended are empty for good.
Conserved ==
    /\ pipe <= written /\ taken = Kept(written - pipe)
    /\ run \in {"exit_drained", "returned"} => pipe = 0
    /\ run = "sweep" /\ drained => pipe = 0

\* The inductive invariant of a run.
ShotIInv == ShotTypeOK /\ Quiet /\ Conserved

\* The steps of a run that kill the group, and where they lead.
LEMMA Kills ==
    ASSUME ShotTypeOK, KillGroup
    PROVE  Still' /\ GroupTypeOK'
BY DEF KillGroup, Still, ShotTypeOK, GroupTypeOK

\* A group in which nothing runs stays so.
LEMMA StillStays ==
    ASSUME ShotTypeOK, Still, GroupNext
    PROVE  Still'
BY GroupStays DEF Still, ShotTypeOK

\* Where nothing runs nothing is written.
LEMMA StillSilent ==
    ASSUME Still, Write
    PROVE  FALSE
BY DEF Still, Write, Alive, InGroup

\* The sweep is there wherever a run ends or stops looking.
LEMMA QuietStep ==
    ASSUME ShotTypeOK, Quiet, [ShotNext]_shotVars
    PROVE  Quiet'
<1>1. CASE ShotProcesses
  BY <1>1, StillStays DEF ShotProcesses, Quiet, runVars
<1>2. CASE Write \/ Capture
  BY <1>2 DEF Write, Capture, Quiet, Still, groupVars
<1>3. CASE CaptureEnds
  BY <1>3 DEF CaptureEnds, PipesClosed, InGroup, Quiet, Still, groupVars, Ended
<1>4. CASE ExitSeen
  BY <1>4 DEF ExitSeen, ShotWaited, Quiet, Still, Ended
<1>5. CASE WaitFails \/ BoundPasses \/ Sweep \/ DrainEnds \/ DrainTimesOut \/ DropRun
  <2>1. Still'
    BY <1>5, Kills DEF WaitFails, BoundPasses, Sweep, DrainEnds, DrainTimesOut, DropRun, Return
  <2>2. QED
    BY <2>1 DEF Quiet
<1>6. CASE TimedOut
  <2>1. Still'
    BY <1>6 DEF TimedOut, Still
  <2>2. QED
    BY <2>1 DEF Quiet
<1>7. CASE UNCHANGED shotVars
  BY <1>7 DEF shotVars, groupVars, runVars, Quiet, Still
<1>8. QED
  BY <1>1, <1>2, <1>3, <1>4, <1>5, <1>6, <1>7 DEF ShotNext

\* No write is lost between the pipe and what is kept.
LEMMA ConservedStep ==
    ASSUME ShotTypeOK, Quiet, Conserved, [ShotNext]_shotVars
    PROVE  Conserved'
<1> USE WritesAssumption
<1>1. CASE ShotProcesses
  BY <1>1 DEF ShotProcesses, runVars, Conserved, Kept
<1>2. CASE Write
  <2>1. ~Still
    BY <1>2, StillSilent
  <2>2. run \notin {"exit_drained", "returned"} /\ ~(run = "sweep" /\ drained)
    BY <2>1 DEF Quiet, Ended
  <2>3. (written + 1) - (pipe + 1) = written - pipe
    BY DEF ShotTypeOK
  <2>4. QED
    BY <1>2, <2>2, <2>3 DEF Write, Conserved, Kept, ShotTypeOK
<1>3. CASE Capture
  <2>1. Kept(Kept(written - pipe) + pipe) = Kept(written)
    BY DEF Kept, Conserved, ShotTypeOK
  <2>2. written - 0 = written
    BY DEF ShotTypeOK
  <2>3. taken' = Kept(written' - pipe') /\ pipe' = 0 /\ pipe' <= written'
    BY <1>3, <2>1, <2>2 DEF Capture, Conserved, Kept, ShotTypeOK
  <2>4. QED
    BY <2>3 DEF Conserved, Kept
<1>4. CASE CaptureEnds \/ ExitSeen
  BY <1>4 DEF CaptureEnds, ExitSeen, Conserved, Kept
<1>5. CASE WaitFails \/ BoundPasses \/ TimedOut \/ DropRun
  BY <1>5 DEF WaitFails, BoundPasses, TimedOut, DropRun, Conserved, Kept
<1>6. CASE Sweep \/ DrainEnds \/ DrainTimesOut
  BY <1>6 DEF Sweep, DrainEnds, DrainTimesOut, Return, Conserved, Kept
<1>7. CASE UNCHANGED shotVars
  BY <1>7 DEF shotVars, runVars, Conserved, Kept
<1>8. QED
  BY <1>1, <1>2, <1>3, <1>4, <1>5, <1>6, <1>7 DEF ShotNext

\* Every variable of a run keeps its type.
LEMMA ShotTypeStep ==
    ASSUME ShotTypeOK, Conserved, [ShotNext]_shotVars
    PROVE  ShotTypeOK'
<1> USE WritesAssumption
<1>1. CASE ShotProcesses
  BY <1>1, GroupStays DEF ShotProcesses, runVars, ShotTypeOK
<1>2. CASE Write
  BY <1>2 DEF Write, ShotTypeOK, Conserved, groupVars, GroupTypeOK
<1>3. CASE Capture
  BY <1>3 DEF Capture, Kept, ShotTypeOK, groupVars, GroupTypeOK
<1>4. CASE CaptureEnds \/ ExitSeen
  BY <1>4 DEF CaptureEnds, ExitSeen, ShotWaited, ShotTypeOK, groupVars, GroupTypeOK, Awaits
<1>5. CASE WaitFails \/ BoundPasses \/ Sweep \/ DrainEnds \/ DrainTimesOut \/ DropRun
  <2>1. GroupTypeOK'
    BY <1>5, Kills DEF WaitFails, BoundPasses, Sweep, DrainEnds, DrainTimesOut, DropRun, Return
  <2>2. /\ run' \in Awaits \cup Ended \cup {"sweep"}
        /\ UNCHANGED <<drained, pipe, written, taken>>
    BY <1>5 DEF WaitFails, BoundPasses, Sweep, DrainEnds, DrainTimesOut, DropRun, Return, Awaits, Ended
  <2>3. QED
    BY <2>1, <2>2 DEF ShotTypeOK
<1>6. CASE TimedOut
  BY <1>6 DEF TimedOut, ShotTypeOK, GroupTypeOK, Ended
<1>7. CASE UNCHANGED shotVars
  BY <1>7 DEF shotVars, groupVars, runVars, ShotTypeOK, GroupTypeOK
<1>8. QED
  BY <1>1, <1>2, <1>3, <1>4, <1>5, <1>6, <1>7 DEF ShotNext

\* However a run ends nothing of its group is left, also when it is dropped at an await,
\* and a run that returns has kept all its group wrote up to OUTPUT_BYTES.
THEOREM OneShotKept == ShotSpec => []OneShotInv
<1>1. ShotInit => ShotIInv
  <2> SUFFICES ASSUME ShotInit PROVE ShotIInv
    OBVIOUS
  <2>1. ShotTypeOK
    <3>1. GroupTypeOK
      BY DEF ShotInit, GroupInit, GroupTypeOK
    <3>2. run \in Awaits \cup Ended \cup {"sweep"} /\ drained \in BOOLEAN
      BY DEF ShotInit, Awaits
    <3>3. pipe = 0 /\ written = 0 /\ taken = 0
      BY DEF ShotInit
    <3>4. QED
      BY <3>1, <3>2, <3>3, WritesAssumption DEF ShotTypeOK
  <2>2. Quiet
    BY DEF ShotInit, Quiet, Ended
  <2>3. Conserved
    BY WritesAssumption DEF ShotInit, Conserved, Kept
  <2>4. QED
    BY <2>1, <2>2, <2>3 DEF ShotIInv
<1>2. ShotIInv /\ [ShotNext]_shotVars => ShotIInv'
  BY ShotTypeStep, QuietStep, ConservedStep DEF ShotIInv
<1>3. ShotIInv => OneShotInv
  <2> SUFFICES ASSUME ShotIInv PROVE OneShotInv
    OBVIOUS
  <2>1. NothingLeft
    BY DEF ShotIInv, Quiet, Still, NothingLeft, Alive, InGroup
  <2>2. OutputWhole
    BY DEF ShotIInv, Conserved, OutputWhole, Kept, ShotTypeOK
  <2>3. QED
    BY <2>1, <2>2 DEF ShotIInv, OneShotInv
<1>4. QED
  BY <1>1, <1>2, <1>3, PTL DEF ShotSpec

-------------------------------------------------------------------------------
(***************************************************************************)
(* A session and its proxy                                                 *)
(***************************************************************************)

\* An address a request may be connected to, held to what the request saw of the host.
Passes(r, held, a) ==
    IF r.host.address # None THEN a = r.host.address /\ Literal(a, held)
    ELSE Denied(a, held) = None

ConnsShape ==
    /\ proxy \in {"unbound", "bound", "aborted"} /\ own \in Held
    /\ pc \in [Conns -> Open \cup {"none", "ended"}]
    /\ request \in [Conns -> Requests \cup {None}]
    /\ seen \in [Conns -> Held \cup {{}}]
    /\ left \in [Conns -> SUBSET DOMAIN Ranges]
    /\ upstream \in [Conns -> DOMAIN Ranges \cup {None}]

\* From its vetting to the end of its tunnel a connection is held to one request; what
\* it has left to try, and what it is connected to, passed the vetting of that request.
ConnAt(c) ==
    /\ pc[c] \in {"resolving", "connecting", "upgrading", "carrying"} =>
         request[c] \in Requests /\ request[c].method = "CONNECT" /\ request[c].host # None
    /\ pc[c] = "resolving" => request[c].host.address = None
    /\ pc[c] = "connecting" => \A a \in left[c] : Passes(request[c], seen[c], a)
    /\ pc[c] \in {"upgrading", "carrying"} <=> upstream[c] # None
    /\ upstream[c] # None => Passes(request[c], seen[c], upstream[c])

ConnsSound == ConnsShape /\ \A c \in Conns : ConnAt(c)

\* While a session is prepared nobody holds it; made, its scratch and its proxy are
\* there for exactly as long as somebody does; and otherwise it has neither.
StageSound ==
    /\ stage \in {"scratch", "cwd", "read", "bind", "env", "made", "denied", "failed"}
    /\ handles \in 0 .. MaxHandles
    /\ proc \in [Procs -> {"none", "command", "running", "gone"}]
    /\ stage # "made" => handles = 0 /\ \A p \in Procs : proc[p] = "none"
    /\ stage \in {"scratch", "denied", "failed"} => scratch = FALSE
    /\ stage \in {"cwd", "read", "bind", "env"} => scratch = TRUE
    /\ stage \in {"scratch", "cwd", "read", "bind"} => proxy = "unbound"
    /\ stage = "env" => proxy = "bound"
    /\ stage \in {"denied", "failed"} => proxy # "bound"
    /\ stage = "made" => IF Holders > 0 THEN scratch = TRUE /\ proxy = "bound"
                         ELSE scratch = FALSE /\ proxy = "aborted"

\* What was granted is a directory and overlaps no store, as spelled or as it resolves.
RootsSound ==
    /\ access \in {None, "private", "read", "shell"}
    /\ \A root \in roots : root \in Dirs /\ ~OverlapsStore(root)

SessionIInv == ConnsSound /\ StageSound /\ RootsSound

LEMMA FirstClass ==
    ASSUME NEW S \in SUBSET (1 .. 6), S # {}
    PROVE  \E i \in S : \A k \in S : i <= k
<1>1. CASE 1 \in S
  BY <1>1
<1>2. CASE 1 \notin S /\ 2 \in S
  BY <1>2
<1>3. CASE 1 \notin S /\ 2 \notin S /\ 3 \in S
  BY <1>3
<1>4. CASE 1 \notin S /\ 2 \notin S /\ 3 \notin S /\ 4 \in S
  BY <1>4
<1>5. CASE 1 \notin S /\ 2 \notin S /\ 3 \notin S /\ 4 \notin S /\ 5 \in S
  BY <1>5
<1>6. CASE 1 \notin S /\ 2 \notin S /\ 3 \notin S /\ 4 \notin S /\ 5 \notin S
  <2>1. \A k \in S : k = 6
    BY <1>6
  <2>2. PICK i \in S : TRUE
    OBVIOUS
  <2>3. QED
    BY <2>1, <2>2
<1>7. QED
  BY <1>1, <1>2, <1>3, <1>4, <1>5, <1>6

\* An address of no class is in no range, and one classed as loopback is in that range.
LEMMA ClassOfAddress ==
    ASSUME NEW a \in DOMAIN Ranges
    PROVE  /\ ClassOf(a) = None => Ranges[a] = {}
           /\ ClassOf(a) = "loopback" => "loopback" \in Ranges[a]
<1> DEFINE of == {i \in DOMAIN OrderOf(a) : OrderOf(a)[i] \in Ranges[a]}
           first == CHOOSE i \in of : \A k \in of : i <= k
<1>1. /\ DOMAIN OrderOf(a) \subseteq 1 .. 6
      /\ \A i \in DOMAIN OrderOf(a) : OrderOf(a)[i] # None
  <2>1. \A i \in DOMAIN OrderV4 : OrderV4[i] # None
    BY AddressAssumption
  <2>2. \A i \in DOMAIN OrderV6 : \E k \in DOMAIN OrderV4 : OrderV6[i] = OrderV4[k]
    BY DEF OrderV4, OrderV6
  <2>3. \A i \in DOMAIN OrderV6 : OrderV6[i] # None
    BY <2>1, <2>2
  <2>4. DOMAIN OrderV4 \subseteq 1 .. 6 /\ DOMAIN OrderV6 \subseteq 1 .. 6
    BY DEF OrderV4, OrderV6
  <2>5. QED
    BY <2>1, <2>3, <2>4 DEF OrderOf
<1>2. of = {} => Ranges[a] = {} /\ ClassOf(a) = None
  BY AddressAssumption DEF ClassOf
<1>3. ASSUME of # {} PROVE ClassOf(a) # None /\ ClassOf(a) \in Ranges[a]
  <2>1. \E i \in of : \A k \in of : i <= k
    <3>1. of \in SUBSET (1 .. 6)
      BY <1>1
    <3>2. QED
      BY <1>3, <3>1, FirstClass
  <2>2. first \in of
    BY <2>1
  <2>3. ClassOf(a) = OrderOf(a)[first]
    BY <1>3 DEF ClassOf
  <2>4. QED
    BY <1>1, <2>2, <2>3
<1>4. None # "loopback"
  <2>1. OrderV4[2] = "loopback" /\ 2 \in DOMAIN OrderV4
    BY DEF OrderV4
  <2>2. QED
    BY <2>1, AddressAssumption
<1>5. QED
  BY <1>2, <1>3, <1>4

\* What passed the vetting of a name is in no denied range and none the host was seen to
\* hold, wherever its packets arrive.
LEMMA NameVetted ==
    ASSUME NEW a \in DOMAIN Ranges, NEW held \in Held \cup {{}},
           Denied(a, held) = None
    PROVE  \A b \in Arrives(a) : Ranges[b] = {} /\ b \notin held
<1> DEFINE b == IF Carries[a] # None /\ Ranges[a] \cap {"unspecified", "loopback"} = {}
                THEN Carries[a] ELSE a
<1>1. ClassOf(b) = None /\ b \notin held
  BY AddressAssumption DEF Denied
<1>2. b \in DOMAIN Ranges
  BY AddressAssumption
<1>3. Ranges[b] = {}
  BY <1>1, <1>2, ClassOfAddress
<1>4. CASE Carries[a] = None
  BY <1>1, <1>3, <1>4 DEF Arrives
<1>5. CASE Carries[a] # None
  <2>1. Ranges[a] \subseteq {"unspecified", "loopback"}
    BY <1>5, AddressAssumption
  <2>2. b = Carries[a] /\ Ranges[a] = {}
    BY <1>3, <1>5, <2>1
  <2>3. a \notin held
    BY <1>5, <2>2, AddressAssumption
  <2>4. QED
    BY <1>1, <1>3, <2>2, <2>3 DEF Arrives
<1>6. QED
  BY <1>4, <1>5

\* A literal that passed is in no range but loopback, and where it is not, none of the host's.
LEMMA LiteralVetted ==
    ASSUME NEW a \in DOMAIN Ranges, NEW held \in Held \cup {{}},
           Literal(a, held)
    PROVE  \A b \in Arrives(a) : Ranges[b] \subseteq {"loopback"} /\ (b \in held => Ranges[b] # {})
<1>1. CASE Denied(a, held) = None
  BY <1>1, NameVetted
<1>2. CASE Denied(a, held) = "loopback"
  <2> DEFINE b == IF Carries[a] # None /\ Ranges[a] \cap {"unspecified", "loopback"} = {}
                  THEN Carries[a] ELSE a
  <2>1. ClassOf(b) = "loopback"
    BY <1>2 DEF Denied
  <2>2. b \in DOMAIN Ranges
    BY AddressAssumption
  <2>3. Ranges[b] = {"loopback"}
    BY <2>1, <2>2, ClassOfAddress, AddressAssumption
  <2>4. CASE Carries[a] = None
    BY <2>3, <2>4 DEF Arrives
  <2>5. CASE Carries[a] # None /\ b = a
    <3>1. Ranges[Carries[a]] = {} /\ Carries[a] \notin held
      BY <2>3, <2>5, AddressAssumption
    <3>2. QED
      BY <2>3, <2>5, <3>1 DEF Arrives
  <2>6. CASE Carries[a] # None /\ b # a
    <3>1. b = Carries[a] /\ Ranges[a] = {} /\ a \notin held
      BY <2>6, AddressAssumption
    <3>2. QED
      BY <2>3, <3>1 DEF Arrives
  <2>7. QED
    BY <2>4, <2>5, <2>6
<1>3. QED
  BY <1>1, <1>2 DEF Literal

LEMMA TunnelVetted ==
    ASSUME ConnsSound, NEW c \in Conns
    PROVE  IF upstream[c] = None
           THEN pc[c] \notin {"upgrading", "carrying"}
           ELSE /\ pc[c] \in {"upgrading", "carrying"} /\ request[c].method = "CONNECT"
                /\ IF request[c].host.address # None
                   THEN /\ upstream[c] = request[c].host.address
                        /\ \A a \in Arrives(upstream[c]) :
                               /\ Ranges[a] \subseteq {"loopback"}
                               /\ a \in seen[c] => Ranges[a] # {}
                   ELSE \A a \in Arrives(upstream[c]) :
                           Ranges[a] = {} /\ a \notin seen[c]
<1>1. ConnAt(c) /\ upstream[c] \in DOMAIN Ranges \cup {None} /\ seen[c] \in Held \cup {{}}
  BY DEF ConnsSound, ConnsShape
<1>2. CASE upstream[c] = None
  BY <1>1, <1>2 DEF ConnAt
<1>3. CASE upstream[c] # None
  <2>1. pc[c] \in {"upgrading", "carrying"} /\ request[c].method = "CONNECT"
    BY <1>1, <1>3 DEF ConnAt
  <2>2. Passes(request[c], seen[c], upstream[c])
    BY <1>1, <1>3 DEF ConnAt
  <2>3. CASE request[c].host.address # None
    <3>1. upstream[c] = request[c].host.address /\ Literal(upstream[c], seen[c])
      BY <2>2, <2>3 DEF Passes
    <3>2. QED
      BY <1>1, <1>3, <2>1, <2>3, <3>1, LiteralVetted
  <2>4. CASE request[c].host.address = None
    <3>1. Denied(upstream[c], seen[c]) = None
      BY <2>2, <2>4 DEF Passes
    <3>2. QED
      BY <1>1, <1>3, <2>1, <2>4, <3>1, NameVetted
  <2>5. QED
    BY <2>3, <2>4
<1>4. QED
  BY <1>2, <1>3

\* A connection goes on by itself: the others stand.
LEMMA ConnGoes ==
    ASSUME ConnsSound, NEW c \in Conns, NEW to \in Open \cup {"ended"},
           NEW r \in Requests \cup {None}, NEW held \in Held \cup {{}},
           NEW rest \in SUBSET DOMAIN Ranges, NEW at \in DOMAIN Ranges \cup {None},
           pc' = [pc EXCEPT ![c] = to], request' = [request EXCEPT ![c] = r],
           seen' = [seen EXCEPT ![c] = held], left' = [left EXCEPT ![c] = rest],
           upstream' = [upstream EXCEPT ![c] = at], UNCHANGED <<proxy, own>>,
           to \in {"resolving", "connecting", "upgrading", "carrying"} =>
             r \in Requests /\ r.method = "CONNECT" /\ r.host # None,
           to = "resolving" => r.host.address = None,
           to = "connecting" => \A a \in rest : Passes(r, held, a),
           to \in {"upgrading", "carrying"} <=> at # None,
           at # None => Passes(r, held, at)
    PROVE  ConnsSound'
<1>1. ConnsShape'
  BY DEF ConnsSound, ConnsShape
<1>2. pc'[c] = to /\ request'[c] = r /\ seen'[c] = held /\ left'[c] = rest /\ upstream'[c] = at
  BY DEF ConnsSound, ConnsShape
<1>3. ASSUME NEW d \in Conns PROVE ConnAt(d)'
  <2>1. CASE d = c
    BY <1>2, <2>1 DEF ConnAt
  <2>2. CASE d # c
    <3>1. /\ pc'[d] = pc[d] /\ request'[d] = request[d] /\ seen'[d] = seen[d]
          /\ left'[d] = left[d] /\ upstream'[d] = upstream[d]
      BY <2>2 DEF ConnsSound, ConnsShape
    <3>2. ConnAt(d)
      BY DEF ConnsSound
    <3>3. QED
      BY <3>1, <3>2 DEF ConnAt
  <2>3. QED
    BY <2>1, <2>2
<1>4. QED
  BY <1>1, <1>3 DEF ConnsSound

LEMMA HandleGoes ==
    ASSUME ConnsSound, NEW c \in Conns, NEW r \in Requests, Handle(c, r)
    PROVE  ConnsSound'
<1>1. PICK held \in {own, {}} :
        /\ IF RefusedAtOnce(r, held) THEN Answer(c, {"serving"})
           ELSE IF r.host.address # None
           THEN Move(c, {"serving"}, "connecting") /\ Holds(c, r, held, {r.host.address})
           ELSE Move(c, {"serving"}, "resolving") /\ Holds(c, r, held, {})
        /\ UNCHANGED <<proxy, listed, own, upstream>>
  BY DEF Handle
<1>2. /\ held \in Held \cup {{}} /\ pc[c] = "serving" /\ ConnAt(c)
      /\ upstream' = [upstream EXCEPT ![c] = None]
  <2>1. pc[c] = "serving"
    BY <1>1 DEF Answer, Move
  <2>2. ConnAt(c)
    BY DEF ConnsSound
  <2>3. upstream[c] = None
    BY <2>1, <2>2 DEF ConnAt
  <2>4. QED
    BY <1>1, <2>1, <2>2, <2>3 DEF ConnsSound, ConnsShape
<1>3. CASE RefusedAtOnce(r, held)
  <2>1. /\ pc' = [pc EXCEPT ![c] = "serving"] /\ request' = [request EXCEPT ![c] = None]
        /\ seen' = [seen EXCEPT ![c] = {}] /\ left' = [left EXCEPT ![c] = {}]
    BY <1>1, <1>3 DEF Answer, Move, Holds
  <2>2. QED
    BY <1>1, <1>2, <2>1, ConnGoes DEF Open
<1>4. CASE ~RefusedAtOnce(r, held) /\ r.host.address # None
  <2>1. r.method = "CONNECT" /\ r.host # None /\ r.host.address \in DOMAIN Ranges
    BY <1>4, AddressAssumption DEF RefusedAtOnce
  <2>2. Passes(r, held, r.host.address)
    BY <1>4 DEF RefusedAtOnce, Passes
  <2>3. /\ pc' = [pc EXCEPT ![c] = "connecting"] /\ request' = [request EXCEPT ![c] = r]
        /\ seen' = [seen EXCEPT ![c] = held] /\ left' = [left EXCEPT ![c] = {r.host.address}]
    BY <1>1, <1>4 DEF Move, Holds
  <2>4. "connecting" \in Open /\ {r.host.address} \in SUBSET DOMAIN Ranges
    BY <2>1 DEF Open
  <2>5. UNCHANGED <<proxy, own>> /\ held \in Held \cup {{}}
    BY <1>1, <1>2
  <2>6. \A a \in {r.host.address} : Passes(r, held, a)
    BY <2>2
  <2>7. QED
    BY <1>2, <2>1, <2>3, <2>4, <2>5, <2>6, ConnGoes
<1>5. CASE ~RefusedAtOnce(r, held) /\ r.host.address = None
  <2>1. r.method = "CONNECT" /\ r.host # None
    BY <1>5 DEF RefusedAtOnce
  <2>2. /\ pc' = [pc EXCEPT ![c] = "resolving"] /\ request' = [request EXCEPT ![c] = r]
        /\ seen' = [seen EXCEPT ![c] = held] /\ left' = [left EXCEPT ![c] = {}]
    BY <1>1, <1>5 DEF Move, Holds
  <2>3. QED
    BY <1>1, <1>2, <1>5, <2>1, <2>2, ConnGoes DEF Open
<1>6. QED
  BY <1>3, <1>4, <1>5

LEMMA ResolvedGoes ==
    ASSUME ConnsSound, NEW c \in Conns, NEW resolved \in Answers,
           Resolved(c, resolved)
    PROVE  ConnsSound'
<1> DEFINE passed == Vetted(resolved, seen[c])
<1>1. /\ pc[c] = "resolving" /\ ConnAt(c) /\ upstream' = [upstream EXCEPT ![c] = None]
      /\ request[c] \in Requests /\ seen[c] \in Held \cup {{}}
  <2>1. pc[c] = "resolving"
    BY DEF Resolved, Answer, Move
  <2>2. ConnAt(c)
    BY DEF ConnsSound
  <2>3. upstream[c] = None /\ request[c] \in Requests
    BY <2>1, <2>2 DEF ConnAt
  <2>4. QED
    BY <2>1, <2>2, <2>3 DEF Resolved, ConnsSound, ConnsShape
<1>2. CASE passed = {}
  <2>1. /\ pc' = [pc EXCEPT ![c] = "serving"] /\ request' = [request EXCEPT ![c] = None]
        /\ seen' = [seen EXCEPT ![c] = {}] /\ left' = [left EXCEPT ![c] = {}]
        /\ UNCHANGED <<proxy, own>>
    BY <1>2 DEF Resolved, Answer, Move, Holds
  <2>2. QED
    BY <1>1, <2>1, ConnGoes DEF Open
<1>3. CASE passed # {}
  <2>1. /\ pc' = [pc EXCEPT ![c] = "connecting"] /\ request' = [request EXCEPT ![c] = request[c]]
        /\ seen' = [seen EXCEPT ![c] = seen[c]] /\ left' = [left EXCEPT ![c] = passed]
        /\ UNCHANGED <<proxy, own>>
    BY <1>3 DEF Resolved, Move, Holds
  <2>2. passed \in SUBSET DOMAIN Ranges /\ \A a \in passed : Denied(a, seen[c]) = None
    BY AddressAssumption DEF Vetted
  <2>3. \A a \in passed : Passes(request[c], seen[c], a)
    BY <1>1, <2>2 DEF ConnAt, Passes
  <2>4. /\ request[c].method = "CONNECT" /\ request[c].host # None
    BY <1>1 DEF ConnAt
  <2>5. QED
    BY <1>1, <2>1, <2>2, <2>3, <2>4, ConnGoes DEF Open
<1>4. QED
  BY <1>2, <1>3

LEMMA ConnStepSound ==
    ASSUME ConnsSound, NEW c \in Conns, ConnStep(c)
    PROVE  ConnsSound' /\ UNCHANGED proxy
<1>1. /\ ConnAt(c) /\ pc[c] \in Open \cup {"none", "ended"} /\ request[c] \in Requests \cup {None}
      /\ seen[c] \in Held \cup {{}} /\ left[c] \in SUBSET DOMAIN Ranges
      /\ upstream[c] \in DOMAIN Ranges \cup {None}
      /\ request = [request EXCEPT ![c] = request[c]] /\ seen = [seen EXCEPT ![c] = seen[c]]
      /\ left = [left EXCEPT ![c] = left[c]] /\ upstream = [upstream EXCEPT ![c] = upstream[c]]
  BY DEF ConnsSound, ConnsShape
<1>2. UNCHANGED <<proxy, own>>
  BY DEF ConnStep, Accept, ConnectFails, Connects, Carry, Leaves, Cancel, Close, Handle, Resolved
<1>3. CASE Accept(c)
  <2>1. pc[c] = "none" /\ pc' = [pc EXCEPT ![c] = "serving"]
    BY <1>3 DEF Accept, Move
  <2>2. /\ request' = [request EXCEPT ![c] = request[c]] /\ seen' = [seen EXCEPT ![c] = seen[c]]
        /\ left' = [left EXCEPT ![c] = left[c]] /\ upstream' = [upstream EXCEPT ![c] = upstream[c]]
    BY <1>1, <1>3 DEF Accept
  <2>3. upstream[c] = None
    BY <1>1, <2>1 DEF ConnAt
  <2>4. QED
    BY <1>1, <1>2, <2>1, <2>2, <2>3, ConnGoes DEF Open
<1>4. CASE ConnectFails(c)
  <2>1. PICK a \in left[c] :
          IF left[c] = {a} THEN Answer(c, {"connecting"})
          ELSE /\ Move(c, {"connecting"}, "connecting")
               /\ Holds(c, request[c], seen[c], left[c] \ {a})
    BY <1>4 DEF ConnectFails
  <2>2. pc[c] = "connecting" /\ UNCHANGED upstream
    BY <1>4, <2>1 DEF ConnectFails, Answer, Move
  <2>3. upstream[c] = None
    BY <1>1, <2>2 DEF ConnAt
  <2>4. CASE left[c] = {a}
    <3>1. /\ pc' = [pc EXCEPT ![c] = "serving"] /\ request' = [request EXCEPT ![c] = None]
          /\ seen' = [seen EXCEPT ![c] = {}] /\ left' = [left EXCEPT ![c] = {}]
      BY <2>1, <2>4 DEF Answer, Move, Holds
    <3>2. QED
      BY <1>1, <1>2, <2>2, <2>3, <3>1, ConnGoes DEF Open
  <2>5. CASE left[c] # {a}
    <3>1. /\ pc' = [pc EXCEPT ![c] = "connecting"] /\ request' = [request EXCEPT ![c] = request[c]]
          /\ seen' = [seen EXCEPT ![c] = seen[c]] /\ left' = [left EXCEPT ![c] = left[c] \ {a}]
      BY <2>1, <2>5 DEF Move, Holds
    <3>2. /\ request[c] \in Requests /\ request[c].method = "CONNECT" /\ request[c].host # None
          /\ \A b \in left[c] \ {a} : Passes(request[c], seen[c], b)
      BY <1>1, <2>2 DEF ConnAt
    <3>3. left[c] \ {a} \in SUBSET DOMAIN Ranges
      BY <1>1
    <3>4. QED
      BY <1>1, <1>2, <2>2, <2>3, <3>1, <3>2, <3>3, ConnGoes DEF Open
  <2>6. QED
    BY <2>4, <2>5
<1>5. CASE Connects(c)
  <2>1. PICK a \in left[c] : upstream' = [upstream EXCEPT ![c] = a]
    BY <1>5 DEF Connects
  <2>2. /\ pc[c] = "connecting" /\ pc' = [pc EXCEPT ![c] = "upgrading"]
        /\ request' = [request EXCEPT ![c] = request[c]] /\ seen' = [seen EXCEPT ![c] = seen[c]]
        /\ left' = [left EXCEPT ![c] = {}]
    BY <1>5 DEF Connects, Move, Holds
  <2>3. /\ request[c] \in Requests /\ request[c].method = "CONNECT" /\ request[c].host # None
        /\ Passes(request[c], seen[c], a)
    BY <1>1, <2>2 DEF ConnAt
  <2>4. a \in DOMAIN Ranges /\ a # None
    BY <1>1, AddressAssumption
  <2>5. QED
    BY <1>1, <1>2, <2>1, <2>2, <2>3, <2>4, ConnGoes DEF Open
<1>6. CASE Carry(c)
  <2>1. pc[c] = "upgrading" /\ pc' = [pc EXCEPT ![c] = "carrying"]
    BY <1>6 DEF Carry, Move
  <2>2. /\ request' = [request EXCEPT ![c] = request[c]] /\ seen' = [seen EXCEPT ![c] = seen[c]]
        /\ left' = [left EXCEPT ![c] = left[c]] /\ upstream' = [upstream EXCEPT ![c] = upstream[c]]
    BY <1>1, <1>6 DEF Carry
  <2>3. /\ request[c] \in Requests /\ request[c].method = "CONNECT" /\ request[c].host # None
        /\ upstream[c] # None /\ Passes(request[c], seen[c], upstream[c])
    BY <1>1, <2>1 DEF ConnAt
  <2>4. QED
    BY <1>1, <1>2, <2>1, <2>2, <2>3, ConnGoes DEF Open
<1>7. CASE Leaves(c) \/ Cancel(c)
  <2>1. /\ pc' = [pc EXCEPT ![c] = "ended"] /\ request' = [request EXCEPT ![c] = None]
        /\ seen' = [seen EXCEPT ![c] = {}] /\ left' = [left EXCEPT ![c] = {}]
        /\ upstream' = [upstream EXCEPT ![c] = None]
    BY <1>7 DEF Leaves, Cancel, Close, Move, Holds
  <2>2. QED
    BY <1>2, <2>1, ConnGoes
<1>8. CASE (\E r \in Requests : Handle(c, r)) \/ (\E resolved \in Answers : Resolved(c, resolved))
  BY <1>2, <1>8, HandleGoes, ResolvedGoes
<1>9. QED
  BY <1>2, <1>3, <1>4, <1>5, <1>6, <1>7, <1>8 DEF ConnStep

\* What stands of the connections while the proxy turns, and while the interfaces do.
LEMMA ConnsStand ==
    ASSUME ConnsSound, UNCHANGED connVars, own' \in Held,
           proxy' \in {"unbound", "bound", "aborted"}
    PROVE  ConnsSound'
<1>1. UNCHANGED <<pc, request, seen, left, upstream>>
  BY DEF connVars
<1>2. QED
  BY <1>1 DEF ConnsSound, ConnsShape, ConnAt

\* Two directories above one place are one above the other.
LEMMA Above ==
    ASSUME NEW a \in Dirs, NEW b \in Dirs \cup Files, NEW at \in Dirs \cup Files,
           IsPrefix(a, at), IsPrefix(b, at)
    PROVE  Overlaps(a, b)
<1> DEFINE segments == {a[i] : i \in DOMAIN a} \cup {b[i] : i \in DOMAIN b} \cup {at[i] : i \in DOMAIN at}
<1>1. a \in Seq(segments) /\ b \in Seq(segments) /\ at \in Seq(segments)
  <2>1. /\ a = [i \in 1 .. Len(a) |-> a[i]] /\ Len(a) \in Nat
        /\ b = [i \in 1 .. Len(b) |-> b[i]] /\ Len(b) \in Nat
        /\ at = [i \in 1 .. Len(at) |-> at[i]] /\ Len(at) \in Nat
    BY SessionAssumption
  <2>2. /\ a \in [1 .. Len(a) -> segments] /\ b \in [1 .. Len(b) -> segments]
        /\ at \in [1 .. Len(at) -> segments]
    BY <2>1
  <2>3. Seq(segments) = UNION {[1 .. n -> segments] : n \in Nat}
    BY SeqDef
  <2>4. QED
    BY <2>1, <2>2, <2>3
<1>2. ASSUME NEW x \in Seq(segments), IsPrefix(x, at)
      PROVE  Len(x) <= Len(at) /\ \A i \in 1 .. Len(x) : x[i] = at[i]
  BY <1>1, <1>2 DEF IsPrefix
<1>3. ASSUME NEW x \in Seq(segments), NEW y \in Seq(segments), IsPrefix(x, at), IsPrefix(y, at),
             Len(x) <= Len(y)
      PROVE  IsPrefix(x, y)
  <2>1. \A i \in 1 .. Len(x) : x[i] = y[i]
    BY <1>2, <1>3
  <2>2. SubSeq(x, 1, Len(x)) = SubSeq(y, 1, Len(x))
    BY <1>3, <2>1
  <2>3. QED
    BY <1>3, <2>2 DEF IsPrefix
<1>4. Len(a) \in Nat /\ Len(b) \in Nat
  BY <1>1
<1>5. CASE Len(a) <= Len(b)
  BY <1>1, <1>3, <1>5 DEF Overlaps
<1>6. CASE Len(b) <= Len(a)
  BY <1>1, <1>3, <1>6 DEF Overlaps
<1>7. QED
  BY <1>4, <1>5, <1>6

LEMMA RootsClosed ==
    ASSUME RootsSound
    PROVE  StoresClosed
<1> SUFFICES ASSUME NEW root \in roots, NEW at \in Dirs \cup Files, IsPrefix(root, at),
                    NEW s \in Stores, Exists(Home \o s), IsPrefix(Canon(Home \o s), at)
             PROVE  FALSE
  BY DEF StoresClosed
<1>1. root \in Dirs /\ ~OverlapsStore(root)
  BY DEF RootsSound
<1>2. Canon(Home \o s) \in Dirs \cup Files
  BY DEF Exists
<1>3. Overlaps(root, Canon(Home \o s))
  BY <1>1, <1>2, Above
<1>4. QED
  BY <1>1, <1>3 DEF OverlapsStore

\* What read_roots grants was a directory that overlaps no store.
LEMMA GrantedSound ==
    ASSUME NEW entries, ReadRoots(entries) # None
    PROVE  \A root \in ReadRoots(entries) : root \in Dirs /\ ~OverlapsStore(root)
<1>1. ReadRoots(entries) =
        {Canon(Home \o rest) : rest \in {e \in ToSet(entries) : ReadRoot(e) = "granted"}}
  BY DEF ReadRoots
<1>2. ASSUME NEW e, ReadRoot(e) = "granted"
      PROVE  Canon(Home \o e) \in Dirs /\ ~OverlapsStore(Canon(Home \o e))
  BY <1>2 DEF ReadRoot
<1>3. QED
  BY <1>1, <1>2

\* Somebody holds the session where there is a handle, or a command or a process.
LEMMA HoldersCount ==
    ASSUME NEW n \in Nat,
           NEW state \in [Procs -> {"none", "command", "running", "gone"}]
    PROVE  LET of == {p \in Procs : state[p] \in {"command", "running"}} IN
           /\ n + Cardinality(of) \in Nat
           /\ n + Cardinality(of) > 0 <=> n > 0 \/ \E p \in Procs : state[p] \in {"command", "running"}
<1> DEFINE of == {p \in Procs : state[p] \in {"command", "running"}}
<1>1. IsFiniteSet(of)
  BY FS_Subset, SessionAssumption
<1>2. Cardinality(of) \in Nat /\ (Cardinality(of) = 0 <=> of = {})
  BY <1>1, FS_CardinalityType, FS_EmptySet
<1>3. QED
  BY <1>2

LEMMA StagesLive ==
    ASSUME StageSound
    PROVE  LivesWithProcesses
<1>1. handles \in Nat /\ proc \in [Procs -> {"none", "command", "running", "gone"}]
  BY SessionAssumption DEF StageSound
<1>2. Holders > 0 <=> handles > 0 \/ \E p \in Procs : proc[p] \in {"command", "running"}
  BY <1>1, HoldersCount DEF Holders
<1>3. CASE stage = "made"
  BY <1>2, <1>3 DEF StageSound, LivesWithProcesses
<1>4. CASE stage # "made"
  BY <1>4 DEF StageSound, LivesWithProcesses
<1>5. QED
  BY <1>3, <1>4

\* Every part of the session's own but the grants stands.
LEMMA RootsStand ==
    ASSUME RootsSound, UNCHANGED <<access, roots>>
    PROVE  RootsSound'
  BY DEF RootsSound

\* A step of the preparation, while nobody holds the session.
LEMMA StageGoes ==
    ASSUME StageSound, stage # "made", UNCHANGED <<handles, proc>>, stage' # "made",
           stage' \in {"cwd", "read", "bind", "env", "denied", "failed"},
           scratch' = (IF stage' \in {"denied", "failed"} THEN FALSE ELSE TRUE),
           stage' \in {"cwd", "read", "bind"} => proxy' = "unbound",
           stage' = "env" => proxy' = "bound",
           stage' \in {"denied", "failed"} => proxy' # "bound"
    PROVE  StageSound'
  BY DEF StageSound

LEMMA ReleaseGoes ==
    ASSUME SessionIInv, NEW to \in {"denied", "failed"}, Release(to),
           stage \in {"scratch", "cwd", "read", "bind", "env"}
    PROVE  SessionIInv'
<1>1. /\ stage' = to /\ scratch' = FALSE /\ proxy' = (IF proxy = "bound" THEN "aborted" ELSE proxy)
      /\ UNCHANGED <<own, connVars, access, roots, handles, proc>>
  BY DEF Release
<1>2. ConnsSound' /\ RootsSound'
  BY <1>1, ConnsStand, RootsStand DEF SessionIInv, ConnsSound, ConnsShape
<1>3. StageSound'
  BY <1>1, StageGoes DEF SessionIInv
<1>4. QED
  BY <1>2, <1>3 DEF SessionIInv

\* A handle is taken or let go of, or a command turns: the scratch and the proxy follow.
LEMMA SettleGoes ==
    ASSUME SessionIInv, stage = "made", Holders > 0,
           handles' \in 0 .. MaxHandles,
           proc' \in [Procs -> {"none", "command", "running", "gone"}], Settle
    PROVE  SessionIInv'
<1>1. /\ scratch' = (Holders' > 0) /\ proxy' = (IF Holders' > 0 THEN proxy ELSE "aborted")
      /\ UNCHANGED <<own, connVars, stage, access, roots>>
  BY DEF Settle
<1>2. proxy = "bound"
  BY DEF SessionIInv, StageSound
<1>3. ConnsSound' /\ RootsSound'
  BY <1>1, <1>2, ConnsStand, RootsStand DEF SessionIInv, ConnsSound, ConnsShape
<1>4. scratch' = (IF Holders' > 0 THEN TRUE ELSE FALSE)
  <2>1. (Holders' > 0) \in BOOLEAN
    BY DEF Holders
  <2>2. CASE (Holders' > 0) = TRUE
    BY <1>1, <2>2
  <2>3. CASE (Holders' > 0) = FALSE
    BY <1>1, <2>3
  <2>4. QED
    BY <2>1, <2>2, <2>3
<1>5. StageSound'
  BY <1>1, <1>2, <1>4 DEF SessionIInv, StageSound
<1>6. QED
  BY <1>3, <1>5 DEF SessionIInv

\* Where somebody holds the session or works in it, it was made.
LEMMA HeldMade ==
    ASSUME SessionIInv,
           handles > 0 \/ \E p \in Procs : proc[p] \in {"command", "running"}
    PROVE  stage = "made" /\ Holders > 0
<1>1. handles \in Nat /\ proc \in [Procs -> {"none", "command", "running", "gone"}]
  BY SessionAssumption DEF SessionIInv, StageSound
<1>2. Holders > 0
  BY <1>1, HoldersCount DEF Holders
<1>3. QED
  BY <1>2 DEF SessionIInv, StageSound

LEMMA SessionStepSound ==
    ASSUME SessionIInv, SessionStep
    PROVE  SessionIInv'
<1> USE DEF SessionIInv
<1>1. own \in Held /\ proxy \in {"unbound", "bound", "aborted"}
  BY DEF ConnsSound, ConnsShape
<1>2. CASE MakeScratch
  <2>1. /\ stage = "scratch" /\ stage' = "cwd" /\ scratch' = TRUE
        /\ UNCHANGED <<proxy, own, connVars, access, roots, handles, proc>>
    BY <1>2 DEF MakeScratch, Reach, proxyVars
  <2>2. ConnsSound' /\ RootsSound'
    BY <1>1, <2>1, ConnsStand, RootsStand
  <2>3. StageSound'
    BY <2>1, StageGoes DEF StageSound
  <2>4. QED
    BY <2>2, <2>3
<1>3. CASE \E workspace \in Workspaces : Workspace(workspace)
  <2>1. PICK workspace \in Workspaces : Workspace(workspace)
    BY <1>3
  <2>2. /\ stage = "cwd" /\ stage' = "read" /\ access' = AccessOf(workspace)
        /\ UNCHANGED <<proxy, own, connVars, roots, scratch, handles, proc>>
    BY <2>1 DEF Workspace, Reach, proxyVars
  <2>3. ConnsSound'
    BY <1>1, <2>2, ConnsStand
  <2>4. RootsSound'
    BY <2>2 DEF RootsSound, AccessOf
  <2>5. StageSound'
    BY <2>2, StageGoes DEF StageSound
  <2>6. QED
    BY <2>3, <2>4, <2>5
<1>4. CASE ReadGrant
  <2>1. CASE ReadRoots(grant.read) = None
    BY <1>4, <2>1, ReleaseGoes DEF ReadGrant
  <2>2. CASE ReadRoots(grant.read) # None
    <3>1. /\ stage = "read" /\ stage' = "bind" /\ roots' = ReadRoots(grant.read)
          /\ UNCHANGED <<proxy, own, connVars, access, scratch, handles, proc>>
      BY <1>4, <2>2 DEF ReadGrant, Reach, proxyVars
    <3>2. ConnsSound'
      BY <1>1, <3>1, ConnsStand
    <3>3. RootsSound'
      BY <2>2, <3>1, GrantedSound DEF RootsSound
    <3>4. StageSound'
      BY <3>1, StageGoes DEF StageSound
    <3>5. QED
      BY <3>2, <3>3, <3>4
  <2>3. QED
    BY <2>1, <2>2
<1>5. CASE Bind
  <2>1. /\ stage = "bind" /\ stage' = "env" /\ proxy' = "bound"
        /\ UNCHANGED <<own, connVars, access, roots, scratch, handles, proc>>
    BY <1>5 DEF Bind, Reach
  <2>2. ConnsSound' /\ RootsSound'
    BY <1>1, <2>1, ConnsStand, RootsStand
  <2>3. StageSound'
    BY <2>1, StageGoes DEF StageSound
  <2>4. QED
    BY <2>2, <2>3
<1>6. CASE Made
  <2>1. CASE Environment(grant.env) = None
    BY <1>6, <2>1, ReleaseGoes DEF Made
  <2>2. CASE Environment(grant.env) # None
    <3>1. /\ stage = "env" /\ stage' = "made" /\ handles' = 1
          /\ UNCHANGED <<proxy, own, connVars, access, roots, scratch, proc>>
      BY <1>6, <2>2 DEF Made, Reach, proxyVars
    <3>2. ConnsSound' /\ RootsSound'
      BY <1>1, <3>1, ConnsStand, RootsStand
    <3>3. proc \in [Procs -> {"none", "command", "running", "gone"}]
      BY DEF StageSound
    <3>4. Holders' > 0
      BY <3>1, <3>3, HoldersCount DEF Holders
    <3>5. StageSound'
      BY <3>1, <3>4, SessionAssumption DEF StageSound
    <3>6. QED
      BY <3>2, <3>5
  <2>3. QED
    BY <2>1, <2>2
<1>7. CASE Fails
  BY <1>7, ReleaseGoes DEF Fails
<1>8. handles \in 0 .. MaxHandles /\ MaxHandles \in Nat
      /\ proc \in [Procs -> {"none", "command", "running", "gone"}]
  BY SessionAssumption DEF StageSound
<1>9. CASE Clone \/ DropClone
  <2>1. handles > 0 /\ handles' \in 0 .. MaxHandles /\ UNCHANGED proc /\ Settle
    BY <1>8, <1>9 DEF Clone, DropClone
  <2>2. QED
    BY <1>8, <2>1, HeldMade, SettleGoes
<1>10. CASE \E p \in Procs : Command(p) \/ Spawn(p) \/ Ends(p)
  <2>1. PICK p \in Procs : Command(p) \/ Spawn(p) \/ Ends(p)
    BY <1>10
  <2>2. PICK to \in {"command", "running", "gone"} : proc' = [proc EXCEPT ![p] = to]
    BY <2>1 DEF Command, Spawn, Ends, Turn
  <2>3. /\ handles > 0 \/ proc[p] \in {"command", "running"}
        /\ UNCHANGED handles /\ Settle
    BY <2>1 DEF Command, Spawn, Ends, Turn
  <2>4. proc' \in [Procs -> {"none", "command", "running", "gone"}]
    BY <1>8, <2>2
  <2>5. QED
    BY <1>8, <2>3, <2>4, HeldMade, SettleGoes
<1>11. QED
  BY <1>2, <1>3, <1>4, <1>5, <1>6, <1>7, <1>9, <1>10 DEF SessionStep

LEMMA SessionStart ==
    ASSUME SessionInit
    PROVE  SessionIInv
<1>1. ConnsSound
  BY DEF SessionInit, ProxyInit, ConnsSound, ConnsShape, ConnAt
<1>2. StageSound
  BY SessionAssumption DEF SessionInit, ProxyInit, StageSound
<1>3. RootsSound
  BY DEF SessionInit, RootsSound
<1>4. QED
  BY <1>1, <1>2, <1>3 DEF SessionIInv

\* A step that is not the session's leaves all of it but the connections as it was.
LEMMA OthersStand ==
    ASSUME SessionIInv, ConnsSound', UNCHANGED <<proxy, sessionVars>>
    PROVE  SessionIInv'
<1>1. UNCHANGED <<stage, grant, access, roots, env, scratch, handles, proc>>
  BY DEF sessionVars
<1>2. Holders' = Holders
  BY <1>1 DEF Holders
<1>3. StageSound' /\ RootsSound'
  BY <1>1, <1>2 DEF SessionIInv, StageSound, RootsSound
<1>4. QED
  BY <1>3 DEF SessionIInv

LEMMA SessionNextSound ==
    ASSUME SessionIInv, [SessionNext]_boxVars
    PROVE  SessionIInv'
<1>1. CASE SessionStep
  BY <1>1, SessionStepSound
<1>2. CASE Interfaces /\ UNCHANGED sessionVars
  <2>1. own' \in Held /\ UNCHANGED <<proxy, connVars>>
    BY <1>2 DEF Interfaces
  <2>2. ConnsSound'
    BY <2>1, ConnsStand DEF SessionIInv, ConnsSound, ConnsShape
  <2>3. QED
    BY <1>2, <2>1, <2>2, OthersStand
<1>3. CASE \E c \in Conns : ConnStep(c) /\ UNCHANGED sessionVars
  <2>1. PICK c \in Conns : ConnStep(c) /\ UNCHANGED sessionVars
    BY <1>3
  <2>2. ConnsSound' /\ UNCHANGED proxy
    BY <2>1, ConnStepSound DEF SessionIInv
  <2>3. QED
    BY <2>1, <2>2, OthersStand
<1>4. CASE UNCHANGED boxVars
  <2>1. UNCHANGED <<proxy, own, connVars, sessionVars>>
    BY <1>4 DEF boxVars, proxyVars
  <2>2. ConnsSound'
    BY <2>1, ConnsStand DEF SessionIInv, ConnsSound, ConnsShape
  <2>3. QED
    BY <2>1, <2>2, OthersStand
<1>5. QED
  BY <1>1, <1>2, <1>3, <1>4 DEF SessionNext

\* Session, Proxy: for any grants, addresses, interfaces that change, links, connections,
\* commands and handles, a tunnel leads where the grant and the vetting of its own request
\* let it, no root lies in a credential store, and the scratch and the proxy are there for
\* exactly as long as somebody holds the session.
THEOREM SessionKept == SessionSpec => []SessionInv
<1>1. SessionIInv => SessionInv
  <2> SUFFICES ASSUME SessionIInv PROVE SessionInv
    OBVIOUS
  <2>1. SessionTypeOK
    BY DEF SessionIInv, ConnsSound, ConnsShape, StageSound, RootsSound, SessionTypeOK, ProxyTypeOK
  <2>2. TunnelsVetted
    BY TunnelVetted DEF SessionIInv, TunnelsVetted
  <2>3. QED
    BY <2>1, <2>2, RootsClosed, StagesLive DEF SessionIInv, SessionInv
<1>2. SessionInit => SessionIInv
  BY SessionStart
<1>3. SessionIInv /\ [SessionNext]_boxVars => SessionIInv'
  BY SessionNextSound
<1>4. QED
  BY <1>1, <1>2, <1>3, PTL DEF SessionSpec

===============================================================================
