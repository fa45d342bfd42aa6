------------------------------- MODULE OneShot -------------------------------
(***************************************************************************)
(* One run of Command::output (child.rs `output`): a process held to a     *)
(* bound, its pipes captured meanwhile, its group swept, and the run       *)
(* possibly dropped at any of its awaits.                                  *)
(***************************************************************************)
EXTENDS ProcessGroup, Integers

CONSTANTS
    MaxWrites,   \* bound: writes of the process group
    OutputBytes  \* OUTPUT_BYTES, in writes

ASSUME WritesAssumption == MaxWrites \in Nat /\ OutputBytes \in Nat

VARIABLES
    run,      \* where the run stands, or how it ended
    drained,  \* the capture ended before the process did
    pipe,     \* writes in the pipe, not yet captured
    written,  \* writes made
    taken     \* writes kept

runVars == <<run, drained, pipe, written, taken>>
shotVars == <<groupVars, runVars>>

Awaits == {"exit", "exit_drained", "timeout_reap", "drain"}
Ended  == {"returned", "timed_out", "failed", "dropped"}

ShotInit ==
    /\ GroupInit
    /\ run = "exit" /\ drained = FALSE
    /\ pipe = 0 /\ written = 0 /\ taken = 0

-------------------------------------------------------------------------------
Kept(n) == IF n < OutputBytes THEN n ELSE OutputBytes

\* The group writes.  What a process writes after it left the group is not
\* followed: it only holds the pipe open.
Write ==
    /\ Alive
    /\ written < MaxWrites
    /\ written' = written + 1
    /\ pipe' = pipe + 1
    /\ UNCHANGED <<groupVars, run, drained, taken>>

\* capture, while the run is polled: up to OUTPUT_BYTES is kept, the rest read
\* and dropped.
Capture ==
    /\ run \in {"exit", "drain"}
    /\ pipe > 0
    /\ taken' = Kept(taken + pipe)
    /\ pipe' = 0
    /\ UNCHANGED <<groupVars, run, drained, written>>

\* Both pipes ended before the exit was seen.
CaptureEnds ==
    /\ run = "exit"
    /\ PipesClosed /\ pipe = 0
    /\ run' = "exit_drained"
    /\ UNCHANGED <<groupVars, drained, pipe, written, taken>>

ShotWaited == leader = "waitable" /\ leader' = "reaped" /\ UNCHANGED life

ExitSeen ==
    /\ run \in {"exit", "exit_drained"}
    /\ ShotWaited
    /\ drained' = (run = "exit_drained")
    /\ run' = "sweep"
    /\ UNCHANGED <<pipe, written, taken>>

\* wait() itself failed: the run returns, and its OneShot is dropped.
WaitFails ==
    /\ run \in {"exit", "exit_drained"}
    /\ leader = "waitable"
    /\ run' = "failed"
    /\ KillGroup
    /\ UNCHANGED <<drained, pipe, written, taken>>

\* Past the bound the group is killed, then reaped.
BoundPasses ==
    /\ run \in {"exit", "exit_drained"}
    /\ leader # "waitable"
    /\ KillGroup
    /\ run' = "timeout_reap"
    /\ UNCHANGED <<drained, pipe, written, taken>>

\* The end of the function drops the OneShot, which kills the group once more.
TimedOut ==
    /\ run = "timeout_reap"
    /\ leader = "waitable"
    /\ leader' = "reaped"
    /\ life' = [f \in Forks |-> IF life[f] = "group" THEN "dead" ELSE life[f]]
    /\ run' = "timed_out"
    /\ UNCHANGED <<drained, pipe, written, taken>>

\* The sweep, then what the pipes still hold.
Sweep ==
    /\ run = "sweep"
    /\ KillGroup
    /\ run' = IF drained THEN "returned" ELSE "drain"
    /\ UNCHANGED <<drained, pipe, written, taken>>

\* The drop of OneShot at the end of the run.
Return ==
    /\ run' = "returned"
    /\ KillGroup
    /\ UNCHANGED <<drained, pipe, written, taken>>

DrainEnds ==
    /\ run = "drain"
    /\ PipesClosed /\ pipe = 0
    /\ Return

\* EXIT_GRACE passes only while something holds the pipe open: reads of what is
\* there already take no time beside it.
DrainTimesOut ==
    /\ run = "drain"
    /\ ~PipesClosed /\ pipe = 0
    /\ Return

\* Mutant of DropRun: KillOnDrop alone.
DropRunLeader ==
    /\ run \in Awaits
    /\ run' = "dropped"
    /\ KillLeader
    /\ UNCHANGED <<drained, pipe, written, taken>>

\* The caller gives up on the run at one of its awaits.
DropRun ==
    /\ run \in Awaits
    /\ run' = "dropped"
    /\ KillGroup
    /\ UNCHANGED <<drained, pipe, written, taken>>

ShotProcesses == GroupNext /\ UNCHANGED runVars

ShotNext ==
    \/ ShotProcesses \/ Write \/ Capture \/ CaptureEnds
    \/ ExitSeen \/ WaitFails \/ BoundPasses \/ TimedOut
    \/ Sweep \/ DrainEnds \/ DrainTimesOut \/ DropRun

ShotSpec == ShotInit /\ [][ShotNext]_shotVars

\* The run is polled, the bound and the grace pass, exits reach the reactor.
ShotFairness ==
    /\ WF_shotVars(ExitNoticed /\ UNCHANGED runVars)
    /\ WF_shotVars(Capture) /\ WF_shotVars(CaptureEnds)
    /\ WF_shotVars(ExitSeen \/ WaitFails \/ BoundPasses)
    /\ WF_shotVars(TimedOut \/ Sweep \/ DrainEnds \/ DrainTimesOut)

FairShotSpec == ShotSpec /\ ShotFairness

-------------------------------------------------------------------------------
\* Every variable keeps its type, and no more than OUTPUT_BYTES is kept.
ShotTypeOK ==
    /\ GroupTypeOK
    /\ run \in Awaits \cup Ended \cup {"sweep"}
    /\ drained \in BOOLEAN
    /\ pipe \in 0 .. MaxWrites /\ written \in 0 .. MaxWrites
    /\ taken \in 0 .. OutputBytes

\* However the run ends, returned, timed out, failed or dropped by its caller at
\* any await, nothing of the process group is left running.
NothingLeft == run \in Ended => ~Alive

\* Output is whole: what a run returns is all its group wrote up to the cap, also
\* what was still in the pipe as the exit was seen, and what a fork wrote between
\* the exit and the sweep.
OutputWhole == run = "returned" => taken = Kept(written)

\* What holds of a run at every moment: nothing is left and nothing is lost.
OneShotInv == ShotTypeOK /\ NothingLeft /\ OutputWhole

\* Every run ends: a fork that holds the pipes does not delay it for good.
RunEnds == <>(run \in Ended)

=============================================================================
