----------------------------- MODULE SandboxChild -----------------------------
(***************************************************************************)
(* A supervised process of the sandbox (child.rs): the Child handle, the   *)
(* supervisor task, the stderr reader, and one caller that runs a future   *)
(* under the process's life.                                               *)
(*                                                                         *)
(* Time is a count of ticks for the two bounds that must fit each other:   *)
(* EXIT_GRACE, which the supervisor gives stderr, and EXIT_WAIT, which     *)
(* fail_on_exit gives the exit.  Steps that wait on nothing take no time.  *)
(***************************************************************************)
EXTENDS ProcessGroup, Integers

CONSTANTS
    MaxStops,   \* bound: calls of Child::stop
    MaxCalls,   \* bound: calls of Child::fail_on_exit
    ExitGrace,  \* EXIT_GRACE in ticks
    Shutdown    \* whether the runtime may shut down under the supervisor

ASSUME ChildAssumption ==
    /\ MaxStops \in Nat /\ MaxCalls \in Nat
    /\ ExitGrace \in Nat \ {0}
    /\ Shutdown \in BOOLEAN

VARIABLES
    handle,     \* the Child: "held" or "dropped"
    stops,      \* stops sent
    queue,      \* stops in the channel: its capacity is one
    sup,        \* where the supervisor stands
    asked,      \* the supervisor took a stop and runs its ask
    graceLeft,  \* ticks left for stderr
    published,  \* the exit is in the watch channel
    session,    \* the supervisor's handle on the session: "held" or "dropped"
    line,       \* ready line: "unwritten", "written", "read"
    reader,     \* the stderr reader: "reading", "eof", "aborted"
    ready,      \* Child::ready: "pending", "line", "none"
    calls,      \* calls of fail_on_exit made
    call,       \* the one under way, or what the last one returned
    waitLeft,   \* ticks left of EXIT_WAIT
    deadAtErr   \* history: the process was dead when the future failed

supVars  == <<handle, stops, queue, sup, asked, graceLeft, published, session>>
pipeVars == <<line, reader, ready>>
callVars == <<calls, call, waitLeft, deadAtErr>>
vars == <<groupVars, supVars, pipeVars, callVars>>

SupStates == {"select", "ask", "answer", "kill", "reap", "stderr", "publish",
              "session", "done", "cancelled"}
CallStates == {"idle", "running", "grace", "ok", "err", "exit"}

\* EXIT_WAIT
ExitWait == 2 * ExitGrace

Init ==
    /\ GroupInit
    /\ handle = "held" /\ stops = 0 /\ queue = 0
    /\ sup = "select" /\ asked = FALSE /\ graceLeft = 0
    /\ published = FALSE /\ session = "held"
    /\ line = "unwritten" /\ reader = "reading" /\ ready = "pending"
    /\ calls = 0 /\ call = "idle" /\ waitLeft = 0 /\ deadAtErr = FALSE

-------------------------------------------------------------------------------
(***************************************************************************)
(* The handle                                                              *)
(***************************************************************************)

\* Child::stop: try_send, whose refusal is ignored.  The receiver lives as long
\* as the supervisor does.
Stop ==
    /\ handle = "held"
    /\ stops < MaxStops
    /\ stops' = stops + 1
    /\ queue' = IF sup \in {"done", "cancelled"} THEN queue ELSE 1
    /\ UNCHANGED <<groupVars, handle, sup, asked, graceLeft, published, session,
                   pipeVars, callVars>>

\* fail_on_exit borrows the handle, so it is not dropped under a call.
DropHandle ==
    /\ handle = "held"
    /\ call \notin {"running", "grace"}
    /\ handle' = "dropped"
    /\ UNCHANGED <<groupVars, stops, queue, sup, asked, graceLeft, published,
                   session, pipeVars, callVars>>

-------------------------------------------------------------------------------
(***************************************************************************)
(* The supervisor                                                          *)
(***************************************************************************)

Goto(from, to) == sup = from /\ sup' = to

\* wait() returns: the process is reaped now, or was before.
Waited == leader \in {"waitable", "reaped"} /\ leader' = "reaped" /\ UNCHANGED life

\* Mutant of SeeExit: a process that exited on its own needs no kill.
SeeExitNoSweep ==
    /\ Goto("select", "stderr")
    /\ Waited
    /\ graceLeft' = ExitGrace
    /\ UNCHANGED <<handle, stops, queue, asked, published, session, pipeVars, callVars>>

\* The select is biased towards the exit.
SeeExit ==
    /\ Goto("select", "kill")
    /\ Waited
    /\ UNCHANGED <<handle, stops, queue, asked, graceLeft, published, session,
                   pipeVars, callVars>>

TakeStop ==
    /\ Goto("select", "ask")
    /\ leader # "waitable"
    /\ queue = 1
    /\ queue' = 0
    /\ asked' = TRUE
    /\ UNCHANGED <<groupVars, handle, stops, graceLeft, published, session,
                   pipeVars, callVars>>

\* The channel is empty and its sender dropped.
HandleGone ==
    /\ Goto("select", "kill")
    /\ leader # "waitable"
    /\ handle = "dropped" /\ queue = 0
    /\ UNCHANGED <<groupVars, handle, stops, queue, asked, graceLeft, published,
                   session, pipeVars, callVars>>

AskDone ==
    /\ Goto("ask", "answer")
    /\ UNCHANGED <<groupVars, handle, stops, queue, asked, graceLeft, published,
                   session, pipeVars, callVars>>

Answered ==
    /\ Goto("answer", "kill")
    /\ Waited
    /\ UNCHANGED <<handle, stops, queue, asked, graceLeft, published, session,
                   pipeVars, callVars>>

\* The stop's own `wait` is over, in the ask or in the wait for its answer.
AskTimesOut ==
    /\ Goto("ask", "kill") \/ Goto("answer", "kill")
    /\ UNCHANGED <<groupVars, handle, stops, queue, asked, graceLeft, published,
                   session, pipeVars, callVars>>

Kill ==
    /\ Goto("kill", "reap")
    /\ KillGroup
    /\ UNCHANGED <<handle, stops, queue, asked, graceLeft, published, session,
                   pipeVars, callVars>>

Reap ==
    /\ Goto("reap", "stderr")
    /\ Waited
    /\ graceLeft' = ExitGrace
    /\ UNCHANGED <<handle, stops, queue, asked, published, session, pipeVars, callVars>>

StderrEnds ==
    /\ Goto("stderr", "publish")
    /\ reader # "reading"
    /\ UNCHANGED <<groupVars, handle, stops, queue, asked, graceLeft, published,
                   session, pipeVars, callVars>>

\* Mutant of StderrTimesOut: stderr is read to its end, however long.
StderrNeverTimesOut ==
    /\ Goto("stderr", "publish")
    /\ reader # "reading" /\ graceLeft = 0
    /\ UNCHANGED <<groupVars, handle, stops, queue, asked, graceLeft, published,
                   session, pipeVars, callVars>>

\* Something that left the group holds the pipe: the reader is aborted, and with
\* it goes the ready line's sender.
StderrTimesOut ==
    /\ Goto("stderr", "publish")
    /\ reader = "reading" /\ graceLeft = 0
    /\ reader' = "aborted"
    /\ ready' = IF ready = "pending" THEN "none" ELSE ready
    /\ UNCHANGED <<groupVars, handle, stops, queue, asked, graceLeft, published,
                   session, line, callVars>>

Publish ==
    /\ Goto("publish", "session")
    /\ published' = TRUE
    /\ UNCHANGED <<groupVars, handle, stops, queue, asked, graceLeft, session,
                   pipeVars, callVars>>

DropSession ==
    /\ Goto("session", "done")
    /\ session' = "dropped"
    /\ UNCHANGED <<groupVars, handle, stops, queue, asked, graceLeft, published,
                   pipeVars, callVars>>

\* The runtime shuts down: the supervisor is dropped at an await, its child with
\* KillOnDrop and its session; the reader task goes too.
Cancelled ==
    /\ Shutdown
    /\ sup \in {"select", "ask", "answer", "reap", "stderr"}
    /\ sup' = "cancelled"
    /\ KillLeader
    /\ session' = "dropped"
    /\ reader' = IF reader = "reading" THEN "aborted" ELSE reader
    /\ ready' = IF ready = "pending" THEN "none" ELSE ready
    /\ UNCHANGED <<handle, stops, queue, asked, graceLeft, published, line, callVars>>

-------------------------------------------------------------------------------
(***************************************************************************)
(* The stderr reader                                                       *)
(***************************************************************************)

WriteReady ==
    /\ leader = "running"
    /\ line = "unwritten"
    /\ line' = "written"
    /\ UNCHANGED <<groupVars, supVars, reader, ready, callVars>>

ReadReady ==
    /\ reader = "reading"
    /\ line = "written"
    /\ line' = "read"
    /\ ready' = "line"
    /\ UNCHANGED <<groupVars, supVars, reader, callVars>>

\* The pipe's end before a ready line drops the line's sender.
ReadEof ==
    /\ reader = "reading"
    /\ PipesClosed
    /\ line # "written"
    /\ reader' = "eof"
    /\ ready' = IF ready = "pending" THEN "none" ELSE ready
    /\ UNCHANGED <<groupVars, supVars, line, callVars>>

-------------------------------------------------------------------------------
(***************************************************************************)
(* Child::fail_on_exit                                                     *)
(***************************************************************************)

\* exited() resolves: the exit is published, or the supervisor is gone.
ExitKnown == published \/ sup = "cancelled"

FailOnExit ==
    /\ handle = "held"
    /\ call \notin {"running", "grace"}
    /\ calls < MaxCalls
    /\ calls' = calls + 1
    /\ call' = "running"
    /\ deadAtErr' = FALSE
    /\ UNCHANGED <<groupVars, supVars, pipeVars, waitLeft>>

FutureOk ==
    /\ call = "running"
    /\ call' = "ok"
    /\ UNCHANGED <<groupVars, supVars, pipeVars, calls, waitLeft, deadAtErr>>

\* The future's failure starts the grace.  The select is not biased: it may be
\* seen before an exit that is known already.
FutureErr ==
    /\ call = "running"
    /\ call' = "grace"
    /\ waitLeft' = ExitWait
    /\ deadAtErr' = (leader # "running")
    /\ UNCHANGED <<groupVars, supVars, pipeVars, calls>>

CallSeesExit ==
    /\ call \in {"running", "grace"}
    /\ ExitKnown
    /\ call' = "exit"
    /\ waitLeft' = 0
    /\ UNCHANGED <<groupVars, supVars, pipeVars, calls, deadAtErr>>

\* The timeout polls the exit once more before it gives up.
GraceEnds ==
    /\ call = "grace"
    /\ waitLeft = 0 /\ ~ExitKnown
    /\ call' = "err"
    /\ UNCHANGED <<groupVars, supVars, pipeVars, calls, waitLeft, deadAtErr>>

-------------------------------------------------------------------------------
\* A step of the supervisor, of the reader or of the reactor that waits on
\* nothing is taken before the clock moves.
Prompt ==
    \/ sup \in {"kill", "publish", "session"}
    \/ leader = "exited"
    \/ sup \in {"select", "answer", "reap"} /\ leader \in {"waitable", "reaped"}
    \/ sup = "select" /\ (queue = 1 \/ handle = "dropped")
    \/ sup = "stderr" /\ (reader # "reading" \/ graceLeft = 0)
    \/ reader = "reading" /\ (line = "written" \/ PipesClosed)
    \/ call = "grace" /\ (waitLeft = 0 \/ ExitKnown)

Tick ==
    /\ ~Prompt
    /\ sup = "stderr" \/ call = "grace"
    /\ graceLeft' = IF graceLeft > 0 THEN graceLeft - 1 ELSE 0
    /\ waitLeft' = IF waitLeft > 0 THEN waitLeft - 1 ELSE 0
    /\ UNCHANGED <<groupVars, handle, stops, queue, sup, asked, published, session,
                   pipeVars, calls, call, deadAtErr>>

\* The processes act on their own.
Processes == GroupNext /\ UNCHANGED <<supVars, pipeVars, callVars>>

Supervisor ==
    \/ SeeExit \/ TakeStop \/ HandleGone \/ AskDone \/ Answered \/ AskTimesOut
    \/ Kill \/ Reap \/ StderrEnds \/ StderrTimesOut \/ Publish \/ DropSession

Reader == WriteReady \/ ReadReady \/ ReadEof

Caller == FailOnExit \/ FutureOk \/ FutureErr \/ CallSeesExit \/ GraceEnds

Next == Processes \/ Stop \/ DropHandle \/ Supervisor \/ Cancelled \/ Reader \/ Caller \/ Tick

Spec == Init /\ [][Next]_vars

\* The supervisor and the reader are polled, a stop's `wait` is finite, exits
\* reach the reactor and time passes.  The processes, the handle and the caller
\* owe nothing.
Fairness ==
    /\ WF_vars(SeeExit \/ TakeStop \/ HandleGone)
    /\ WF_vars(Answered \/ AskTimesOut)
    /\ WF_vars(Kill \/ Reap \/ StderrEnds \/ StderrTimesOut \/ Publish \/ DropSession)
    /\ WF_vars(ExitNoticed /\ UNCHANGED <<supVars, pipeVars, callVars>>)
    /\ WF_vars(ReadReady \/ ReadEof)
    /\ WF_vars(CallSeesExit \/ GraceEnds)
    /\ WF_vars(Tick)

FairSpec == Spec /\ Fairness

-------------------------------------------------------------------------------
(***************************************************************************)
(* Properties                                                              *)
(***************************************************************************)

\* Every variable keeps its type.
TypeOK ==
    /\ GroupTypeOK
    /\ handle \in {"held", "dropped"} /\ session \in {"held", "dropped"}
    /\ stops \in 0 .. MaxStops /\ queue \in 0 .. 1
    /\ sup \in SupStates
    /\ asked \in BOOLEAN /\ published \in BOOLEAN /\ deadAtErr \in BOOLEAN
    /\ graceLeft \in 0 .. ExitGrace /\ waitLeft \in 0 .. 2 * ExitGrace
    /\ line \in {"unwritten", "written", "read"}
    /\ reader \in {"reading", "eof", "aborted"}
    /\ ready \in {"pending", "line", "none"}
    /\ calls \in 0 .. MaxCalls /\ call \in CallStates

\* Whoever learns of the exit learns it after the sweep: the exit is published
\* only once the leader is reaped and its whole group killed, on every path.
ExitSwept == published => leader = "reaped" /\ InGroup = {}

\* The session's scratch and proxy are there for as long as anything of the
\* process group is, unless the runtime itself goes down.
SessionOutlives == Alive /\ sup # "cancelled" => session = "held"

\* A stop that was sent is heard: the supervisor never turns to the kill without
\* having run its ask, a drop of the handle right behind it included, unless the
\* process had exited by itself.
AskHeard ==
    sup \notin {"select", "cancelled"} /\ stops > 0 /\ ~asked => leader = "reaped"

\* A failure the future answers when the process is already dead is reported as
\* the exit, never as the failure, as long as no stop is under way: EXIT_WAIT
\* covers what the supervisor needs to publish.
DeathReported == call = "err" /\ deadAtErr => asked

\* What holds of the child, its group, its session and its callers at every moment.
ChildInv == TypeOK /\ ExitSwept /\ SessionOutlives /\ AskHeard /\ DeathReported

\* As child.rs and README.md state it, with stops: a failure under a dying
\* process is reported as the exit.
DeathNeverReset == ~(call = "err" /\ deadAtErr)

\* As child.rs states it, nothing of a child outlives it: once its supervisor is
\* gone no process of its group runs.
NothingOutlives == sup \in {"done", "cancelled"} => InGroup = {}

\* As README.md states it, the kill of the group is sent before the leader is
\* reaped, so that the group id cannot have been reused.
KillBeforeReap == sup = "kill" => leader # "reaped"

\* A handle dropped, or a stop sent, ends the process.
StopEnds == (handle = "dropped" \/ stops > 0) ~> (published \/ sup = "cancelled")

=============================================================================
