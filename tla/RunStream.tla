------------------------------ MODULE RunStream ------------------------------
(***************************************************************************)
(* What the cursor backend reads off the stream of one Send, and the two    *)
(* bounds it holds the run to (model/stream.rs, Deadlines::watch and follow *)
(* in model/agent.rs, RunStream in protocol.rs).  The bridge starts tool    *)
(* calls, guest tools and its own shell, answers them, and now and then     *)
(* drops a terminal frame; the model speaks only when every call is         *)
(* answered.  Time is counted in ticks.                                     *)
(***************************************************************************)
EXTENDS Naturals, FiniteSets

CONSTANTS
    Calls,       \* tool calls the model may make in the run
    Shell,       \* those of them that are the bridge's own shell
    Inactivity,  \* Deadlines::inactivity, in ticks
    Cap,         \* Deadlines::cap, in ticks
    NoCall       \* no call

ASSUME StreamAssumption ==
    /\ Shell \subseteq Calls /\ NoCall \notin Calls
    /\ Inactivity \in Nat \ {0} /\ Cap \in Nat \ {0}

VARIABLES
    bridgeCalls,    \* the bridge's calls: "no", "running" or "answered"
    pending,  \* EventLog::pending_tools
    last,     \* EventLog::last_pending
    turns,    \* calls in the transcript
    phase,    \* the phase of the last Activity
    idle,     \* ticks since the last Activity
    elapsed,  \* ticks since the Send
    outcome,  \* "open", or how the run ended
    closed,   \* history: calls whose terminal frame was read
    asked     \* history: guest tools started since the model last spoke

clientVars == <<pending, last, turns, phase>>
streamVars == <<bridgeCalls, clientVars, idle, elapsed, outcome, closed, asked>>

StreamStarts(at) ==
    /\ bridgeCalls = [c \in Calls |-> "no"]
    /\ pending = {} /\ last = NoCall /\ turns = {} /\ phase = "opening"
    /\ idle = 0 /\ elapsed = 0 /\ outcome = at
    /\ closed = {} /\ asked = {}

StreamInit == StreamStarts("open")

Running == {c \in Calls : bridgeCalls[c] = "running"}
Open == outcome = "open"

-------------------------------------------------------------------------------
PhaseOf(c) == IF c \in Shell THEN "shell" ELSE "tool"

\* Once a frame was read: the call last started while it is pending, else any
\* pending call (the map's first), else the model.
Phases(p, l) ==
    IF p = {} THEN {"model"} ELSE IF l \in p THEN {PhaseOf(l)} ELSE {PhaseOf(c) : c \in p}

\* The window bounds what the bridge answers, not the model nor the shell.
BoundedPhase(ph) == ph \in {"opening", "tool"}

\* A frame was read: the window is rearmed on the phase the stream is now in.
Advance(p, l) ==
    /\ Open
    /\ pending' = p /\ last' = l
    /\ phase' \in Phases(p, l)
    /\ idle' = 0
    /\ UNCHANGED <<elapsed, outcome>>

\* A call starts, and its frame is read, or skipped as malformed.
Started(c) ==
    /\ bridgeCalls[c] = "no"
    /\ bridgeCalls' = [bridgeCalls EXCEPT ![c] = "running"]
    /\ \/ Advance(pending \cup {c}, c) /\ asked' = asked \cup ({c} \ Shell)
       \/ Advance(pending, last) /\ UNCHANGED asked
    /\ UNCHANGED <<turns, closed>>

\* Mutant of Completed: a call without a result stays pending.
CompletedWithResult(c) ==
    /\ bridgeCalls[c] = "running"
    /\ bridgeCalls' = [bridgeCalls EXCEPT ![c] = "answered"]
    /\ closed' = closed \cup {c}
    /\ \/ Advance(pending \ {c}, last) /\ turns' = turns \cup {c}
       \/ Advance(pending, last) /\ UNCHANGED turns
    /\ UNCHANGED asked

\* Its terminal frame ends a call, with a result for the transcript or without.
Completed(c) ==
    /\ bridgeCalls[c] = "running"
    /\ bridgeCalls' = [bridgeCalls EXCEPT ![c] = "answered"]
    /\ closed' = closed \cup {c}
    /\ Advance(pending \ {c}, last)
    /\ turns' \in {turns, turns \cup {c}}
    /\ UNCHANGED asked

\* The bridge answers a call and drops its terminal frame.
Dropped(c) ==
    /\ Open /\ bridgeCalls[c] = "running"
    /\ bridgeCalls' = [bridgeCalls EXCEPT ![c] = "answered"]
    /\ UNCHANGED <<clientVars, idle, elapsed, outcome, closed, asked>>

\* A thinking or assistant frame: the model speaks, so what is still pending was
\* answered off the stream.
Resumed ==
    /\ Running = {}
    /\ Advance({}, NoCall)
    /\ asked' = {}
    /\ UNCHANGED <<bridgeCalls, turns, closed>>

\* Mutant of OtherFrame: progress rearms the cap too.
OtherFrameCap ==
    /\ Open
    /\ phase' \in Phases(pending, last)
    /\ idle' = 0 /\ elapsed' = 0
    /\ UNCHANGED <<bridgeCalls, pending, last, turns, outcome, closed, asked>>

\* Any other frame is progress; a keepalive or one that does not parse is not,
\* and is never seen here.
OtherFrame ==
    /\ Advance(pending, last)
    /\ UNCHANGED <<bridgeCalls, turns, closed, asked>>

\* The result and the end of the stream.
Done ==
    /\ Open /\ Running = {}
    /\ outcome' = "finished"
    /\ UNCHANGED <<bridgeCalls, clientVars, idle, elapsed, closed, asked>>

-------------------------------------------------------------------------------
WindowPassed == BoundedPhase(phase) /\ idle >= Inactivity
CapPassed == elapsed >= Cap

\* Time passes while no bound is due.
Tick ==
    /\ Open /\ ~WindowPassed /\ ~CapPassed
    /\ elapsed' = elapsed + 1
    /\ idle' = IF idle < Inactivity THEN idle + 1 ELSE idle
    /\ UNCHANGED <<bridgeCalls, clientVars, outcome, closed, asked>>

\* Deadlines::watch resolves: whichever of the bounds is due.
Deadline ==
    /\ Open
    /\ \/ WindowPassed /\ outcome' = "inactive"
       \/ CapPassed /\ outcome' = "timeout"
    /\ UNCHANGED <<bridgeCalls, clientVars, idle, elapsed, closed, asked>>

StreamNext ==
    \/ \E c \in Calls : Started(c) \/ Completed(c) \/ Dropped(c)
    \/ Resumed \/ OtherFrame \/ Done \/ Tick \/ Deadline

StreamSpec == StreamInit /\ [][StreamNext]_streamVars

\* Time passes and a bound that is due is seen; the bridge owes nothing.
StreamFairness == WF_streamVars(Tick) /\ SF_streamVars(Deadline)

FairStreamSpec == StreamSpec /\ StreamFairness

-------------------------------------------------------------------------------
\* Every variable keeps its type; no run outlives its cap.
StreamTypeOK ==
    /\ bridgeCalls \in [Calls -> {"no", "running", "answered"}]
    /\ pending \subseteq Calls /\ last \in Calls \cup {NoCall} /\ turns \subseteq Calls
    /\ phase \in {"opening", "tool", "shell", "model"}
    /\ idle \in 0 .. Inactivity /\ elapsed \in 0 .. Cap
    /\ outcome \in {"open", "finished", "inactive", "timeout"}

\* A run is ended as inactive only while it opens, or after the model asked for a
\* guest tool and before it spoke again: a terminal frame the bridge dropped never
\* makes the window bound a model that is composing after it spoke.
InactiveOnTool == outcome = "inactive" => phase = "opening" \/ asked # {}

\* A call whose terminal frame was read is not pending, result or none, so the
\* phase leaves it.
ClosedNotPending == pending \cap closed = {}

\* What the client makes of the stream at every moment.
StreamInv == StreamTypeOK /\ InactiveOnTool /\ ClosedNotPending

\* Nothing rearms the cap: a stream that never falls silent ends too.
RunEnds == <>(outcome # "open")

\* README: the inactivity window stands down while a shell command runs.
ShellStandsDown == outcome = "inactive" => Running \cap Shell = {}

==============================================================================
