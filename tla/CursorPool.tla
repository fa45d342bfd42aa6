------------------------------ MODULE CursorPool ------------------------------
(***************************************************************************)
(* The agent pool of the cursor backend: slots behind a fair semaphore, one *)
(* worker process per lease, and the callback tokens by which a worker's    *)
(* tool calls find their completion (pool.rs, worker.rs, callback.rs).      *)
(* A process is a child as SandboxChild describes it: asked to go or not,   *)
(* it exits, and its exit is published once it is gone.                     *)
(***************************************************************************)
EXTENDS Naturals, FiniteSets, SequencesExt

CONSTANTS
    Leases,     \* one for every attempt to acquire a lease
    AgentIds,   \* agent ids; every worker picks its own, so two may be equal
    MaxAgents,  \* ConnectOptions::max_agents
    MaxCalls,   \* bound: tool calls of all workers together
    None        \* no lease

ASSUME PoolAssumption ==
    /\ MaxAgents \in Nat \ {0} /\ MaxCalls \in Nat
    /\ IsFiniteSet(Leases) /\ None \notin Leases

VARIABLES
    queue,    \* acquirers waiting for a permit, in arrival order
    permits,  \* permits free
    stage,    \* where each lease stands
    proc,     \* the worker process of a lease
    watcher,  \* the task that waits for the exit and then drops permit and token
    refs,     \* who still holds the lease's Registration
    routes,   \* per registration, agent id -> the completion it leads to
    calls,    \* tool calls authorized and not yet dispatched
    made,     \* tool calls made so far
    reached   \* history: caller and completion reached, for every dispatched call

poolVars == <<queue, permits, stage, proc, watcher>>
callbackVars == <<refs, routes, calls, made, reached>>
vars == <<poolVars, callbackVars>>

Starts(at) ==
    /\ queue = <<>> /\ permits = MaxAgents
    /\ stage = [l \in Leases |-> at]
    /\ proc = [l \in Leases |-> "none"]
    /\ watcher = [l \in Leases |-> "none"]
    /\ refs = [l \in Leases |-> {}]
    /\ routes = [l \in Leases |-> [i \in AgentIds |-> None]]
    /\ calls = {} /\ made = 0 /\ reached = {}

Init == Starts("new")

\* A token is registered while its Registration is held.
Registered(l) == refs[l] # {}

-------------------------------------------------------------------------------
\* The session is prepared before any slot is waited for: one that is refused
\* costs no wait.
Prepare(l) ==
    /\ stage[l] = "new"
    /\ \/ stage' = [stage EXCEPT ![l] = "queued"] /\ queue' = Append(queue, l)
       \/ stage' = [stage EXCEPT ![l] = "gone"] /\ UNCHANGED queue
    /\ UNCHANGED <<permits, proc, watcher, callbackVars>>

\* acquire_owned: the semaphore serves its waiters in arrival order.
TakePermit(l) ==
    /\ queue # <<>> /\ Head(queue) = l
    /\ permits > 0
    /\ queue' = Tail(queue)
    /\ permits' = permits - 1
    /\ stage' = [stage EXCEPT ![l] = "permit"]
    /\ UNCHANGED <<proc, watcher, callbackVars>>

\* The completion is dropped while it waits: its waiter leaves the semaphore's list.
LeaveQueue(l) ==
    /\ stage[l] = "queued"
    /\ \E i \in DOMAIN queue : queue[i] = l /\ queue' = RemoveAt(queue, i)
    /\ stage' = [stage EXCEPT ![l] = "gone"]
    /\ UNCHANGED <<permits, proc, watcher, callbackVars>>

\* No token or no process: permit and registration are dropped with the call.
SpawnFails(l) ==
    /\ stage[l] = "permit"
    /\ stage' = [stage EXCEPT ![l] = "gone"]
    /\ permits' = permits + 1
    /\ UNCHANGED <<queue, proc, watcher, callbackVars>>

\* Registers, spawns, and hands permit and token to the watcher, with no await
\* in between.
Spawn(l) ==
    /\ stage[l] = "permit"
    /\ stage' = [stage EXCEPT ![l] = "handshake"]
    /\ proc' = [proc EXCEPT ![l] = "running"]
    /\ watcher' = [watcher EXCEPT ![l] = "waiting"]
    /\ refs' = [refs EXCEPT ![l] = {"lease", "watcher"}]
    /\ UNCHANGED <<queue, permits, routes, calls, made, reached>>

\* The ready line came and sdk.v1 answered.
HandshakeDone(l) ==
    /\ stage[l] = "handshake"
    /\ proc[l] = "running"
    /\ stage' = [stage EXCEPT ![l] = "leased"]
    /\ UNCHANGED <<queue, permits, proc, watcher, callbackVars>>

Asked(l) == IF proc[l] = "running" THEN "asked" ELSE proc[l]

\* Dropping the lease asks the process to go, and no more.
LetGo(l) ==
    /\ stage' = [stage EXCEPT ![l] = "gone"]
    /\ proc' = [proc EXCEPT ![l] = Asked(l)]
    /\ refs' = [refs EXCEPT ![l] = @ \ {"lease"}]
    /\ UNCHANGED <<queue, permits, watcher, routes, calls, made, reached>>

\* The handshake fails, times out or loses its process, or the completion is
\* dropped meanwhile: the process is killed with it.
HandshakeFails(l) == stage[l] = "handshake" /\ LetGo(l)

DropLease(l) == stage[l] = "leased" /\ LetGo(l)

\* The process goes, asked to or not, and its exit is published.
Exit(l) ==
    /\ proc[l] \in {"running", "asked"}
    /\ proc' = [proc EXCEPT ![l] = "exited"]
    /\ UNCHANGED <<queue, permits, stage, watcher, callbackVars>>

\* Mutant of DropPermit: only a lease still held gives its slot back.
DropPermitHeld(l) ==
    /\ watcher[l] = "waiting" /\ proc[l] = "exited" /\ stage[l] = "leased"
    /\ watcher' = [watcher EXCEPT ![l] = "token"]
    /\ permits' = permits + 1
    /\ UNCHANGED <<queue, stage, proc, callbackVars>>

\* The watcher sees the exit and drops the permit, then its token.
DropPermit(l) ==
    /\ watcher[l] = "waiting" /\ proc[l] = "exited"
    /\ watcher' = [watcher EXCEPT ![l] = "token"]
    /\ permits' = permits + 1
    /\ UNCHANGED <<queue, stage, proc, callbackVars>>

DropToken(l) ==
    /\ watcher[l] = "token" /\ proc[l] = "exited"
    /\ watcher' = [watcher EXCEPT ![l] = "done"]
    /\ refs' = [refs EXCEPT ![l] = @ \ {"watcher"}]
    /\ UNCHANGED <<queue, permits, stage, proc, routes, calls, made, reached>>

-------------------------------------------------------------------------------
\* The completion routes its agent's calls to itself.
Attach(l, i) ==
    /\ stage[l] = "leased"
    /\ \A j \in AgentIds : routes[l][j] = None
    /\ routes' = [routes EXCEPT ![l][i] = l]
    /\ UNCHANGED <<poolVars, refs, calls, made, reached>>

\* The Route is dropped, at the end of the teardown, after the lease.
Detach(l) ==
    /\ stage[l] = "gone"
    /\ \E i \in AgentIds : routes[l][i] # None
    /\ routes' = [routes EXCEPT ![l] = [i \in AgentIds |-> None]]
    /\ UNCHANGED <<poolVars, refs, calls, made, reached>>

\* A worker calls a tool for an agent, attached or not; the token it carries
\* selects the table.
Call(l) ==
    /\ proc[l] \in {"running", "asked"} /\ made < MaxCalls
    /\ made' = made + 1
    /\ \E i \in AgentIds :
         calls' = IF Registered(l)
                    THEN calls \cup {[from |-> l, id |-> i, n |-> made]} ELSE calls
    /\ UNCHANGED <<poolVars, refs, routes, reached>>

\* Mutant of Target: agents are looked up by their id alone.
TargetById(c) ==
    LET named == {l \in Leases : routes[l][c.id] # None}
    IN IF named = {} THEN None ELSE CHOOSE l \in named : TRUE

\* Where a call leads: the entry of its own worker's table.
Target(c) == routes[c.from][c.id]

\* The call is answered: by its completion's tool host, or as not_found.
Dispatch(c) ==
    /\ calls' = calls \ {c}
    /\ reached' = reached \cup (IF Target(c) = None THEN {} ELSE {<<c.from, Target(c)>>})
    /\ UNCHANGED <<poolVars, refs, routes, made>>

Next ==
    \/ \E l \in Leases :
         \/ Prepare(l) \/ TakePermit(l) \/ LeaveQueue(l) \/ SpawnFails(l) \/ Spawn(l)
         \/ HandshakeDone(l) \/ HandshakeFails(l) \/ DropLease(l)
         \/ Exit(l) \/ DropPermit(l) \/ DropToken(l)
         \/ Detach(l) \/ Call(l)
         \/ \E i \in AgentIds : Attach(l, i)
    \/ \E c \in calls : Dispatch(c)

Spec == Init /\ [][Next]_vars

\* The tasks are polled, the handshake and every run are bounded, and a process
\* asked to go goes (SandboxChild).  A process not asked owes nothing.
Fairness ==
    \A l \in Leases :
      /\ WF_vars(TakePermit(l))
      /\ WF_vars(Spawn(l) \/ SpawnFails(l))
      /\ WF_vars(HandshakeDone(l) \/ HandshakeFails(l))
      /\ WF_vars(DropLease(l)) /\ WF_vars(Detach(l))
      /\ WF_vars(proc[l] = "asked" /\ Exit(l))
      /\ WF_vars(DropPermit(l)) /\ WF_vars(DropToken(l))

FairSpec == Spec /\ Fairness

-------------------------------------------------------------------------------
Live(l) == proc[l] \in {"running", "asked"}
Holders == {l \in Leases : stage[l] = "permit" \/ watcher[l] = "waiting"}

\* Every variable keeps its type.
TypeOK ==
    /\ queue \in Seq(Leases) /\ permits \in 0 .. MaxAgents
    /\ stage \in [Leases -> {"new", "queued", "permit", "handshake", "leased", "gone"}]
    /\ proc \in [Leases -> {"none", "running", "asked", "exited"}]
    /\ watcher \in [Leases -> {"none", "waiting", "token", "done"}]
    /\ refs \in [Leases -> SUBSET {"lease", "watcher"}]
    /\ routes \in [Leases -> [AgentIds -> Leases \cup {None}]]
    /\ calls \subseteq [from : Leases, id : AgentIds, n : 0 .. MaxCalls]
    /\ made \in 0 .. MaxCalls
    /\ reached \subseteq Leases \X Leases

\* A permit is free, or held for one lease: none is lost and none is made,
\* however a lease ends.
PermitsConserved == permits + Cardinality(Holders) = MaxAgents

\* At most max_agents processes run at once, those of dropped leases that have
\* not gone yet included.
AtMostMaxAgents == Cardinality({l \in Leases : Live(l)}) <= MaxAgents

\* A live process keeps its callback token, also once its lease is dropped: no
\* call of a live worker is answered as unauthenticated.
TokenWhileLive == \A l \in Leases : Live(l) => Registered(l)

\* A tool call reaches the completion whose worker made it, or none, although
\* workers may give their agents equal ids.
OwnAgent == \A r \in reached : r[1] = r[2]

\* What holds of the pool and its callback at every moment: slots, tokens and
\* routes are each accounted for, however leases, exits and calls interleave.
PoolInv == TypeOK /\ PermitsConserved /\ AtMostMaxAgents /\ TokenWhileLive /\ OwnAgent

\* A completion that waits for a slot gets one, or gives up.
QueuedServed == \A l \in Leases : stage[l] = "queued" ~> stage[l] # "queued"

\* What a lease held is given back in the end: its token, its route, its permit.
GivenBack ==
    \A l \in Leases :
      stage[l] = "handshake" ~> (~Registered(l) /\ watcher[l] = "done"
                                   /\ \A i \in AgentIds : routes[l][i] = None)

===============================================================================
