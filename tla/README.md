# A verification project for omnia-backends

TLA+ models of the parts of `omnia-backends` whose correctness depends on the
order in which tasks, threads, callbacks and processes act, the TLC runs that
check them, and theorems about them proved with TLAPS.

## The system

The repository is a set of backends for the omnia WASI host: each crate under
`crates/` connects to one service and implements one or more host interfaces
(messaging, key-value, blob store, JSON database, SQL, vault, identity, version
control, model). They share no state with each other, except that `cursor` and
`genai` run processes through `sandbox`.

| Component | State it keeps | Operations | What is hard | Correct when |
|---|---|---|---|---|
| `kafka` offset tracker (`tracker.rs`, `consume.rs`, `messaging.rs`, `lib.rs`) | pending records per partition, delivery watermark, early reports, tickets, send counter | insert, holds, done, note_delivered, revoke, assign, store_offsets, send | delivery tasks, the producer's thread and rebalance callbacks share it; offsets are stored outside its lock; restarts | nothing is committed past a record that is not done with its sends reported; nothing stalls |
| `kafka` delivery loop and lanes (`consume.rs`, `consume/lanes.rs`) | two semaphores, a task per record, a FIFO per key | run, admit, deliver, handle, enqueue, release, turn | two waits before a pull, parked records, failure, abort | a key is handled in order, permits are conserved, no record waits for good |
| `kafka` schema registry (`registry.rs`) | two caches of ready values and shared fetches | encode, decode, get_or_fetch | single flight with failing fetches and dropped callers | one fetch per key, one schema per key, failures not kept |
| `sandbox` child (`child.rs`) | supervisor task, stop channel, exit watch, stderr reader, session handle | spawn, stop, drop, exited, ready, fail_on_exit | exit, stop and drop race; forks; two timeouts that must fit | an exit is published after the sweep, always, and in time |
| `sandbox` one-shot (`child.rs`) | the process and its captured output | output, drop of the run | dropped at any await, forks holding pipes | nothing is left running, output is whole |
| `sandbox` session, proxy, kernel boundary | scratch directory, environment, listener, rules | prepare, command, tunnel | lifetime of scratch and proxy; per-connection decisions | outlives the processes of the session |
| `cursor` pool and worker (`pool.rs`, `worker.rs`) | permits, callback registrations | acquire, handshake, drop of a lease | slot and token must be held until the process is gone, however the lease ends | at most `max_agents` processes; a token never routes to another's agent |
| `cursor` agent, stream, callback, relay | conversation with the bridge | complete, tool calls, cancel | callbacks race the stream's end | every tool call is answered once |
| `genai` conversation (`conversation.rs`) | rounds, candidates, nudge, repeats | run, next_reply, exec_chat, tool_round | budgets and retries that interact | terminates within its budgets; every answer passed its check |
| `filesystem` key-value and blob stores | files and their expiry files | get, set, delete, keys, increment, cas | value and expiry are separate writes | cas and increment are atomic; expiry follows the value |
| `nats`, `redis` key-value | revisions or scripts at the server | increment, cas | other clients | no lost update |
| `azure-table` store | continuation tokens | query, insert, put | paging | each document once |
| `git` | a repository, its working copies and the gitdirs recorded for them | commit, merge, init, clone, add, remove, label, fetch, push; pins; glob | multi-command operations that fail half-way; a registry kept beside git's own | what is sealed is what the policy says; labels move under nobody; the host's programs alone run |
| `azure-blob`, `azure-vault`, `azure-id`, `mongodb`, `postgres`, `opentelemetry` | none between requests | one request each | nothing beyond the service | - |

The hazards behind the properties, each at its line, are in `PROJECT.json`.

## Modules

### kafka

`Tracker` holds the tracker's methods as operators on one partition's entries.
Its loops are given by what they compute (`LeadingRun` is what `resolve` pops,
`Advance` the first number without a report), so nothing is recursive and the
module can be proved about.

`KafkaOffsets` is the consumer around it. Each action is one critical section
or one step between two of them; the two sections that matter most are split as
in the code: `Return` (the handler returned and the send counter was read) and
`Done` (the tracker's lock), and `Done`/`NoteDelivered` (an offset is resolved)
and `StoreOffset` (it is stored, after the lock). Its variables are the fields
of `Tracker` and `Shared`, the tasks by what they may still do, and librdkafka
and the broker as the code uses them: a stored offset, a position and a
committed offset per partition. `librdkafka` commits a stored offset only if it
is higher than the last commit, refuses a store of a partition it is not
assigned, and starts an assigned partition at its committed offset. `settled`
and `completions` are history: a record is settled once some pull of it is
complete and no send numbered before its return is outstanding, computed from
the sends and never from the tracker, so that the properties can judge the
tracker. A send that the broker never acknowledges is reported too, and counts
(`docs/kafka-resilience.md`, condition 4), and so does a record no guest can
read.

`GroupCommits` is the promise to the consumer group without a consumer in it.
`KafkaOffsets!ImplementsGroup` is its specification under the identity mapping.

`KafkaDelivery` is the loop: its place and slot, the biased select, a task per
record with its stages in the order of `deliver` and `handle`, the lanes, the
drain at the end of the stream and the abort after a failure. Of the tracker it
keeps only which tickets are held.

`SchemaRegistry` is `get_or_fetch` with its two critical sections and the await
between them. A fetch advances only through a caller that polls it, and a caller
may be dropped only at that await.

### sandbox

`ProcessGroup` is what the kernel and tokio do (external to the repository);
`SandboxChild` and `OneShot` extend it. A fork may leave the group, which is why
the code bounds its waits on the pipes. `SandboxChild` counts ticks, because
`EXIT_WAIT` has to cover the supervisor's `EXIT_GRACE`: a tick passes only when
no step that waits on nothing is left.

`EgressProxy` is `proxy.rs`: a connection is accepted, its request read, its host
held to the grant, resolved, vetted against the denied ranges and the host's own
addresses, connected to one of the addresses that passed, and carried until
either side or the proxy goes. The host's addresses are read when the vetting
begins and may change after. What a name resolves to is a set: the code tries the
addresses in the order of the resolver's answer, which may be any.

`SandboxSession` extends it: `prepare` in its stages (the scratch; the working
directory; the roots a grant asks for, resolved through links and held to the
credential stores; the proxy; the environment), then the handles, commands and
processes that share the session, and its release with the last of them.

### cursor

`CursorPool` is the pool with its callback: the fair semaphore, spawn and
handshake, the watcher task that gives back slot and token when the process is
gone, the drop of a lease or of the acquiring completion at any await, the routes
and the tool calls that find them by token and agent id. A process is abstracted
to what `SandboxChild` shows of it.

`CursorAgent` is one completion (`complete` and everything of `agent.rs` under
it): create, open, follow, candidate, check, nudge and correction, settling with
cancel and usage, teardown on its own task, and the restart of `model.rs`. The
worker may exit, the guest may drop the completion, and tool calls arrive beside
the stream, at any time.

`RunStream` is what `stream.rs` reads off the frames and the two deadlines of
`follow`. The bridge may drop a terminal frame, which is why `resumed` exists.

### genai

`GenaiConversation` is a completion from its staging to its log line: rounds,
candidates, the nudge, the closing round, refused and cut calls, the transport's
retries, tools of the guest, the workspace and the shell, the repeat budget, and
the cap that ends it at any await. What is said is abstracted to whether a reply
is on shape, cut, or calls tools.

### key-value stores

`Entries` is an entry and what each operation makes of it. `ExpiringStore` extends
it to what a bucket promises: every operation takes effect at one moment between
its call and its answer, on entries that may expire (`Racy`: a swap may answer
that it lost a race). `Buckets` extends it to what the three implementations have
in common: clients with one call each, and the `terms` a behaviour is of.

`FileKeyValue` is the bucket on files: the registry of weak locks, an entry's two
files, each step of each operation under the lock, and, in the behaviours whose
terms let steps fail, a file step that fails and a process that dies (a listing
passes over an entry it cannot remove, any other operation is answered with the
error). `NatsKeyValue` is the bucket on a
JetStream: snapshot, conditional publish, retries, expiry with its marker, a
publish given up on that still arrives. `RedisKeyValue` is the bucket on Redis:
one command per operation, and the listing's several `SCAN`s. `KeyValue` holds the
three, of which a behaviour's terms name one. Each has the abstract store as a refinement with a mapping of its own: `Stands` is the entry a
reader would get, `UnderWay` the operation with the answer it has got to.

### git

`GitMerge`: commits and merges in one working copy, one git process per step,
with the policy's resolution of each ruled path. git is external: three-way
merges of trees with exact renames, and where both sides changed a content, a
conflict or a clean merge. A behaviour's `terms` are its revisions, what of
`Faults` may go wrong in it, and its bounds; a process that does not start or
refuses is no fault and is possible in all. `GitPins`: the configuration listing is parsed and built into the overrides, or
is not given, whatever the repository set, and the forced overrides alone apply; what
git makes of both together is external. `PinsInv` says what holds in either case and,
where the listing was read (`Read`), that every program is the host's; a finding says
what does not hold where it was not.

`GitCopies`: the registry of gitdirs against the git processes that lay, read, remove
and replace copies. Any number of operations follow one another at a place, and
nothing holds two apart; each may be refused by git, fail, or be dropped between any two
steps, and a guest lent the place rewrites or removes its `.git`, or empties the place, at any
moment. `create` forgets a place before git runs, whatever git then does. External is
how git finds a repository (through the `--git-dir` it is given, else the `.git` at the
root), that it lays a copy only in an empty place its repository has no record of, under
a gitdir named for both, and that `worktree remove` and `clone` refuse as they do. `clear`
is a history variable: whether a copy was laid where the registry led nowhere else and no other
call was still to change it, no `init` or `clone` was asked for since, and its `.git` was
left alone until `add` had read it. There `OwnGitdir` holds; two findings say what
happens elsewhere. `GitLabels`: label, fetch
and push against commits, other calls and others at the remote. `GitGlob`: the
policy's glob, a loop turn per step, checked against `Means`, the meaning of a
pattern given by quantifiers over where its pieces lie. `GitValues` is what they
share. `MCGit` extends the merges, the copies and the labels, and instantiates the
pins and the glob.

### Model-checking modules

A module `MC...` gives the constants. `MCKafkaLive`, `MCSandbox`, `MCCursorPool`,
`MCKeyValue` and `MCGit` hold several components: a behaviour is of one of them,
picked in the initial state, and the others stand still, so that their states add
up and do not multiply. Where two components are held by `EXTENDS`, the second one
names its initial states, steps and types after itself (`StreamInit`, `ShotNext`,
`ShotTypeOK`, `RegistryInit`, `LabelsNext`), and its properties are checked and
proved by one name. A property there is the component's own, by the name it has in
its module or as the conjunction the comment states. `CursorAgent`, the key-value
stores and `GitMerge` take what differs between behaviours from a set of terms, one
of which is picked in the initial state, for the same reason.

Definitions whose comment begins "Mutant of" are not used by the specification.
Each is a plausible bug in the operation it stands before and breaks one of the
properties; `PROJECT.json` pairs them.

## Runs

| Run | Shows | Bounds |
|---|---|---|
| `kafka_offsets` | no loss, exact watermark, tickets, the inductive invariant, refinement of `GroupCommits` | one partition, two records, three pulls, two sends, one revocation, one restart |
| `kafka_progress` | nothing resolvable is left behind with two partitions resolved by one report; sends settle, held records resolve | two partitions, two pulls, two sends |
| `kafka_delivery` | order per key until the loop fails, permits, lanes | two keys and none, two slots, four places, four records: a lane with a head and two parked behind it |
| `kafka_live` | every record reaped, a failure ends the loop; one fetch and one schema per key, failures forgotten, values kept, calls answered | one key and none, two slots, two places, three records; three calls, a subject, an id, three fetches |
| `sandbox` | exit after sweep, session held, asks heard, deaths reported; a one-shot leaves nothing and its output is whole; tunnels only to vetted addresses, no root in a credential store, the session there for exactly as long as it is held; everything ends | one fork, two stops, one call, grace of two ticks, shutdown; three writes, a cap of two; one connection, one command, two handles, twelve grants |
| `cursor_pool` | at most `MaxAgents` processes, a call reaches the completion whose token it carries, slots and tokens come back; a dropped frame never bounds a composing model, every stream ends | three leases, two slots, one agent id for all; two guest tools and a shell command, window of two ticks, cap of four |
| `cursor_agent` | the answer was accepted, sends bounded, a shown run cancelled, nothing billed twice; no restart after an answer, no agent left; every attempt ends | two attempts of one round, or one of two rounds and two tool calls |
| `genai` | rounds, candidates and nudges within budget; every call answered before the next request; counters true; it ends | four rounds, two candidates, two repeats, two calls a reply |
| `keyvalue` | one operation inside a key, no lost update, no double effect; files and Redis implement `ExpiringStore`, NATS too without expiries | two or three clients, three operations, one or two keys, one lost publish |
| `git` | merges, pins, copies, labels, glob as above | two paths, two revisions, three operations (one revision and two operations with faults); three settings, which may say nothing; one place, two repositories, two calls at a time and any number after one another; two labels, two calls; patterns of four bytes against paths of three |

The bounds are the smallest at which every interesting case occurs: two records
finish out of order, a third pull repeats an offset after a reassignment, two
sends are reported out of order; four records give a key with a head, two parked
records and a bystander; three calls give a failed fetch with a late waiter and
a caller who starts the next fetch; three leases give one that holds, one that
waits and one that is cancelled waiting; four rounds hold a nudge, a rejection
and a closing round; three clients on two keys are needed for the lock registry
to be pruned while one waits; two revisions for a merge to be mistaken for
another. Every action of every module fires in a passing run.
`CHECK_DEADLOCK FALSE` is set where the bounded behaviour really ends: the log is
read and every bound is used up, the process is gone, or every call is answered.

Symmetry is used in `kafka_delivery` (keys), `keyvalue` (clients) and `git` (what a
setting says, the calls at a place), which check no liveness.

### Where code and documentation disagree

Two runs check a statement of the repository and TLC refutes it.

- `kafka_replay_window`: two tasks resolve records 0 and 1 under the lock and
  store 1, then 0. The stored offset goes back, and a quiet partition keeps a
  settled record uncommitted, although `crates/kafka/README.md` bounds the
  replay. Nothing is lost (`NoLoss` holds); input is replayed.
- `cursor_tools_twice`: the worker calls a tool while the opening send is under
  way and is lost; the restart puts the prompt again, and the tool runs again,
  although `agent.rs` says that nothing the guest asked for has run.

More statements are written as definitions of the modules. Added to the cfg
named, each is refuted too.

| Definition | cfg | The statement, and what happens |
|---|---|---|
| `KeyStopsAtFailure` | `MCKafkaDelivery.cfg` | records of a key in offset order: `deliver` releases a failed record's lane before the loop reaps it, and the next record may reach the guest |
| `OneAtATime` | `MCKafkaDelivery.cfg` | records of a key one at a time: while the tasks are aborted, a parked one drops its lane and wakes the next before the head is aborted |
| `DeathNeverReset` | `MCSandbox.cfg` | a failure under a dying process is its death: while a stop's ask hangs nobody waits on the process, and the failure is returned after `EXIT_WAIT` |
| `NothingOutlives` | `MCSandbox.cfg` | nothing of a child outlives it: a dropped supervisor kills the leader and not its forks |
| `KillBeforeReap` | `MCSandbox.cfg` | the kill precedes the reap: a process that exits on its own is reaped first |
| `HardFailureEnds` | `MCCursorToolsTwice.cfg` | a hard tool failure ends the completion: a stream that ends first is answered |
| `CutShortCancelled` | `MCCursorToolsTwice.cfg` | an interrupted run is cancelled: not one whose id no frame has shown yet |
| `ErrorsTyped` | `MCCursorToolsTwice.cfg` | every error downcasts to a `Failure` or the budget: some are plain |
| `ShellStandsDown` | `MCCursorPool.cfg` | the inactivity window stands down while a shell command runs: a guest tool pending beside it keeps the window |
| `TransportAfterWaits` | `MCGenaiConversation.cfg` | only past the third wait is a transport failure the completion's: failures that are not retried end it at once |
| `RepeatsSameWay` | `MCGenaiConversation.cfg`, two `Reasons` | a call that fails the same way: the budget counts failures of the call, whatever their reason |
| `WritesAtomic` | `MCKeyValue.cfg` (PROPERTY) | writes are atomic: value and expiry are two files |
| `DeadlineKept` | `MCKeyValue.cfg` (PROPERTY) | the remaining time to live is carried over: it is at least a second from each publish |
| `NothingLeft` of `GitMerge` | `MCGit.cfg`, whose terms hold the faults | nothing of a failed merge stays in progress: the abort is best-effort, and a dropped future kills git |
| `MergedIsAsked` | `MCGit.cfg`, the terms with faults given both revisions | a merge is of the revision asked for: one left in progress is sealed by the next |
| `HostDriversKept` | `MCGit.cfg` | a driver is pinned to the operator's own value: it is emptied |
| `HostHelpersKept` | `MCGit.cfg` | credential programs are the host's as at a prompt: emptying one key's list empties the list of all |
| `NoRepoProgram` (and `HostAsAtPrompt`, `TransportHeld`) | `MCGit.cfg` | the repository's configuration cannot choose a program: where the listing itself fails, for one because it runs without the `--work-tree` of the later commands, those run under the forced pins alone |
| `CopyRemembered` | `MCGit.cfg` | a copy the client laid is addressed through the recorded gitdir: a `clone` that git refuses over it has forgotten it first |
| `RecordedAsLaid` | `MCGit.cfg` | what is recorded is what git laid the copy with: the gitdir is read by a later process, under what the registry and the `.git` say by then |

## Fairness

- `KafkaOffsets`: a spawned task runs to its end (the host times a hung guest
  out), a send is queued, refused or dropped, librdkafka reports on every queued
  record within `message.timeout.ms`. Nothing is assumed of the broker's commits,
  rebalances or the stream.
- `KafkaDelivery`: weak fairness for every task and the loop, strong fairness for
  the three waits on a semaphore, as tokio's semaphores serve waiters in order.
  The stream owes nothing. `EveryRecordReaped` needs at least two slots, since an
  idle loop holds one while it waits for the stream; the code has 64.
- `SchemaRegistry`: a caller that is not dropped is polled, and a request ends
  within the client's timeouts.
- `SandboxChild`, `OneShot`: the tasks are polled, a stop's `wait`, the bound and
  the graces are finite. The processes owe nothing, and need not exit.
- `EgressProxy`: an aborted server drops its connections. Peers owe nothing.
- `CursorPool`: a leaseholder ends (its completion is capped), a worker asked to
  go is killed by its supervisor (`SandboxEnds`), the watcher is polled.
- `CursorAgent`: the deadlines of every call to the bridge pass. The worker and
  the guest owe nothing.
- `RunStream`: time passes and a bound that is due is seen. The bridge owes
  nothing.
- `GenaiConversation`: the staging runs on, the timer fires, and the guest answers
  the check it is asked (the host bounds a guest call). The provider and the tools
  owe nothing.

## Proofs

`KafkaOffsetsProofs` proves about `KafkaOffsets`, for every value of its
constants (assumed only to be natural numbers):

- `Invariance`: `Spec => []IInv`, and from it `TypeCorrect`, `NoLoss`
  (`AtLeastOnce`), `NumbersAccounted` (`WatermarkExact`) and
  `TicketsTellPullsApart` (`OwnPullDone`);
- `Refinement`: the consumer implements `GroupCommits`.

`AtLeastOnce` is not inductive: a commit copies a stored offset, which came from
an offset resolved under the lock, which is right because of what the tracker
held at that moment. `IInv` follows that chain back. `StoresSettled` says that
offsets stored or on their way are settled all the way down. `Gapless` says that
every offset below an owned partition's position is settled, held, or being
admitted, so that a resolve leaves nothing behind it. `OwnPullDone` and
`SettledComplete` turn a done entry into a completed pull, `WatermarkExact` turns
`sends_before <= delivered` into "no earlier send outstanding", and `HeldOwned`
keeps what is held consistent with ownership across rebalances. The lemma
`RunSettled` combines them: what a resolve removes is settled. `AdvanceFirst`
shows that `Advance` is well defined and skips nothing. Each action has a lemma
with a step per conjunct it can disturb.

`KafkaDeliveryProofs` proves about `KafkaDelivery`, for any set of keys, any number
of records and any sizes of the two semaphores (assumed to be positive):

- `DeliveryInvariance`: `Spec => []IInv`, and from it `LanesKept` (`LanesInv`),
  `OrderPerKey` (`KeyOrder`) and `PermitsKept` (`PermitsConserved`).

`KeyOrder` is not inductive: `turn` looks only at the record just ahead. `Chained`
says what that record stands for: whatever of the key lies between the two has
dropped its lane, and `KeyOrder` of the record ahead covers the earlier ones
(`LaneTurn`). A pull appends to the chain only because the tail is the newest open
record of the key (`TailNewest`, used by `LanePull`), and a release that closes a
lane is right only because of `KeyOrder` (`LaneRelease`). The permits are counted
over the tasks' stages; `HoldingMoves` says how one task's move changes a count,
and the types of the two counters follow from the permits (`TypeStep`).

The order is proved until the loop fails and no further, since it does not hold
after: an aborted record in the middle of a lane drops the lane and wakes the
record behind it, whatever the head still does (`OneAtATime` above). After a
failure nothing more is pulled, and every task still standing is aborted.

`NothingLeftBehind` (`FrontWaits`, in `KafkaOffsetsProofs`) needs no more than `IInv`:
after each of the three critical sections that may complete a leading run, what
`resolve` leaves behind begins with a record that waits (`ResolveLeavesNoRun`), and
an insert puts its record, which is not done, behind or at the front
(`InsertLeavesNoRun`).

`KafkaDeliveryProofs` proves about `SchemaRegistry` too, for any calls, subjects, ids
and number of fetches (subjects and ids are disjoint, and there is one of either):

- `RegistryKept` (`RegistryInv`) and, as an action property, `ReadyForGood`
  (`SuccessKept`).

What is to be shown is not inductive: one schema per key speaks of callers that have
returned, long after the slot moved on. The invariant adds that a fetch belongs to one
key, for the cache and for whoever joined it (`FetchOfKey`), and that a fetch which
succeeded is the one the cache names for as long as anyone who joined it is there
(`SuccessServed`). That is what makes a late settle harmless.

`SandboxProofs` proves about `SandboxChild`, `OneShot` and `SandboxSession` (with its
`EgressProxy`), for any forks, stops, calls, writes, grace (positive) and cap, any grants,
addresses, interfaces that change, links, connections, commands and handles:

- `ChildKept` (`ChildInv`): `Swept` carries the sweep from the exit to the
  publication. The hard part is `DeathReported`: a caller waits `EXIT_WAIT`, twice
  `EXIT_GRACE`, for a supervisor that may itself wait `EXIT_GRACE` for the stderr.
  `WaitCovers` says that what is left of the one covers what is left of the other:
  until the reap no time passes (`TickOnlyForStderr`), and from then on both run down
  together. The theorem needs no more of the two bounds than that;
- `OutlivedOnlyByShutdown` and `ResetOnlyByStop`: two statements of the repository
  that do not hold as they stand (see above) hold outside a shutdown of the runtime,
  and where nobody asked for a stop;
- `OneShotKept` (`OneShotInv`): `Quiet` says that nothing of the group runs once a run
  has ended, drains, or saw its pipes end, so nothing is written from there on;
  `Conserved` that what was written is in the pipe or was captured;
- `SessionKept` (`SessionInv`): a tunnel is vetted at one step and connected at a later
  one, when the interfaces may have changed and other addresses failed. `ConnAt` holds
  what is left to try, and what is connected, to the request and the addresses it saw
  (`Passes`), and `TunnelVetted` turns that into where packets arrive. `StageSound` says
  that scratch and proxy are there for as long as the session has a holder, through
  every stage of the preparation and however it fails. `RootsSound` keeps what
  `read_root` found: a root overlaps no store; since two directories above one place
  are one above the other (`Above`), nothing beneath it lies in one.

  `AddressAssumption` is what the ranges are: loopback is in no other, and of the v6
  addresses that carry one of v4, only `::` and `::1` are in a range themselves and no
  interface holds another. `::1` is the one that needs care: it is compatible with
  `0.0.0.1`, which is in no range and which the code does not look at, as it classes `::1`
  itself. `Arrives` counts it all the same, so that the assumption has to say that no
  interface holds it; a packet to `::1` arrives at `::1`.

`CursorProofs` proves about `CursorPool` and `RunStream`, for any finite set of leases,
any agent ids, slots and tool calls:

- `PoolKept` (`PoolInv`): that no more than `MaxAgents` workers run follows from the
  permits by counting (`FiniteSetTheorems`), since a live worker's watcher holds one.
  `LeaseLife` ties a lease's worker to its watcher and token, `QueueOfWaiters` says that
  whoever is in the semaphore's queue is there once and waits, so that a permit handed
  on is not lost, and `OwnRoutes` that a registration's table leads to its own
  completion or nowhere, though agent ids may be equal;
- `StreamKept` (`StreamInv`): a window that passes ends the stream by its phase, which
  is computed from the pending calls; `ToolAsked` relates both to what the model asked
  for since it last spoke, and `ClosedAnswered` the frames read to the calls answered.

`CursorAgentProofs` proves about `CursorAgent`, for any number of attempts, rounds and tool
calls (positive, the last natural):

- `AgentKept` (`AgentInv`) and `RestartKept` (`RestartInv`).

All steps but two are of one attempt (`OneMoves`), so the invariant is a predicate of
one attempt, `Sound`, and the turns they take. `Counted` pays for every send with a
round or the nudge before it is made; `Named` follows an open run from the frame that
names it through the settling to the cancel; `Billed` says that the run being followed
is billed and not yet booked, which is why adding its usage does not exceed the bill;
`Tearing` follows the two calls of the teardown. A restart is safe because an
attempt starts only when those before it are over (`InTurn`) and an attempt still
opening has replied to nothing (`Opens`).

`GenaiConversationProofs` proves about `GenaiConversation`, for any sizes of its budgets and
any calls a reply may make:

- `BudgetsKept` (`BudgetsHeld`), `ChatKept` (`ChatSound`) and `CountsKept` (`CountsTrue`).

`CountsTrue` compares a counter with `TrailingFailures`, which chooses the last success
in a history. `Cut` names that place, `CutUnique` shows there is only one, and `CutOk`
and `CutFailure` how an outcome moves it; `CountsCut` is the counter in terms of it.
`Owing` says that the calls unanswered in the chat are those left of the batch, and
`Progress` bounds the replies by the candidates: two for each and one for the nudge.

`KeyValueProofs` proves about `KeyValue`, for any keys, any finite set of clients, any
operations, and any clock and number of publishes given up on (an operation is of the
shape its kind has, and "none" is no value):

- `StoresSound` (`StoreInv`). `OneInside` of the files rests on the registry of weak
  locks: `LocksRegistered` says that a lock somebody holds is the one registered for
  its key and for no other, which is what pruning could break, and `OneHolder` that a
  lock lets one client inside; both hold while file steps fail and the process dies.
  `AppliedOnce` of the stream rests on `OnceYet`: an operation's number is in its own
  hands or in those of a publish given up on, and in neither if the server took it.
  `ListingSound` rests on what each scan has returned, and on what was there since it began;
- `FilesAndServerImplement` (`BucketsLinearizable`): without faults each step of the files,
  and of the Redis server, is a step of `ExpiringStore` or none, expiries included. `LinAt`
  says, for each stage of an operation, what it has already done to the entry a reader
  would get;
- `StreamImplements` (`NatsLinearizable`): the same of the stream where no entry expires
  and no publish is given up on. `Fresh` says that a snapshot whose revision still
  stands is the entry, so a conditional publish takes effect on what was read.

`GitProofs` proves about `GitMerge`, `GitCopies` and `GitLabels`, for any paths, trees,
policies, places, repositories, labels, histories and numbers of calls:

- `MergeKept` (`MergeInv`): that the conflicts a merge hands back are named by no rule,
  whatever goes wrong. `ResolveInv` holds under every fault: what is left to resolve
  is ruled, and is every ruled path that is unmerged. Where steps fail but nothing is
  killed, dropped or lost, that a merge takes the revision asked for, leaves nothing in
  progress and keeps what the guest had pending. None of the three is inductive: a
  failure reaches the end through the probe and the abort, and `UnwindInv` says of each
  step that the merge in progress is the one asked for and that git can unwind it;
- `PolicyKept` (`SealedByPolicy`): `StagedInv` carries git's merge, and the rule's content
  of each path resolved, from the index to the commit. The lemma `ConflictsShared` (a
  conflict of git is a path both sides changed) is why a rule never meets a path the
  resolution cannot read from the commits;
- `CopiesKept` (`CopiesInv`), with no assumption on which operations overlap or what
  clones where. `OwnGitdir` speaks of copies `add` has answered for, but what it answers
  was fixed three steps earlier. `HoldsOwn` says, of each stage of an `add` on clear ground,
  that what it is about to read or record is the copy's own gitdir, and that no `remove`
  between its process and the registry is among the calls still to be recorded there;
  `ClearGround` that the registry and all those calls agree with what is on disk. Another
  call at the place cannot break it: git lays nothing over a copy, and whatever
  removes or replaces one ends the clear ground (`ClearStands` for every other step);
- `LabelsKept` (`LabelsInv`): a history is ordered by the sets closed under parents, so
  that it can be reasoned about without a recursive definition (`HistoriesNest`).

Every invariant above was checked by TLC on the bounds of its run before it was proved.
The assumptions on constants are named in the module that declares them, and TLC
evaluates them in the run of that module.

Only model-checked: every liveness property (fairness is beyond the prover); and
`GlobInv`, the glob against `Means`, and `PinsInv`, what the listing and the overrides
come to, which are inductions over data.

## Not modelled

The bytes of the wire format, message metadata, logging, counters and gauges;
the text of errors; the stderr tail. Poisoned locks and panics of a task.
`Rebalance::Error`. The Connect framing, the transcript and the relay's
forwarding in `cursor`. The kernel rules of the sandbox, which are built once
and have no state. A living process of the sandbox that closes its own stdout or
stderr, and a `wait` on it that fails. Which `http.*` settings are among the tuning keys and
the pack command of a local transport. A read of the NATS bucket answered by a replica that lags (a direct get of a
bucket with several; one the backend creates has one). Duplicates a `SCAN` may return. git's own behaviour beyond
what the modules state of it, and its read-only operations. The kafka
partitioner, a pure hash whose reference is outside the repository. The blob
stores, `azure-table`, `azure-vault`, `azure-id`, `mongodb`, `postgres` and
`opentelemetry`: one request per operation, nothing kept between requests, no
order of two requests to argue about. The examples and the test programs.

In `RedisKeyValue` a bucket whose identifier is a prefix of another's lists the
other's keys too, as the code does; `ListingSound` states that a listing misses
nothing that was there throughout, and names nothing that never was.

## Plan

1. `KafkaConsumer`: `KafkaOffsets` and `KafkaDelivery` composed, so that `held`
   and failure are those of the tracker.
2. Paging of the table store.
