----------------------------- MODULE KafkaOffsets -----------------------------
(***************************************************************************)
(* At-least-once offsets of the Kafka backend: the tracker shared by the   *)
(* delivery loop, the producer's delivery reports and the rebalance        *)
(* callbacks (consume.rs, tracker.rs, messaging.rs, lib.rs), with the      *)
(* parts of librdkafka and of the broker they talk to.                     *)
(*                                                                         *)
(* Every step is one critical section of the code.  In particular an       *)
(* offset is resolved under the tracker's lock and stored after the lock   *)
(* is released: `storing` holds the offsets between the two.               *)
(***************************************************************************)
EXTENDS Tracker, FiniteSets

CONSTANTS
    Partitions,     \* topic-partitions the group consumes
    LogEnd,         \* records in each partition: offsets 0 .. LogEnd - 1
    MaxPulls,       \* bound: records admitted in the life of a process
    MaxSends,       \* bound: sends numbered in the life of a process
    MaxRebalances,  \* bound: revocations in a behaviour
    MaxRestarts     \* bound: process ends in a behaviour

ASSUME BoundsAssumption ==
    /\ LogEnd \in Nat
    /\ MaxPulls \in Nat
    /\ MaxSends \in Nat
    /\ MaxRebalances \in Nat
    /\ MaxRestarts \in Nat

VARIABLES
    \* Tracker
    revoked,      \* partition -> revoked flag
    pending,      \* partition -> entries
    delivered,    \* every send numbered below it has a report
    outOfOrder,   \* reports above the watermark
    tickets,      \* next ticket
    \* Shared.sends and the live SendIds
    sends,        \* next send number
    sending,      \* numbers whose SendId is alive
    queued,       \* numbers handed to librdkafka, report outstanding
    \* delivery tasks
    polled,       \* record taken from the stream, not yet admitted (at most one)
    running,      \* pulls whose task may still call done
    returned,     \* pulls whose outcome is Ok, before `done` takes the lock
    failed,       \* a record failed: the loop takes no more records
    storing,      \* offsets resolved under the lock, not yet stored
    \* librdkafka and the broker
    owner,        \* partition -> "owned" | "revoking" | "other"
    position,     \* partition -> next offset the stream yields
    stored,       \* partition -> stored offset, 0 when there is none
    committed,    \* partition -> the group's committed offset
    \* history
    completions,  \* pulls of this process that returned Ok
    settled,      \* records done with every earlier send reported
    rebalances, restarts

trackerVars == <<revoked, pending, delivered, outOfOrder, tickets>>
sendVars    == <<sends, sending, queued>>
taskVars    == <<polled, running, returned, failed>>
kafkaVars   == <<owner, position, stored, committed>>
historyVars == <<completions, settled>>
boundVars   == <<rebalances, restarts>>
vars == <<trackerVars, sendVars, taskVars, storing, kafkaVars, historyVars, boundVars>>

Records     == [p: Partitions, offset: Nat]
Pulls       == [p: Partitions, offset: Nat, ticket: Nat]
Completions == [p: Partitions, offset: Nat, ticket: Nat, mark: Nat]
Stores      == [p: Partitions, offset: Nat, ticket: Nat, by: {"task", "producer"}]

-------------------------------------------------------------------------------
(***************************************************************************)
(* A record is settled when a pull of it is complete and no send numbered  *)
(* before its return is outstanding: what the README calls eligible.       *)
(***************************************************************************)
Eligible(compl, outstanding) ==
    {[p |-> c.p, offset |-> c.offset] :
        c \in {d \in compl : \A id \in outstanding : id >= d.mark}}

\* The stores a resolve of partition q returns, to be made by thread `by`.
StoresOf(q, pend, watermark, by) ==
    {[p |-> q, offset |-> e.offset, ticket |-> e.ticket, by |-> by] :
        e \in LastResolved(pend, watermark)}

Init ==
    /\ revoked = [p \in Partitions |-> FALSE]
    /\ pending = [p \in Partitions |-> {}]
    /\ delivered = 0 /\ outOfOrder = {} /\ tickets = 0
    /\ sends = 0 /\ sending = {} /\ queued = {}
    /\ polled = {} /\ running = {} /\ returned = {} /\ failed = FALSE
    /\ storing = {}
    /\ owner = [p \in Partitions |-> "other"]
    /\ position = [p \in Partitions |-> 0]
    /\ stored = [p \in Partitions |-> 0]
    /\ committed = [p \in Partitions |-> 0]
    /\ completions = {} /\ settled = {}
    /\ rebalances = 0 /\ restarts = 0

-------------------------------------------------------------------------------
(***************************************************************************)
(* The delivery loop                                                       *)
(***************************************************************************)

\* The stream yields the next record of an assigned partition.
Poll(p) ==
    /\ ~failed
    /\ polled = {}
    /\ owner[p] = "owned"
    /\ position[p] < LogEnd
    /\ tickets < MaxPulls
    /\ polled' = {[p |-> p, offset |-> position[p]]}
    /\ position' = [position EXCEPT ![p] = @ + 1]
    /\ UNCHANGED <<trackerVars, sendVars, running, returned, failed, storing,
                   owner, stored, committed, historyVars, boundVars>>

\* Delivery::admit: the tracker holds the offset before the task is spawned.
Admit(r) ==
    /\ r \in polled
    /\ polled' = {}
    /\ pending' = [pending EXCEPT
                     ![r.p] = Insert(@, revoked[r.p], r.offset, tickets)]
    /\ running' = running \cup {[p |-> r.p, offset |-> r.offset, ticket |-> tickets]}
    /\ tickets' = tickets + 1
    /\ UNCHANGED <<revoked, delivered, outOfOrder, sendVars, returned, failed,
                   storing, kafkaVars, historyVars, boundVars>>

\* handle, first check: the record is no longer this consumer's to deliver.
Skip(t) ==
    /\ t \in running
    /\ ~Holds(pending[t.p], t.offset, t.ticket)
    /\ running' = running \ {t}
    /\ UNCHANGED <<trackerVars, sendVars, polled, returned, failed, storing,
                   kafkaVars, historyVars, boundVars>>

\* The handler returned Ok, or the record was dropped as unreadable; the
\* number of sends is read before the tracker's lock is taken.
Return(t) ==
    /\ t \in running
    /\ running' = running \ {t}
    /\ LET c == [p |-> t.p, offset |-> t.offset, ticket |-> t.ticket, mark |-> sends]
       IN  /\ returned' = returned \cup {c}
           /\ completions' = completions \cup {c}
           /\ settled' = settled \cup Eligible({c}, sending \cup queued)
    /\ UNCHANGED <<trackerVars, sendVars, polled, failed, storing, kafkaVars, boundVars>>

\* The handler returned an error and the loop reaped it: the record is never
\* done and the loop takes no more records.  (The return itself is local to the
\* task; until the loop reaps it, other records are pulled and finish.)
Fail(t) ==
    /\ t \in running
    /\ running' = running \ {t}
    /\ failed' = TRUE
    /\ UNCHANGED <<trackerVars, sendVars, polled, returned, storing, kafkaVars,
                   historyVars, boundVars>>

\* Mutant of Done: the offset alone tells which entry is meant.
DoneByOffset(c) ==
    /\ c \in returned
    /\ returned' = returned \ {c}
    /\ LET pend == {IF e.offset = c.offset
                      THEN [e EXCEPT !.done = TRUE, !.sendsBefore = c.mark] ELSE e :
                      e \in pending[c.p]}
       IN  /\ pending' = [pending EXCEPT ![c.p] = Resolve(pend, delivered)]
           /\ storing' = storing \cup StoresOf(c.p, pend, delivered, "task")
    /\ UNCHANGED <<revoked, delivered, outOfOrder, tickets, sendVars, polled,
                   running, failed, kafkaVars, historyVars, boundVars>>

\* Tracker::done, under the lock.
Done(c) ==
    /\ c \in returned
    /\ returned' = returned \ {c}
    /\ IF Holds(pending[c.p], c.offset, c.ticket)
         THEN LET pend == SetDone(pending[c.p], c.offset, c.ticket, c.mark)
              IN  /\ pending' = [pending EXCEPT ![c.p] = Resolve(pend, delivered)]
                  /\ storing' = storing \cup StoresOf(c.p, pend, delivered, "task")
         ELSE UNCHANGED <<pending, storing>>
    /\ UNCHANGED <<revoked, delivered, outOfOrder, tickets, sendVars, polled,
                   running, failed, kafkaVars, historyVars, boundVars>>

\* Mutant of StoreOffset: adds one to an offset librdkafka adds one to.
StoreOffsetPlusOne(s) ==
    /\ s \in storing
    /\ storing' = storing \ {s}
    /\ stored' = IF owner[s.p] = "other" THEN stored
                 ELSE [stored EXCEPT ![s.p] = s.offset + 2]
    /\ UNCHANGED <<trackerVars, sendVars, taskVars, owner, position, committed,
                   historyVars, boundVars>>

\* Shared::store_offsets, after the lock.  librdkafka records offset + 1 and
\* refuses a partition it is not assigned, which is only logged.
StoreOffset(s) ==
    /\ s \in storing
    /\ storing' = storing \ {s}
    /\ stored' = IF owner[s.p] = "other" THEN stored
                 ELSE [stored EXCEPT ![s.p] = s.offset + 1]
    /\ UNCHANGED <<trackerVars, sendVars, taskVars, owner, position, committed,
                   historyVars, boundVars>>

-------------------------------------------------------------------------------
(***************************************************************************)
(* Sends                                                                   *)
(***************************************************************************)

\* Shared::next_send_id
NextSendId ==
    /\ sends < MaxSends
    /\ sends' = sends + 1
    /\ sending' = sending \cup {sends}
    /\ UNCHANGED <<trackerVars, queued, taskVars, storing, kafkaVars,
                   historyVars, boundVars>>

\* The producer took the record: its delivery report takes the number over.
Enqueue(id) ==
    /\ id \in sending
    /\ sending' = sending \ {id}
    /\ queued' = queued \cup {id}
    /\ UNCHANGED <<trackerVars, sends, taskVars, storing, kafkaVars,
                   historyVars, boundVars>>

\* Mutant of NoteDelivered: moves the watermark and resolves nothing.
NoteDeliveredOnly(id, by) ==
    /\ IF id < delivered
         THEN UNCHANGED <<delivered, outOfOrder>>
       ELSE IF id > delivered
         THEN outOfOrder' = outOfOrder \cup {id} /\ UNCHANGED delivered
       ELSE LET watermark == Advance(delivered, outOfOrder)
            IN  /\ delivered' = watermark
                /\ outOfOrder' = {m \in outOfOrder : m >= watermark}
    /\ settled' = settled \cup Eligible(completions, (sending \cup queued) \ {id})
    /\ UNCHANGED <<pending, storing, revoked, tickets, sends, taskVars, kafkaVars,
                   completions, boundVars>>

\* Tracker::note_delivered under the lock, then the stores it returns.
NoteDelivered(id, by) ==
    /\ IF id < delivered
         THEN UNCHANGED <<delivered, outOfOrder, pending, storing>>
       ELSE IF id > delivered
         THEN /\ outOfOrder' = outOfOrder \cup {id}
              /\ UNCHANGED <<delivered, pending, storing>>
       ELSE LET watermark == Advance(delivered, outOfOrder)
            IN  /\ delivered' = watermark
                /\ outOfOrder' = {m \in outOfOrder : m >= watermark}
                /\ pending' = [p \in Partitions |-> Resolve(pending[p], watermark)]
                /\ storing' = storing \cup
                     UNION {StoresOf(p, pending[p], watermark, by) : p \in Partitions}
    /\ settled' = settled \cup Eligible(completions, (sending \cup queued) \ {id})
    /\ UNCHANGED <<revoked, tickets, sends, taskVars, kafkaVars, completions, boundVars>>

\* Mutant of DropSendId: a refused send reports nothing.
DropSendIdSilently(id) ==
    /\ id \in sending
    /\ sending' = sending \ {id}
    /\ settled' = settled \cup Eligible(completions, (sending \cup queued) \ {id})
    /\ UNCHANGED <<trackerVars, sends, queued, taskVars, storing, kafkaVars,
                   completions, boundVars>>

\* SendId::drop without `queued`: librdkafka refused the record, or the send
\* was dropped in its retry sleep.
DropSendId(id) ==
    /\ id \in sending
    /\ sending' = sending \ {id}
    /\ NoteDelivered(id, "task")
    /\ UNCHANGED queued

\* DeliveryContext::delivery, acknowledged or given up, on the producer's one
\* polling thread: it stores what one report resolves before the next report.
DeliveryReport(id) ==
    /\ id \in queued
    /\ \A s \in storing : s.by # "producer"
    /\ queued' = queued \ {id}
    /\ NoteDelivered(id, "producer")
    /\ UNCHANGED sending

-------------------------------------------------------------------------------
(***************************************************************************)
(* Rebalances and commits                                                  *)
(***************************************************************************)

\* pre_rebalance(Revoke): the tracker forgets the partitions.
Revoke(S) ==
    /\ rebalances < MaxRebalances
    /\ S # {}
    /\ \A p \in S : owner[p] = "owned"
    /\ rebalances' = rebalances + 1
    /\ revoked' = [p \in Partitions |-> p \in S \/ revoked[p]]
    /\ pending' = [p \in Partitions |-> IF p \in S THEN {} ELSE pending[p]]
    /\ owner' = [p \in Partitions |-> IF p \in S THEN "revoking" ELSE owner[p]]
    /\ UNCHANGED <<delivered, outOfOrder, tickets, sendVars, taskVars, storing,
                   position, stored, committed, historyVars, restarts>>

\* The last commit of a partition being given up: what is stored, if higher.
CommitStored(p) == IF stored[p] > committed[p] THEN stored[p] ELSE committed[p]

\* librdkafka commits what is stored and gives the partition up.
Unassign(p) ==
    /\ owner[p] = "revoking"
    /\ committed' = [committed EXCEPT ![p] = CommitStored(p)]
    /\ stored' = [stored EXCEPT ![p] = 0]
    /\ owner' = [owner EXCEPT ![p] = "other"]
    /\ position' = [position EXCEPT ![p] = 0]
    /\ UNCHANGED <<trackerVars, sendVars, taskVars, storing, historyVars, boundVars>>

\* pre_rebalance(Assign), then fetching starts at the committed offset.  The
\* callback is served by the poll that would yield the next record.
Assign(S) ==
    /\ S # {}
    /\ ~failed
    /\ polled = {}
    /\ \A p \in S : owner[p] = "other"
    /\ revoked' = [p \in Partitions |-> p \notin S /\ revoked[p]]
    /\ owner' = [p \in Partitions |-> IF p \in S THEN "owned" ELSE owner[p]]
    /\ position' = [p \in Partitions |-> IF p \in S THEN committed[p] ELSE position[p]]
    /\ UNCHANGED <<pending, delivered, outOfOrder, tickets, sendVars, taskVars,
                   storing, stored, committed, historyVars, boundVars>>

\* The periodic commit: only an offset higher than the last one.
AutoCommit(p) ==
    /\ owner[p] # "other"
    /\ stored[p] > committed[p]
    /\ committed' = [committed EXCEPT ![p] = stored[p]]
    /\ UNCHANGED <<trackerVars, sendVars, taskVars, storing, owner, position,
                   stored, historyVars, boundVars>>

\* Another member of the group handles and commits a record of a partition
\* this process does not hold.
PeerCommit(p) ==
    /\ owner[p] = "other"
    /\ committed[p] < LogEnd
    /\ committed' = [committed EXCEPT ![p] = @ + 1]
    /\ settled' = settled \cup {[p |-> p, offset |-> committed[p]]}
    /\ UNCHANGED <<trackerVars, sendVars, taskVars, storing, owner, position,
                   stored, completions, boundVars>>

\* The process ends: everything but the broker's state is lost.  A clean
\* shutdown drops the client, whose consumer commits what it has stored; a
\* crash commits nothing.
Restart(clean) ==
    /\ restarts < MaxRestarts
    /\ restarts' = restarts + 1
    /\ revoked' = [p \in Partitions |-> FALSE]
    /\ pending' = [p \in Partitions |-> {}]
    /\ delivered' = 0 /\ outOfOrder' = {} /\ tickets' = 0
    /\ sends' = 0 /\ sending' = {} /\ queued' = {}
    /\ polled' = {} /\ running' = {} /\ returned' = {} /\ failed' = FALSE
    /\ storing' = {}
    /\ owner' = [p \in Partitions |-> "other"]
    /\ position' = [p \in Partitions |-> 0]
    /\ stored' = [p \in Partitions |-> 0]
    /\ completions' = {}
    /\ committed' = [p \in Partitions |->
                       IF clean /\ owner[p] # "other" THEN CommitStored(p) ELSE committed[p]]
    /\ UNCHANGED <<settled, rebalances>>

-------------------------------------------------------------------------------
TaskNext ==
    \/ \E p \in Partitions : Poll(p)
    \/ \E r \in polled : Admit(r)
    \/ \E t \in running : Skip(t)
    \/ \E t \in running : Return(t)
    \/ \E t \in running : Fail(t)
    \/ \E c \in returned : Done(c)
    \/ \E s \in storing : StoreOffset(s)

SendNext ==
    \/ NextSendId
    \/ \E id \in sending : Enqueue(id)
    \/ \E id \in sending : DropSendId(id)
    \/ \E id \in queued : DeliveryReport(id)

GroupNext ==
    \/ \E S \in SUBSET Partitions : Revoke(S)
    \/ \E p \in Partitions : Unassign(p)
    \/ \E S \in SUBSET Partitions : Assign(S)
    \/ \E p \in Partitions : AutoCommit(p)
    \/ \E p \in Partitions : PeerCommit(p)
    \/ \E clean \in BOOLEAN : Restart(clean)

Next == TaskNext \/ SendNext \/ GroupNext

Spec == Init /\ [][Next]_vars

\* What the code's scheduling guarantees: a spawned task runs, a guest that
\* hangs is timed out, a send is queued or refused, and librdkafka reports on
\* every queued record within message.timeout.ms.
Fairness ==
    /\ WF_vars(\E r \in polled : Admit(r))
    /\ \A t \in [p: Partitions, offset: 0 .. LogEnd - 1, ticket: 0 .. MaxPulls - 1] :
         WF_vars(Skip(t) \/ Return(t) \/ Fail(t))
    /\ WF_vars(\E c \in returned : Done(c))
    /\ WF_vars(\E s \in storing : StoreOffset(s))
    /\ \A id \in 0 .. MaxSends - 1 :
         WF_vars(Enqueue(id) \/ DropSendId(id)) /\ WF_vars(DeliveryReport(id))

FairSpec == Spec /\ Fairness

-------------------------------------------------------------------------------
(***************************************************************************)
(* Properties                                                              *)
(***************************************************************************)

\* Every variable keeps its type, offsets stay within the log and numbers
\* within their counters.
TypeOK ==
    /\ revoked \in [Partitions -> BOOLEAN]
    /\ pending \in [Partitions -> SUBSET Entry]
    /\ delivered \in Nat /\ outOfOrder \subseteq Nat
    /\ tickets \in Nat
    /\ sends \in Nat /\ sending \subseteq Nat /\ queued \subseteq Nat
    /\ polled \subseteq Records
    /\ running \subseteq Pulls
    /\ returned \subseteq Completions
    /\ failed \in BOOLEAN
    /\ storing \subseteq Stores
    /\ owner \in [Partitions -> {"owned", "revoking", "other"}]
    /\ position \in [Partitions -> Nat]
    /\ stored \in [Partitions -> Nat]
    /\ committed \in [Partitions -> Nat]
    /\ completions \subseteq Completions
    /\ settled \subseteq Records
    /\ rebalances \in Nat /\ restarts \in Nat

\* No loss: the group's committed offset never passes a record that no consumer
\* has completed with all its earlier sends reported, whatever order records
\* finish in, whenever stores are made, and across rebalances and restarts.
AtLeastOnce ==
    \A p \in Partitions : \A o \in 0 .. committed[p] - 1 :
        [p |-> p, offset |-> o] \in settled

\* Each number taken from the send counter is in exactly one place: its SendId
\* is alive, it is queued, its report came early, or the watermark has passed it.
\* A number reported twice or skipped would break this.
WatermarkExact ==
    /\ sending \cap queued = {}
    /\ (sending \cup queued) \cap outOfOrder = {}
    /\ \A n \in sending \cup queued \cup outOfOrder : delivered <= n /\ n < sends
    /\ delivered \notin outOfOrder
    /\ delivered <= sends
    /\ \A n \in delivered .. sends - 1 : n \in sending \cup queued \cup outOfOrder

\* An entry is only ever marked done by the very pull it stands for, with the
\* send count that pull read: after a revoke and a reassignment the completion
\* of the earlier pull of an offset does not stand in for the new one.
OwnPullDone ==
    \A p \in Partitions : \A e \in pending[p] :
        e.done => [p |-> p, offset |-> e.offset, ticket |-> e.ticket,
                   mark |-> e.sendsBefore] \in completions

\* Nothing resolvable is left behind: between critical sections the first entry
\* of a partition is always one that still waits, for its guest or for a send.
\* An entry that `done` or `note_delivered` overlooked would stay for good.
FrontWaits ==
    \A p \in Partitions : LeadingRun(pending[p], delivered) = {}

\* Nothing is skipped: every offset below the position of an owned partition is
\* settled, held by the tracker, or the record being admitted.
Gapless ==
    \A p \in Partitions : owner[p] = "owned" =>
        \A o \in 0 .. position[p] - 1 :
            \/ [p |-> p, offset |-> o] \in settled
            \/ \E e \in pending[p] : e.offset = o
            \/ [p |-> p, offset |-> o] \in polled

\* A completed pull with no earlier send outstanding is settled.
SettledComplete ==
    /\ returned \subseteq completions
    /\ Eligible(completions, sending \cup queued) \subseteq settled

\* What is held belongs to an owned partition and lies below its position, the
\* record being admitted last of all.
HeldOwned ==
    /\ \A p \in Partitions :
         /\ owner[p] = "owned" => ~revoked[p]
         /\ pending[p] # {} => owner[p] = "owned"
         /\ \A e \in pending[p] : e.offset < position[p]
    /\ \A r \in polled :
         /\ owner[r.p] = "owned" \/ revoked[r.p]
         /\ \A q \in polled : q = r
         /\ owner[r.p] = "owned" => /\ position[r.p] = r.offset + 1
                                    /\ \A e \in pending[r.p] : e.offset < r.offset

\* Neither an offset on its way to librdkafka nor one stored there passes a
\* record that is not settled.
StoresSettled ==
    /\ \A s \in storing : \A o \in 0 .. s.offset : [p |-> s.p, offset |-> o] \in settled
    /\ \A p \in Partitions : \A o \in 0 .. stored[p] - 1 : [p |-> p, offset |-> o] \in settled

\* The inductive invariant behind AtLeastOnce: the watermark tells which sends
\* are reported, entries are done only by their own pull, so whatever a resolve
\* removes is settled, and what it leaves below the resolved offset is nothing.
IInv ==
    /\ TypeOK
    /\ WatermarkExact
    /\ OwnPullDone
    /\ SettledComplete
    /\ HeldOwned
    /\ Gapless
    /\ StoresSettled
    /\ AtLeastOnce

\* The group's view of the consumer: what GroupCommits promises, with the same
\* settled records and committed offsets.
Group == INSTANCE GroupCommits

\* The consumer implements the promise: commits move forward only, over settled
\* records only, through every rebalance, late store and restart.
ImplementsGroup == Group!Spec

\* Every number a send takes is eventually below the watermark, unless the
\* process ends: no refused, dropped or reordered send stalls the commits.
SendsSettle ==
    \A id \in 0 .. MaxSends - 1 :
        (id < sends) ~> (id < delivered \/ sends = 0)

\* A record the tracker holds is eventually resolved or given up, unless some
\* record failed and ended the consumer.
HeldResolves ==
    \A p \in Partitions : \A o \in 0 .. LogEnd - 1 :
        (\E e \in pending[p] : e.offset = o)
            ~> (failed \/ ~\E e \in pending[p] : e.offset = o)

\* As README.md states it, a restart replays only what was not yet committed or
\* still waits: once a partition has nothing pending and no store outstanding,
\* everything pulled from it is stored or committed.
ReplayWindow ==
    \A p \in Partitions :
        /\ owner[p] = "owned"
        /\ pending[p] = {} /\ polled = {}
        /\ \A s \in storing : s.p # p
        => stored[p] = position[p] \/ committed[p] = position[p]

=============================================================================
