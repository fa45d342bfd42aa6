---------------------------- MODULE KafkaDelivery ----------------------------
(***************************************************************************)
(* The delivery loop of the Kafka backend (consume.rs `run`, `admit`,      *)
(* `deliver`, `handle`) and the per-key lanes (lanes.rs): who may run, in  *)
(* which order, within which bounds, and what a failed record does.        *)
(*                                                                         *)
(* Records are numbered by ticket in the order they are pulled.  Of the    *)
(* tracker only `holds` matters here: `held` is the set of tickets it      *)
(* still answers for, and a rebalance takes some away.                     *)
(***************************************************************************)
EXTENDS Integers, FiniteSets

CONSTANTS
    Keys,       \* record keys
    NoKey,      \* a record without a key
    InFlight,   \* IN_FLIGHT
    Backlog,    \* BACKLOG
    MaxRecords  \* bound: records the stream yields

ASSUME SizesAssumption ==
    /\ InFlight \in Nat \ {0}
    /\ Backlog \in Nat \ {0}
    /\ MaxRecords \in Nat
    /\ NoKey \notin Keys

Tickets == 0 .. MaxRecords - 1
NoTicket == -1

VARIABLES
    loop,      \* where `run` stands
    slots,     \* free permits of Delivery.slots
    places,    \* free permits of Delivery.backlog
    pulled,    \* records pulled so far
    key,       \* ticket -> its record's key
    stage,     \* ticket -> where its task stands
    outcome,   \* ticket -> what `handle` returned
    behind,    \* ticket -> the ticket its lane waits on
    tails,     \* key -> the last ticket of its lane
    held       \* tickets the tracker holds

vars == <<loop, slots, places, pulled, key, stage, outcome, behind, tails, held>>

LoopStates == {"place", "slot", "select", "drain", "returned", "failed"}
Stages == {"none", "turn", "slot", "ready", "decode", "guest", "drop", "release",
           "ended", "reaped", "aborted"}

\* Stages of a task that owns a permit of `slots`, and of `backlog`.
WithSlot  == {"ready", "decode", "guest", "drop"}
WithPlace == WithSlot \cup {"turn", "slot", "release"}
\* Stages at which the task has dropped its lane, waking the record behind.
LaneGone  == {"ended", "reaped", "aborted"}

Starts(at) ==
    /\ loop = at
    /\ slots = InFlight
    /\ places = Backlog
    /\ pulled = 0
    /\ key = [t \in Tickets |-> NoKey]
    /\ stage = [t \in Tickets |-> "none"]
    /\ outcome = [t \in Tickets |-> "ok"]
    /\ behind = [t \in Tickets |-> NoTicket]
    /\ tails = [k \in Keys |-> NoTicket]
    /\ held = {}

Init == Starts("place")

-------------------------------------------------------------------------------
(***************************************************************************)
(* The loop                                                                *)
(***************************************************************************)

TakePlace ==
    /\ loop = "place" /\ places > 0
    /\ places' = places - 1
    /\ loop' = "slot"
    /\ UNCHANGED <<slots, pulled, key, stage, outcome, behind, tails, held>>

TakeSlot ==
    /\ loop = "slot" /\ slots > 0
    /\ slots' = slots - 1
    /\ loop' = "select"
    /\ UNCHANGED <<places, pulled, key, stage, outcome, behind, tails, held>>

\* The loop leaves `select`: both permits are dropped.
LeaveSelect(next) ==
    /\ loop = "select"
    /\ loop' = next
    /\ slots' = slots + 1
    /\ places' = places + 1

\* Mutant of Reap: the outcome of a reaped record is not looked at.
ReapBlindly(t) ==
    /\ stage[t] = "ended"
    /\ LeaveSelect("place")
    /\ stage' = [stage EXCEPT ![t] = "reaped"]
    /\ UNCHANGED <<pulled, key, outcome, behind, tails, held>>

\* The select is biased: a finished record is reaped before the next pull.
Reap(t) ==
    /\ stage[t] = "ended"
    /\ LeaveSelect(IF outcome[t] = "ok" THEN "place" ELSE "failed")
    /\ stage' = [stage EXCEPT ![t] = "reaped"]
    /\ UNCHANGED <<pulled, key, outcome, behind, tails, held>>

NothingToReap == \A t \in Tickets : stage[t] # "ended"

\* Mutant of Admit: a record behind its key keeps its slot while it waits.
AdmitKeepingSlot(k) ==
    LET t     == pulled
        ahead == IF k = NoKey THEN NoTicket ELSE tails[k]
    IN  /\ key' = [key EXCEPT ![t] = k]
        /\ behind' = [behind EXCEPT ![t] = ahead]
        /\ tails' = [j \in Keys |-> IF j = k THEN t ELSE tails[j]]
        /\ stage' = [stage EXCEPT ![t] = IF ahead = NoTicket THEN "ready" ELSE "turn"]
        /\ slots' = slots
        /\ held' = held \cup {t}

\* Delivery::admit.  The lane is joined under its lock; a record behind another
\* of its key gives its slot back and waits.  Lanes::enqueue numbers the lanes;
\* the ticket serves as that number.
Admit(k) ==
    LET t     == pulled
        ahead == IF k = NoKey THEN NoTicket ELSE tails[k]
    IN  /\ key' = [key EXCEPT ![t] = k]
        /\ behind' = [behind EXCEPT ![t] = ahead]
        /\ tails' = [j \in Keys |-> IF j = k THEN t ELSE tails[j]]
        /\ stage' = [stage EXCEPT ![t] = IF ahead = NoTicket THEN "ready" ELSE "turn"]
        /\ slots' = IF ahead = NoTicket THEN slots ELSE slots + 1
        /\ held' = held \cup {t}

Pull(k) ==
    /\ loop = "select"
    /\ NothingToReap
    /\ pulled < MaxRecords
    /\ Admit(k)
    /\ pulled' = pulled + 1
    /\ loop' = "place"
    /\ UNCHANGED <<places, outcome>>

StreamEnds ==
    /\ NothingToReap
    /\ LeaveSelect("drain")
    /\ UNCHANGED <<pulled, key, stage, outcome, behind, tails, held>>

\* A fatal consumer error comes as the stream's next item.
FatalError ==
    /\ NothingToReap
    /\ LeaveSelect("failed")
    /\ UNCHANGED <<pulled, key, stage, outcome, behind, tails, held>>

\* After the stream's end the tasks left are joined; the first error returns.
DrainReap(t) ==
    /\ loop = "drain"
    /\ stage[t] = "ended"
    /\ stage' = [stage EXCEPT ![t] = "reaped"]
    /\ loop' = IF outcome[t] = "ok" THEN "drain" ELSE "failed"
    /\ UNCHANGED <<slots, places, pulled, key, outcome, behind, tails, held>>

DrainEnds ==
    /\ loop = "drain"
    /\ \A t \in Tickets : stage[t] \in {"none", "reaped"}
    /\ loop' = "returned"
    /\ UNCHANGED <<slots, places, pulled, key, stage, outcome, behind, tails, held>>

\* `run` returned an error: the JoinSet is dropped and aborts its tasks one by
\* one, at the await each one stands at.  Dropping a task's future drops its
\* lane and its permits, but leaves the tails alone.
Abort(t) ==
    /\ loop = "failed"
    /\ stage[t] \in {"turn", "slot", "ready", "decode", "guest"}
    /\ stage' = [stage EXCEPT ![t] = "aborted"]
    /\ slots' = IF stage[t] \in WithSlot THEN slots + 1 ELSE slots
    /\ places' = places + 1
    /\ UNCHANGED <<loop, pulled, key, outcome, behind, tails, held>>

-------------------------------------------------------------------------------
(***************************************************************************)
(* A record's task                                                         *)
(***************************************************************************)

Step(t, from, to) ==
    /\ stage[t] = from
    /\ stage' = [stage EXCEPT ![t] = to]

\* Lane::turn: the record ahead has dropped its lane, however it finished.
Turn(t) ==
    /\ behind[t] # NoTicket
    /\ stage[behind[t]] \in LaneGone
    /\ Step(t, "turn", "slot")
    /\ UNCHANGED <<loop, slots, places, pulled, key, outcome, behind, tails, held>>

TakeTaskSlot(t) ==
    /\ slots > 0
    /\ slots' = slots - 1
    /\ Step(t, "slot", "ready")
    /\ UNCHANGED <<loop, places, pulled, key, outcome, behind, tails, held>>

\* handle: a record the tracker no longer holds is skipped.
CheckHeld(t) ==
    /\ Step(t, "ready", IF t \in held THEN "decode" ELSE "drop")
    /\ UNCHANGED <<loop, slots, places, pulled, key, outcome, behind, tails, held>>

\* A record of a foreign topic, or one the registry rejects, is done unseen.
Discard(t) ==
    /\ Step(t, "decode", "drop")
    /\ held' = held \ {t}
    /\ UNCHANGED <<loop, slots, places, pulled, key, outcome, behind, tails>>

HandOver(t) ==
    /\ Step(t, "decode", "guest")
    /\ UNCHANGED <<loop, slots, places, pulled, key, outcome, behind, tails, held>>

\* The handler returned Ok: the tracker marks the record done.
GuestOk(t) ==
    /\ Step(t, "guest", "drop")
    /\ held' = held \ {t}
    /\ UNCHANGED <<loop, slots, places, pulled, key, outcome, behind, tails>>

\* The handler returned an error, trapped or timed out.
GuestErr(t) ==
    /\ Step(t, "guest", "drop")
    /\ outcome' = [outcome EXCEPT ![t] = "err"]
    /\ UNCHANGED <<loop, slots, places, pulled, key, behind, tails, held>>

\* The slot goes before the lane.
DropSlot(t) ==
    /\ Step(t, "drop", "release")
    /\ slots' = slots + 1
    /\ UNCHANGED <<loop, places, pulled, key, outcome, behind, tails, held>>

\* Mutant of Release: the lane is closed without asking whose it now is.
ReleaseAny(t) ==
    /\ Step(t, "release", "ended")
    /\ tails' = [k \in Keys |-> IF key[t] = k THEN NoTicket ELSE tails[k]]
    /\ places' = places + 1
    /\ UNCHANGED <<loop, slots, pulled, key, outcome, behind, held>>

\* Mutant of Release: the lane of the last record is left behind.
ReleaseNone(t) ==
    /\ Step(t, "release", "ended")
    /\ tails' = tails
    /\ places' = places + 1
    /\ UNCHANGED <<loop, slots, pulled, key, outcome, behind, held>>

\* Lanes::release under its lock, then the lane and the place are dropped.
Release(t) ==
    /\ Step(t, "release", "ended")
    /\ tails' = [k \in Keys |-> IF key[t] = k /\ tails[k] = t THEN NoTicket ELSE tails[k]]
    /\ places' = places + 1
    /\ UNCHANGED <<loop, slots, pulled, key, outcome, behind, held>>

\* A rebalance takes records away from the tracker.
Revoke(S) ==
    /\ S # {} /\ S \subseteq held
    /\ held' = held \ S
    /\ UNCHANGED <<loop, slots, places, pulled, key, stage, outcome, behind, tails>>

-------------------------------------------------------------------------------
LoopNext ==
    \/ TakePlace
    \/ TakeSlot
    \/ \E t \in Tickets : Reap(t)
    \/ \E k \in Keys \cup {NoKey} : Pull(k)
    \/ StreamEnds
    \/ FatalError
    \/ \E t \in Tickets : DrainReap(t)
    \/ DrainEnds

Handle(t) == CheckHeld(t) \/ Discard(t) \/ HandOver(t) \/ GuestOk(t) \/ GuestErr(t)

TaskNext ==
    \/ \E t \in Tickets : Turn(t)
    \/ \E t \in Tickets : TakeTaskSlot(t)
    \/ \E t \in Tickets : Handle(t)
    \/ \E t \in Tickets : DropSlot(t)
    \/ \E t \in Tickets : Release(t)
    \/ \E t \in Tickets : Abort(t)

Next == LoopNext \/ TaskNext \/ \E S \in SUBSET held : Revoke(S)

Spec == Init /\ [][Next]_vars

\* The loop and every spawned task keep being polled, a hung guest is timed out
\* by the host, and a tokio semaphore serves its waiters in turn.  The stream
\* owes nothing: no fairness on Pull, StreamEnds and FatalError.
Fairness ==
    /\ SF_vars(TakePlace) /\ SF_vars(TakeSlot)
    /\ WF_vars(\E t \in Tickets : Reap(t) \/ DrainReap(t))
    /\ \A t \in Tickets :
         /\ WF_vars(Turn(t))
         /\ SF_vars(TakeTaskSlot(t))
         /\ WF_vars(Handle(t) \/ DropSlot(t) \/ Release(t))

FairSpec == Spec /\ Fairness

-------------------------------------------------------------------------------
(***************************************************************************)
(* Properties                                                              *)
(***************************************************************************)

\* Types, and exactly the tickets beyond the last pull are without a task.
TypeOK ==
    /\ loop \in LoopStates
    /\ slots \in 0 .. InFlight
    /\ places \in 0 .. Backlog
    /\ pulled \in 0 .. MaxRecords
    /\ key \in [Tickets -> Keys \cup {NoKey}]
    /\ stage \in [Tickets -> Stages]
    /\ outcome \in [Tickets -> {"ok", "err"}]
    /\ behind \in [Tickets -> Tickets \cup {NoTicket}]
    /\ tails \in [Keys -> Tickets \cup {NoTicket}]
    /\ held \subseteq Tickets
    /\ \A t \in Tickets : t >= pulled <=> stage[t] = "none"

SameKey(t, u) == key[t] = key[u] /\ key[t] # NoKey

\* Records sharing a key are handled one at a time in pull order until the loop
\* fails: a record is past its turn only when every earlier record of its key has
\* dropped its lane, also after its partition was revoked.
KeyOrder ==
    loop # "failed" =>
        \A t, u \in Tickets :
            /\ t < u
            /\ SameKey(t, u)
            /\ stage[u] \notin {"none", "turn"}
            => stage[t] \in LaneGone

Holding(P) == {t \in Tickets : stage[t] \in P}

\* No permit is lost or made up on any path through the loop and the tasks, so
\* at most InFlight records are with the host and Backlog are pulled.
PermitsConserved ==
    /\ slots + Cardinality(Holding(WithSlot))
             + (IF loop = "select" THEN 1 ELSE 0) = InFlight
    /\ places + Cardinality(Holding(WithPlace))
              + (IF loop \in {"slot", "select"} THEN 1 ELSE 0) = Backlog

\* A lane's tail is the newest record of its key that has not released it, and a
\* key whose records are all released has no lane: two records cannot both be
\* heads, and no lane outlives its records.  After a failure nobody joins a lane.
TailNewest ==
    loop # "failed" =>
        \A k \in Keys :
            LET open == {t \in Tickets : key[t] = k /\ stage[t] \in WithPlace}
            IN  /\ \A t \in open : t <= tails[k]
                /\ tails[k] # NoTicket => tails[k] \in open

\* A parked record waits on an earlier record of its key, and whatever of the key
\* lies between the two has dropped its lane: waiting on the one is waiting on all.
Chained ==
    loop # "failed" =>
        \A t \in Tickets :
            /\ stage[t] # "aborted"
            /\ stage[t] = "turn" =>
                 /\ behind[t] \in Tickets /\ behind[t] < t /\ SameKey(behind[t], t)
                 /\ \A v \in Tickets :
                      behind[t] < v /\ v < t /\ SameKey(v, t) => stage[v] \in LaneGone

\* The lanes as the loop keeps them: typed, a tail for each key in turn, a chain
\* behind it.
LanesInv == TypeOK /\ TailNewest /\ Chained

\* Every record pulled is eventually reaped, unless the loop fails: nothing waits
\* for good on its key, on a slot, or on the loop holding the last slot idle.
EveryRecordReaped ==
    \A t \in Tickets :
        (stage[t] # "none") ~> (stage[t] = "reaped" \/ loop = "failed")

\* A record that failed eventually ends the loop, wherever the loop is waiting.
FailureEndsLoop ==
    \A t \in Tickets :
        (stage[t] = "ended" /\ outcome[t] = "err") ~> (loop = "failed")

\* As kafka-resilience.md states it, records sharing a key are handled in offset
\* order: a record is not handed to the guest over an earlier one of its key that
\* failed and has still to be handled again.
KeyStopsAtFailure ==
    \A t, u \in Tickets :
        t < u /\ SameKey(t, u) /\ outcome[t] = "err" => stage[u] # "guest"

\* As it states too, one at a time: also while the tasks are aborted, in whatever
\* order, no two records of a key are with the guest.
OneAtATime ==
    \A t, u \in Tickets :
        t # u /\ SameKey(t, u) => ~(stage[t] = "guest" /\ stage[u] = "guest")

=============================================================================
