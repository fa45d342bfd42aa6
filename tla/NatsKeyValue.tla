----------------------------- MODULE NatsKeyValue -----------------------------
(***************************************************************************)
(* The NATS backend's bucket (crates/nats/src/keyvalue.rs) over a JetStream *)
(* key-value stream: reads take the subject's last message, and a swap or   *)
(* an increment publishes on the condition that it still is the last.  The  *)
(* server expires an entry and leaves a marker, which expires too; a        *)
(* publish may be given up on and still arrive.  Time is in half seconds,   *)
(* a time to live in whole ones.  The stream has one replica, as a bucket   *)
(* the backend creates has, so that a read is of what was stored last.      *)
(***************************************************************************)
EXTENDS Buckets, Integers

CONSTANT
    MaxRetries  \* MAX_INCREMENT_RETRIES

\* A call under way, and a message of the stream.
Numbered == [id : Nat, call : Calls]
Messages ==
    [seq : Nat, val : Values \cup Nat \cup {None}, put : BOOLEAN, ttl : Nat \cup {None},
     at : Nat, exp : Nat \cup {None}]

ASSUME NatsAssumption ==
    /\ MaxRetries \in Nat \ {0} /\ CallsOf("stream") \subseteq Calls
    /\ None \notin Numbered /\ None \notin Messages

VARIABLES
    msg,      \* the server: per key, the subject's last message or None
    seq,      \* the server: the stream's last sequence
    awaits,   \* per client, what it awaits
    snap,     \* per client, its Snapshot
    wire,     \* per client, the publish it awaits
    tries,    \* per client, lost races of its increment
    late,     \* publishes given up on and not yet arrived
    lost,     \* how many were given up on
    applied   \* history: per operation, its publishes the server took

serverVars == <<msg, seq, applied>>
clientVars == <<op, began, ret, awaits, snap, wire, tries, begun>>
natsOnly == <<serverVars, awaits, snap, wire, tries, late, lost>>
natsAll == <<bucketVars, natsOnly>>

Second == 2
MarkerTtl == 1

\* The store the stream stands for.
NatsStands ==
    [k \in Keys |->
        IF msg[k] = None THEN Absent
        ELSE IF msg[k].put THEN [val |-> msg[k].val, exp |-> msg[k].exp] ELSE Absent]

NatsUnderWay == [c \in Clients |-> IF op[c] = None THEN None ELSE op[c].call]

\* What the bucket promises of entries without a time to live.
NatsStore == INSTANCE ExpiringStore WITH
    Racy <- TRUE, Ops <- CallsOf("stream"), store <- NatsStands, op <- NatsUnderWay

NatsInit ==
    /\ BucketInit("stream")
    /\ msg = [k \in Keys |-> None] /\ seq = 0
    /\ awaits = [c \in Clients |-> "idle"]
    /\ snap = [c \in Clients |-> None] /\ wire = [c \in Clients |-> None]
    /\ tries = [c \in Clients |-> 0]
    /\ late = {} /\ lost = 0
    /\ applied = [i \in 1 .. MaxOps |-> 0]

Await(c, p) == awaits' = [awaits EXCEPT ![c] = p]
Call(c) == op[c].call

NatsFinish(c, answer) ==
    /\ op' = [op EXCEPT ![c] = None]
    /\ ret' = [ret EXCEPT ![c] = answer]
    /\ wire' = [wire EXCEPT ![c] = None]
    /\ snap' = [snap EXCEPT ![c] = None]
    /\ tries' = [tries EXCEPT ![c] = 0]
    /\ Await(c, "idle")

-------------------------------------------------------------------------------
\* A publish: the revision it is conditioned on, if any, and its Nats-TTL header.
Publish(c, v, put, rev, ttl) ==
    /\ wire' = [wire EXCEPT ![c] =
         [id |-> op[c].id, kind |-> Call(c).kind, key |-> Call(c).key, val |-> v, put |-> put,
          rev |-> rev, ttl |-> ttl]]
    /\ Await(c, "ack")

\* A call: a set or a delete publishes without looking, the others look first.
NatsBegin(c) ==
    /\ awaits[c] = "idle" /\ c \in terms.clients /\ begun < MaxOps
    /\ begun' = begun + 1
    /\ began' = [began EXCEPT ![c] = clock]
    /\ \E o \in terms.ops : op' = [op EXCEPT ![c] = [id |-> begun + 1, call |-> o]]
    /\ Await(c, IF op'[c].call.kind \in {"set", "delete"} THEN "put" ELSE "look")
    /\ UNCHANGED <<serverVars, clock, ret, snap, wire, tries, late, lost>>

Put(c) ==
    /\ awaits[c] = "put"
    /\ IF Call(c).kind = "set"
         THEN Publish(c, Call(c).val, TRUE, None, Call(c).ttl)
         ELSE Publish(c, None, FALSE, None, None)
    /\ UNCHANGED <<serverVars, clock, op, began, ret, snap, tries, late, lost, begun>>

-------------------------------------------------------------------------------
\* KvBucket::snapshot: a marker, or a put past its time, reads as absent, but its
\* revision is the one a write is conditioned on.
Remaining(m) ==
    IF m.ttl = None THEN None
    ELSE LET left == m.ttl * Second - (clock - m.at) IN IF left > 0 THEN left ELSE 0

Snapshot(k) ==
    IF msg[k] = None THEN [rev |-> 0, val |-> None, ttl |-> None]
    ELSE LET m == msg[k]
             live == m.put /\ Remaining(m) # 0
         IN [rev |-> m.seq, val |-> IF live THEN m.val ELSE None,
             ttl |-> IF live THEN Remaining(m) ELSE None]

\* The operation looks: a read is answered, the others go on or are refused.
Look(c) ==
    /\ awaits[c] = "look"
    /\ LET s == Snapshot(Call(c).key)
           o == Call(c) IN
       \/ o.kind = "get" /\ NatsFinish(c, Answer("ok", s.val))
       \/ /\ o.kind = "increment" /\ ~Countable(s.val)
          /\ NatsFinish(c, Answer("error", None))
       \/ o.kind = "cas" /\ s.val # o.expected /\ NatsFinish(c, Answer("conflict", s.val))
       \/ /\ \/ o.kind = "increment" /\ Countable(s.val)
             \/ o.kind = "cas" /\ s.val = o.expected
          /\ snap' = [snap EXCEPT ![c] = s]
          /\ Await(c, "update")
          /\ UNCHANGED <<op, ret, wire, tries>>
    /\ UNCHANGED <<serverVars, clock, began, late, lost, begun>>

\* The header is in whole seconds, at least one.
HeaderTtl(left) ==
    IF left = None THEN None ELSE IF left \div Second >= 1 THEN left \div Second ELSE 1

\* Mutant of Revision: the write is not conditioned on what was read.
RevisionAny(s) == None

\* KvBucket::update's condition: the revision of the snapshot.
Revision(s) == s.rev

\* KvBucket::update with what the snapshot says.
Update(c) ==
    /\ awaits[c] = "update"
    /\ LET v == IF Call(c).kind = "increment" THEN AddOne(snap[c].val) ELSE Call(c).val
       IN Publish(c, v, TRUE, Revision(snap[c]), HeaderTtl(snap[c].ttl))
    /\ UNCHANGED <<serverVars, clock, op, began, ret, snap, tries, late, lost, begun>>

-------------------------------------------------------------------------------
LastSeq(k) == IF msg[k] = None THEN 0 ELSE msg[k].seq
Takes(m) == m.rev = None \/ m.rev = LastSeq(m.key)

\* The server takes a publish: it is the subject's last message.
Store(m) ==
    /\ seq' = seq + 1
    /\ msg' = [msg EXCEPT ![m.key] =
         [seq |-> seq + 1, val |-> m.val, put |-> m.put, ttl |-> m.ttl, at |-> clock,
          exp |-> IF m.ttl = None THEN None ELSE clock + m.ttl * Second]]
    /\ applied' = [applied EXCEPT ![m.id] = @ + 1]

\* The publish arrives and its acknowledgement with it.
Acked(c) ==
    /\ awaits[c] = "ack" /\ Takes(wire[c])
    /\ Store(wire[c])
    /\ NatsFinish(c, Answer("ok", IF Call(c).kind = "increment" THEN wire[c].val ELSE None))
    /\ UNCHANGED <<clock, began, late, lost, begun>>

\* WrongLastSequence: a swap looks at what won, an increment starts over while it
\* has tries left.
LostRace(c) ==
    /\ awaits[c] = "ack" /\ ~Takes(wire[c])
    /\ \/ /\ Call(c).kind = "cas" /\ Await(c, "won")
          /\ wire' = [wire EXCEPT ![c] = None] /\ snap' = [snap EXCEPT ![c] = None]
          /\ UNCHANGED <<op, ret, tries>>
       \/ /\ Call(c).kind = "increment" /\ tries[c] + 1 < MaxRetries /\ Await(c, "look")
          /\ wire' = [wire EXCEPT ![c] = None] /\ snap' = [snap EXCEPT ![c] = None]
          /\ tries' = [tries EXCEPT ![c] = @ + 1]
          /\ UNCHANGED <<op, ret>>
       \/ /\ Call(c).kind = "increment" /\ tries[c] + 1 >= MaxRetries
          /\ NatsFinish(c, Answer("error", None))
    /\ UNCHANGED <<serverVars, clock, began, late, lost, begun>>

Won(c) ==
    /\ awaits[c] = "won"
    /\ NatsFinish(c, Answer("conflict", Snapshot(Call(c).key).val))
    /\ UNCHANGED <<serverVars, clock, began, late, lost, begun>>

\* No acknowledgement in time: the operation fails, its publish may yet arrive.
GivenUp(c) ==
    /\ awaits[c] = "ack" /\ lost < terms.lost
    /\ lost' = lost + 1 /\ late' = late \cup {wire[c]}
    /\ NatsFinish(c, Answer("error", None))
    /\ UNCHANGED <<serverVars, clock, began, begun>>

Arrives(m) ==
    /\ late' = late \ {m}
    /\ IF Takes(m) THEN Store(m) ELSE UNCHANGED serverVars
    /\ UNCHANGED <<clock, clientVars, lost>>

-------------------------------------------------------------------------------
\* The server sweeps an entry past its time and leaves a marker, for a while.
Sweep(k) ==
    /\ msg[k] # None /\ msg[k].exp # None /\ clock >= msg[k].exp
    /\ \/ /\ msg[k].put /\ seq' = seq + 1
          /\ msg' = [msg EXCEPT ![k] =
               [seq |-> seq + 1, val |-> None, put |-> FALSE, ttl |-> None, at |-> clock,
                exp |-> clock + MarkerTtl]]
       \/ ~msg[k].put /\ msg' = [msg EXCEPT ![k] = None] /\ UNCHANGED seq
    /\ UNCHANGED <<applied, clock, clientVars, late, lost>>

NatsTick ==
    /\ clock < terms.ticks /\ clock' = clock + 1
    /\ UNCHANGED <<serverVars, clientVars, late, lost>>

NatsNext ==
    /\ \/ \E c \in Clients :
            NatsBegin(c) \/ Put(c) \/ Look(c) \/ Update(c) \/ Acked(c) \/ LostRace(c) \/ Won(c) \/ GivenUp(c)
       \/ \E m \in late : Arrives(m)
       \/ \E k \in Keys : Sweep(k)
       \/ NatsTick
    /\ UNCHANGED terms

NatsSpec == NatsInit /\ [][NatsNext]_natsAll

-------------------------------------------------------------------------------
\* Every variable keeps its type; an increment loses fewer races than it has tries.
NatsTypeOK ==
    /\ seq \in Nat /\ clock \in 0 .. terms.ticks /\ lost \in 0 .. terms.lost
    /\ \A k \in Keys : msg[k] # None => msg[k].seq \in 1 .. seq /\ msg[k].put \in BOOLEAN
    /\ awaits \in [Clients -> {"idle", "put", "look", "update", "ack", "won"}]
    /\ tries \in [Clients -> 0 .. MaxRetries - 1]

\* An operation takes effect at most once, through lost races and publishes given
\* up on that arrive late.
AppliedOnce == \A i \in 1 .. MaxOps : applied[i] <= 1

\* No entry has a time to live, and no publish is given up on.
Lasting == terms.lost = 0 /\ \A o \in terms.ops : o.kind = "set" => o.ttl = None

\* README: a swap or an increment carries the remaining time to live over, so the
\* entry goes no later than it would have.
DeadlineCarried ==
    \A c \in Clients :
        LET m == msg[Call(c).key]
            n == msg'[Call(c).key] IN
        awaits[c] = "ack" /\ Call(c).kind \in {"cas", "increment"} /\ applied'[op[c].id] > applied[op[c].id]
          => (m # None => (m.put /\ m.exp # None => n.exp # None /\ n.exp <= m.exp))

==============================================================================
