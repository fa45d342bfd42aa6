---------------------------- MODULE RedisKeyValue ----------------------------
(***************************************************************************)
(* The Redis backend's buckets (crates/redis/src/keyvalue.rs): every        *)
(* operation but a listing is one command of the server, which it runs at   *)
(* once; a listing scans while others write.  A key is the sequence of the  *)
(* segments between its colons, its bucket's identifier first; identifiers  *)
(* hold no glob characters.  Time is in seconds.                            *)
(***************************************************************************)
EXTENDS Buckets, Sequences, SequencesExt

VARIABLES
    db,        \* the server: per key, its [val, exp]
    gathered,  \* per client, what its listing gathered
    scan       \* the server, per listing: the keys there [ever] and [always] since it
               \* began, and those it [returned]

\* A listing is of a bucket; what the server keeps of one is no absence.
ASSUME RedisAssumption ==
    /\ \A o \in CallsOf("redis") :
         o.kind = "keys" => None \notin {o, [kind |-> "listed", bucket |-> o.bucket]}
    /\ None \notin [ever : SUBSET Keys, always : SUBSET Keys, returned : SUBSET Keys]

redisOnly == <<db, gathered, scan>>
redisAll == <<bucketVars, redisOnly>>

\* set_ex counts whole seconds, at least one.
Seconds(ttl) == IF ttl = None \/ ttl >= 1 THEN ttl ELSE 1

\* The operation the server is sent.
Sent(o) == IF o.kind = "set" THEN [o EXCEPT !.ttl = Seconds(@)] ELSE o

RedisOps == {Sent(o) : o \in {p \in CallsOf("redis") : p.kind # "keys"}}

RedisUnderWay ==
    [c \in Clients |-> IF op[c] = None \/ scan[c] # None THEN None ELSE op[c]]

RedisStore == INSTANCE ExpiringStore WITH Racy <- FALSE, store <- db, op <- RedisUnderWay, Ops <- RedisOps

RedisInit ==
    /\ BucketInit("redis")
    /\ db = [k \in Keys |-> Absent]
    /\ gathered = [c \in Clients |-> {}] /\ scan = [c \in Clients |-> None]

There(t) == {k \in Keys : At(db[k], t) # Absent}

\* The scans under way after a step that leaves `there`.
Follow(there) ==
    scan' = [c \in Clients |->
               IF scan[c] = None THEN None
               ELSE [scan[c] EXCEPT !.ever = @ \cup there, !.always = @ \cap there]]

-------------------------------------------------------------------------------
RedisBegin(c) ==
    /\ op[c] = None /\ c \in terms.clients /\ begun < MaxOps
    /\ begun' = begun + 1
    /\ \E o \in terms.ops :
         /\ op' = [op EXCEPT ![c] = Sent(o)]
         /\ began' = [began EXCEPT ![c] = IF o.kind = "keys" THEN @ ELSE clock]
         /\ scan' = [scan EXCEPT ![c] =
              IF o.kind = "keys"
                THEN [ever |-> There(clock), always |-> There(clock), returned |-> {}]
                ELSE None]
    /\ UNCHANGED <<db, clock, ret, gathered>>

\* The CAS script: matched and written in one step, the time to live kept, the
\* answer {swapped, present, current}.
Swap(o, now) ==
    LET matches == IF o.expected # None THEN now.val # None /\ now.val = o.expected
                                        ELSE now.val = None
    IN  [entry |-> IF matches THEN [val |-> o.val, exp |-> now.exp] ELSE now,
         ret |-> IF matches THEN Answer("ok", None) ELSE Answer("conflict", now.val)]

\* GET, SET, SETEX, DEL and INCRBY as the server runs them.
Ran(o, now) ==
    CASE o.kind = "get" -> [entry |-> now, ret |-> Answer("ok", now.val)]
      [] o.kind = "set" -> [entry |-> [val |-> o.val, exp |-> IF o.ttl = None THEN None ELSE clock + o.ttl],
                            ret |-> Answer("ok", None)]
      [] o.kind = "delete" -> [entry |-> Absent, ret |-> Answer("ok", None)]
      [] o.kind = "increment" ->
           IF now.val = None THEN [entry |-> [val |-> 1, exp |-> None], ret |-> Answer("ok", 1)]
           ELSE IF now.val \in Counters
           THEN [entry |-> [now EXCEPT !.val = @ + 1], ret |-> Answer("ok", now.val + 1)]
           ELSE [entry |-> now, ret |-> Answer("error", None)]
      [] o.kind = "cas" -> Swap(o, now)

Serve(c) ==
    /\ RedisUnderWay[c] # None
    /\ LET r == Ran(op[c], At(db[op[c].key], clock)) IN
       /\ db' = [db EXCEPT ![op[c].key] = r.entry]
       /\ ret' = [ret EXCEPT ![c] = r.ret]
    /\ op' = [op EXCEPT ![c] = None]
    /\ Follow({k \in Keys : At(db'[k], clock) # Absent})
    /\ UNCHANGED <<clock, began, begun, gathered>>

-------------------------------------------------------------------------------
\* strip_bucket_prefix: the keys of the bucket, without its identifier.
Stripped(bucket, batch) ==
    {SubSeq(k, Len(bucket) + 1, Len(k)) : k \in {b \in batch : IsStrictPrefix(bucket, b)}}

RedisFinish(c) == op' = [op EXCEPT ![c] = [kind |-> "listed", bucket |-> @.bucket]]

\* A SCAN: a batch, perhaps of keys returned before, and the next cursor, zero once
\* every key that was there throughout has been returned.
ScanStep(c, batch, over) ==
    /\ op[c] # None /\ op[c].kind = "keys"
    /\ over => scan[c].always \subseteq scan[c].returned \cup batch
    /\ gathered' = [gathered EXCEPT ![c] = @ \cup Stripped(op[c].bucket, batch)]
    /\ IF over THEN RedisFinish(c) ELSE UNCHANGED op
    /\ scan' = [scan EXCEPT ![c].returned = @ \cup batch]
    /\ UNCHANGED <<db, clock, began, ret, begun>>

\* The listing is the caller's.
Listed(c) ==
    /\ op[c] # None /\ op[c].kind = "listed"
    /\ op' = [op EXCEPT ![c] = None]
    /\ gathered' = [gathered EXCEPT ![c] = {}] /\ scan' = [scan EXCEPT ![c] = None]
    /\ UNCHANGED <<db, clock, began, ret, begun>>

RedisTick ==
    /\ clock < terms.ticks /\ clock' = clock + 1
    /\ Follow(There(clock + 1))
    /\ UNCHANGED <<db, op, began, ret, begun, gathered>>

RedisNext ==
    /\ \/ \E c \in Clients : RedisBegin(c) \/ Serve(c) \/ Listed(c)
       \/ \E c \in Clients, batch \in SUBSET There(clock), over \in BOOLEAN : ScanStep(c, batch, over)
       \/ RedisTick
    /\ UNCHANGED terms

RedisSpec == RedisInit /\ [][RedisNext]_redisAll

-------------------------------------------------------------------------------
\* A listing names no key that was not of the bucket while it ran, and, once over,
\* every key of it that was there throughout, however others wrote meanwhile.
ListingSound ==
    \A c \in Clients :
        op[c] # None /\ op[c].kind \in {"keys", "listed"} =>
            /\ gathered[c] \subseteq Stripped(op[c].bucket, scan[c].ever)
            /\ op[c].kind = "listed" => Stripped(op[c].bucket, scan[c].always) \subseteq gathered[c]

==============================================================================
