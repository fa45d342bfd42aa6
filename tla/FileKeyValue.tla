----------------------------- MODULE FileKeyValue -----------------------------
(***************************************************************************)
(* The filesystem backend's bucket (crates/filesystem/src/keyvalue.rs): a   *)
(* key's value and its expiry are two files, each replaced by an atomic     *)
(* rename, and every operation holds the key's lock over its file steps.    *)
(* Locks live in a registry of weak references.  Where the terms say so, a  *)
(* file step may fail and the process may die, which the code cannot undo.  *)
(***************************************************************************)
EXTENDS Buckets

VARIABLES
    val,     \* <root>/keyvalue: per key, the value's file
    exp,     \* <root>/keyvalue-ttl: per key, the expiry's file
    pc,      \* per client, the next file step
    weak,    \* KeyLocks: per key, the lock last registered, 0 for none
    handle,  \* per client, the lock it holds a strong reference to
    saved,   \* per client, the key's entry when it took the lock
    got,     \* per client, the value it read
    cands    \* per client, keys collected and not yet looked at

fileVars == <<val, exp>>
lockVars == <<weak, handle>>
fileOnly == <<fileVars, pc, lockVars, saved, got, cands>>
fileAll == <<bucketVars, fileOnly>>

\* A listing is called on no key, and is at one after the other.
FileCalls == Calls \cup [kind : {"keys"}, key : Keys]

ASSUME FileAssumption == CallsOf("files") \subseteq FileCalls /\ None \notin FileCalls

OnDisk(k) == Entry(val[k], exp[k])

\* The store the files stand for.  A key between two file steps stands as it did
\* when its lock was taken; a listing is no operation of the store's.
FileStands ==
    [k \in Keys |->
        LET mid == {c \in Clients : pc[c] \in {"evict", "sweep", "ttl"} /\ op[c].key = k}
        IN IF mid # {} THEN saved[CHOOSE c \in mid : TRUE]
           ELSE OnDisk(k)]

FileUnderWay ==
    [c \in Clients |-> IF op[c] = None THEN None ELSE IF op[c].kind = "keys" THEN None ELSE op[c]]

FileOps == {o \in CallsOf("files") : o.kind # "keys"}

\* What the bucket promises.
FileStore == INSTANCE ExpiringStore WITH
    Racy <- FALSE, Ops <- FileOps, store <- FileStands, op <- FileUnderWay

FileInit ==
    /\ BucketInit("files")
    /\ val = [k \in Keys |-> None] /\ exp = [k \in Keys |-> None]
    /\ pc = [c \in Clients |-> "idle"]
    /\ weak = [k \in Keys |-> 0] /\ handle = [c \in Clients |-> 0]
    /\ saved = [c \in Clients |-> Absent]
    /\ got = [c \in Clients |-> None]
    /\ cands = [c \in Clients |-> {}]

Inside(c) == pc[c] \notin {"idle", "lock", "collect", "next"}
FileGoto(c, p) == pc' = [pc EXCEPT ![c] = p]

-------------------------------------------------------------------------------
Alive(l) == l # 0 /\ \E c \in Clients : handle[c] = l

\* Mutant of KeyLock: the registry drops every other key's lock.
KeyLockClears(c, k) ==
    IF Alive(weak[k])
      THEN /\ handle' = [handle EXCEPT ![c] = weak[k]]
           /\ UNCHANGED weak
      ELSE LET lock == CHOOSE l \in 1 .. Cardinality(Clients) : ~Alive(l) IN
           /\ handle' = [handle EXCEPT ![c] = lock]
           /\ weak' = [j \in Keys |-> IF j = k THEN lock ELSE 0]

\* FsBucket::key_lock: the key's lock while anyone holds it; otherwise a new one,
\* and the entries of locks nobody holds are dropped.
KeyLock(c, k) ==
    IF Alive(weak[k])
      THEN /\ handle' = [handle EXCEPT ![c] = weak[k]]
           /\ UNCHANGED weak
      ELSE LET lock == CHOOSE l \in 1 .. Cardinality(Clients) : ~Alive(l) IN
           /\ handle' = [handle EXCEPT ![c] = lock]
           /\ weak' = [j \in Keys |-> IF j = k THEN lock ELSE IF Alive(weak[j]) THEN weak[j] ELSE 0]

\* An operation is called: it takes its key's lock handle, a listing none yet.
FileBegin(c) ==
    /\ pc[c] = "idle" /\ c \in terms.clients /\ begun < MaxOps
    /\ begun' = begun + 1
    /\ \E o \in terms.ops :
         /\ op' = [op EXCEPT ![c] = o]
         /\ \/ o.kind = "keys" /\ FileGoto(c, "collect") /\ UNCHANGED <<lockVars, began>>
            \/ /\ o.kind # "keys" /\ FileGoto(c, "lock") /\ KeyLock(c, o.key)
               /\ began' = [began EXCEPT ![c] = clock]
    /\ UNCHANGED <<fileVars, clock, ret, saved, got, cands>>

\* What may be found of a key once the operation let its lock go.
May(o, e, from) ==
    IF o.kind = "keys" THEN {e, Absent}
    ELSE {e, Absent} \cup {Effect(o, e, t).entry : t \in from .. terms.ticks}
         \cup {Effect(o, Absent, t).entry : t \in from .. terms.ticks}

First(o) == CASE o.kind = "set" -> "write" [] o.kind = "delete" -> "evict" [] OTHER -> "check"

\* The mutex is free: its holder goes inside.
Lock(c) ==
    /\ pc[c] = "lock"
    /\ \A d \in Clients : Inside(d) => handle[d] # handle[c]
    /\ FileGoto(c, First(op[c]))
    /\ saved' = [saved EXCEPT ![c] = OnDisk(op[c].key)]
    /\ UNCHANGED <<fileVars, clock, op, began, ret, lockVars, got, cands, begun>>

\* What an operation held and had read goes with its lock.
Release(c) ==
    /\ handle' = [handle EXCEPT ![c] = 0]
    /\ saved' = [saved EXCEPT ![c] = Absent] /\ got' = [got EXCEPT ![c] = None]

\* The operation ends: its guard and its handle go.
FileFinish(c, answer) ==
    /\ op' = [op EXCEPT ![c] = None]
    /\ ret' = [ret EXCEPT ![c] = answer]
    /\ Release(c)
    /\ FileGoto(c, "idle")

\* A listing lets the key go and turns to the next.
NextKey(c) ==
    /\ Release(c)
    /\ FileGoto(c, "next")
    /\ UNCHANGED <<op, ret>>

\* With the live value v read: what the operation does with it.
Decide(c, v) ==
    LET o == op[c] IN
    CASE o.kind = "get" -> FileFinish(c, Answer("ok", v))
      [] o.kind = "keys" -> NextKey(c)
      [] o.kind = "delete" -> FileFinish(c, Answer("ok", None))
      [] o.kind = "increment" /\ ~Countable(v) -> FileFinish(c, Answer("error", None))
      [] o.kind = "cas" /\ v # o.expected -> FileFinish(c, Answer("conflict", v))
      [] OTHER -> /\ FileGoto(c, "write") /\ got' = [got EXCEPT ![c] = v]
                  /\ UNCHANGED <<op, ret, handle, saved>>

-------------------------------------------------------------------------------
\* is_expired.
Expired(k) == exp[k] # None /\ clock >= exp[k]

CheckExpiry(c) ==
    /\ pc[c] = "check"
    /\ LET k == op[c].key IN
       \/ Expired(k) /\ FileGoto(c, "evict") /\ UNCHANGED <<op, ret, handle, saved, got>>
       \/ ~Expired(k) /\ op[c].kind = "keys" /\ NextKey(c)
       \/ ~Expired(k) /\ op[c].kind # "keys" /\ FileGoto(c, "read") /\ UNCHANGED <<op, ret, handle, saved, got>>
    /\ UNCHANGED <<fileVars, clock, began, weak, cands, begun>>

\* remove_entry: the expiry's file first, then the value's.
EvictTtl(c) ==
    /\ pc[c] = "evict"
    /\ exp' = [exp EXCEPT ![op[c].key] = None]
    /\ FileGoto(c, "sweep")
    /\ UNCHANGED <<val, clock, op, began, ret, lockVars, saved, got, cands, begun>>

EvictValue(c) ==
    /\ pc[c] = "sweep"
    /\ val' = [val EXCEPT ![op[c].key] = None]
    /\ Decide(c, None)
    /\ UNCHANGED <<exp, clock, began, weak, cands, begun>>

\* read_value.
Read(c) ==
    /\ pc[c] = "read"
    /\ Decide(c, val[op[c].key])
    /\ UNCHANGED <<fileVars, clock, began, weak, cands, begun>>

\* write_value: the rename is the write.
Write(c) ==
    /\ pc[c] = "write"
    /\ LET o == op[c]
           v == IF o.kind = "increment" THEN AddOne(got[c]) ELSE o.val IN
       /\ val' = [val EXCEPT ![o.key] = v]
       /\ \/ o.kind = "set" /\ FileGoto(c, "ttl") /\ UNCHANGED <<op, ret, handle, saved, got>>
          \/ o.kind = "increment" /\ FileFinish(c, Answer("ok", v))
          \/ o.kind = "cas" /\ FileFinish(c, Answer("ok", None))
    /\ UNCHANGED <<exp, clock, began, weak, cands, begun>>

\* Mutant of WriteTtl: a set without a time to live leaves the old expiry.
WriteTtlSome(c) ==
    /\ pc[c] = "ttl"
    /\ exp' = IF op[c].ttl = None THEN exp
              ELSE [exp EXCEPT ![op[c].key] = Deadline(op[c].ttl, clock)]
    /\ FileFinish(c, Answer("ok", None))
    /\ UNCHANGED <<val, clock, began, weak, cands, begun>>

\* write_ttl: the expiry's file is replaced, or removed.
WriteTtl(c) ==
    /\ pc[c] = "ttl"
    /\ exp' = [exp EXCEPT ![op[c].key] = Deadline(op[c].ttl, clock)]
    /\ FileFinish(c, Answer("ok", None))
    /\ UNCHANGED <<val, clock, began, weak, cands, begun>>

-------------------------------------------------------------------------------
\* A listing walks the directory, then looks at each key under its lock.
Collect(c) ==
    /\ pc[c] = "collect"
    /\ cands' = [cands EXCEPT ![c] = {k \in Keys : val[k] # None}]
    /\ FileGoto(c, "next")
    /\ UNCHANGED <<fileVars, clock, op, began, ret, lockVars, saved, got, begun>>

Candidate(c) ==
    /\ pc[c] = "next"
    /\ \/ /\ cands[c] = {}
          /\ op' = [op EXCEPT ![c] = None]
          /\ FileGoto(c, "idle") /\ UNCHANGED <<lockVars, cands>>
       \/ \E k \in cands[c] :
            /\ cands' = [cands EXCEPT ![c] = @ \ {k}]
            /\ op' = [op EXCEPT ![c].key = k]
            /\ KeyLock(c, k) /\ FileGoto(c, "lock")
    /\ UNCHANGED <<fileVars, clock, began, ret, saved, got, begun>>

FileTick ==
    /\ clock < terms.ticks /\ clock' = clock + 1
    /\ UNCHANGED <<fileVars, op, began, ret, pc, lockVars, saved, got, cands, begun>>

FileStep(c) ==
    \/ FileBegin(c) \/ Lock(c) \/ CheckExpiry(c) \/ EvictTtl(c) \/ EvictValue(c) \/ Read(c)
    \/ Write(c) \/ WriteTtl(c) \/ Collect(c) \/ Candidate(c)

-------------------------------------------------------------------------------
\* A file step fails: the operation is answered with the error.
Fails(c) ==
    /\ terms.fails /\ Inside(c) /\ pc[c] # "evict"
    /\ ~(op[c].kind = "keys" /\ pc[c] = "sweep")
    /\ FileFinish(c, Answer("failed", None))
    /\ UNCHANGED <<fileVars, clock, began, weak, cands, begun>>

\* remove_entry passes over an expiry it cannot remove.
EvictTtlFails(c) ==
    /\ terms.fails /\ pc[c] = "evict" /\ FileGoto(c, "sweep")
    /\ UNCHANGED <<fileVars, clock, op, began, ret, lockVars, saved, got, cands, begun>>

\* A listing passes over an entry it cannot remove.
EvictValueFails(c) ==
    /\ terms.fails /\ pc[c] = "sweep" /\ op[c].kind = "keys" /\ NextKey(c)
    /\ UNCHANGED <<fileVars, clock, began, weak, cands, begun>>

\* The process dies and another opens the root: the files stay.
Crash ==
    /\ terms.fails /\ \E c \in Clients : pc[c] # "idle"
    /\ op' = [c \in Clients |-> None] /\ pc' = [c \in Clients |-> "idle"]
    /\ weak' = [k \in Keys |-> 0] /\ handle' = [c \in Clients |-> 0]
    /\ saved' = [c \in Clients |-> Absent] /\ got' = [c \in Clients |-> None]
    /\ cands' = [c \in Clients |-> {}]
    /\ UNCHANGED <<fileVars, clock, began, ret, begun>>

FileNext ==
    /\ FileTick \/ Crash \/ \E c \in Clients : FileStep(c) \/ Fails(c) \/ EvictTtlFails(c) \/ EvictValueFails(c)
    /\ UNCHANGED terms

FileSpec == FileInit /\ [][FileNext]_fileAll

-------------------------------------------------------------------------------
\* Every variable keeps its type, and a lock handle is held exactly from the call to
\* the answer, or for the one key a listing is at.
FileTypeOK ==
    /\ exp \in [Keys -> Nat \cup {None}]
    /\ clock \in 0 .. terms.ticks /\ began \in [Clients -> 0 .. clock]
    /\ pc \in [Clients -> {"idle", "lock", "collect", "next", "check", "evict", "sweep", "read",
                           "write", "ttl"}]
    /\ weak \in [Keys -> 0 .. Cardinality(Clients)]
    /\ handle \in [Clients -> 0 .. Cardinality(Clients)]
    /\ cands \in [Clients -> SUBSET Keys]
    /\ \A c \in Clients : handle[c] = 0 <=> pc[c] \in {"idle", "collect", "next"}

\* Every bucket handle of a client shares the key's lock: no two operations are
\* inside one key, whichever locks the registry dropped meanwhile.
OneInside ==
    \A c, d \in Clients :
        Inside(c) /\ Inside(d) /\ c # d => op[c].key # op[d].key

\* A stale swap never overwrites and no increment is lost: the value an operation
\* is about to replace is the one it read.
ReadStillThere ==
    \A c \in Clients :
        pc[c] = "write" /\ op[c].kind # "set" => val[op[c].key] = got[c]

\* keyvalue.rs: "Writes are atomic": an operation, ended or cut short, leaves of its
\* key what it found, or what it makes of that.
AllOrNothing ==
    \A c \in Clients :
        Inside(c) /\ ~Inside(c)' =>
            Entry(val'[op[c].key], exp'[op[c].key]) \in May(op[c], saved[c], began[c])

==============================================================================
