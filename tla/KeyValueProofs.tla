---------------------------- MODULE KeyValueProofs ----------------------------
(***************************************************************************)
(* For any keys, any clients and any operations: no two operations are     *)
(* inside one key of the files, an operation of the stream takes effect at *)
(* most once and a listing of the server is sound; without faults the      *)
(* three stores do what ExpiringStore promises.                            *)
(***************************************************************************)
EXTENDS KeyValue, FiniteSetTheorems, TLAPS

-------------------------------------------------------------------------------
(***************************************************************************)
(* The files                                                               *)
(***************************************************************************)

\* What an operation is, and at which steps.
FileOpOK ==
    /\ terms \in Terms /\ terms.store = "files"
    /\ op \in [Clients -> FileCalls \cup {None}]
    /\ val \in [Keys -> Values \cup Nat \cup {None}]
    /\ got \in [Clients -> Values \cup Nat \cup {None}]
    /\ \A c \in Clients :
        /\ pc[c] = "idle" <=> op[c] = None
        /\ pc[c] \in {"collect", "next"} => op[c].kind = "keys"
        /\ pc[c] = "check" => op[c].kind \in {"get", "increment", "cas", "keys"}
        /\ pc[c] \in {"evict", "sweep"} => op[c].kind # "set"
        /\ pc[c] = "read" => op[c].kind \in {"get", "increment", "cas"}
        /\ pc[c] = "write" => op[c].kind \in {"set", "increment", "cas"}
        /\ pc[c] = "ttl" => op[c].kind = "set"
        /\ pc[c] = "write" /\ op[c].kind = "increment" => Countable(got[c])

\* A lock somebody holds is the registered one of the holder's key, and of no other.
LocksRegistered ==
    /\ \A c \in Clients : handle[c] # 0 => weak[op[c].key] = handle[c]
    /\ \A j, k \in Keys : Alive(weak[j]) /\ weak[j] = weak[k] => j = k

\* A mutex lets one client inside.
OneHolder ==
    \A c, d \in Clients : Inside(c) /\ Inside(d) /\ handle[c] = handle[d] => c = d

FileInv == FileTypeOK /\ FileOpOK /\ LocksRegistered /\ OneHolder /\ ReadStillThere

\* The operation, for the files at its key, is what it would be had it taken effect
\* at one moment.  Before the first file step the key is as it was when locked; what
\* is evicted had expired; what was found live was so at a moment since the call.
LiveSince(c) ==
    \E t \in began[c] .. clock : At(OnDisk(op[c].key), t) = OnDisk(op[c].key)

LinAt(c) ==
    /\ pc[c] \in {"check", "evict"} => saved[c] = OnDisk(op[c].key)
    /\ pc[c] = "write" /\ op[c].kind = "set" => saved[c] = OnDisk(op[c].key)
    /\ pc[c] \in {"evict", "sweep"} /\ op[c].kind # "delete" =>
         saved[c].exp \in Nat \cup {None} /\ At(saved[c], clock) = Absent
    /\ pc[c] = "sweep" => exp[op[c].key] = None
    /\ pc[c] = "read" => LiveSince(c)
    /\ pc[c] = "write" /\ op[c].kind # "set" => LiveSince(c)
    /\ pc[c] = "write" /\ op[c].kind = "cas" => got[c] = op[c].expected
    /\ pc[c] = "ttl" => val[op[c].key] = op[c].val

FileLin ==
    /\ ~terms.fails /\ saved = [c \in Clients |-> saved[c]]
    /\ \A k \in Keys : val[k] = None => exp[k] = None
    /\ \A c \in Clients : LinAt(c)

\* What a call is made of.
LEMMA CallShape ==
    ASSUME NEW o \in FileCalls
    PROVE  /\ o # None /\ o.key \in Keys
           /\ o.kind \in {"get", "delete", "increment", "set", "cas", "keys"}
           /\ o.kind = "keys" => o \in [kind : {"keys"}, key : Keys]
           /\ o.kind = "set" => o.val \in Values \cup Nat /\ o.ttl \in Nat \cup {None}
           /\ o.kind = "cas" => o.val \in Values \cup Nat /\ o.expected \in Values \cup Nat \cup {None}
  BY FileAssumption DEF FileCalls, Calls

\* What a terms record is made of.
LEMMA TermsShape ==
    ASSUME FileOpOK
    PROVE  /\ terms.ops \subseteq FileCalls /\ terms.ticks \in Nat /\ terms.fails \in BOOLEAN
  BY BucketAssumption, FileAssumption DEF FileOpOK, CallsOf

\* While a client holds no lock, a lock is free: there are as many as clients.
LEMMA FreeLock ==
    ASSUME NEW c \in Clients, handle \in [Clients -> 0 .. Cardinality(Clients)], handle[c] = 0
    PROVE  \E l \in 1 .. Cardinality(Clients) : ~Alive(l)
<1> DEFINE N == Cardinality(Clients)
           Others == Clients \ {c}
           Hs == {handle[d] : d \in Others}
<1>1. N \in Nat /\ IsFiniteSet(Clients)
  BY BucketAssumption, FS_CardinalityType
<1>2. IsFiniteSet(Others) /\ Cardinality(Others) = N - 1
  BY <1>1, FS_RemoveElement
<1>3. IsFiniteSet(Hs) /\ Cardinality(Hs) <= N - 1
  <2> DEFINE h == [d \in Others |-> handle[d]]
  <2>1. h \in Surjection(Others, Hs)
    BY DEF Surjection
  <2>2. IsFiniteSet(Hs) /\ Cardinality(Hs) <= Cardinality(Others)
    <3> HIDE DEF h
    <3>1. QED
      BY <1>2, <2>1, FS_Surjection
  <2>3. QED
    BY <1>2, <2>2
<1>4. SUFFICES ASSUME \A l \in 1 .. N : Alive(l)
               PROVE  FALSE
  OBVIOUS
<1>5. 1 .. N \subseteq Hs
  BY <1>1, <1>4 DEF Alive
<1>6. Cardinality(1 .. N) = N
  <2> HIDE DEF N
  <2>1. QED
    BY <1>1, FS_Interval
<1>7. Cardinality(1 .. N) <= Cardinality(Hs)
  BY <1>3, <1>5, FS_Subset
<1>8. Cardinality(Hs) \in Nat
  BY <1>3, FS_CardinalityType
<1>9. QED
  BY <1>1, <1>3, <1>6, <1>7, <1>8

-------------------------------------------------------------------------------
\* key_lock keeps every lock somebody holds registered, whatever it drops.
LEMMA TakesLock ==
    ASSUME FileInv, NEW c \in Clients, pc[c] \in {"idle", "collect", "next"},
           NEW o \in FileCalls, KeyLock(c, o.key),
           op' = [op EXCEPT ![c] = o], FileGoto(c, "lock")
    PROVE  /\ weak' \in [Keys -> 0 .. Cardinality(Clients)]
           /\ handle' \in [Clients -> 0 .. Cardinality(Clients)]
           /\ handle'[c] # 0 /\ \A d \in Clients \ {c} : handle'[d] = handle[d]
           /\ LocksRegistered' /\ OneHolder'
<1> DEFINE k == o.key
<1>1. k \in Keys
  BY CallShape
<1>2. /\ handle \in [Clients -> 0 .. Cardinality(Clients)] /\ weak \in [Keys -> 0 .. Cardinality(Clients)]
      /\ handle[c] = 0 /\ Cardinality(Clients) \in Nat
      /\ op \in [Clients -> FileCalls \cup {None}]
      /\ pc \in [Clients -> {"idle", "lock", "collect", "next", "check", "evict", "sweep", "read",
                             "write", "ttl"}]
  BY BucketAssumption, FS_CardinalityType DEF FileInv, FileTypeOK, FileOpOK
<1>3. \A d \in Clients : handle[d] # 0 => op[d].key \in Keys
  BY <1>2, CallShape DEF FileInv, FileTypeOK, FileOpOK
<1>4. PICK l \in 1 .. Cardinality(Clients) :
        /\ handle' = [handle EXCEPT ![c] = l] /\ weak'[k] = l
        /\ weak' \in [Keys -> 0 .. Cardinality(Clients)]
        /\ Alive(l) => weak[k] = l
        /\ \A j \in Keys \ {k} : weak'[j] # 0 => weak'[j] = weak[j]
        /\ \A j \in Keys \ {k} : Alive(weak[j]) => weak'[j] = weak[j]
        /\ \A j \in Keys \ {k} : Alive(l) \/ weak'[j] # l
  <2>1. CASE Alive(weak[k])
    BY <1>1, <1>2, <2>1 DEF KeyLock, Alive, FileInv, LocksRegistered
  <2>2. CASE ~Alive(weak[k])
    <3> DEFINE lock == CHOOSE l \in 1 .. Cardinality(Clients) : ~Alive(l)
    <3>1. lock \in 1 .. Cardinality(Clients) /\ ~Alive(lock)
      BY <1>2, FreeLock
    <3>2. /\ handle' = [handle EXCEPT ![c] = lock]
          /\ weak' = [j \in Keys |-> IF j = k THEN lock ELSE IF Alive(weak[j]) THEN weak[j] ELSE 0]
      BY <2>2 DEF KeyLock
    <3> HIDE DEF lock
    <3>3. \A j \in Keys \ {k} : weak'[j] = 0 \/ (Alive(weak[j]) /\ weak'[j] = weak[j])
      BY <3>2
    <3>4. \A j \in Keys \ {k} : Alive(weak[j]) => weak'[j] = weak[j]
      BY <3>2
    <3>5. weak'[k] = lock /\ weak' \in [Keys -> 0 .. Cardinality(Clients)]
      BY <1>1, <1>2, <3>1, <3>2
    <3>6. \A j \in Keys \ {k} : weak'[j] # lock
      BY <1>2, <3>1, <3>3
    <3>7. QED
      BY <3>1, <3>2, <3>3, <3>4, <3>5, <3>6
  <2>3. QED
    BY <2>1, <2>2
<1>5. /\ handle'[c] = l /\ \A d \in Clients \ {c} : handle'[d] = handle[d]
      /\ op'[c] = o /\ \A d \in Clients \ {c} : op'[d] = op[d]
      /\ pc'[c] = "lock" /\ \A d \in Clients \ {c} : pc'[d] = pc[d]
  BY <1>2, <1>4 DEF FileGoto
<1>6. \A d \in Clients : handle'[d] # 0 => weak'[op'[d].key] = handle'[d]
  <2> SUFFICES ASSUME NEW d \in Clients, handle'[d] # 0 PROVE weak'[op'[d].key] = handle'[d]
    OBVIOUS
  <2>1. CASE d = c
    BY <1>4, <1>5, <2>1
  <2>2. CASE d # c
    <3>1. handle[d] # 0 /\ weak[op[d].key] = handle[d] /\ Alive(handle[d]) /\ op[d].key \in Keys
      BY <1>3, <1>5, <2>2 DEF Alive, FileInv, LocksRegistered
    <3>2. CASE op[d].key = k
      <4>1. Alive(weak[k])
        BY <3>1, <3>2
      <4>2. weak' = weak
        BY <4>1 DEF KeyLock
      <4>3. QED
        BY <1>5, <2>2, <3>1, <4>2
    <3>3. CASE op[d].key # k
      BY <1>4, <1>5, <2>2, <3>1, <3>3
    <3>4. QED
      BY <3>2, <3>3
  <2>3. QED
    BY <2>1, <2>2
<1>7. \A i, j \in Keys : Alive(weak[i])' /\ weak'[i] = weak'[j] => i = j
  <2> SUFFICES ASSUME NEW i \in Keys, NEW j \in Keys, Alive(weak[i])', weak'[i] = weak'[j], i # j
               PROVE  FALSE
    OBVIOUS
  <2>1. weak'[i] # 0 /\ (Alive(weak'[i]) \/ weak'[i] = l)
    BY <1>5 DEF Alive
  <2>2. Alive(weak'[i])
    BY <1>1, <1>4, <2>1
  <2>3. weak[i] = weak'[i] /\ weak[j] = weak'[j]
    BY <1>1, <1>4, <2>1, <2>2
  <2>4. QED
    BY <2>2, <2>3 DEF FileInv, LocksRegistered
<1>8. OneHolder'
  <2>1. \A d \in Clients : Inside(d)' => d # c /\ Inside(d)
    BY <1>5 DEF Inside
  <2>2. QED
    BY <1>5, <2>1 DEF FileInv, OneHolder
<1>9. QED
  BY <1>2, <1>4, <1>5, <1>6, <1>7, <1>8 DEF LocksRegistered

\* A client that keeps its operation and its lock, inside or going inside.
LEMMA StaysWithLock ==
    ASSUME FileInv, NEW c \in Clients, NEW p \in {"check", "evict", "sweep", "read", "write", "ttl"},
           FileGoto(c, p), UNCHANGED <<op, lockVars>>,
           Inside(c) \/ (pc[c] = "lock" /\ \A d \in Clients : Inside(d) => handle[d] # handle[c])
    PROVE  LocksRegistered' /\ OneHolder'
<1>1. /\ pc'[c] = p /\ \A d \in Clients \ {c} : pc'[d] = pc[d]
  BY DEF FileGoto, FileInv, FileTypeOK
<1>2. op' = op /\ weak' = weak /\ handle' = handle
  BY DEF lockVars
<1>3. QED
  BY <1>1, <1>2 DEF FileInv, LocksRegistered, OneHolder, Inside, Alive


\* A client that lets its lock go.
LEMMA LetsLockGo ==
    ASSUME FileInv, NEW c \in Clients, NEW p \in {"idle", "next"}, FileGoto(c, p),
           handle' = [handle EXCEPT ![c] = 0], weak' = weak,
           \A d \in Clients \ {c} : op'[d] = op[d]
    PROVE  LocksRegistered' /\ OneHolder'
<1>1. /\ pc'[c] = p /\ \A d \in Clients \ {c} : pc'[d] = pc[d]
      /\ handle'[c] = 0 /\ \A d \in Clients \ {c} : handle'[d] = handle[d]
  BY DEF FileGoto, FileInv, FileTypeOK
<1>2. \A d \in Clients : handle'[d] # 0 => weak'[op'[d].key] = handle'[d]
  BY <1>1 DEF FileInv, LocksRegistered
<1>3. \A j, k \in Keys : Alive(weak[j])' /\ weak'[j] = weak'[k] => j = k
  BY <1>1 DEF FileInv, LocksRegistered, Alive
<1>4. OneHolder'
  BY <1>1 DEF FileInv, OneHolder, Inside
<1>5. QED
  BY <1>2, <1>3, <1>4 DEF LocksRegistered

\* Who is inside holds a lock, and two locks of one key are one.
LEMMA OneInsideHolds ==
    ASSUME FileInv
    PROVE  OneInside
<1> SUFFICES ASSUME NEW c \in Clients, NEW d \in Clients, Inside(c), Inside(d), c # d
             PROVE  op[c].key # op[d].key
  BY DEF OneInside
<1>1. handle[c] # 0 /\ handle[d] # 0
  BY DEF FileInv, FileTypeOK, Inside
<1>2. handle[c] # handle[d]
  BY DEF FileInv, OneHolder
<1>3. QED
  BY <1>1, <1>2 DEF FileInv, LocksRegistered

-------------------------------------------------------------------------------
\* The steps, and what each leaves of the invariant.
LEMMA FileBeginStep ==
    ASSUME FileInv, NEW c \in Clients, FileBegin(c), UNCHANGED terms
    PROVE  FileInv'
<1> USE DEF FileInv
<1>1. PICK o \in terms.ops :
        /\ op' = [op EXCEPT ![c] = o]
        /\ \/ o.kind = "keys" /\ FileGoto(c, "collect") /\ UNCHANGED <<lockVars, began>>
           \/ /\ o.kind # "keys" /\ FileGoto(c, "lock") /\ KeyLock(c, o.key)
              /\ began' = [began EXCEPT ![c] = clock]
  BY DEF FileBegin
<1>2. /\ pc[c] = "idle" /\ UNCHANGED <<val, exp, clock, saved, got, cands>>
      /\ o \in FileCalls /\ o # None
  BY TermsShape, CallShape DEF FileBegin, fileVars
<1>3. CASE o.kind = "keys"
  <2>1. pc' = [pc EXCEPT ![c] = "collect"] /\ UNCHANGED <<handle, weak, began>>
    BY <1>1, <1>3 DEF FileGoto, lockVars
  <2>2. FileTypeOK'
    BY <1>2, <2>1 DEF FileTypeOK
  <2>3. FileOpOK'
    BY <1>1, <1>2, <1>3, <2>1 DEF FileOpOK, FileTypeOK
  <2>4. LocksRegistered' /\ OneHolder'
    BY <1>1, <1>2, <2>1 DEF LocksRegistered, OneHolder, Inside, Alive, FileTypeOK, FileOpOK
  <2>5. ReadStillThere'
    BY <1>1, <1>2, <2>1 DEF ReadStillThere, FileTypeOK, FileOpOK
  <2>6. QED
    BY <2>2, <2>3, <2>4, <2>5
<1>4. CASE o.kind # "keys"
  <2>1. pc' = [pc EXCEPT ![c] = "lock"] /\ KeyLock(c, o.key) /\ began' = [began EXCEPT ![c] = clock]
    BY <1>1, <1>4 DEF FileGoto
  <2>2. /\ weak' \in [Keys -> 0 .. Cardinality(Clients)]
        /\ handle' \in [Clients -> 0 .. Cardinality(Clients)]
        /\ handle'[c] # 0 /\ \A d \in Clients \ {c} : handle'[d] = handle[d]
        /\ LocksRegistered' /\ OneHolder'
    BY <1>1, <1>2, <2>1, TakesLock DEF FileGoto
  <2>3. FileTypeOK'
    <3>1. clock \in 0 .. terms.ticks /\ terms.ticks \in Nat
      BY TermsShape DEF FileTypeOK
    <3>2. began' \in [Clients -> 0 .. clock']
      BY <1>2, <2>1, <3>1 DEF FileTypeOK
    <3>3. \A d \in Clients : (handle'[d] = 0) <=> pc'[d] \in {"idle", "collect", "next"}
      BY <2>1, <2>2 DEF FileTypeOK
    <3>4. QED
      BY <1>2, <2>1, <2>2, <3>2, <3>3 DEF FileTypeOK
  <2>4. FileOpOK'
    BY <1>1, <1>2, <1>4, <2>1 DEF FileOpOK, FileTypeOK
  <2>5. ReadStillThere'
    BY <1>1, <1>2, <2>1 DEF ReadStillThere, FileTypeOK, FileOpOK
  <2>6. QED
    BY <2>2, <2>3, <2>4, <2>5
<1>5. QED
  BY <1>3, <1>4


\* A file step changes one key, which nobody else is inside.
LEMMA OthersSee ==
    ASSUME FileInv, NEW c \in Clients, Inside(c), NEW v,
           val' \in {val, [val EXCEPT ![op[c].key] = v]}
    PROVE  \A d \in Clients \ {c} : Inside(d) => val'[op[d].key] = val[op[d].key]
<1>1. \A d \in Clients \ {c} : Inside(d) => op[d].key # op[c].key /\ op[d].key \in Keys
  BY OneInsideHolds, CallShape DEF OneInside, FileInv, FileTypeOK, FileOpOK, Inside
<1>2. QED
  BY <1>1 DEF FileInv, FileOpOK

\* A client goes on inside its key.
LEMMA GoesOn ==
    ASSUME FileInv, NEW c \in Clients, NEW p \in {"check", "evict", "sweep", "read", "write", "ttl"},
           FileGoto(c, p), UNCHANGED <<terms, op, lockVars, clock, began, cands>>,
           Inside(c) \/ (pc[c] = "lock" /\ \A d \in Clients : Inside(d) => handle[d] # handle[c]),
           exp' \in [Keys -> Nat \cup {None}],
           val' \in [Keys -> Values \cup Nat \cup {None}],
           got' \in [Clients -> Values \cup Nat \cup {None}],
           p = "check" => op[c].kind \in {"get", "increment", "cas", "keys"},
           p \in {"evict", "sweep"} => op[c].kind # "set",
           p = "read" => op[c].kind \in {"get", "increment", "cas"},
           p = "write" => op[c].kind \in {"set", "increment", "cas"},
           p = "ttl" => op[c].kind = "set",
           p = "write" /\ op[c].kind # "set" => val'[op[c].key] = got'[c],
           p = "write" /\ op[c].kind = "increment" => Countable(got'[c]),
           \A d \in Clients \ {c} : Inside(d) => val'[op[d].key] = val[op[d].key] /\ got'[d] = got[d]
    PROVE  FileInv'
<1> USE DEF FileInv
<1>1. LocksRegistered' /\ OneHolder'
  BY StaysWithLock
<1>2. /\ pc'[c] = p /\ \A d \in Clients \ {c} : pc'[d] = pc[d]
      /\ pc' \in [Clients -> {"idle", "lock", "collect", "next", "check", "evict", "sweep", "read",
                              "write", "ttl"}]
      /\ pc[c] \notin {"idle", "collect", "next"}
  BY DEF FileGoto, FileTypeOK, Inside
<1>3. FileTypeOK'
  BY <1>2 DEF FileTypeOK, lockVars
<1>4. FileOpOK'
  BY <1>2 DEF FileOpOK, Inside, Countable
<1>5. ReadStillThere'
  BY <1>2 DEF ReadStillThere, Inside
<1>6. QED
  BY <1>1, <1>3, <1>4, <1>5

\* A client leaves its key, its operation over or a listing at the next key.
LEMMA Leaves ==
    ASSUME FileInv, NEW c \in Clients, NEW p \in {"idle", "next"}, FileGoto(c, p), Inside(c),
           handle' = [handle EXCEPT ![c] = 0], UNCHANGED <<terms, weak, clock, began, cands>>,
           \/ p = "idle" /\ op' = [op EXCEPT ![c] = None]
           \/ p = "next" /\ op' = op /\ op[c].kind = "keys",
           exp' \in [Keys -> Nat \cup {None}],
           val' \in [Keys -> Values \cup Nat \cup {None}],
           got' \in [Clients -> Values \cup Nat \cup {None}],
           \A d \in Clients \ {c} : Inside(d) => val'[op[d].key] = val[op[d].key] /\ got'[d] = got[d]
    PROVE  FileInv'
<1> USE DEF FileInv
<1>1. op' \in [Clients -> FileCalls \cup {None}] /\ \A d \in Clients \ {c} : op'[d] = op[d]
  BY DEF FileOpOK
<1>2. LocksRegistered' /\ OneHolder'
  BY <1>1, LetsLockGo
<1>3. /\ pc'[c] = p /\ \A d \in Clients \ {c} : pc'[d] = pc[d]
      /\ pc' \in [Clients -> {"idle", "lock", "collect", "next", "check", "evict", "sweep", "read",
                              "write", "ttl"}]
  BY DEF FileGoto, FileTypeOK
<1>4. FileTypeOK'
  <2>1. Cardinality(Clients) \in Nat
    BY BucketAssumption, FS_CardinalityType
  <2>2. /\ handle' \in [Clients -> 0 .. Cardinality(Clients)]
        /\ handle'[c] = 0 /\ \A d \in Clients \ {c} : handle'[d] = handle[d]
    BY <2>1 DEF FileTypeOK
  <2>3. QED
    BY <1>3, <2>2 DEF FileTypeOK
<1>5. FileOpOK'
  <2>1. (pc'[c] = "idle" <=> op'[c] = None) /\ (pc'[c] = "next" => op'[c].kind = "keys")
    BY <1>3 DEF FileOpOK, FileTypeOK, Inside
  <2>2. QED
    BY <1>1, <1>3, <2>1 DEF FileOpOK, Inside, Countable
<1>6. ReadStillThere'
  BY <1>1, <1>3 DEF ReadStillThere, Inside
<1>7. QED
  BY <1>2, <1>4, <1>5, <1>6

LEMMA LockStep ==
    ASSUME FileInv, NEW c \in Clients, Lock(c), UNCHANGED terms
    PROVE  FileInv'
<1>1. op[c] \in FileCalls
  BY DEF FileInv, FileTypeOK, FileOpOK, Lock
<1>2. /\ First(op[c]) \in {"write", "evict", "check"}
      /\ First(op[c]) = "write" => op[c].kind = "set"
      /\ First(op[c]) = "evict" => op[c].kind = "delete"
      /\ First(op[c]) = "check" => op[c].kind \in {"get", "increment", "cas", "keys"}
  BY <1>1, CallShape DEF First
<1> DEFINE p == First(op[c])
<1>3. FileGoto(c, p) /\ UNCHANGED <<val, exp, got>>
  BY DEF Lock, fileVars
<1> HIDE DEF p
<1>4. QED
  BY <1>2, <1>3, GoesOn DEF p, Lock, FileInv, FileTypeOK, FileOpOK

LEMMA CheckExpiryStep ==
    ASSUME FileInv, NEW c \in Clients, CheckExpiry(c), UNCHANGED terms
    PROVE  FileInv'
<1>1. /\ Inside(c) /\ UNCHANGED <<val, exp, clock, began, weak, cands>>
      /\ op[c].kind \in {"get", "increment", "cas", "keys"}
      /\ val \in [Keys -> Values \cup Nat \cup {None}] /\ exp \in [Keys -> Nat \cup {None}]
      /\ got \in [Clients -> Values \cup Nat \cup {None}]
  BY DEF CheckExpiry, Inside, fileVars, FileInv, FileTypeOK, FileOpOK
<1>2. CASE FileGoto(c, "evict") /\ UNCHANGED <<op, ret, handle, saved, got>>
  BY <1>1, <1>2, GoesOn DEF lockVars
<1>3. CASE op[c].kind # "keys" /\ FileGoto(c, "read") /\ UNCHANGED <<op, ret, handle, saved, got>>
  BY <1>1, <1>3, GoesOn DEF lockVars
<1>4. CASE op[c].kind = "keys" /\ NextKey(c)
  BY <1>1, <1>4, Leaves DEF NextKey, Release
<1>5. QED
  BY <1>2, <1>3, <1>4 DEF CheckExpiry

LEMMA EvictValueFailsStep ==
    ASSUME FileInv, NEW c \in Clients, EvictValueFails(c), UNCHANGED terms
    PROVE  FileInv'
<1>1. /\ Inside(c) /\ UNCHANGED <<val, exp, clock, began, weak, cands>>
      /\ op[c].kind = "keys" /\ NextKey(c)
      /\ val \in [Keys -> Values \cup Nat \cup {None}] /\ exp \in [Keys -> Nat \cup {None}]
      /\ got \in [Clients -> Values \cup Nat \cup {None}]
  BY DEF EvictValueFails, Inside, fileVars, FileInv, FileTypeOK, FileOpOK
<1>2. QED
  BY <1>1, Leaves DEF NextKey, Release

LEMMA EvictTtlStep ==
    ASSUME FileInv, NEW c \in Clients, EvictTtl(c) \/ EvictTtlFails(c), UNCHANGED terms
    PROVE  FileInv'
<1>1. /\ Inside(c) /\ UNCHANGED <<val, clock, op, began, lockVars, got, cands>>
      /\ FileGoto(c, "sweep") /\ op[c].kind # "set"
      /\ exp' \in [Keys -> Nat \cup {None}]
      /\ val \in [Keys -> Values \cup Nat \cup {None}]
      /\ got \in [Clients -> Values \cup Nat \cup {None}]
  BY DEF EvictTtl, EvictTtlFails, Inside, fileVars, FileInv, FileTypeOK, FileOpOK
<1>2. QED
  BY <1>1, GoesOn

\* What an operation does with the value it found, for any file step that found it.
LEMMA DecideStep ==
    ASSUME FileInv, NEW c \in Clients, pc[c] \in {"sweep", "read"},
           NEW v \in Values \cup Nat \cup {None}, Decide(c, v),
           val' \in {val, [val EXCEPT ![op[c].key] = v]}, val'[op[c].key] = v,
           UNCHANGED <<exp, clock, began, weak, cands, terms>>
    PROVE  FileInv'
<1>1. /\ Inside(c) /\ op[c] \in FileCalls
      /\ op[c].kind \in {"get", "delete", "increment", "cas", "keys"}
      /\ val \in [Keys -> Values \cup Nat \cup {None}] /\ exp' \in [Keys -> Nat \cup {None}]
      /\ got \in [Clients -> Values \cup Nat \cup {None}]
      /\ op[c].key \in Keys
  BY CallShape DEF Inside, FileInv, FileTypeOK, FileOpOK
<1>2. /\ val' \in [Keys -> Values \cup Nat \cup {None}]
      /\ \A d \in Clients \ {c} : Inside(d) => val'[op[d].key] = val[op[d].key]
  BY <1>1, OthersSee
<1>3. CASE \E a : FileFinish(c, a)
  <2>1. /\ op' = [op EXCEPT ![c] = None] /\ FileGoto(c, "idle")
        /\ handle' = [handle EXCEPT ![c] = 0] /\ got' = [got EXCEPT ![c] = None]
    BY <1>3 DEF FileFinish, Release
  <2>2. QED
    BY <1>1, <1>2, <2>1, Leaves
<1>4. CASE op[c].kind = "keys" /\ NextKey(c)
  <2>1. /\ op' = op /\ FileGoto(c, "next")
        /\ handle' = [handle EXCEPT ![c] = 0] /\ got' = [got EXCEPT ![c] = None]
    BY <1>4 DEF NextKey, Release
  <2>2. QED
    BY <1>1, <1>2, <1>4, <2>1, Leaves
<1>5. CASE /\ op[c].kind \in {"increment", "cas"} /\ FileGoto(c, "write")
           /\ op[c].kind = "increment" => Countable(v)
           /\ got' = [got EXCEPT ![c] = v] /\ UNCHANGED <<op, ret, handle, saved>>
  <2>1. got' \in [Clients -> Values \cup Nat \cup {None}] /\ got'[c] = v
        /\ \A d \in Clients \ {c} : got'[d] = got[d]
    BY <1>1, <1>5
  <2>2. QED
    BY <1>1, <1>2, <1>5, <2>1, GoesOn DEF lockVars
<1>6. QED
  BY <1>1, <1>3, <1>4, <1>5 DEF Decide


LEMMA EvictValueStep ==
    ASSUME FileInv, NEW c \in Clients, EvictValue(c), UNCHANGED terms
    PROVE  FileInv'
<1>1. op[c].key \in Keys /\ val \in [Keys -> Values \cup Nat \cup {None}]
  BY CallShape DEF EvictValue, FileInv, FileTypeOK, FileOpOK
<1>2. val' = [val EXCEPT ![op[c].key] = None] /\ val'[op[c].key] = None
  BY <1>1 DEF EvictValue
<1>3. QED
  BY <1>2, DecideStep DEF EvictValue

LEMMA ReadStep ==
    ASSUME FileInv, NEW c \in Clients, Read(c), UNCHANGED terms
    PROVE  FileInv'
<1>1. op[c].key \in Keys /\ val \in [Keys -> Values \cup Nat \cup {None}]
  BY CallShape DEF Read, FileInv, FileTypeOK, FileOpOK
<1>2. val' = val /\ val'[op[c].key] = val[op[c].key] /\ val[op[c].key] \in Values \cup Nat \cup {None}
  BY <1>1 DEF Read, fileVars
<1>3. QED
  BY <1>2, DecideStep DEF Read, fileVars

LEMMA WriteStep ==
    ASSUME FileInv, NEW c \in Clients, Write(c), UNCHANGED terms
    PROVE  FileInv'
<1> DEFINE v == IF op[c].kind = "increment" THEN AddOne(got[c]) ELSE op[c].val
<1>1. /\ Inside(c) /\ op[c] \in FileCalls /\ op[c].key \in Keys
      /\ op[c].kind \in {"set", "increment", "cas"}
      /\ val \in [Keys -> Values \cup Nat \cup {None}]
      /\ got \in [Clients -> Values \cup Nat \cup {None}]
      /\ UNCHANGED <<exp, clock, began, weak, cands>> /\ exp' \in [Keys -> Nat \cup {None}]
  BY CallShape DEF Write, Inside, FileInv, FileTypeOK, FileOpOK
<1>2. val' = [val EXCEPT ![op[c].key] = v]
  BY DEF Write

<1>3. v \in Values \cup Nat \cup {None}
  <2>1. CASE op[c].kind = "increment"
    <3>1. got[c] = None \/ got[c] \in Nat
      BY <2>1, BucketAssumption DEF Write, Countable, FileInv, FileOpOK
    <3>2. QED
      BY <2>1, <3>1 DEF AddOne
  <2>2. CASE op[c].kind \in {"set", "cas"}
    BY <1>1, <2>2, CallShape
  <2>3. QED
    BY <1>1, <2>1, <2>2
<1> HIDE DEF v
<1>4. /\ val' \in [Keys -> Values \cup Nat \cup {None}]
      /\ \A d \in Clients \ {c} : Inside(d) => val'[op[d].key] = val[op[d].key]
  <2>1. val' \in {val, [val EXCEPT ![op[c].key] = v]}
    BY <1>2
  <2>2. \A d \in Clients \ {c} : Inside(d) => val'[op[d].key] = val[op[d].key]
    BY <1>1, <2>1, OthersSee
  <2>3. QED
    BY <1>1, <1>2, <1>3, <2>2
<1>5. CASE op[c].kind = "set" /\ FileGoto(c, "ttl") /\ UNCHANGED <<op, ret, handle, saved, got>>
  BY <1>1, <1>4, <1>5, GoesOn DEF lockVars
<1>6. CASE \E a : FileFinish(c, a)
  <2>1. /\ op' = [op EXCEPT ![c] = None] /\ FileGoto(c, "idle")
        /\ handle' = [handle EXCEPT ![c] = 0] /\ got' = [got EXCEPT ![c] = None]
    BY <1>6 DEF FileFinish, Release
  <2>2. QED
    BY <1>1, <1>4, <2>1, Leaves
<1>7. QED
  BY <1>1, <1>5, <1>6 DEF Write

\* The operation ends as it is, with the expiry written or with a failed step.
LEMMA EndStep ==
    ASSUME FileInv, NEW c \in Clients, WriteTtl(c) \/ Fails(c), UNCHANGED terms
    PROVE  FileInv'
<1>1. /\ Inside(c) /\ UNCHANGED <<val, clock, began, weak, cands>>
      /\ op' = [op EXCEPT ![c] = None] /\ FileGoto(c, "idle")
      /\ handle' = [handle EXCEPT ![c] = 0] /\ got' = [got EXCEPT ![c] = None]
  BY DEF WriteTtl, Fails, Inside, fileVars, FileFinish, Release
<1>2. /\ val \in [Keys -> Values \cup Nat \cup {None}] /\ exp \in [Keys -> Nat \cup {None}]
      /\ got \in [Clients -> Values \cup Nat \cup {None}] /\ clock \in Nat
  BY TermsShape DEF FileInv, FileTypeOK, FileOpOK
<1>3. exp' \in [Keys -> Nat \cup {None}]
  <2>1. CASE WriteTtl(c)
    <3>1. op[c].ttl \in Nat \cup {None}
      BY <2>1, CallShape DEF WriteTtl, FileInv, FileTypeOK, FileOpOK
    <3>2. Deadline(op[c].ttl, clock) \in Nat \cup {None}
      BY <1>2, <3>1 DEF Deadline
    <3>3. QED
      BY <1>2, <2>1, <3>2 DEF WriteTtl
  <2>2. QED
    BY <1>2, <2>1 DEF Fails, fileVars
<1>4. QED
  BY <1>1, <1>2, <1>3, Leaves

LEMMA CollectStep ==
    ASSUME FileInv, NEW c \in Clients, Collect(c), UNCHANGED terms
    PROVE  FileInv'
<1> USE DEF FileInv
<1>1. /\ pc[c] = "collect" /\ pc' = [pc EXCEPT ![c] = "next"] /\ cands' \in [Clients -> SUBSET Keys]
      /\ UNCHANGED <<val, exp, clock, op, began, ret, weak, handle, saved, got, begun>>
  BY DEF Collect, FileGoto, fileVars, lockVars, FileTypeOK
<1>2. FileTypeOK' /\ FileOpOK'
  BY <1>1 DEF FileTypeOK, FileOpOK, Countable
<1>3. LocksRegistered' /\ OneHolder' /\ ReadStillThere'
  BY <1>1 DEF LocksRegistered, OneHolder, ReadStillThere, Inside, Alive, FileTypeOK
<1>4. QED
  BY <1>2, <1>3

LEMMA CandidateStep ==
    ASSUME FileInv, NEW c \in Clients, Candidate(c), UNCHANGED terms
    PROVE  FileInv'
<1> USE DEF FileInv
<1>1. /\ pc[c] = "next" /\ UNCHANGED <<val, exp, clock, began, ret, saved, got, begun>>
      /\ op[c] \in FileCalls /\ op[c].kind = "keys" /\ cands[c] \subseteq Keys
      /\ op[c] \in [kind : {"keys"}, key : Keys]
  BY CallShape DEF Candidate, fileVars, FileTypeOK, FileOpOK
<1>2. CASE /\ op' = [op EXCEPT ![c] = None] /\ FileGoto(c, "idle") /\ UNCHANGED <<lockVars, cands>>
  <2>1. /\ pc' = [pc EXCEPT ![c] = "idle"] /\ UNCHANGED <<weak, handle, cands>>
    BY <1>2 DEF FileGoto, lockVars
  <2>2. FileTypeOK' /\ FileOpOK'
    BY <1>1, <1>2, <2>1 DEF FileTypeOK, FileOpOK, Countable
  <2>3. LocksRegistered' /\ OneHolder' /\ ReadStillThere'
    BY <1>1, <1>2, <2>1 DEF LocksRegistered, OneHolder, ReadStillThere, Inside, Alive, FileTypeOK, FileOpOK
  <2>4. QED
    BY <2>2, <2>3
<1>3. ASSUME NEW k \in cands[c], cands' = [cands EXCEPT ![c] = @ \ {k}],
             op' = [op EXCEPT ![c].key = k], KeyLock(c, k), FileGoto(c, "lock")
      PROVE  FileInv'
  <2> DEFINE o == [op[c] EXCEPT !.key = k]
  <2>1. o \in FileCalls /\ o.kind = "keys" /\ o.key = k /\ o # None
    BY <1>1, <1>3, CallShape DEF FileCalls
  <2>2. op' = [op EXCEPT ![c] = o]
    BY <1>3
  <2> HIDE DEF o
  <2>3. /\ weak' \in [Keys -> 0 .. Cardinality(Clients)]
        /\ handle' \in [Clients -> 0 .. Cardinality(Clients)]
        /\ handle'[c] # 0 /\ \A d \in Clients \ {c} : handle'[d] = handle[d]
        /\ LocksRegistered' /\ OneHolder'
    BY <1>1, <1>3, <2>1, <2>2, TakesLock
  <2>4. pc' = [pc EXCEPT ![c] = "lock"] /\ cands' \in [Clients -> SUBSET Keys]
    BY <1>1, <1>3 DEF FileGoto, FileTypeOK
  <2>5. \A d \in Clients : (handle'[d] = 0) <=> pc'[d] \in {"idle", "collect", "next"}
    BY <2>3, <2>4 DEF FileTypeOK
  <2>6. FileTypeOK'
    BY <1>1, <2>3, <2>4, <2>5 DEF FileTypeOK
  <2>7. FileOpOK'
    BY <1>1, <2>1, <2>2, <2>4 DEF FileOpOK, FileTypeOK, Countable
  <2>8. ReadStillThere'
    BY <1>1, <2>2, <2>4 DEF ReadStillThere, FileTypeOK, FileOpOK
  <2>9. QED
    BY <2>3, <2>6, <2>7, <2>8
<1>4. QED
  BY <1>2, <1>3 DEF Candidate

LEMMA CrashStep ==
    ASSUME FileInv, Crash, UNCHANGED terms
    PROVE  FileInv'
<1>1. Cardinality(Clients) \in Nat
  BY BucketAssumption, FS_CardinalityType
<1>2. FileTypeOK' /\ FileOpOK'
  BY <1>1 DEF Crash, fileVars, FileInv, FileTypeOK, FileOpOK
<1>3. LocksRegistered' /\ OneHolder' /\ ReadStillThere'
  BY DEF Crash, LocksRegistered, OneHolder, ReadStillThere, Inside, Alive
<1>4. QED
  BY <1>2, <1>3 DEF FileInv

LEMMA FileTickStep ==
    ASSUME FileInv, FileTick, UNCHANGED terms
    PROVE  FileInv'
<1>1. /\ clock' = clock + 1 /\ clock < terms.ticks
      /\ UNCHANGED <<val, exp, op, began, ret, pc, weak, handle, saved, got, cands, begun>>
  BY DEF FileTick, fileVars, lockVars
<1>2. terms.ticks \in Nat /\ clock \in 0 .. terms.ticks
  BY TermsShape DEF FileInv, FileTypeOK
<1>3. clock' \in 0 .. terms.ticks /\ began' \in [Clients -> 0 .. clock']
  BY <1>1, <1>2 DEF FileInv, FileTypeOK
<1>4. QED
  BY <1>1, <1>3 DEF FileInv, FileTypeOK, FileOpOK, LocksRegistered, OneHolder, ReadStillThere,
                    Inside, Alive, Countable

LEMMA FileInvStep ==
    ASSUME FileInv, FileNext
    PROVE  FileInv'
  BY FileBeginStep, LockStep, CheckExpiryStep, EvictTtlStep, EvictValueFailsStep, EvictValueStep, ReadStep,
     WriteStep,
     EndStep, CollectStep, CandidateStep, CrashStep, FileTickStep DEF FileNext, FileStep

LEMMA FileInvInit ==
    ASSUME FileInit
    PROVE  FileInv
<1>1. Cardinality(Clients) \in Nat
  BY BucketAssumption, FS_CardinalityType
<1>2. FileTypeOK /\ FileOpOK
  BY <1>1, BucketAssumption DEF FileInit, BucketInit, FileTypeOK, FileOpOK
<1>3. LocksRegistered /\ OneHolder /\ ReadStillThere
  BY DEF FileInit, BucketInit, LocksRegistered, OneHolder, ReadStillThere, Inside, Alive
<1>4. QED
  BY <1>2, <1>3 DEF FileInv


-------------------------------------------------------------------------------
(***************************************************************************)
(* The files, without faults, are the store they stand for                 *)
(***************************************************************************)

MidSteps == {"evict", "sweep", "ttl"}

StandsOf(p, o, s, v, e) ==
    [k \in Keys |->
        LET mid == {c \in Clients : p[c] \in MidSteps /\ o[c].key = k}
        IN IF mid # {} THEN s[CHOOSE c \in mid : TRUE]
           ELSE Entry(v[k], e[k])]

LEMMA StandsAt ==
    ASSUME NEW p, NEW o, NEW s, NEW v, NEW e, NEW k \in Keys, NEW c \in Clients,
           \A d \in Clients : p[d] \in MidSteps /\ o[d].key = k => d = c
    PROVE  StandsOf(p, o, s, v, e)[k] =
             IF p[c] \in MidSteps /\ o[c].key = k THEN s[c] ELSE Entry(v[k], e[k])
<1> DEFINE mid == {d \in Clients : p[d] \in MidSteps /\ o[d].key = k}
<1>1. StandsOf(p, o, s, v, e)[k] = IF mid # {} THEN s[CHOOSE d \in mid : TRUE] ELSE Entry(v[k], e[k])
  BY DEF StandsOf
<1>2. CASE p[c] \in MidSteps /\ o[c].key = k
  <2>1. mid = {c}
    BY <1>2
  <2>2. QED
    BY <1>1, <1>2, <2>1
<1>3. CASE ~(p[c] \in MidSteps /\ o[c].key = k)
  <2>1. mid = {}
    BY <1>3
  <2>2. QED
    BY <1>1, <1>3, <2>1
<1>4. QED
  BY <1>2, <1>3

\* A key where nobody's step changes anything stands as it did.
LEMMA StandsSame ==
    ASSUME NEW p, NEW o, NEW s, NEW v, NEW e, NEW p2, NEW o2, NEW s2, NEW v2, NEW e2, NEW k \in Keys,
           v2[k] = v[k], e2[k] = e[k],
           \A d \in Clients : (p2[d] \in MidSteps /\ o2[d].key = k) <=> (p[d] \in MidSteps /\ o[d].key = k),
           \A d \in Clients : p2[d] \in MidSteps /\ o2[d].key = k => s2[d] = s[d]
    PROVE  StandsOf(p2, o2, s2, v2, e2)[k] = StandsOf(p, o, s, v, e)[k]
<1> DEFINE mid == {d \in Clients : p[d] \in MidSteps /\ o[d].key = k}
           mid2 == {d \in Clients : p2[d] \in MidSteps /\ o2[d].key = k}
<1>1. mid2 = mid /\ \A d \in mid : s2[d] = s[d]
  OBVIOUS
<1>2. StandsOf(p, o, s, v, e)[k] = IF mid # {} THEN s[CHOOSE d \in mid : TRUE] ELSE Entry(v[k], e[k])
  BY DEF StandsOf
<1>3. StandsOf(p2, o2, s2, v2, e2)[k] =
        IF mid2 # {} THEN s2[CHOOSE d \in mid2 : TRUE] ELSE Entry(v2[k], e2[k])
  BY DEF StandsOf
<1> HIDE DEF mid, mid2
<1>4. QED
  BY <1>1, <1>2, <1>3

LEMMA StandsIs ==
    /\ FileStands = StandsOf(pc, op, saved, val, exp)
    /\ FileStands' = StandsOf(pc', op', saved', val', exp')
  BY DEF FileStands, StandsOf, MidSteps, OnDisk

\* A step of a client at key k, where nobody else is, changes what k stands for.
LEMMA StandsStep ==
    ASSUME FileInv, NEW c \in Clients, NEW k \in Keys, op[c].key = k,
           \A d \in Clients \ {c} : Inside(d) => op[d].key # k,
           \A d \in Clients \ {c} : pc'[d] = pc[d] /\ op'[d] = op[d] /\ saved'[d] = saved[d],
           \A j \in Keys \ {k} : val'[j] = val[j] /\ exp'[j] = exp[j],
           pc'[c] \in MidSteps => op'[c].key = k
    PROVE  /\ FileStands' = [FileStands EXCEPT ![k] = IF pc'[c] \in MidSteps THEN saved'[c] ELSE Entry(val'[k], exp'[k])]
           /\ FileStands[k] = IF pc[c] \in MidSteps THEN saved[c] ELSE OnDisk(k)
<1>1. \A d \in Clients \ {c} : pc[d] \in MidSteps => Inside(d)
  BY DEF MidSteps, Inside
<1>2. StandsOf(pc, op, saved, val, exp)[k] = IF pc[c] \in MidSteps THEN saved[c] ELSE OnDisk(k)
  BY <1>1, StandsAt DEF OnDisk
<1>3. StandsOf(pc', op', saved', val', exp')[k] = IF pc'[c] \in MidSteps THEN saved'[c] ELSE Entry(val'[k], exp'[k])
  BY <1>1, StandsAt DEF OnDisk
<1>4. \A j \in Keys \ {k} :
        StandsOf(pc', op', saved', val', exp')[j] = StandsOf(pc, op, saved, val, exp)[j]
  <2> SUFFICES ASSUME NEW j \in Keys \ {k}
               PROVE  StandsOf(pc', op', saved', val', exp')[j] = StandsOf(pc, op, saved, val, exp)[j]
    OBVIOUS
  <2>1. \A d \in Clients : (pc'[d] \in MidSteps /\ op'[d].key = j) <=> (pc[d] \in MidSteps /\ op[d].key = j)
    OBVIOUS
  <2>2. \A d \in Clients : pc'[d] \in MidSteps /\ op'[d].key = j => saved'[d] = saved[d]
    OBVIOUS
  <2>3. QED
    BY <2>1, <2>2, StandsSame
<1>5. /\ FileStands = [j \in Keys |-> FileStands[j]] /\ FileStands' = [j \in Keys |-> FileStands'[j]]
  BY DEF FileStands
<1>6. QED
  BY <1>2, <1>3, <1>4, <1>5, StandsIs

\* A step that takes nobody into or out of the middle of a key leaves the store.
LEMMA StandsStill ==
    ASSUME NEW c \in Clients, \A j \in Keys : val'[j] = val[j] /\ exp'[j] = exp[j],
           pc[c] \notin MidSteps, pc'[c] \notin MidSteps,
           \A d \in Clients \ {c} : pc'[d] = pc[d] /\ op'[d] = op[d] /\ saved'[d] = saved[d]
    PROVE  FileStands' = FileStands
<1>1. \A j \in Keys : StandsOf(pc', op', saved', val', exp')[j] = StandsOf(pc, op, saved, val, exp)[j]
  <2> SUFFICES ASSUME NEW j \in Keys
               PROVE  StandsOf(pc', op', saved', val', exp')[j] = StandsOf(pc, op, saved, val, exp)[j]
    OBVIOUS
  <2>1. \A d \in Clients : (pc'[d] \in MidSteps /\ op'[d].key = j) <=> (pc[d] \in MidSteps /\ op[d].key = j)
    OBVIOUS
  <2>2. \A d \in Clients : pc'[d] \in MidSteps /\ op'[d].key = j => saved'[d] = saved[d]
    OBVIOUS
  <2>3. QED
    BY <2>1, <2>2, StandsSame
<1>2. /\ FileStands = [j \in Keys |-> FileStands[j]] /\ FileStands' = [j \in Keys |-> FileStands'[j]]
  BY DEF FileStands
<1>3. QED
  BY <1>1, <1>2, StandsIs


\* The promise's operators are the stores' own.
LEMMA SameOperators ==
    /\ FileStore!Absent = Absent
    /\ \A e, t : FileStore!At(e, t) = At(e, t)
    /\ \A o, e, t : FileStore!Effect(o, e, t) = Effect(o, e, t)
  BY DEF FileStore!Absent, Absent, FileStore!At, At, FileStore!Effect, Effect, FileStore!Entry, Entry,
         FileStore!Answer, Answer, FileStore!Deadline, Deadline, FileStore!Countable, Countable,
         FileStore!AddOne, AddOne

\* Who else is under way.
LEMMA UnderWayStep ==
    ASSUME NEW c \in Clients, op \in [Clients -> FileCalls \cup {None}], NEW o, op' = [op EXCEPT ![c] = o]
    PROVE  FileUnderWay' = [FileUnderWay EXCEPT ![c] =
             IF o = None THEN None ELSE IF o.kind = "keys" THEN None ELSE o]
  BY DEF FileUnderWay

\* The store's steps, from what changes.
LEMMA IsApply ==
    ASSUME FileInv, NEW c \in Clients, op[c] \in FileCalls, op[c].kind # "keys",
           NEW t \in began[c] .. clock, NEW r, r = Effect(op[c], FileStands[op[c].key], t),
           FileStands' = [FileStands EXCEPT ![op[c].key] = r.entry],
           ret' = [ret EXCEPT ![c] = r.ret], op' = [op EXCEPT ![c] = None], UNCHANGED <<clock, began>>
    PROVE  FileStore!Next
<1>1. FileUnderWay[c] = op[c] /\ op[c] # None
  BY CallShape DEF FileUnderWay
<1>2. FileUnderWay' = [FileUnderWay EXCEPT ![c] = None]
  BY UnderWayStep DEF FileInv, FileOpOK
<1>3. FileStore!Effect(op[c], FileStands[op[c].key], t) = r
  BY SameOperators
<1>4. FileStore!Apply(c)
  BY <1>1, <1>2, <1>3 DEF FileStore!Apply
<1>5. QED
  BY <1>4 DEF FileStore!Next

LEMMA IsExpire ==
    ASSUME NEW k \in Keys, At(FileStands[k], clock) = Absent,
           FileStands' = [FileStands EXCEPT ![k] = Absent],
           FileUnderWay' = FileUnderWay, UNCHANGED <<clock, began, ret>>
    PROVE  [FileStore!Next]_(FileStore!vars)
<1>1. CASE FileStands[k] = Absent
  <2>1. FileStands' = FileStands
    BY <1>1 DEF FileStands
  <2>2. QED
    BY <2>1 DEF FileStore!vars
<1>2. CASE FileStands[k] # Absent
  <2>1. FileStore!Expire(k)
    BY <1>2, SameOperators DEF FileStore!Expire
  <2>2. QED
    BY <2>1 DEF FileStore!Next
<1>3. QED
  BY <1>1, <1>2

\* A step of c leaves what the other operations know, when it leaves their keys.
LEMMA OthersLin ==
    ASSUME FileInv, FileLin, NEW c \in Clients, UNCHANGED clock,
           \A d \in Clients \ {c} : /\ pc'[d] = pc[d] /\ op'[d] = op[d] /\ saved'[d] = saved[d]
                                    /\ got'[d] = got[d] /\ began'[d] = began[d],
           \A d \in Clients \ {c} : Inside(d) => val'[op[d].key] = val[op[d].key] /\ exp'[op[d].key] = exp[op[d].key]
    PROVE  \A d \in Clients \ {c} : LinAt(d)'
  BY DEF FileLin, LinAt, LiveSince, Inside, OnDisk

\* A step of a client inside, or let inside, a key: nobody else is there.
LEMMA AloneAt ==
    ASSUME FileInv, NEW c \in Clients,
           Inside(c) \/ (pc[c] = "lock" /\ \A d \in Clients : Inside(d) => handle[d] # handle[c])
    PROVE  /\ op[c] \in FileCalls /\ op[c].key \in Keys
           /\ \A d \in Clients \ {c} : Inside(d) => op[d].key # op[c].key /\ op[d].key \in Keys
<1>1. op[c] \in FileCalls /\ op[c].key \in Keys
  BY CallShape DEF FileInv, FileTypeOK, FileOpOK, Inside
<1>2. \A d \in Clients : Inside(d) => op[d].key \in Keys
  BY CallShape DEF FileInv, FileTypeOK, FileOpOK, Inside
<1>3. CASE Inside(c)
  BY <1>1, <1>2, <1>3, OneInsideHolds DEF OneInside
<1>4. CASE pc[c] = "lock" /\ \A d \in Clients : Inside(d) => handle[d] # handle[c]
  <2>1. handle[c] # 0 /\ \A d \in Clients : Inside(d) => handle[d] # 0
    BY <1>4 DEF FileInv, FileTypeOK, Inside
  <2>2. QED
    BY <1>1, <1>2, <1>4, <2>1 DEF FileInv, LocksRegistered
<1>5. QED
  BY <1>3, <1>4


\* What is on disk, when a key without a value has no expiry.
LEMMA DiskShape ==
    ASSUME FileInv, FileLin, NEW k \in Keys
    PROVE  /\ OnDisk(k) = [val |-> val[k], exp |-> exp[k]]
           /\ exp[k] \in Nat \cup {None} /\ val[k] \in Values \cup Nat \cup {None} /\ clock \in Nat
  BY TermsShape DEF FileInv, FileLin, FileTypeOK, FileOpOK, OnDisk, Entry, Absent

LEMMA FileBeginLin ==
    ASSUME FileInv, FileLin, NEW c \in Clients, FileBegin(c), UNCHANGED terms
    PROVE  FileLin' /\ [FileStore!Next]_(FileStore!vars)
<1>1. PICK o \in terms.ops :
        /\ op' = [op EXCEPT ![c] = o]
        /\ \/ o.kind = "keys" /\ FileGoto(c, "collect") /\ UNCHANGED <<lockVars, began>>
           \/ /\ o.kind # "keys" /\ FileGoto(c, "lock") /\ KeyLock(c, o.key)
              /\ began' = [began EXCEPT ![c] = clock]
  BY DEF FileBegin
<1>2. /\ pc[c] = "idle" /\ op[c] = None /\ UNCHANGED <<val, exp, clock, ret, saved, got, cands>>
      /\ o \in FileCalls /\ o # None /\ op \in [Clients -> FileCalls \cup {None}]
      /\ pc'[c] \in {"collect", "lock"}
      /\ \A d \in Clients \ {c} : pc'[d] = pc[d] /\ op'[d] = op[d] /\ began'[d] = began[d]
  BY <1>1, TermsShape, CallShape DEF FileBegin, FileGoto, fileVars, FileInv, FileTypeOK, FileOpOK
<1>3. \A d \in Clients \ {c} : LinAt(d)'
  BY <1>2, OthersLin
<1>4. FileLin'
  BY <1>2, <1>3 DEF FileLin, LinAt
<1>5. FileStands' = FileStands
  BY <1>2, StandsStill DEF MidSteps
<1>6. FileUnderWay' = [FileUnderWay EXCEPT ![c] = IF o.kind = "keys" THEN None ELSE o] /\ FileUnderWay[c] = None
  BY <1>1, <1>2, UnderWayStep DEF FileUnderWay
<1>7. CASE o.kind = "keys"
  <2>1. FileUnderWay' = FileUnderWay
    BY <1>6, <1>7 DEF FileUnderWay
  <2>2. QED
    BY <1>1, <1>2, <1>4, <1>5, <1>7, <2>1 DEF FileStore!vars
<1>8. CASE o.kind # "keys"
  <2>1. o \in FileOps
    BY <1>1, <1>8 DEF FileOps, CallsOf, FileInv, FileOpOK
  <2>2. FileStore!Begin(c)
    BY <1>1, <1>2, <1>5, <1>6, <1>8, <2>1 DEF FileStore!Begin
  <2>3. QED
    BY <1>4, <2>2 DEF FileStore!Next
<1>9. QED
  BY <1>7, <1>8

LEMMA LockLin ==
    ASSUME FileInv, FileLin, NEW c \in Clients, Lock(c), UNCHANGED terms
    PROVE  FileLin' /\ [FileStore!Next]_(FileStore!vars)
<1> DEFINE k == op[c].key
<1>1. /\ op[c] \in FileCalls /\ k \in Keys
      /\ \A d \in Clients \ {c} : Inside(d) => op[d].key # k /\ op[d].key \in Keys
  BY AloneAt DEF Lock
<1>2. /\ pc[c] = "lock" /\ UNCHANGED <<val, exp, clock, op, began, ret, got>>
      /\ pc'[c] = First(op[c]) /\ \A d \in Clients \ {c} : pc'[d] = pc[d]
  BY DEF Lock, FileGoto, fileVars, FileInv, FileTypeOK
<1>3. saved' = [saved EXCEPT ![c] = OnDisk(k)]
  BY DEF Lock
<1>4. saved'[c] = OnDisk(k) /\ \A d \in Clients \ {c} : saved'[d] = saved[d]
  BY <1>3 DEF FileLin

<1>5. saved' = [d \in Clients |-> saved'[d]]
  BY <1>3 DEF FileLin
<1>6. OnDisk(k)' = OnDisk(k)
  BY <1>2 DEF OnDisk
<1>7. LinAt(c)'
  BY <1>1, <1>2, <1>4, <1>6, CallShape DEF LinAt, First
<1>8. FileLin'
  BY <1>2, <1>4, <1>5, <1>7, OthersLin DEF FileLin
<1>9. FileStands' = [FileStands EXCEPT ![k] = OnDisk(k)] /\ FileStands[k] = OnDisk(k)
  BY <1>1, <1>2, <1>4, <1>6, StandsStep DEF MidSteps, OnDisk
<1>10. FileStands' = FileStands
  BY <1>9 DEF FileStands
<1>11. QED
  BY <1>2, <1>8, <1>10 DEF FileStore!vars, FileUnderWay

\* g is f but at x.
OnlyAt(x, f, g) == g = [f EXCEPT ![x] = g[x]]

\* The key as one step of the client inside it leaves the store, and the others.
LEMMA StepAt ==
    ASSUME FileInv, FileLin, NEW c \in Clients, Inside(c), NEW k, k = op[c].key,
           NEW p, FileGoto(c, p),
           \/ op' = op
           \/ op' = [op EXCEPT ![c] = None] /\ p = "idle",
           OnlyAt(c, saved, saved'), OnlyAt(c, got, got'),
           OnlyAt(k, val, val'), OnlyAt(k, exp, exp'),
           val'[k] = None => exp'[k] = None,
           UNCHANGED <<terms, clock, began>>
    PROVE  /\ LinAt(c)' => FileLin'
           /\ FileStands' = [FileStands EXCEPT ![k] = IF p \in MidSteps THEN saved'[c] ELSE Entry(val'[k], exp'[k])]
           /\ FileStands[k] = IF pc[c] \in MidSteps THEN saved[c] ELSE OnDisk(k)
           /\ pc'[c] = p /\ op[c] \in FileCalls /\ k \in Keys
           /\ op' = op => FileUnderWay' = FileUnderWay
<1>1. /\ op[c] \in FileCalls /\ k \in Keys
      /\ \A d \in Clients \ {c} : Inside(d) => op[d].key # k /\ op[d].key \in Keys
  BY AloneAt
<1>2. pc'[c] = p /\ \A d \in Clients \ {c} : pc'[d] = pc[d]
  BY DEF FileGoto, FileInv, FileTypeOK
<1>3. \A d \in Clients \ {c} : op'[d] = op[d]
  BY DEF FileInv, FileOpOK
<1>4. saved' = [d \in Clients |-> saved'[d]] /\ \A d \in Clients \ {c} : saved'[d] = saved[d]
  BY DEF FileLin, OnlyAt
<1>5. \A d \in Clients \ {c} : got'[d] = got[d]
  BY DEF FileInv, FileOpOK, OnlyAt
<1>6. \A j \in Keys \ {k} : val'[j] = val[j] /\ exp'[j] = exp[j]
  BY DEF FileInv, FileTypeOK, FileOpOK, OnlyAt
<1>7. \A d \in Clients \ {c} : LinAt(d)'
  BY <1>1, <1>2, <1>3, <1>4, <1>5, <1>6, OthersLin
<1>8. LinAt(c)' => FileLin'
  BY <1>1, <1>4, <1>6, <1>7 DEF FileLin
<1>9. p \in MidSteps => op'[c].key = k
  BY DEF MidSteps
<1>10. /\ FileStands' = [FileStands EXCEPT ![k] = IF pc'[c] \in MidSteps THEN saved'[c] ELSE Entry(val'[k], exp'[k])]
       /\ FileStands[k] = IF pc[c] \in MidSteps THEN saved[c] ELSE OnDisk(k)
  BY <1>1, <1>2, <1>3, <1>4, <1>6, <1>9, StandsStep
<1>11. op' = op => FileUnderWay' = FileUnderWay
  BY DEF FileUnderWay
<1>12. QED
  BY <1>1, <1>2, <1>8, <1>10, <1>11

LEMMA CheckExpiryLin ==
    ASSUME FileInv, FileLin, NEW c \in Clients, CheckExpiry(c), UNCHANGED terms
    PROVE  FileLin' /\ [FileStore!Next]_(FileStore!vars)
<1> DEFINE k == op[c].key
<1>1. /\ pc[c] = "check" /\ Inside(c) /\ UNCHANGED <<val, exp, clock, began, ret, op>>
      /\ op[c].kind # "delete"
  BY DEF CheckExpiry, NextKey, Inside, fileVars, FileInv, FileOpOK
<1>2. saved[c] = OnDisk(k) /\ saved' \in {saved, [saved EXCEPT ![c] = Absent]}
      /\ got' \in {got, [got EXCEPT ![c] = None]}
  BY <1>1 DEF FileLin, LinAt, CheckExpiry, NextKey, Release
<1>3. k \in Keys
  BY <1>1, AloneAt
<1>4. /\ OnDisk(k) = [val |-> val[k], exp |-> exp[k]] /\ exp[k] \in Nat \cup {None} /\ clock \in Nat
      /\ val[k] = None => exp[k] = None
      /\ began[c] \in Nat /\ began[c] <= clock
  BY <1>3, DiskShape DEF FileLin, FileInv, FileTypeOK
<1>5. OnDisk(k)' = OnDisk(k)
  BY <1>1 DEF OnDisk
<1>6. PICK p \in {"evict", "read", "next"} :
        /\ FileGoto(c, p)
        /\ p \in {"evict", "read"} => saved' = saved
        /\ p = "evict" => Expired(k)
        /\ p = "read" => ~Expired(k)
  BY DEF CheckExpiry, NextKey
<1>7. /\ LinAt(c)' => FileLin'
      /\ FileStands' = [FileStands EXCEPT ![k] = IF p \in MidSteps THEN saved'[c] ELSE Entry(val'[k], exp'[k])]
      /\ FileStands[k] = IF pc[c] \in MidSteps THEN saved[c] ELSE OnDisk(k)
      /\ pc'[c] = p /\ op[c] \in FileCalls /\ k \in Keys
      /\ op' = op => FileUnderWay' = FileUnderWay
  <2>1. OnlyAt(k, val, val') /\ OnlyAt(k, exp, exp')
    BY <1>1 DEF FileInv, FileTypeOK, FileOpOK, OnlyAt
  <2>2. OnlyAt(c, saved, saved') /\ OnlyAt(c, got, got')
    BY <1>2 DEF FileLin, FileInv, FileOpOK, OnlyAt
  <2>3. val'[k] = None => exp'[k] = None
    BY <1>1, <1>4
  <2>4. QED
    BY <1>1, <1>6, <2>1, <2>2, <2>3, StepAt
<1>8. FileStands' = FileStands
  <2>1. FileStands' = [FileStands EXCEPT ![k] = OnDisk(k)] /\ FileStands[k] = OnDisk(k)
    BY <1>1, <1>2, <1>5, <1>6, <1>7 DEF MidSteps, OnDisk
  <2>2. QED
    BY <2>1 DEF FileStands
<1>9. LinAt(c)'
  <2>1. CASE p = "evict"
    <3>1. At(saved[c], clock) = Absent /\ saved[c].exp \in Nat \cup {None}
      BY <1>2, <1>4, <1>6, <2>1 DEF At, Expired
    <3>2. QED
      BY <1>1, <1>2, <1>5, <1>6, <1>7, <2>1, <3>1 DEF LinAt
  <2>2. CASE p = "read"
    <3>1. At(OnDisk(k), clock) = OnDisk(k) /\ clock \in began[c] .. clock
      BY <1>4, <1>6, <2>2 DEF At, Expired
    <3>2. LiveSince(c)'
      BY <1>1, <1>5, <3>1 DEF LiveSince
    <3>3. QED
      BY <1>7, <2>2, <3>2 DEF LinAt
  <2>3. CASE p = "next"
    BY <1>7, <2>3 DEF LinAt
  <2>4. QED
    BY <2>1, <2>2, <2>3
<1>10. QED
  BY <1>1, <1>7, <1>8, <1>9 DEF FileStore!vars


LEMMA EvictTtlLin ==
    ASSUME FileInv, FileLin, NEW c \in Clients, EvictTtl(c), UNCHANGED terms
    PROVE  FileLin' /\ [FileStore!Next]_(FileStore!vars)
<1> DEFINE k == op[c].key
<1>1. /\ pc[c] = "evict" /\ Inside(c) /\ UNCHANGED <<val, clock, began, ret, op, saved, got>>
      /\ FileGoto(c, "sweep") /\ exp' = [exp EXCEPT ![k] = None]
  BY DEF EvictTtl, Inside
<1>2. k \in Keys
  BY <1>1, AloneAt
<1>3. exp'[k] = None /\ OnlyAt(k, exp, exp') /\ OnlyAt(k, val, val')
  BY <1>1, <1>2 DEF FileInv, FileTypeOK, FileOpOK, OnlyAt
<1>4. OnlyAt(c, saved, saved') /\ OnlyAt(c, got, got')
  BY <1>1 DEF FileLin, FileInv, FileOpOK, OnlyAt
<1>5. /\ LinAt(c)' => FileLin'
      /\ FileStands' = [FileStands EXCEPT ![k] = saved'[c]] /\ FileStands[k] = saved[c]
      /\ pc'[c] = "sweep" /\ FileUnderWay' = FileUnderWay
  BY <1>1, <1>3, <1>4, StepAt DEF MidSteps
<1>6. LinAt(c)'
  <2>1. op[c].kind # "delete" => saved[c].exp \in Nat \cup {None} /\ At(saved[c], clock) = Absent
    BY <1>1 DEF FileLin, LinAt
  <2>2. QED
    BY <1>1, <1>3, <1>5, <2>1 DEF LinAt
<1>7. FileStands' = FileStands
  BY <1>1, <1>5 DEF FileStands
<1>8. QED
  BY <1>1, <1>5, <1>6, <1>7 DEF FileStore!vars

LEMMA EvictValueLin ==
    ASSUME FileInv, FileLin, NEW c \in Clients, EvictValue(c), UNCHANGED terms
    PROVE  FileLin' /\ [FileStore!Next]_(FileStore!vars)
<1> DEFINE k == op[c].key
<1>1. /\ pc[c] = "sweep" /\ Inside(c) /\ UNCHANGED <<exp, clock, began>>
      /\ val' = [val EXCEPT ![k] = None] /\ Decide(c, None)
  BY DEF EvictValue, Inside
<1>2. /\ op[c] \in FileCalls /\ k \in Keys /\ op[c].kind \in {"get", "delete", "increment", "cas", "keys"}
  BY <1>1, AloneAt, CallShape DEF FileInv, FileOpOK
<1>3. /\ val'[k] = None /\ exp'[k] = None
      /\ OnlyAt(k, exp, exp') /\ OnlyAt(k, val, val')
  BY <1>1, <1>2 DEF FileLin, LinAt, FileInv, FileTypeOK, FileOpOK, OnlyAt
<1>4. /\ clock \in Nat /\ clock \in began[c] .. clock
  BY <1>2, DiskShape DEF FileInv, FileTypeOK
<1>5. Entry(val'[k], exp'[k]) = Absent
  BY <1>3 DEF Entry
<1>6. op[c].kind # "delete" => At(saved[c], clock) = Absent
  BY <1>1 DEF FileLin, LinAt
<1>7. CASE \E a : FileFinish(c, a)
  <2>1. /\ op' = [op EXCEPT ![c] = None] /\ FileGoto(c, "idle")
        /\ OnlyAt(c, saved, saved') /\ OnlyAt(c, got, got')
    BY <1>7 DEF FileFinish, Release, FileLin, FileInv, FileOpOK, OnlyAt
  <2>2. /\ LinAt(c)' => FileLin'
        /\ FileStands' = [FileStands EXCEPT ![k] = Absent] /\ FileStands[k] = saved[c]
        /\ pc'[c] = "idle"
    <3>1. /\ LinAt(c)' => FileLin'
          /\ FileStands' = [FileStands EXCEPT ![k] = IF "idle" \in MidSteps THEN saved'[c] ELSE Entry(val'[k], exp'[k])]
          /\ FileStands[k] = IF pc[c] \in MidSteps THEN saved[c] ELSE OnDisk(k)
          /\ pc'[c] = "idle" /\ (op' = op => FileUnderWay' = FileUnderWay)
      BY <1>1, <1>3, <2>1, StepAt
    <3>2. QED
      BY <1>1, <1>3, <2>1, <1>5, <3>1 DEF MidSteps
  <2>3. LinAt(c)'
    BY <2>2 DEF LinAt
  <2> DEFINE r == Effect(op[c], saved[c], clock)
  <2>4. op[c].kind # "keys" /\ r.entry = Absent /\ ret' = [ret EXCEPT ![c] = r.ret]
    <3>1. CASE op[c].kind = "get"
      BY <1>1, <1>6, <3>1 DEF Decide, FileFinish, Effect, Absent
    <3>2. CASE op[c].kind = "delete"
      BY <1>1, <3>2 DEF Decide, FileFinish, Effect
    <3>3. CASE op[c].kind = "increment"
      <4>1. FileGoto(c, "write")
        BY <1>1, <3>3 DEF Decide, Countable
      <4>2. QED
        BY <2>2, <4>1 DEF FileGoto, FileInv, FileTypeOK
    <3>4. CASE op[c].kind = "cas"
      <4>1. CASE None # op[c].expected
        BY <1>1, <1>6, <3>4, <4>1 DEF Decide, FileFinish, Effect, Absent
      <4>2. CASE None = op[c].expected
        <5>1. FileGoto(c, "write")
          BY <1>1, <3>4, <4>2 DEF Decide
        <5>2. QED
          BY <2>2, <5>1 DEF FileGoto, FileInv, FileTypeOK
      <4>3. QED
        BY <4>1, <4>2
    <3>5. CASE op[c].kind = "keys"
      <4>1. FileGoto(c, "next")
        BY <1>1, <3>5 DEF Decide, NextKey
      <4>2. QED
        BY <2>2, <4>1 DEF FileGoto, FileInv, FileTypeOK
    <3>6. QED
      BY <1>2, <3>1, <3>2, <3>3, <3>4, <3>5
  <2> HIDE DEF r
  <2>5. r = Effect(op[c], FileStands[k], clock)
    BY <2>2 DEF r
  <2>6. FileStore!Next
    BY <1>1, <1>2, <1>4, <2>1, <2>2, <2>4, <2>5, IsApply
  <2>7. QED
    BY <2>2, <2>3, <2>6
<1>8. CASE /\ op[c].kind = "keys" /\ NextKey(c)
  <2>1. /\ op' = op /\ ret' = ret /\ FileGoto(c, "next")
        /\ OnlyAt(c, saved, saved') /\ OnlyAt(c, got, got')
    BY <1>8 DEF NextKey, Release, FileLin, FileInv, FileOpOK, OnlyAt
  <2>2. /\ LinAt(c)' => FileLin'
        /\ FileStands' = [FileStands EXCEPT ![k] = Absent] /\ FileStands[k] = saved[c]
        /\ pc'[c] = "next" /\ FileUnderWay' = FileUnderWay
    <3>1. /\ LinAt(c)' => FileLin'
          /\ FileStands' = [FileStands EXCEPT ![k] = IF "next" \in MidSteps THEN saved'[c] ELSE Entry(val'[k], exp'[k])]
          /\ FileStands[k] = IF pc[c] \in MidSteps THEN saved[c] ELSE OnDisk(k)
          /\ pc'[c] = "next" /\ (op' = op => FileUnderWay' = FileUnderWay)
      BY <1>1, <1>3, <2>1, StepAt
    <3>2. QED
      BY <1>1, <1>3, <2>1, <1>5, <3>1 DEF MidSteps
  <2>3. LinAt(c)'
    BY <2>2 DEF LinAt
  <2>4. QED
    BY <1>1, <1>2, <1>6, <1>8, <2>1, <2>2, <2>3, IsExpire
<1>9. CASE /\ op[c].kind \in {"increment", "cas"} /\ FileGoto(c, "write")
           /\ op[c].kind = "cas" => op[c].expected = None
           /\ got' = [got EXCEPT ![c] = None] /\ UNCHANGED <<op, ret, handle, saved>>
  <2>1. /\ OnlyAt(c, saved, saved') /\ OnlyAt(c, got, got') /\ got'[c] = None
    BY <1>9 DEF FileLin, FileInv, FileOpOK, OnlyAt
  <2>2. /\ LinAt(c)' => FileLin'
        /\ FileStands' = [FileStands EXCEPT ![k] = Absent] /\ FileStands[k] = saved[c]
        /\ pc'[c] = "write" /\ FileUnderWay' = FileUnderWay
    <3>1. /\ LinAt(c)' => FileLin'
          /\ FileStands' = [FileStands EXCEPT ![k] = IF "write" \in MidSteps THEN saved'[c] ELSE Entry(val'[k], exp'[k])]
          /\ FileStands[k] = IF pc[c] \in MidSteps THEN saved[c] ELSE OnDisk(k)
          /\ pc'[c] = "write" /\ (op' = op => FileUnderWay' = FileUnderWay)
      BY <1>1, <1>3, <1>9, <2>1, StepAt
    <3>2. QED
      BY <1>1, <1>3, <1>9, <2>1, <1>5, <3>1 DEF MidSteps
  <2>3. LiveSince(c)'
    <3>1. At(Absent, clock) = Absent
      BY DEF At, Absent
    <3>2. QED
      BY <1>1, <1>4, <1>5, <1>9, <3>1 DEF LiveSince, OnDisk
  <2>4. LinAt(c)'
    BY <1>9, <2>1, <2>2, <2>3 DEF LinAt
  <2>5. QED
    BY <1>1, <1>2, <1>6, <1>9, <2>2, <2>4, IsExpire
<1>10. QED
  BY <1>1, <1>2, <1>7, <1>8, <1>9 DEF Decide


LEMMA ReadLin ==
    ASSUME FileInv, FileLin, NEW c \in Clients, Read(c), UNCHANGED terms
    PROVE  FileLin' /\ [FileStore!Next]_(FileStore!vars)
<1> DEFINE k == op[c].key
           v == val[k]
<1>1. /\ pc[c] = "read" /\ Inside(c) /\ UNCHANGED <<val, exp, clock, began>> /\ Decide(c, v)
  BY DEF Read, Inside, fileVars
<1>2. /\ op[c] \in FileCalls /\ k \in Keys /\ op[c].kind \in {"get", "increment", "cas"}
  BY <1>1, AloneAt, CallShape DEF FileInv, FileOpOK
<1>3. /\ OnlyAt(k, exp, exp') /\ OnlyAt(k, val, val')
  BY <1>1, <1>2 DEF FileInv, FileTypeOK, FileOpOK, OnlyAt
<1>4. /\ OnDisk(k) = [val |-> v, exp |-> exp[k]] /\ Entry(val'[k], exp'[k]) = OnDisk(k)
      /\ val'[k] = None => exp'[k] = None
  BY <1>1, <1>2, DiskShape DEF OnDisk, FileLin
<1>5. PICK t \in began[c] .. clock : At(OnDisk(k), t) = OnDisk(k)
  BY <1>1 DEF FileLin, LinAt, LiveSince
<1>6. CASE \E a : FileFinish(c, a)
  <2>1. /\ op' = [op EXCEPT ![c] = None] /\ FileGoto(c, "idle")
        /\ OnlyAt(c, saved, saved') /\ OnlyAt(c, got, got')
    BY <1>6 DEF FileFinish, Release, FileLin, FileInv, FileOpOK, OnlyAt
  <2>2. /\ LinAt(c)' => FileLin'
        /\ FileStands' = [FileStands EXCEPT ![k] = OnDisk(k)] /\ FileStands[k] = OnDisk(k)
        /\ pc'[c] = "idle"
    <3>1. /\ LinAt(c)' => FileLin'
          /\ FileStands' = [FileStands EXCEPT ![k] = IF "idle" \in MidSteps THEN saved'[c] ELSE Entry(val'[k], exp'[k])]
          /\ FileStands[k] = IF pc[c] \in MidSteps THEN saved[c] ELSE OnDisk(k)
          /\ pc'[c] = "idle"
      BY <1>1, <1>3, <1>4, <2>1, StepAt
    <3>2. QED
      BY <1>1, <1>4, <3>1 DEF MidSteps
  <2>3. LinAt(c)'
    BY <2>2 DEF LinAt
  <2> DEFINE r == Effect(op[c], OnDisk(k), t)
  <2>4. r.entry = OnDisk(k) /\ ret' = [ret EXCEPT ![c] = r.ret]
    <3>1. CASE op[c].kind = "get"
      BY <1>1, <1>4, <1>5, <3>1 DEF Decide, FileFinish, Effect
    <3>2. CASE op[c].kind = "increment"
      <4>1. CASE ~Countable(v)
        BY <1>1, <1>4, <1>5, <3>2, <4>1 DEF Decide, FileFinish, Effect
      <4>2. CASE Countable(v)
        <5>1. FileGoto(c, "write")
          BY <1>1, <3>2, <4>2 DEF Decide
        <5>2. QED
          BY <2>2, <5>1 DEF FileGoto, FileInv, FileTypeOK
      <4>3. QED
        BY <4>1, <4>2
    <3>3. CASE op[c].kind = "cas"
      <4>1. CASE v # op[c].expected
        BY <1>1, <1>4, <1>5, <3>3, <4>1 DEF Decide, FileFinish, Effect
      <4>2. CASE v = op[c].expected
        <5>1. FileGoto(c, "write")
          BY <1>1, <3>3, <4>2 DEF Decide
        <5>2. QED
          BY <2>2, <5>1 DEF FileGoto, FileInv, FileTypeOK
      <4>3. QED
        BY <4>1, <4>2
    <3>4. QED
      BY <1>2, <3>1, <3>2, <3>3
  <2> HIDE DEF r
  <2>5. r = Effect(op[c], FileStands[k], t)
    BY <2>2 DEF r
  <2>6. FileStore!Next
    BY <1>1, <1>2, <2>1, <2>2, <2>4, <2>5, IsApply
  <2>7. QED
    BY <2>2, <2>3, <2>6
<1>7. CASE /\ op[c].kind \in {"increment", "cas"} /\ FileGoto(c, "write")
           /\ op[c].kind = "cas" => op[c].expected = v
           /\ got' = [got EXCEPT ![c] = v] /\ UNCHANGED <<op, ret, handle, saved>>
  <2>1. /\ OnlyAt(c, saved, saved') /\ OnlyAt(c, got, got') /\ got'[c] = v
    BY <1>7 DEF FileLin, FileInv, FileOpOK, OnlyAt
  <2>2. /\ LinAt(c)' => FileLin'
        /\ FileStands' = [FileStands EXCEPT ![k] = OnDisk(k)] /\ FileStands[k] = OnDisk(k)
        /\ pc'[c] = "write" /\ FileUnderWay' = FileUnderWay
    <3>1. /\ LinAt(c)' => FileLin'
          /\ FileStands' = [FileStands EXCEPT ![k] = IF "write" \in MidSteps THEN saved'[c] ELSE Entry(val'[k], exp'[k])]
          /\ FileStands[k] = IF pc[c] \in MidSteps THEN saved[c] ELSE OnDisk(k)
          /\ pc'[c] = "write" /\ (op' = op => FileUnderWay' = FileUnderWay)
      BY <1>1, <1>3, <1>4, <1>7, <2>1, StepAt
    <3>2. QED
      BY <1>1, <1>4, <1>7, <3>1 DEF MidSteps
  <2>3. LiveSince(c)'
    BY <1>1, <1>4, <1>5, <1>7 DEF LiveSince, OnDisk
  <2>4. LinAt(c)'
    BY <1>7, <2>1, <2>2, <2>3 DEF LinAt
  <2>5. FileStands' = FileStands
    BY <2>2 DEF FileStands
  <2>6. QED
    BY <1>1, <1>7, <2>2, <2>4, <2>5 DEF FileStore!vars
<1>8. QED
  BY <1>1, <1>2, <1>6, <1>7 DEF Decide

LEMMA WriteLin ==
    ASSUME FileInv, FileLin, NEW c \in Clients, Write(c), UNCHANGED terms
    PROVE  FileLin' /\ [FileStore!Next]_(FileStore!vars)
<1> DEFINE k == op[c].key
           v == IF op[c].kind = "increment" THEN AddOne(got[c]) ELSE op[c].val
<1>1. /\ pc[c] = "write" /\ Inside(c) /\ UNCHANGED <<exp, clock, began>>
      /\ val' = [val EXCEPT ![k] = v]
  BY DEF Write, Inside
<1>2. /\ op[c] \in FileCalls /\ k \in Keys /\ op[c].kind \in {"set", "increment", "cas"}
  BY <1>1, AloneAt, CallShape DEF FileInv, FileOpOK
<1>3. v # None
  <2>1. CASE op[c].kind = "increment"
    <3>1. got[c] = None \/ got[c] \in Nat
      BY <1>1, <2>1, BucketAssumption DEF Countable, FileInv, FileOpOK
    <3>2. AddOne(got[c]) \in Nat
      BY <3>1 DEF AddOne
    <3>3. QED
      BY <2>1, <3>2, BucketAssumption
  <2>2. CASE op[c].kind \in {"set", "cas"}
    <3>1. op[c].val \in Values \cup Nat
      BY <1>2, <2>2, CallShape
    <3>2. QED
      BY <2>2, <3>1, BucketAssumption
  <2>3. QED
    BY <1>2, <2>1, <2>2
<1> HIDE DEF v
<1>4. /\ OnlyAt(k, exp, exp') /\ OnlyAt(k, val, val') /\ val'[k] = v /\ exp'[k] = exp[k]
      /\ val'[k] = None => exp'[k] = None
  BY <1>1, <1>2, <1>3 DEF FileInv, FileTypeOK, FileOpOK, OnlyAt
<1>5. OnDisk(k) = [val |-> val[k], exp |-> exp[k]] /\ Entry(val'[k], exp'[k]) = Entry(v, exp[k])
  BY <1>2, <1>4, DiskShape
<1>6. CASE op[c].kind = "set"
  <2>1. FileGoto(c, "ttl") /\ UNCHANGED <<op, ret, handle, saved, got>>
    BY <1>6 DEF Write
  <2>2. /\ OnlyAt(c, saved, saved') /\ OnlyAt(c, got, got') /\ saved'[c] = OnDisk(k)
    BY <1>1, <1>6, <2>1 DEF FileLin, LinAt, FileInv, FileOpOK, OnlyAt
  <2>3. /\ LinAt(c)' => FileLin'
        /\ FileStands' = [FileStands EXCEPT ![k] = IF "ttl" \in MidSteps THEN saved'[c] ELSE Entry(val'[k], exp'[k])]
        /\ FileStands[k] = IF pc[c] \in MidSteps THEN saved[c] ELSE OnDisk(k)
        /\ pc'[c] = "ttl" /\ (op' = op => FileUnderWay' = FileUnderWay)
    BY <1>1, <1>4, <2>1, <2>2, StepAt
  <2>4. FileStands' = [FileStands EXCEPT ![k] = OnDisk(k)] /\ FileStands[k] = OnDisk(k)
    BY <1>1, <2>2, <2>3 DEF MidSteps
  <2>5. FileStands' = FileStands
    BY <2>4 DEF FileStands
  <2>6. LinAt(c)'
    BY <1>4, <1>6, <2>1, <2>3 DEF LinAt, v
  <2>7. QED
    BY <1>1, <2>1, <2>3, <2>5, <2>6 DEF FileStore!vars
<1>7. CASE op[c].kind \in {"increment", "cas"}
  <2>1. FileFinish(c, Answer("ok", IF op[c].kind = "increment" THEN v ELSE None))
    BY <1>7 DEF Write, v
  <2>2. /\ op' = [op EXCEPT ![c] = None] /\ FileGoto(c, "idle")
        /\ OnlyAt(c, saved, saved') /\ OnlyAt(c, got, got')
    BY <2>1 DEF FileFinish, Release, FileLin, FileInv, FileOpOK, OnlyAt
  <2>3. /\ LinAt(c)' => FileLin'
        /\ FileStands' = [FileStands EXCEPT ![k] = IF "idle" \in MidSteps THEN saved'[c] ELSE Entry(val'[k], exp'[k])]
        /\ FileStands[k] = IF pc[c] \in MidSteps THEN saved[c] ELSE OnDisk(k)
        /\ pc'[c] = "idle"
    BY <1>1, <1>4, <2>2, StepAt
  <2>4. FileStands' = [FileStands EXCEPT ![k] = Entry(v, exp[k])] /\ FileStands[k] = OnDisk(k)
    BY <1>1, <1>5, <2>3 DEF MidSteps
  <2>5. LinAt(c)'
    BY <2>3 DEF LinAt
  <2>6. PICK t \in began[c] .. clock : At(OnDisk(k), t) = OnDisk(k)
    BY <1>1, <1>7 DEF FileLin, LinAt, LiveSince
  <2>7. val[k] = got[c]
    BY <1>1, <1>7 DEF FileInv, ReadStillThere
  <2> DEFINE r == Effect(op[c], OnDisk(k), t)
  <2>8. r.entry = Entry(v, exp[k]) /\ ret' = [ret EXCEPT ![c] = r.ret]
    <3>1. CASE op[c].kind = "increment"
      <4>1. Countable(val[k])
        BY <1>1, <2>7, <3>1 DEF FileInv, FileOpOK
      <4>2. r = [entry |-> Entry(AddOne(val[k]), exp[k]), ret |-> Answer("ok", AddOne(val[k]))]
        BY <1>5, <2>6, <3>1, <4>1 DEF Effect
      <4>3. v = AddOne(val[k])
        BY <2>7, <3>1 DEF v
      <4>4. QED
        BY <2>1, <3>1, <4>2, <4>3 DEF FileFinish
    <3>2. CASE op[c].kind = "cas"
      <4>1. val[k] = op[c].expected
        BY <1>1, <2>7, <3>2 DEF FileLin, LinAt
      <4>2. r = [entry |-> Entry(op[c].val, exp[k]), ret |-> Answer("ok", None)]
        BY <1>5, <2>6, <3>2, <4>1 DEF Effect
      <4>3. v = op[c].val
        BY <3>2 DEF v
      <4>4. QED
        BY <2>1, <3>2, <4>2, <4>3 DEF FileFinish
    <3>3. QED
      BY <1>7, <3>1, <3>2
  <2> HIDE DEF r
  <2>9. r = Effect(op[c], FileStands[k], t)
    BY <2>4 DEF r
  <2>10. FileStore!Next
    BY <1>1, <1>2, <1>7, <2>2, <2>4, <2>8, <2>9, IsApply
  <2>11. QED
    BY <2>3, <2>5, <2>10
<1>8. QED
  BY <1>2, <1>6, <1>7

LEMMA WriteTtlLin ==
    ASSUME FileInv, FileLin, NEW c \in Clients, WriteTtl(c), UNCHANGED terms
    PROVE  FileLin' /\ [FileStore!Next]_(FileStore!vars)
<1> DEFINE k == op[c].key
           e == Deadline(op[c].ttl, clock)
<1>1. /\ pc[c] = "ttl" /\ Inside(c) /\ UNCHANGED <<val, clock, began>> /\ op[c].kind = "set"
      /\ exp' = [exp EXCEPT ![k] = e] /\ FileFinish(c, Answer("ok", None))
  BY DEF WriteTtl, Inside, FileInv, FileOpOK
<1>2. op[c] \in FileCalls /\ k \in Keys /\ val[k] = op[c].val /\ op[c].val # None
  BY <1>1, AloneAt, CallShape, BucketAssumption DEF FileLin, LinAt
<1> HIDE DEF e
<1>3. /\ OnlyAt(k, exp, exp') /\ OnlyAt(k, val, val') /\ val'[k] = op[c].val /\ exp'[k] = e
  BY <1>1, <1>2 DEF FileInv, FileTypeOK, FileOpOK, OnlyAt
<1>4. clock \in Nat /\ clock \in began[c] .. clock
  BY <1>2, DiskShape DEF FileInv, FileTypeOK
<1>5. /\ op' = [op EXCEPT ![c] = None] /\ FileGoto(c, "idle")
      /\ OnlyAt(c, saved, saved') /\ OnlyAt(c, got, got')
  BY <1>1 DEF FileFinish, Release, FileLin, FileInv, FileOpOK, OnlyAt
<1>6. /\ LinAt(c)' => FileLin'
      /\ FileStands' = [FileStands EXCEPT ![k] = IF "idle" \in MidSteps THEN saved'[c] ELSE Entry(val'[k], exp'[k])]
      /\ pc'[c] = "idle"
  BY <1>1, <1>2, <1>3, <1>5, StepAt
<1>7. FileStands' = [FileStands EXCEPT ![k] = Entry(op[c].val, e)]
  BY <1>3, <1>6 DEF MidSteps
<1>8. LinAt(c)'
  BY <1>6 DEF LinAt
<1> DEFINE r == Effect(op[c], FileStands[k], clock)
<1>9. r.entry = Entry(op[c].val, e) /\ ret' = [ret EXCEPT ![c] = r.ret]
  BY <1>1 DEF FileFinish, Effect, e
<1> HIDE DEF r
<1>10. r = Effect(op[c], FileStands[k], clock)
  BY DEF r
<1>11. FileStore!Next
  BY <1>1, <1>2, <1>4, <1>5, <1>7, <1>9, <1>10, IsApply
<1>12. QED
  BY <1>6, <1>8, <1>11

\* A listing between two keys is no step of the store's.
LEMMA ListingLin ==
    ASSUME FileInv, FileLin, NEW c \in Clients, Collect(c) \/ Candidate(c), UNCHANGED terms
    PROVE  FileLin' /\ [FileStore!Next]_(FileStore!vars)
<1>1. /\ pc[c] \in {"collect", "next"} /\ pc'[c] \in {"next", "idle", "lock"}
      /\ UNCHANGED <<val, exp, clock, began, ret, saved, got>>
      /\ \A d \in Clients \ {c} : pc'[d] = pc[d]
  BY DEF Collect, Candidate, FileGoto, fileVars, FileInv, FileTypeOK
<1>2. /\ op[c] \in [kind : {"keys"}, key : Keys] /\ \A d \in Clients \ {c} : op'[d] = op[d]
      /\ op'[c] = None \/ op'[c].kind = "keys"
  <2>1. op[c] \in [kind : {"keys"}, key : Keys]
    BY <1>1, CallShape DEF FileInv, FileTypeOK, FileOpOK
  <2>2. CASE Collect(c)
    BY <2>1, <2>2 DEF Collect
  <2>3. CASE Candidate(c)
    BY <2>1, <2>3 DEF Candidate, FileInv, FileOpOK
  <2>4. QED
    BY <2>1, <2>2, <2>3
<1>3. FileUnderWay' = FileUnderWay
  BY <1>2 DEF FileUnderWay
<1>4. FileStands' = FileStands
  BY <1>1, <1>2, StandsStill DEF MidSteps
<1>5. \A d \in Clients \ {c} : LinAt(d)'
  BY <1>1, <1>2, OthersLin
<1>6. FileLin'
  BY <1>1, <1>5 DEF FileLin, LinAt
<1>7. QED
  BY <1>1, <1>3, <1>4, <1>6 DEF FileStore!vars

LEMMA FileTickLin ==
    ASSUME FileInv, FileLin, FileTick, UNCHANGED terms
    PROVE  FileLin' /\ [FileStore!Next]_(FileStore!vars)
<1>1. /\ clock' = clock + 1 /\ clock \in Nat /\ began \in [Clients -> 0 .. clock]
      /\ UNCHANGED <<val, exp, op, began, ret, pc, saved, got>>
  BY TermsShape DEF FileTick, fileVars, FileInv, FileTypeOK
<1>2. FileStands' = FileStands /\ FileUnderWay' = FileUnderWay
  BY <1>1 DEF FileStands, FileUnderWay, OnDisk
<1>3. \A e : e.exp \in Nat \cup {None} /\ At(e, clock) = Absent => At(e, clock') = Absent
  BY <1>1 DEF At
<1>4. \A c \in Clients : LiveSince(c) => LiveSince(c)'
  BY <1>1 DEF LiveSince, OnDisk
<1>5. \A c \in Clients : LinAt(c)'
  BY <1>1, <1>3, <1>4 DEF FileLin, LinAt, OnDisk
<1>6. FileLin'
  BY <1>1, <1>5 DEF FileLin
<1>7. FileStore!Tick
  BY <1>1, <1>2 DEF FileStore!Tick
<1>8. QED
  BY <1>6, <1>7 DEF FileStore!Next

LEMMA FileLinStep ==
    ASSUME FileInv, FileLin, FileNext
    PROVE  FileLin' /\ [FileStore!Next]_(FileStore!vars)
  BY FileBeginLin, LockLin, CheckExpiryLin, EvictTtlLin, EvictValueLin, ReadLin, WriteLin, WriteTtlLin,
     ListingLin, FileTickLin DEF FileNext, FileStep, FileLin, Fails, EvictTtlFails,
     EvictValueFails, Crash

LEMMA FileLinInit ==
    ASSUME FileInit
    PROVE  /\ ~terms.fails => FileLin
           /\ FileStore!Init
<1>1. ~terms.fails => FileLin
  BY DEF FileInit, BucketInit, FileLin, LinAt
<1>2. FileStands = [k \in Keys |-> Absent]
  BY DEF FileInit, FileStands, OnDisk, Entry
<1>3. FileUnderWay = [c \in Clients |-> None]
  BY DEF FileInit, BucketInit, FileUnderWay
<1>4. QED
  BY <1>1, <1>2, <1>3, SameOperators DEF FileInit, BucketInit, FileStore!Init, FileStore!Answer, Answer


-------------------------------------------------------------------------------
(***************************************************************************)
(* The stream                                                              *)
(***************************************************************************)

Publishes ==
    [id : 1 .. MaxOps, kind : {"get", "set", "delete", "increment", "cas"}, key : Keys,
     val : Values \cup Nat \cup {None}, put : BOOLEAN, rev : Nat \cup {None}, ttl : Nat \cup {None}]

Snapshots == [rev : Nat, val : Values \cup Nat \cup {None}, ttl : Nat \cup {None}]

\* What an operation is, and what it awaits.
NatsAt(c) ==
    /\ awaits[c] = "idle" <=> op[c] = None
    /\ awaits[c] = "put" => Call(c).kind \in {"set", "delete"}
    /\ awaits[c] = "look" => Call(c).kind \in {"get", "increment", "cas"}
    /\ awaits[c] = "update" => /\ Call(c).kind \in {"increment", "cas"} /\ snap[c] \in Snapshots
                               /\ Call(c).kind = "increment" => Countable(snap[c].val)
    /\ awaits[c] = "ack" => wire[c] \in Publishes /\ wire[c].id = op[c].id
    /\ awaits[c] = "won" => Call(c).kind = "cas"

NatsShape ==
    /\ terms \in Terms /\ terms.store = "stream"
    /\ msg \in [Keys -> Messages \cup {None}]
    /\ op \in [Clients -> [id : 1 .. MaxOps, call : terms.ops] \cup {None}]
    /\ began \in [Clients -> 0 .. clock] /\ begun \in 0 .. MaxOps
    /\ snap \in [Clients -> Snapshots \cup {None}] /\ wire \in [Clients -> Publishes \cup {None}]
    /\ applied \in [1 .. MaxOps -> Nat] /\ late \subseteq Publishes
    /\ \A c \in Clients : NatsAt(c)

\* An operation's number is its own, under way and in what it gave up on, and the
\* server has taken nothing of either.
OnceYet ==
    /\ \A c \in Clients : op[c] # None => op[c].id <= begun /\ applied[op[c].id] = 0
    /\ \A c, d \in Clients : op[c] # None /\ op[d] # None /\ op[c].id = op[d].id => c = d
    /\ \A m \in late : /\ m.id <= begun /\ applied[m.id] = 0
                       /\ \A c \in Clients : op[c] # None => op[c].id # m.id
    /\ \A m, n \in late : m.id = n.id => m = n
    /\ \A i \in 1 .. MaxOps : i > begun => applied[i] = 0

NatsInv == NatsTypeOK /\ NatsShape /\ OnceYet /\ AppliedOnce

\* While no entry expires: the subject's last message is the snapshot's or a later
\* one, and what an operation is about to publish is what it makes of the snapshot.
Fresh(c) ==
    /\ snap[c] \in Snapshots /\ snap[c].rev <= seq /\ snap[c].ttl = None
    /\ LastSeq(Call(c).key) = snap[c].rev => NatsStands[Call(c).key].val = snap[c].val
    /\ Call(c).kind = "increment" => Countable(snap[c].val)
    /\ Call(c).kind = "cas" => snap[c].val = Call(c).expected

NatsLinAt(c) ==
    /\ awaits[c] = "update" => Fresh(c)
    /\ awaits[c] = "ack" =>
        /\ wire[c].key = Call(c).key /\ wire[c].ttl = None
        /\ Call(c).kind \in {"set", "delete", "increment", "cas"}
        /\ Call(c).kind = "set" => wire[c].put /\ wire[c].val = Call(c).val /\ wire[c].rev = None
        /\ Call(c).kind = "delete" => ~wire[c].put /\ wire[c].rev = None
        /\ Call(c).kind \in {"increment", "cas"} => Fresh(c) /\ wire[c].put /\ wire[c].rev = snap[c].rev
        /\ Call(c).kind = "increment" => wire[c].val = AddOne(snap[c].val)
        /\ Call(c).kind = "cas" => wire[c].val = Call(c).val

NatsLin ==
    /\ Lasting /\ late = {}
    /\ \A k \in Keys : msg[k] # None => msg[k].exp = None /\ msg[k].ttl = None
    /\ \A c \in Clients : NatsLinAt(c)


LEMMA NatsCallShape ==
    ASSUME NatsShape, NEW c \in Clients, op[c] # None
    PROVE  /\ op[c].id \in 1 .. MaxOps /\ Call(c) \in Calls /\ Call(c) \in terms.ops /\ Call(c).key \in Keys
           /\ Call(c).kind \in {"get", "delete", "increment", "set", "cas"}
           /\ Call(c).kind = "set" => Call(c).val \in Values \cup Nat /\ Call(c).ttl \in Nat \cup {None}
           /\ Call(c).kind = "cas" => Call(c).val \in Values \cup Nat
<1>1. terms.ops \subseteq Calls
  BY NatsAssumption DEF NatsShape, CallsOf
<1>2. op[c] \in [id : 1 .. MaxOps, call : terms.ops]
  BY DEF NatsShape
<1>3. op[c].id \in 1 .. MaxOps /\ op[c].call \in Calls /\ op[c].call \in terms.ops
  BY <1>1, <1>2
<1>4. QED
  BY <1>3 DEF Calls, Call

LEMMA NatsTerms ==
    ASSUME NatsShape
    PROVE  /\ terms.ops \subseteq Calls /\ terms.ticks \in Nat /\ terms.lost \in Nat /\ MaxOps \in Nat
           /\ MaxRetries \in Nat \ {0} /\ None \notin Nat /\ None \notin Values
  BY BucketAssumption, NatsAssumption DEF NatsShape, CallsOf

\* Nobody's number is used up by a step that takes no publish.
LEMMA OnceStays ==
    ASSUME NatsInv, NEW c \in Clients, UNCHANGED <<applied, begun>>, op' \in {op, [op EXCEPT ![c] = None]},
           late' = late
    PROVE  OnceYet' /\ AppliedOnce'
<1>1. \A d \in Clients : op'[d] \in {op[d], None}
  BY DEF NatsInv, NatsShape
<1>2. QED
  BY <1>1 DEF NatsInv, OnceYet, AppliedOnce

\* A client goes on waiting for something else.
LEMMA NatsGoesOn ==
    ASSUME NatsInv, NEW c \in Clients, op[c] # None, NEW p \in {"put", "look", "update", "ack", "won"},
           Await(c, p), UNCHANGED <<terms, serverVars, clock, op, began, late, lost, begun>>,
           tries' \in [Clients -> 0 .. MaxRetries - 1],
           NEW s \in Snapshots \cup {None}, snap' \in {snap, [snap EXCEPT ![c] = s]},
           NEW w \in Publishes \cup {None}, wire' \in {wire, [wire EXCEPT ![c] = w]},
           p = "put" => Call(c).kind \in {"set", "delete"},
           p = "look" => Call(c).kind \in {"get", "increment", "cas"},
           p = "update" => /\ Call(c).kind \in {"increment", "cas"} /\ snap'[c] \in Snapshots
                           /\ Call(c).kind = "increment" => Countable(snap'[c].val),
           p = "ack" => wire'[c] \in Publishes /\ wire'[c].id = op[c].id,
           p = "won" => Call(c).kind = "cas"
    PROVE  NatsInv'
<1> USE DEF NatsInv
<1>1. /\ awaits'[c] = p /\ \A d \in Clients \ {c} : awaits'[d] = awaits[d]
      /\ awaits' \in [Clients -> {"idle", "put", "look", "update", "ack", "won"}]
  BY DEF Await, NatsTypeOK
<1>2. /\ snap' \in [Clients -> Snapshots \cup {None}] /\ \A d \in Clients \ {c} : snap'[d] = snap[d]
  BY ZenonT(40) DEF NatsShape
<1>3. /\ wire' \in [Clients -> Publishes \cup {None}] /\ \A d \in Clients \ {c} : wire'[d] = wire[d]
  BY ZenonT(40) DEF NatsShape
<1>4. NatsTypeOK'
  BY <1>1 DEF NatsTypeOK, serverVars
<1>5. NatsShape'
  <2>1. \A d \in Clients \ {c} : NatsAt(d)'
    BY SMTT(30), <1>1, <1>2, <1>3 DEF NatsShape, NatsAt, Call, Countable
  <2>2. NatsAt(c)'
    BY <1>1 DEF NatsAt, Call, Countable
  <2>3. QED
    BY <1>2, <1>3, <2>1, <2>2 DEF NatsShape, serverVars
<1>6. OnceYet' /\ AppliedOnce'
  BY OnceStays DEF serverVars
<1>7. QED
  BY <1>4, <1>5, <1>6

\* A client's operation ends, whatever it leaves on the server.
LEMMA NatsEnds ==
    ASSUME NatsInv, NEW c \in Clients, NEW a, NatsFinish(c, a), UNCHANGED <<terms, clock, began, begun>>,
           seq' \in Nat, lost' \in 0 .. terms.lost, msg' \in [Keys -> Messages \cup {None}],
           \A k \in Keys : msg'[k] # None => msg'[k].seq \in 1 .. seq',
           applied' \in [1 .. MaxOps -> Nat], late' \subseteq Publishes, OnceYet', AppliedOnce'
    PROVE  NatsInv'
<1> USE DEF NatsInv
<1>1. /\ awaits'[c] = "idle" /\ \A d \in Clients \ {c} : awaits'[d] = awaits[d]
      /\ awaits' \in [Clients -> {"idle", "put", "look", "update", "ack", "won"}]
  BY DEF NatsFinish, Await, NatsTypeOK
<1>2. /\ op'[c] = None /\ \A d \in Clients \ {c} : op'[d] = op[d]
      /\ op' \in [Clients -> [id : 1 .. MaxOps, call : terms.ops] \cup {None}]
  BY DEF NatsFinish, NatsShape
<1>3. /\ snap' \in [Clients -> Snapshots \cup {None}] /\ \A d \in Clients \ {c} : snap'[d] = snap[d]
      /\ wire' \in [Clients -> Publishes \cup {None}] /\ \A d \in Clients \ {c} : wire'[d] = wire[d]
  BY DEF NatsFinish, NatsShape
<1>4. tries' \in [Clients -> 0 .. MaxRetries - 1]
  BY NatsTerms DEF NatsFinish, NatsTypeOK
<1>5. NatsTypeOK'
  <2>1. \A k \in Keys : msg'[k] # None => msg'[k].put \in BOOLEAN
    BY DEF Messages
  <2>2. QED
    BY <1>1, <1>4, <2>1 DEF NatsTypeOK
<1>6. NatsShape'
  <2>1. \A d \in Clients \ {c} : NatsAt(d)'
    BY <1>1, <1>2, <1>3 DEF NatsShape, NatsAt, Call, Countable
  <2>2. NatsAt(c)'
    BY <1>1, <1>2 DEF NatsAt
  <2>3. QED
    BY <1>2, <1>3, <2>1, <2>2 DEF NatsShape
<1>7. QED
  BY <1>5, <1>6


LEMMA SnapshotShape ==
    ASSUME NatsInv, NEW k \in Keys
    PROVE  Snapshot(k) \in Snapshots
<1>1. CASE msg[k] = None
  BY <1>1 DEF Snapshot, Snapshots
<1>2. CASE msg[k] # None
  <2>1. msg[k] \in Messages /\ clock \in Nat
    BY <1>2, NatsTerms DEF NatsInv, NatsShape, NatsTypeOK
  <2>2. msg[k].ttl \in Nat \cup {None} /\ msg[k].at \in Nat /\ msg[k].seq \in Nat
        /\ msg[k].val \in Values \cup Nat \cup {None}
    BY <2>1 DEF Messages
  <2>3. Remaining(msg[k]) \in Nat \cup {None}
    BY <2>1, <2>2 DEF Remaining, Second
  <2>4. QED
    BY <1>2, <2>2, <2>3 DEF Snapshot, Snapshots
<1>3. QED
  BY <1>1, <1>2

LEMMA NatsBeginStep ==
    ASSUME NatsInv, NEW c \in Clients, NatsBegin(c), UNCHANGED terms
    PROVE  NatsInv'
<1> USE DEF NatsInv
<1>1. PICK o \in terms.ops : op' = [op EXCEPT ![c] = [id |-> begun + 1, call |-> o]]
  BY DEF NatsBegin
<1>2. /\ awaits[c] = "idle" /\ begun < MaxOps /\ begun' = begun + 1
      /\ began' = [began EXCEPT ![c] = clock]
      /\ UNCHANGED <<msg, seq, applied, clock, ret, snap, wire, tries, late, lost>>
      /\ op[c] = None /\ clock \in Nat /\ begun \in Nat /\ MaxOps \in Nat
  BY NatsTerms DEF NatsBegin, serverVars, NatsShape, NatsAt, NatsTypeOK
<1> DEFINE n == [id |-> begun + 1, call |-> o]
<1>3. n \in [id : 1 .. MaxOps, call : terms.ops] /\ n \in Numbered
  BY <1>2, NatsTerms DEF Numbered
<1>4. n # None /\ n.id = begun + 1 /\ n.call = o
  BY <1>3, NatsAssumption
<1> HIDE DEF n
<1>5. /\ op'[c] = n /\ \A d \in Clients \ {c} : op'[d] = op[d]
      /\ op' \in [Clients -> [id : 1 .. MaxOps, call : terms.ops] \cup {None}]
  BY <1>1, <1>3 DEF NatsShape, n
<1>6. /\ awaits'[c] = IF o.kind \in {"set", "delete"} THEN "put" ELSE "look"
      /\ \A d \in Clients \ {c} : awaits'[d] = awaits[d]
      /\ awaits' \in [Clients -> {"idle", "put", "look", "update", "ack", "won"}]
  BY <1>4, <1>5 DEF NatsBegin, Await, NatsTypeOK
<1>7. NatsTypeOK'
  BY <1>2, <1>6 DEF NatsTypeOK
<1>8. NatsShape'
  <2>1. ASSUME NEW d \in Clients \ {c} PROVE NatsAt(d)'
    <3>1. /\ NatsAt(d) /\ awaits'[d] = awaits[d] /\ op'[d] = op[d]
          /\ snap' = snap /\ wire' = wire
      BY <1>2, <1>5, <1>6 DEF NatsShape
    <3>2. QED
      BY <3>1 DEF NatsAt, Call, Countable
  <2>2. o.kind \in {"get", "delete", "increment", "set", "cas"}
    BY NatsTerms DEF Calls
  <2>3. NatsAt(c)'
    BY <1>4, <1>5, <1>6, <2>2 DEF NatsAt, Call
  <2>4. began' \in [Clients -> 0 .. clock'] /\ begun' \in 0 .. MaxOps
    BY <1>2 DEF NatsShape
  <2>5. QED
    BY <1>2, <1>5, <2>1, <2>3, <2>4 DEF NatsShape
<1>9. OnceYet'
  <2>1. applied[begun + 1] = 0
    BY <1>2 DEF OnceYet
  <2>2. \A d \in Clients \ {c} : op[d] # None => op[d].id \in Nat /\ op[d].id <= begun
    BY NatsCallShape DEF OnceYet
  <2>3. \A m \in late : m.id \in Nat /\ m.id <= begun
    BY DEF OnceYet, NatsShape, Publishes
  <2>4. \A d \in Clients : op'[d] # None => op'[d].id <= begun' /\ applied'[op'[d].id] = 0
    BY <1>2, <1>4, <1>5, <2>1, <2>2 DEF OnceYet
  <2>5. \A d, e \in Clients : op'[d] # None /\ op'[e] # None /\ op'[d].id = op'[e].id => d = e
    BY <1>2, <1>4, <1>5, <2>2 DEF OnceYet
  <2>6. \A m \in late' : /\ m.id <= begun' /\ applied'[m.id] = 0
                         /\ \A d \in Clients : op'[d] # None => op'[d].id # m.id
    BY <1>2, <1>4, <1>5, <2>3 DEF OnceYet
  <2>7. \A i \in 1 .. MaxOps : i > begun' => applied'[i] = 0
    BY <1>2 DEF OnceYet
  <2>8. QED
    BY <1>2, <2>4, <2>5, <2>6, <2>7 DEF OnceYet
<1>10. AppliedOnce'
  BY <1>2 DEF AppliedOnce
<1>11. QED
  BY <1>7, <1>8, <1>9, <1>10

\* What goes on the wire.
LEMMA PublishStep ==
    ASSUME NatsInv, NEW c \in Clients, op[c] # None, NEW v \in Values \cup Nat \cup {None},
           NEW put \in BOOLEAN, NEW rev \in Nat \cup {None}, NEW ttl \in Nat \cup {None},
           Publish(c, v, put, rev, ttl),
           UNCHANGED <<terms, serverVars, clock, op, began, snap, tries, late, lost, begun>>
    PROVE  /\ NatsInv'
           /\ wire'[c] = [id |-> op[c].id, kind |-> Call(c).kind, key |-> Call(c).key, val |-> v,
                          put |-> put, rev |-> rev, ttl |-> ttl]
           /\ \A d \in Clients \ {c} : wire'[d] = wire[d]
           /\ awaits'[c] = "ack" /\ \A d \in Clients \ {c} : awaits'[d] = awaits[d]
<1> DEFINE w == [id |-> op[c].id, kind |-> Call(c).kind, key |-> Call(c).key, val |-> v,
                 put |-> put, rev |-> rev, ttl |-> ttl]
<1>1. w \in Publishes /\ w.id = op[c].id
  BY NatsCallShape DEF NatsInv, Publishes
<1>2. wire' = [wire EXCEPT ![c] = w] /\ Await(c, "ack")
  BY DEF Publish
<1> HIDE DEF w
<1>3. wire'[c] = w /\ \A d \in Clients \ {c} : wire'[d] = wire[d]
  BY <1>2 DEF NatsInv, NatsShape
<1>4. tries' \in [Clients -> 0 .. MaxRetries - 1]
  BY DEF NatsInv, NatsTypeOK
<1>5. NatsInv'
  BY ZenonT(40), <1>1, <1>2, <1>3, <1>4, NatsGoesOn
<1>6. awaits'[c] = "ack" /\ \A d \in Clients \ {c} : awaits'[d] = awaits[d]
  BY <1>2 DEF Await, NatsInv, NatsTypeOK
<1>7. QED
  BY <1>3, <1>5, <1>6 DEF w

LEMMA PutStep ==
    ASSUME NatsInv, NEW c \in Clients, Put(c), UNCHANGED terms
    PROVE  NatsInv'
<1>1. op[c] # None
  BY DEF Put, NatsInv, NatsShape, NatsAt
<1>2. CASE Call(c).kind = "set"
  <2>1. /\ Call(c).val \in Values \cup Nat \cup {None} /\ Call(c).ttl \in Nat \cup {None}
        /\ Publish(c, Call(c).val, TRUE, None, Call(c).ttl)
    BY <1>1, <1>2, NatsCallShape DEF Put, NatsInv
  <2>2. QED
    BY <1>1, <2>1, PublishStep DEF Put
<1>3. CASE Call(c).kind # "set"
  <2>1. Publish(c, None, FALSE, None, None)
    BY <1>3 DEF Put
  <2>2. QED
    BY <1>1, <2>1, PublishStep DEF Put
<1>4. QED
  BY <1>2, <1>3

LEMMA UpdateStep ==
    ASSUME NatsInv, NEW c \in Clients, Update(c), UNCHANGED terms
    PROVE  NatsInv'
<1>1. /\ op[c] # None /\ awaits[c] = "update" /\ snap[c] \in Snapshots
      /\ Call(c).kind \in {"increment", "cas"}
      /\ Call(c).kind = "increment" => Countable(snap[c].val)
  BY DEF Update, NatsInv, NatsShape, NatsAt
<1> DEFINE v == IF Call(c).kind = "increment" THEN AddOne(snap[c].val) ELSE Call(c).val
           h == HeaderTtl(snap[c].ttl)
<1>2. snap[c].rev \in Nat /\ snap[c].ttl \in Nat \cup {None}
  BY <1>1 DEF Snapshots
<1>3. v \in Values \cup Nat \cup {None}
  <2>1. CASE Call(c).kind = "increment"
    <3>1. snap[c].val = None \/ snap[c].val \in Nat
      BY <1>1, <2>1, BucketAssumption DEF Countable
    <3>2. QED
      BY <2>1, <3>1 DEF AddOne
  <2>2. CASE Call(c).kind = "cas"
    BY <1>1, <2>2, NatsCallShape DEF NatsInv
  <2>3. QED
    BY <1>1, <2>1, <2>2
<1>4. h \in Nat \cup {None}
  BY <1>2 DEF HeaderTtl, Second
<1>5. Publish(c, v, TRUE, snap[c].rev, h)
  BY DEF Update, Revision
<1> HIDE DEF v, h
<1>6. QED
  BY <1>1, <1>2, <1>3, <1>4, <1>5, PublishStep DEF Update

\* The server is as it was when an operation ends without a publish taken.
LEMMA NatsEndsOnly ==
    ASSUME NatsInv, NEW c \in Clients, NEW a, NatsFinish(c, a),
           UNCHANGED <<terms, serverVars, clock, began, late, lost, begun>>
    PROVE  NatsInv'
<1>1. OnceYet' /\ AppliedOnce'
  BY OnceStays DEF NatsFinish, serverVars
<1>2. QED
  BY <1>1, NatsEnds DEF serverVars, NatsInv, NatsTypeOK, NatsShape

LEMMA LookStep ==
    ASSUME NatsInv, NEW c \in Clients, Look(c), UNCHANGED terms
    PROVE  NatsInv'
<1> DEFINE s == Snapshot(Call(c).key)
<1>1. op[c] # None /\ UNCHANGED <<serverVars, clock, began, late, lost, begun>>
  BY DEF Look, NatsInv, NatsShape, NatsAt
<1>2. s \in Snapshots
  BY <1>1, SnapshotShape, NatsCallShape DEF NatsInv
<1>3. CASE \E a : NatsFinish(c, a)
  BY <1>1, <1>3, NatsEndsOnly
<1>4. CASE /\ Call(c).kind \in {"increment", "cas"} /\ (Call(c).kind = "increment" => Countable(s.val))
           /\ snap' = [snap EXCEPT ![c] = s] /\ Await(c, "update") /\ UNCHANGED <<op, ret, wire, tries>>
  <2> HIDE DEF s
  <2>1. snap'[c] = s
    BY <1>4 DEF NatsInv, NatsShape
  <2>2. tries' \in [Clients -> 0 .. MaxRetries - 1] /\ wire' \in {wire, [wire EXCEPT ![c] = None]}
    BY <1>4 DEF NatsInv, NatsTypeOK
  <2>3. QED
    BY <1>1, <1>2, <1>4, <2>1, <2>2, NatsGoesOn
<1>5. QED
  BY <1>3, <1>4 DEF Look

LEMMA WonStep ==
    ASSUME NatsInv, NEW c \in Clients, Won(c), UNCHANGED terms
    PROVE  NatsInv'
  BY NatsEndsOnly DEF Won

LEMMA LostRaceStep ==
    ASSUME NatsInv, NEW c \in Clients, LostRace(c), UNCHANGED terms
    PROVE  NatsInv'
<1>1. op[c] # None /\ UNCHANGED <<serverVars, clock, began, late, lost, begun>>
  BY DEF LostRace, NatsInv, NatsShape, NatsAt
<1>2. /\ tries \in [Clients -> 0 .. MaxRetries - 1] /\ MaxRetries \in Nat
  BY NatsTerms DEF NatsInv, NatsTypeOK
<1>3. CASE Call(c).kind = "increment" /\ NatsFinish(c, Answer("error", None))
  BY <1>1, <1>3, NatsEndsOnly
<1>4. CASE /\ wire' = [wire EXCEPT ![c] = None] /\ snap' = [snap EXCEPT ![c] = None] /\ op' = op
           /\ \/ Call(c).kind = "cas" /\ Await(c, "won") /\ tries' = tries
              \/ /\ Call(c).kind = "increment" /\ Await(c, "look") /\ tries[c] + 1 < MaxRetries
                 /\ tries' = [tries EXCEPT ![c] = @ + 1]
  <2>1. tries' \in [Clients -> 0 .. MaxRetries - 1]
    BY <1>2, <1>4
  <2>2. QED
    BY <1>1, <1>4, <2>1, NatsGoesOn
<1>5. QED
  BY <1>3, <1>4 DEF LostRace


\* What the server is left with.
LEMMA StoreShape ==
    ASSUME NatsInv, NEW m \in Publishes, Store(m)
    PROVE  /\ seq' \in Nat /\ seq' = seq + 1 /\ msg' \in [Keys -> Messages \cup {None}]
           /\ \A k \in Keys : msg'[k] # None => msg'[k].seq \in 1 .. seq'
           /\ msg'[m.key] = [seq |-> seq + 1, val |-> m.val, put |-> m.put, ttl |-> m.ttl, at |-> clock,
                             exp |-> IF m.ttl = None THEN None ELSE clock + m.ttl * Second]
           /\ msg'[m.key] # None /\ m.key \in Keys /\ \A k \in Keys \ {m.key} : msg'[k] = msg[k]
           /\ applied' \in [1 .. MaxOps -> Nat]
           /\ m.id \in 1 .. MaxOps /\ applied'[m.id] = applied[m.id] + 1
           /\ \A i \in 1 .. MaxOps \ {m.id} : applied'[i] = applied[i]
<1> DEFINE r == [seq |-> seq + 1, val |-> m.val, put |-> m.put, ttl |-> m.ttl, at |-> clock,
                 exp |-> IF m.ttl = None THEN None ELSE clock + m.ttl * Second]
<1>1. /\ m.id \in 1 .. MaxOps /\ m.key \in Keys /\ m.val \in Values \cup Nat \cup {None}
      /\ m.put \in BOOLEAN /\ m.ttl \in Nat \cup {None}
  BY DEF Publishes
<1>2. seq \in Nat /\ clock \in Nat
  BY NatsTerms DEF NatsInv, NatsTypeOK
<1>3. r \in Messages
  <2>1. (IF m.ttl = None THEN None ELSE clock + m.ttl * Second) \in Nat \cup {None}
    BY <1>1, <1>2 DEF Second
  <2>2. QED
    BY <1>1, <1>2, <2>1 DEF Messages
<1>4. r # None /\ r.seq = seq + 1
  BY <1>3, NatsAssumption
<1>5. seq' = seq + 1 /\ msg' = [msg EXCEPT ![m.key] = r] /\ applied' = [applied EXCEPT ![m.id] = @ + 1]
  BY DEF Store
<1> HIDE DEF r
<1>6. /\ msg'[m.key] = r /\ \A k \in Keys \ {m.key} : msg'[k] = msg[k]
      /\ msg' \in [Keys -> Messages \cup {None}]
  BY <1>1, <1>3, <1>5 DEF NatsInv, NatsShape
<1>7. \A k \in Keys : msg'[k] # None => msg'[k].seq \in 1 .. seq'
  BY <1>1, <1>2, <1>4, <1>5, <1>6 DEF NatsInv, NatsTypeOK
<1>8. /\ applied' \in [1 .. MaxOps -> Nat] /\ applied'[m.id] = applied[m.id] + 1
      /\ \A i \in 1 .. MaxOps \ {m.id} : applied'[i] = applied[i]
  BY <1>1, <1>5 DEF NatsInv, NatsShape
<1>9. QED
  BY <1>1, <1>2, <1>4, <1>5, <1>6, <1>7, <1>8 DEF r

LEMMA AckedStep ==
    ASSUME NatsInv, NEW c \in Clients, Acked(c), UNCHANGED terms
    PROVE  NatsInv'
<1> DEFINE m == wire[c]
<1>1. /\ op[c] # None /\ m \in Publishes /\ m.id = op[c].id /\ Store(m)
      /\ UNCHANGED <<clock, began, late, lost, begun>> /\ op' = [op EXCEPT ![c] = None]
  BY DEF Acked, NatsFinish, NatsInv, NatsShape, NatsAt
<1>2. /\ seq' \in Nat /\ msg' \in [Keys -> Messages \cup {None}]
      /\ \A k \in Keys : msg'[k] # None => msg'[k].seq \in 1 .. seq'
      /\ applied' \in [1 .. MaxOps -> Nat] /\ m.id \in 1 .. MaxOps /\ applied'[m.id] = applied[m.id] + 1
      /\ \A i \in 1 .. MaxOps \ {m.id} : applied'[i] = applied[i]
  BY <1>1, StoreShape
<1>3. /\ op'[c] = None /\ \A d \in Clients \ {c} : op'[d] = op[d]
      /\ \A d \in Clients : op[d] # None => op[d].id \in 1 .. MaxOps
      /\ \A n \in late : n.id \in 1 .. MaxOps
      /\ begun \in Nat /\ MaxOps \in Nat
  BY SMTT(30), <1>1, NatsCallShape, NatsTerms DEF NatsInv, NatsShape, Publishes
<1>4. applied[m.id] = 0 /\ m.id <= begun
  BY <1>1 DEF NatsInv, OnceYet
<1> HIDE DEF m
<1>5. \A d \in Clients \ {c} : op[d] # None => op[d].id # m.id
  BY <1>1 DEF NatsInv, OnceYet
<1>6. \A n \in late : n.id # m.id
  BY <1>1 DEF NatsInv, OnceYet
<1>7. OnceYet'
  <2>1. \A d \in Clients : op'[d] # None => op'[d].id <= begun' /\ applied'[op'[d].id] = 0
    BY <1>1, <1>2, <1>3, <1>5 DEF NatsInv, OnceYet
  <2>2. \A d, e \in Clients : op'[d] # None /\ op'[e] # None /\ op'[d].id = op'[e].id => d = e
    BY <1>3 DEF NatsInv, OnceYet
  <2>3. \A n \in late' : /\ n.id <= begun' /\ applied'[n.id] = 0
                         /\ \A d \in Clients : op'[d] # None => op'[d].id # n.id
    BY <1>1, <1>2, <1>3, <1>6 DEF NatsInv, OnceYet
  <2>4. \A i \in 1 .. MaxOps : i > begun' => applied'[i] = 0
    BY <1>1, <1>2, <1>3, <1>4 DEF NatsInv, OnceYet
  <2>5. QED
    BY <1>1, <2>1, <2>2, <2>3, <2>4 DEF NatsInv, OnceYet
<1>8. AppliedOnce'
  BY <1>2, <1>4 DEF NatsInv, AppliedOnce
<1>9. PICK a : NatsFinish(c, a)
  BY DEF Acked
<1>10. lost' \in 0 .. terms.lost /\ late' \subseteq Publishes
  BY <1>1 DEF NatsInv, NatsTypeOK, NatsShape
<1>11. QED
  BY <1>1, <1>2, <1>7, <1>8, <1>9, <1>10, NatsEnds

LEMMA GivenUpStep ==
    ASSUME NatsInv, NEW c \in Clients, GivenUp(c), UNCHANGED terms
    PROVE  NatsInv'
<1> DEFINE m == wire[c]
<1>1. /\ op[c] # None /\ m \in Publishes /\ m.id = op[c].id /\ late' = late \cup {m}
      /\ lost' = lost + 1 /\ lost < terms.lost /\ NatsFinish(c, Answer("error", None))
      /\ UNCHANGED <<serverVars, clock, began, begun>> /\ op' = [op EXCEPT ![c] = None]
  BY DEF GivenUp, NatsFinish, NatsInv, NatsShape, NatsAt
<1>2. lost' \in 0 .. terms.lost /\ late' \subseteq Publishes
  <2>1. lost \in 0 .. terms.lost /\ terms.lost \in Nat /\ late \subseteq Publishes
    BY NatsTerms DEF NatsInv, NatsTypeOK, NatsShape
  <2> HIDE DEF m
  <2>2. lost' \in 0 .. terms.lost
    BY <1>1, <2>1
  <2>3. late' \subseteq Publishes
    BY <1>1, <2>1
  <2>4. QED
    BY <2>2, <2>3
<1> HIDE DEF m
<1>3. OnceYet'
  <2>1. op'[c] = None /\ \A d \in Clients \ {c} : op'[d] = op[d]
    BY <1>1 DEF NatsInv, NatsShape
  <2>2. m.id <= begun /\ applied[m.id] = 0 /\ \A d \in Clients \ {c} : op[d] # None => op[d].id # m.id
    BY <1>1 DEF NatsInv, OnceYet
  <2>3. \A n \in late : n.id # m.id
    BY <1>1 DEF NatsInv, OnceYet
  <2>4. QED
    BY <1>1, <2>1, <2>2, <2>3 DEF NatsInv, OnceYet, serverVars
<1>4. AppliedOnce'
  BY <1>1 DEF NatsInv, AppliedOnce, serverVars
<1>5. QED
  BY <1>1, <1>2, <1>3, <1>4, NatsEnds DEF serverVars, NatsInv, NatsTypeOK, NatsShape

\* A step of the server, or of the clock.
LEMMA ServerStep ==
    ASSUME NatsInv, UNCHANGED <<terms, clientVars, lost>>,
           clock' \in 0 .. terms.ticks, clock <= clock', seq' \in Nat,
           msg' \in [Keys -> Messages \cup {None}],
           \A k \in Keys : msg'[k] # None => msg'[k].seq \in 1 .. seq',
           applied' \in [1 .. MaxOps -> Nat], late' \subseteq Publishes, OnceYet', AppliedOnce'
    PROVE  NatsInv'
<1>1. UNCHANGED <<op, began, ret, awaits, snap, wire, tries, begun>>
  BY DEF clientVars
<1>2. \A k \in Keys : msg'[k] # None => msg'[k].put \in BOOLEAN
  BY DEF Messages
<1>3. NatsTypeOK'
  BY <1>1, <1>2 DEF NatsInv, NatsTypeOK
<1>4. began' \in [Clients -> 0 .. clock']
  BY <1>1, NatsTerms DEF NatsInv, NatsShape, NatsTypeOK
<1>5. \A c \in Clients : NatsAt(c)'
  BY <1>1 DEF NatsInv, NatsShape, NatsAt, Call, Countable
<1>6. NatsShape'
  BY <1>1, <1>4, <1>5 DEF NatsInv, NatsShape
<1>7. QED
  BY <1>3, <1>6 DEF NatsInv

LEMMA ArrivesStep ==
    ASSUME NatsInv, NEW m \in late, Arrives(m), UNCHANGED terms
    PROVE  NatsInv'
<1>1. /\ m \in Publishes /\ late' = late \ {m} /\ late' \subseteq Publishes
      /\ UNCHANGED <<clock, clientVars, lost>> /\ UNCHANGED <<op, begun>>
  BY DEF Arrives, clientVars, NatsInv, NatsShape
<1>2. clock' \in 0 .. terms.ticks /\ clock <= clock'
  BY <1>1, NatsTerms DEF NatsInv, NatsTypeOK
<1>3. CASE Takes(m)
  <2>1. /\ seq' \in Nat /\ msg' \in [Keys -> Messages \cup {None}]
        /\ \A k \in Keys : msg'[k] # None => msg'[k].seq \in 1 .. seq'
        /\ applied' \in [1 .. MaxOps -> Nat] /\ m.id \in 1 .. MaxOps /\ applied'[m.id] = applied[m.id] + 1
        /\ \A i \in 1 .. MaxOps \ {m.id} : applied'[i] = applied[i]
    BY <1>1, <1>3, StoreShape DEF Arrives
  <2>2. applied[m.id] = 0 /\ m.id <= begun
    BY DEF NatsInv, OnceYet
  <2>3. /\ \A d \in Clients : op[d] # None => op[d].id \in 1 .. MaxOps /\ op[d].id # m.id
        /\ \A n \in late' : n.id \in 1 .. MaxOps /\ n.id # m.id /\ n \in late
        /\ begun \in Nat /\ MaxOps \in Nat
    BY SMTT(30), <1>1, NatsCallShape, NatsTerms DEF NatsInv, NatsShape, OnceYet, Publishes
  <2>4. OnceYet'
    BY <1>1, <2>1, <2>2, <2>3 DEF NatsInv, OnceYet
  <2>5. AppliedOnce'
    BY <2>1, <2>2 DEF NatsInv, AppliedOnce
  <2>6. QED
    BY <1>1, <1>2, <2>1, <2>4, <2>5, ServerStep
<1>4. CASE ~Takes(m)
  <2>1. UNCHANGED <<msg, seq, applied>>
    BY <1>4 DEF Arrives, serverVars
  <2>2. OnceYet' /\ AppliedOnce'
    BY <1>1, <2>1 DEF NatsInv, OnceYet, AppliedOnce
  <2>3. QED
    BY <1>1, <1>2, <2>1, <2>2, ServerStep DEF NatsInv, NatsTypeOK, NatsShape
<1>5. QED
  BY <1>3, <1>4

LEMMA SweepStep ==
    ASSUME NatsInv, NEW k \in Keys, Sweep(k), UNCHANGED terms
    PROVE  NatsInv'
<1>1. UNCHANGED <<applied, clock, clientVars, late, lost, op, begun>>
  BY DEF Sweep, clientVars
<1>2. seq \in Nat /\ clock \in Nat /\ clock' \in 0 .. terms.ticks /\ clock <= clock'
  BY <1>1, NatsTerms DEF NatsInv, NatsTypeOK
<1>3. OnceYet' /\ AppliedOnce'
  BY <1>1 DEF NatsInv, OnceYet, AppliedOnce
<1> DEFINE r == [seq |-> seq + 1, val |-> None, put |-> FALSE, ttl |-> None, at |-> clock,
                 exp |-> clock + MarkerTtl]
<1>4. r \in Messages /\ r.seq = seq + 1
  BY <1>2 DEF Messages, MarkerTtl
<1>5. \/ seq' = seq + 1 /\ msg' = [msg EXCEPT ![k] = r]
      \/ seq' = seq /\ msg' = [msg EXCEPT ![k] = None]
  BY DEF Sweep
<1> HIDE DEF r
<1>6. seq' \in Nat /\ seq <= seq' /\ msg' \in [Keys -> Messages \cup {None}]
  <2>1. seq' \in Nat /\ seq <= seq'
    BY <1>2, <1>5
  <2>2. msg \in [Keys -> Messages \cup {None}]
    BY DEF NatsInv, NatsShape
  <2>3. QED
    BY <1>4, <1>5, <2>1, <2>2
<1>7. \A j \in Keys : msg'[j] # None => msg'[j].seq \in 1 .. seq'
  <2>1. \A j \in Keys \ {k} : msg'[j] = msg[j]
    BY <1>5 DEF NatsInv, NatsShape
  <2>2. msg'[k] = None \/ (msg'[k] = r /\ seq' = seq + 1)
    BY <1>5 DEF NatsInv, NatsShape
  <2>3. QED
    BY <1>2, <1>4, <1>6, <2>1, <2>2 DEF NatsInv, NatsTypeOK
<1>8. QED
  BY <1>1, <1>2, <1>3, <1>6, <1>7, ServerStep DEF NatsInv, NatsShape

LEMMA NatsTickStep ==
    ASSUME NatsInv, NatsTick, UNCHANGED terms
    PROVE  NatsInv'
<1>1. UNCHANGED <<msg, seq, applied, clientVars, late, lost, op, begun>>
  BY DEF NatsTick, clientVars, serverVars
<1>2. clock' \in 0 .. terms.ticks /\ clock <= clock'
  BY NatsTerms DEF NatsTick, NatsInv, NatsTypeOK
<1>3. OnceYet' /\ AppliedOnce'
  BY <1>1 DEF NatsInv, OnceYet, AppliedOnce
<1>4. QED
  BY <1>1, <1>2, <1>3, ServerStep DEF NatsInv, NatsTypeOK, NatsShape

LEMMA NatsInvStep ==
    ASSUME NatsInv, NatsNext
    PROVE  NatsInv'
  BY NatsBeginStep, PutStep, LookStep, UpdateStep, AckedStep, LostRaceStep, WonStep, GivenUpStep,
     ArrivesStep, SweepStep, NatsTickStep DEF NatsNext

LEMMA NatsInvInit ==
    ASSUME NatsInit
    PROVE  NatsInv
<1>1. terms \in Terms /\ terms.ticks \in Nat /\ terms.lost \in Nat /\ MaxOps \in Nat
      /\ MaxRetries \in Nat \ {0}
  BY BucketAssumption, NatsAssumption DEF NatsInit, BucketInit
<1>2. NatsTypeOK /\ NatsShape
  BY <1>1 DEF NatsInit, BucketInit, NatsTypeOK, NatsShape, NatsAt
<1>3. OnceYet /\ AppliedOnce
  BY DEF NatsInit, BucketInit, OnceYet, AppliedOnce
<1>4. QED
  BY <1>2, <1>3 DEF NatsInv


-------------------------------------------------------------------------------
(***************************************************************************)
(* The stream, while no entry expires, is the store it stands for          *)
(***************************************************************************)

LEMMA NatsSameOperators ==
    /\ NatsStore!Absent = Absent
    /\ \A e, t : NatsStore!At(e, t) = At(e, t)
    /\ \A o, e, t : NatsStore!Effect(o, e, t) = Effect(o, e, t)
    /\ \A a, v : NatsStore!Answer(a, v) = Answer(a, v)
  BY DEF NatsStore!Absent, Absent, NatsStore!At, At, NatsStore!Effect, Effect, NatsStore!Entry, Entry,
         NatsStore!Answer, Answer, NatsStore!Deadline, Deadline, NatsStore!Countable, Countable,
         NatsStore!AddOne, AddOne

\* A lasting entry stands at any time, and a snapshot is of what stands.
LEMMA StandsLasting ==
    ASSUME NatsInv, NatsLin, NEW k \in Keys
    PROVE  /\ NatsStands[k].exp = None /\ \A t : At(NatsStands[k], t) = NatsStands[k]
           /\ Snapshot(k) = [rev |-> LastSeq(k), val |-> NatsStands[k].val, ttl |-> None]
           /\ LastSeq(k) \in Nat /\ LastSeq(k) <= seq
<1>1. CASE msg[k] = None
  BY <1>1 DEF NatsStands, At, Absent, Snapshot, LastSeq, NatsInv, NatsTypeOK
<1>2. CASE msg[k] # None
  <2>1. msg[k].exp = None /\ msg[k].ttl = None /\ msg[k].put \in BOOLEAN
        /\ msg[k].seq \in 1 .. seq /\ seq \in Nat
    BY <1>2 DEF NatsLin, NatsInv, NatsTypeOK
  <2>2. None # 0
    BY BucketAssumption
  <2>3. NatsStands[k] = IF msg[k].put THEN [val |-> msg[k].val, exp |-> None] ELSE Absent
    BY <1>2, <2>1 DEF NatsStands
  <2>4. Snapshot(k) = [rev |-> msg[k].seq, val |-> IF msg[k].put THEN msg[k].val ELSE None, ttl |-> None]
    BY <1>2, <2>1, <2>2 DEF Snapshot, Remaining
  <2>5. QED
    BY <1>2, <2>1, <2>3, <2>4 DEF At, Absent, LastSeq
<1>3. QED
  BY <1>1, <1>2

\* What the others know stays so, whatever a step puts on the stream.
LEMMA NatsOthersLin ==
    ASSUME NatsInv, NatsLin, NEW c \in Clients, seq' \in Nat, seq <= seq',
           \A d \in Clients \ {c} : /\ awaits'[d] = awaits[d] /\ op'[d] = op[d]
                                    /\ snap'[d] = snap[d] /\ wire'[d] = wire[d],
           \A k \in Keys : msg'[k] = msg[k] \/ (msg'[k] # None /\ msg'[k].seq = seq' /\ seq' = seq + 1)
    PROVE  \A d \in Clients \ {c} : NatsLinAt(d)'
<1> SUFFICES ASSUME NEW d \in Clients \ {c}
             PROVE  NatsLinAt(d)'
  OBVIOUS
<1>1. Call(d)' = Call(d) /\ seq \in Nat
  BY DEF Call, NatsInv, NatsTypeOK
<1>2. op[d] # None /\ Fresh(d) => Fresh(d)'
  <2> SUFFICES ASSUME op[d] # None, Fresh(d)
               PROVE  Fresh(d)'
    OBVIOUS
  <2>1. Call(d).key \in Keys
    BY NatsCallShape DEF NatsInv
  <2>2. snap[d].rev \in Nat /\ snap[d].rev <= seq
    BY DEF Fresh, Snapshots
  <2>3. ASSUME LastSeq(Call(d).key)' = snap[d].rev
        PROVE  NatsStands'[Call(d).key] = NatsStands[Call(d).key] /\ LastSeq(Call(d).key) = snap[d].rev
    <3>1. msg'[Call(d).key] = msg[Call(d).key]
      BY <1>1, <2>1, <2>2, <2>3 DEF LastSeq
    <3>2. QED
      BY <1>1, <2>1, <2>3, <3>1 DEF LastSeq, NatsStands
  <2>4. snap'[d] = snap[d] /\ snap[d].rev <= seq'
    BY <1>1, <2>2
  <2>5. QED
    BY <1>1, <2>3, <2>4 DEF Fresh, Countable
<1>3. awaits[d] # "idle" => op[d] # None
  BY DEF NatsInv, NatsShape, NatsAt
<1>4. NatsLinAt(d)
  BY DEF NatsLin
<1>5. QED
  BY <1>1, <1>2, <1>3, <1>4 DEF NatsLinAt

\* Nothing but a publish of an entry that lasts is put on the stream.
Grows ==
    /\ seq' \in Nat /\ seq <= seq'
    /\ \A k \in Keys : msg'[k] = msg[k] \/ (/\ msg'[k] # None /\ msg'[k].seq = seq' /\ seq' = seq + 1
                                            /\ msg'[k].exp = None /\ msg'[k].ttl = None)

LEMMA NatsLinKept ==
    ASSUME NatsInv, NatsLin, NEW c \in Clients, NEW p, Await(c, p), OnlyAt(c, op, op'),
           OnlyAt(c, snap, snap'), OnlyAt(c, wire, wire'), UNCHANGED <<terms, late>>, Grows
    PROVE  NatsLinAt(c)' => NatsLin'
<1>1. \A d \in Clients \ {c} : /\ awaits'[d] = awaits[d] /\ op'[d] = op[d]
                               /\ snap'[d] = snap[d] /\ wire'[d] = wire[d]
  BY DEF Await, NatsInv, NatsTypeOK, NatsShape, OnlyAt
<1>2. \A d \in Clients \ {c} : NatsLinAt(d)'
  <2>1. /\ seq' \in Nat /\ seq <= seq'
        /\ \A k \in Keys : msg'[k] = msg[k] \/ (msg'[k] # None /\ msg'[k].seq = seq' /\ seq' = seq + 1)
    BY DEF Grows
  <2>2. QED
    BY <1>1, <2>1, NatsOthersLin
<1>3. Lasting' /\ late' = {}
  BY DEF NatsLin, Lasting
<1>4. \A k \in Keys : msg'[k] # None => msg'[k].exp = None /\ msg'[k].ttl = None
  BY DEF NatsLin, Grows
<1>5. QED
  BY <1>2, <1>3, <1>4 DEF NatsLin

\* The store's steps, from what changes.
LEMMA NatsUnderWayStep ==
    ASSUME NatsInv, NEW c \in Clients, NEW o, op' = [op EXCEPT ![c] = o]
    PROVE  NatsUnderWay' = [NatsUnderWay EXCEPT ![c] = IF o = None THEN None ELSE o.call]
  BY DEF NatsUnderWay, NatsInv, NatsShape

LEMMA NatsIsApply ==
    ASSUME NatsInv, NatsLin, NEW c \in Clients, op[c] # None,
           NEW r, r = Effect(Call(c), NatsStands[Call(c).key], clock),
           NatsStands' = [NatsStands EXCEPT ![Call(c).key] = r.entry],
           ret' = [ret EXCEPT ![c] = r.ret], op' = [op EXCEPT ![c] = None], UNCHANGED <<clock, began>>
    PROVE  NatsStore!Next
<1>1. NatsUnderWay[c] = Call(c)
  BY DEF NatsUnderWay, Call
<1>2. Call(c) # None
  BY NatsCallShape, BucketAssumption DEF NatsInv
<1>3. NatsUnderWay' = [NatsUnderWay EXCEPT ![c] = None]
  BY NatsUnderWayStep
<1>4. clock \in began[c] .. clock
  BY NatsTerms DEF NatsInv, NatsShape, NatsTypeOK
<1>5. NatsStore!Effect(Call(c), NatsStands[Call(c).key], clock) = r
  BY NatsSameOperators
<1>6. NatsStore!Apply(c)
  BY <1>1, <1>2, <1>3, <1>4, <1>5 DEF NatsStore!Apply
<1>7. QED
  BY <1>6 DEF NatsStore!Next

LEMMA NatsIsRefuse ==
    ASSUME NatsInv, NatsLin, NEW c \in Clients, op[c] # None,
           \/ /\ Call(c).kind = "cas"
              /\ ret' = [ret EXCEPT ![c] = Answer("conflict", At(NatsStands[Call(c).key], clock).val)]
           \/ Call(c).kind = "increment" /\ ret' = [ret EXCEPT ![c] = Answer("error", None)],
           NatsStands' = NatsStands, op' = [op EXCEPT ![c] = None], UNCHANGED <<clock, began>>
    PROVE  NatsStore!Next
<1>1. NatsUnderWay[c] = Call(c)
  BY DEF NatsUnderWay, Call
<1>2. Call(c) # None
  BY NatsCallShape, BucketAssumption DEF NatsInv
<1>3. NatsUnderWay' = [NatsUnderWay EXCEPT ![c] = None]
  BY NatsUnderWayStep
<1>4. NatsStore!Refuse(c)
  BY <1>1, <1>2, <1>3, NatsSameOperators DEF NatsStore!Refuse
<1>5. QED
  BY <1>4 DEF NatsStore!Next


LEMMA NatsBeginLin ==
    ASSUME NatsInv, NatsLin, NEW c \in Clients, NatsBegin(c), UNCHANGED terms
    PROVE  NatsLin' /\ [NatsStore!Next]_(NatsStore!vars)
<1>1. PICK o \in terms.ops : op' = [op EXCEPT ![c] = [id |-> begun + 1, call |-> o]]
  BY DEF NatsBegin
<1> DEFINE n == [id |-> begun + 1, call |-> o]
<1>2. /\ awaits[c] = "idle" /\ op[c] = None /\ began' = [began EXCEPT ![c] = clock]
      /\ UNCHANGED <<msg, seq, clock, ret, snap, wire, late>> /\ seq \in Nat
  BY DEF NatsBegin, serverVars, NatsInv, NatsShape, NatsAt, NatsTypeOK
<1>3. n \in Numbered
  BY NatsTerms DEF Numbered, NatsInv, NatsShape
<1>4. n # None /\ n.call = o
  BY <1>3, NatsAssumption
<1> HIDE DEF n
<1>5. op' = [op EXCEPT ![c] = n] /\ op'[c] = n
  BY <1>1 DEF n, NatsInv, NatsShape
<1>6. PICK p \in {"put", "look"} : Await(c, p)
  BY DEF NatsBegin
<1>7. awaits'[c] = p
  BY <1>6 DEF Await, NatsInv, NatsTypeOK
<1>8. NatsLinAt(c)'
  BY <1>6, <1>7 DEF NatsLinAt
<1>9. Grows /\ OnlyAt(c, snap, snap') /\ OnlyAt(c, wire, wire') /\ OnlyAt(c, op, op')
  BY <1>2, <1>5 DEF Grows, OnlyAt, NatsInv, NatsShape
<1>10. NatsLin'
  BY <1>2, <1>6, <1>8, <1>9, NatsLinKept
<1>11. NatsStands' = NatsStands
  BY <1>2 DEF NatsStands
<1>12. NatsUnderWay' = [NatsUnderWay EXCEPT ![c] = o] /\ NatsUnderWay[c] = None
  BY <1>2, <1>4, <1>5, NatsUnderWayStep DEF NatsUnderWay
<1>13. o \in CallsOf("stream")
  BY DEF CallsOf, NatsInv, NatsShape
<1>14. NatsStore!Begin(c)
  BY <1>2, <1>11, <1>12, <1>13 DEF NatsStore!Begin
<1>15. QED
  BY <1>10, <1>14 DEF NatsStore!Next

\* A step of c that leaves the stream and c's operation is none of the store's.
LEMMA NatsSilent ==
    ASSUME NatsInv, NatsLin, NEW c \in Clients, NEW p, Await(c, p),
           UNCHANGED <<terms, serverVars, clock, op, began, ret, late>>,
           OnlyAt(c, snap, snap'), OnlyAt(c, wire, wire'), NatsLinAt(c)'
    PROVE  NatsLin' /\ [NatsStore!Next]_(NatsStore!vars)
<1>1. msg' = msg /\ seq' = seq /\ seq \in Nat
  BY DEF serverVars, NatsInv, NatsTypeOK
<1>2. NatsLin'
  <2>1. Grows /\ OnlyAt(c, op, op')
    BY <1>1 DEF Grows, OnlyAt, NatsInv, NatsShape
  <2>2. QED
    BY <2>1, NatsLinKept
<1>3. NatsStands' = NatsStands /\ NatsUnderWay' = NatsUnderWay
  BY <1>1 DEF NatsStands, NatsUnderWay
<1>4. QED
  BY <1>2, <1>3 DEF NatsStore!vars

LEMMA PutLin ==
    ASSUME NatsInv, NatsLin, NEW c \in Clients, Put(c), UNCHANGED terms
    PROVE  NatsLin' /\ [NatsStore!Next]_(NatsStore!vars)
<1>1. /\ op[c] # None /\ Call(c).kind \in {"set", "delete"}
      /\ UNCHANGED <<serverVars, clock, op, began, ret, snap, tries, late, lost, begun>>
  BY DEF Put, NatsInv, NatsShape, NatsAt
<1>2. Call(c).kind = "set" => Call(c).ttl = None
  BY <1>1, NatsCallShape DEF NatsLin, Lasting, NatsInv
<1> DEFINE w == [id |-> op[c].id, kind |-> Call(c).kind, key |-> Call(c).key,
                 val |-> IF Call(c).kind = "set" THEN Call(c).val ELSE None,
                 put |-> Call(c).kind = "set", rev |-> None, ttl |-> None]
<1>3. /\ wire' = [wire EXCEPT ![c] = w] /\ Await(c, "ack")
      /\ w.key = Call(c).key /\ w.ttl = None /\ w.rev = None
      /\ Call(c).kind = "set" => w.put /\ w.val = Call(c).val
      /\ Call(c).kind = "delete" => ~w.put
  <2>1. CASE Call(c).kind = "set"
    BY <1>2, <2>1 DEF Put, Publish
  <2>2. CASE Call(c).kind = "delete"
    BY <2>2 DEF Put, Publish
  <2>3. QED
    BY <1>1, <2>1, <2>2
<1> HIDE DEF w
<1>4. wire'[c] = w /\ awaits'[c] = "ack" /\ Call(c)' = Call(c)
  BY <1>1, <1>3 DEF NatsInv, NatsShape, NatsTypeOK, Await, Call
<1>5. NatsLinAt(c)'
  BY <1>1, <1>3, <1>4 DEF NatsLinAt
<1>6. OnlyAt(c, snap, snap') /\ OnlyAt(c, wire, wire')
  BY <1>1, <1>3 DEF OnlyAt, NatsInv, NatsShape
<1>7. QED
  BY <1>1, <1>3, <1>5, <1>6, NatsSilent

LEMMA UpdateLin ==
    ASSUME NatsInv, NatsLin, NEW c \in Clients, Update(c), UNCHANGED terms
    PROVE  NatsLin' /\ [NatsStore!Next]_(NatsStore!vars)
<1>1. /\ op[c] # None /\ Call(c).kind \in {"increment", "cas"} /\ Fresh(c)
      /\ UNCHANGED <<serverVars, clock, op, began, ret, snap, tries, late, lost, begun>>
  BY DEF Update, NatsLin, NatsLinAt, NatsInv, NatsShape, NatsAt
<1>2. HeaderTtl(snap[c].ttl) = None
  BY <1>1 DEF Fresh, HeaderTtl
<1> DEFINE w == [id |-> op[c].id, kind |-> Call(c).kind, key |-> Call(c).key,
                 val |-> IF Call(c).kind = "increment" THEN AddOne(snap[c].val) ELSE Call(c).val,
                 put |-> TRUE, rev |-> snap[c].rev, ttl |-> None]
<1>3. /\ wire' = [wire EXCEPT ![c] = w] /\ Await(c, "ack")
      /\ w.key = Call(c).key /\ w.ttl = None /\ w.rev = snap[c].rev /\ w.put
      /\ Call(c).kind = "increment" => w.val = AddOne(snap[c].val)
      /\ Call(c).kind = "cas" => w.val = Call(c).val
  BY <1>2 DEF Update, Publish, Revision
<1> HIDE DEF w
<1>4. wire'[c] = w /\ awaits'[c] = "ack" /\ Call(c)' = Call(c)
  BY <1>1, <1>3 DEF NatsInv, NatsShape, NatsTypeOK, Await, Call
<1>5. Fresh(c)'
  BY <1>1, <1>4 DEF Fresh, serverVars, LastSeq, NatsStands, Countable
<1>6. NatsLinAt(c)'
  BY <1>1, <1>3, <1>4, <1>5 DEF NatsLinAt
<1>7. OnlyAt(c, snap, snap') /\ OnlyAt(c, wire, wire')
  BY <1>1, <1>3 DEF OnlyAt, NatsInv, NatsShape
<1>8. QED
  BY <1>1, <1>3, <1>6, <1>7, NatsSilent

\* An operation ends with an answer and the stream as it was.
LEMMA NatsAnswered ==
    ASSUME NatsInv, NatsLin, NEW c \in Clients, NEW a, NatsFinish(c, a),
           UNCHANGED <<terms, serverVars, clock, began, late>>
    PROVE  NatsLin' /\ NatsStands' = NatsStands
<1>1. msg' = msg /\ seq' = seq /\ seq \in Nat
  BY DEF serverVars, NatsInv, NatsTypeOK
<1>2. awaits'[c] = "idle"
  BY DEF NatsFinish, Await, NatsInv, NatsTypeOK
<1>3. NatsLinAt(c)'
  BY <1>2 DEF NatsLinAt
<1>4. NatsLin'
  <2>1. /\ Grows /\ OnlyAt(c, op, op') /\ OnlyAt(c, snap, snap') /\ OnlyAt(c, wire, wire')
        /\ Await(c, "idle")
    BY <1>1 DEF Grows, OnlyAt, NatsFinish, NatsInv, NatsShape
  <2>2. QED
    BY <1>3, <2>1, NatsLinKept
<1>5. QED
  BY <1>1, <1>4 DEF NatsStands

LEMMA LookLin ==
    ASSUME NatsInv, NatsLin, NEW c \in Clients, Look(c), UNCHANGED terms
    PROVE  NatsLin' /\ [NatsStore!Next]_(NatsStore!vars)
<1> DEFINE k == Call(c).key
           s == Snapshot(k)
           e == NatsStands[k]
<1>1. /\ op[c] # None /\ awaits[c] = "look" /\ UNCHANGED <<serverVars, clock, began, late, lost, begun>>
      /\ Call(c).kind \in {"get", "increment", "cas"} /\ k \in Keys
  BY NatsCallShape DEF Look, NatsInv, NatsShape, NatsAt
<1>2. /\ s = [rev |-> LastSeq(k), val |-> e.val, ttl |-> None] /\ At(e, clock) = e
      /\ LastSeq(k) \in Nat /\ LastSeq(k) <= seq
  BY <1>1, StandsLasting
<1>3. CASE \E a : NatsFinish(c, a)
  <2>1. PICK a : NatsFinish(c, a)
    BY <1>3
  <2>2. NatsLin' /\ NatsStands' = NatsStands
    BY <1>1, <2>1, NatsAnswered
  <2>3. op' = [op EXCEPT ![c] = None]
    BY <2>1 DEF NatsFinish
  <2> DEFINE r == Effect(Call(c), e, clock)
  <2>4. r.entry = e /\ ret' = [ret EXCEPT ![c] = r.ret]
    <3>1. CASE Call(c).kind = "get"
      BY <1>1, <1>2, <3>1 DEF Look, NatsFinish, Effect
    <3>2. awaits'[c] # "update"
      BY <2>1 DEF NatsFinish, Await, NatsInv, NatsTypeOK
    <3>3. ~Await(c, "update")
      BY <3>2 DEF Await, NatsInv, NatsTypeOK
    <3>4. CASE Call(c).kind = "increment"
      <4>1. ~Countable(s.val) /\ NatsFinish(c, Answer("error", None))
        BY <3>3, <3>4 DEF Look
      <4>2. r = [entry |-> e, ret |-> Answer("error", None)]
        BY <1>2, <3>4, <4>1 DEF Effect
      <4>3. QED
        BY <4>1, <4>2 DEF NatsFinish
    <3>5. CASE Call(c).kind = "cas"
      <4>1. s.val # Call(c).expected /\ NatsFinish(c, Answer("conflict", s.val))
        BY <3>3, <3>5 DEF Look
      <4>2. r = [entry |-> e, ret |-> Answer("conflict", e.val)]
        BY <1>2, <3>5, <4>1 DEF Effect
      <4>3. QED
        BY <1>2, <4>1, <4>2 DEF NatsFinish
    <3>6. QED
      BY <1>1, <3>1, <3>4, <3>5
  <2> HIDE DEF r
  <2>5. NatsStands' = [NatsStands EXCEPT ![k] = r.entry]
    BY <1>1, <2>2, <2>4 DEF NatsStands
  <2>6. r = Effect(Call(c), NatsStands[k], clock)
    BY DEF r
  <2>7. NatsStore!Next
    BY <1>1, <2>3, <2>4, <2>5, <2>6, NatsIsApply
  <2>8. QED
    BY <2>2, <2>7
<1>4. CASE /\ \/ Call(c).kind = "increment" /\ Countable(s.val)
              \/ Call(c).kind = "cas" /\ s.val = Call(c).expected
           /\ snap' = [snap EXCEPT ![c] = s] /\ Await(c, "update") /\ UNCHANGED <<op, ret, wire, tries>>
  <2>1. s \in Snapshots
    BY <1>1, SnapshotShape
  <2> HIDE DEF s
  <2>2. snap'[c] = s /\ awaits'[c] = "update" /\ Call(c)' = Call(c)
    BY <1>4 DEF NatsInv, NatsShape, NatsTypeOK, Await, Call
  <2>3. NatsStands' = NatsStands /\ LastSeq(k)' = LastSeq(k) /\ seq' = seq
    BY <1>1, <2>2 DEF NatsStands, LastSeq, serverVars
  <2>4. Fresh(c)'
    BY <1>2, <1>4, <2>1, <2>2, <2>3 DEF Fresh, Countable
  <2>5. NatsLinAt(c)'
    BY <2>2, <2>4 DEF NatsLinAt
  <2>6. OnlyAt(c, snap, snap') /\ OnlyAt(c, wire, wire')
    BY <1>4 DEF OnlyAt, NatsInv, NatsShape
  <2>7. QED
    BY <1>1, <1>4, <2>5, <2>6, NatsSilent
<1>5. QED
  BY <1>3, <1>4 DEF Look

LEMMA WonLin ==
    ASSUME NatsInv, NatsLin, NEW c \in Clients, Won(c), UNCHANGED terms
    PROVE  NatsLin' /\ [NatsStore!Next]_(NatsStore!vars)
<1>1. /\ op[c] # None /\ Call(c).kind = "cas" /\ Call(c).key \in Keys
      /\ NatsFinish(c, Answer("conflict", Snapshot(Call(c).key).val))
      /\ UNCHANGED <<serverVars, clock, began, late, lost, begun>>
  BY NatsCallShape DEF Won, NatsInv, NatsShape, NatsAt
<1>2. NatsLin' /\ NatsStands' = NatsStands
  BY <1>1, NatsAnswered
<1>3. Snapshot(Call(c).key).val = At(NatsStands[Call(c).key], clock).val
  BY <1>1, StandsLasting
<1>4. op' = [op EXCEPT ![c] = None] /\ ret' = [ret EXCEPT ![c] = Answer("conflict", At(NatsStands[Call(c).key], clock).val)]
  BY <1>1, <1>3 DEF NatsFinish
<1>5. QED
  BY <1>1, <1>2, <1>4, NatsIsRefuse

LEMMA LostRaceLin ==
    ASSUME NatsInv, NatsLin, NEW c \in Clients, LostRace(c), UNCHANGED terms
    PROVE  NatsLin' /\ [NatsStore!Next]_(NatsStore!vars)
<1>1. op[c] # None /\ UNCHANGED <<serverVars, clock, began, late, lost, begun>>
  BY DEF LostRace, NatsInv, NatsShape, NatsAt
<1>2. CASE Call(c).kind = "increment" /\ NatsFinish(c, Answer("error", None))
  <2>1. NatsLin' /\ NatsStands' = NatsStands
    BY <1>1, <1>2, NatsAnswered
  <2>2. op' = [op EXCEPT ![c] = None] /\ ret' = [ret EXCEPT ![c] = Answer("error", None)]
    BY <1>2 DEF NatsFinish
  <2>3. QED
    BY <1>1, <1>2, <2>1, <2>2, NatsIsRefuse
<1>3. CASE /\ wire' = [wire EXCEPT ![c] = None] /\ snap' = [snap EXCEPT ![c] = None] /\ UNCHANGED <<op, ret>>
           /\ Await(c, "won") \/ Await(c, "look")
  <2>1. PICK p \in {"won", "look"} : Await(c, p)
    BY <1>3
  <2>2. awaits'[c] = p
    BY <2>1 DEF Await, NatsInv, NatsTypeOK
  <2>3. NatsLinAt(c)'
    BY <2>1, <2>2 DEF NatsLinAt
  <2>4. OnlyAt(c, snap, snap') /\ OnlyAt(c, wire, wire')
    BY <1>3 DEF OnlyAt, NatsInv, NatsShape
  <2>5. QED
    BY <1>1, <1>3, <2>1, <2>3, <2>4, NatsSilent
<1>4. QED
  BY <1>2, <1>3 DEF LostRace

LEMMA AckedLin ==
    ASSUME NatsInv, NatsLin, NEW c \in Clients, Acked(c), UNCHANGED terms
    PROVE  NatsLin' /\ [NatsStore!Next]_(NatsStore!vars)
<1> DEFINE m == wire[c]
           k == Call(c).key
           e == NatsStands[k]
           a == Answer("ok", IF Call(c).kind = "increment" THEN m.val ELSE None)
<1>1. /\ op[c] # None /\ m \in Publishes /\ Store(m) /\ Takes(m) /\ NatsFinish(c, a)
      /\ UNCHANGED <<clock, began, late, lost, begun>> /\ k \in Keys
  BY NatsCallShape DEF Acked, NatsInv, NatsShape, NatsAt
<1>2. /\ m.key = k /\ m.ttl = None
      /\ Call(c).kind \in {"set", "delete", "increment", "cas"}
      /\ Call(c).kind = "set" => m.put /\ m.val = Call(c).val
      /\ Call(c).kind = "delete" => ~m.put
      /\ Call(c).kind \in {"increment", "cas"} => Fresh(c) /\ m.put /\ m.rev = snap[c].rev
      /\ Call(c).kind = "increment" => m.val = AddOne(snap[c].val)
      /\ Call(c).kind = "cas" => m.val = Call(c).val
  BY DEF Acked, NatsLin, NatsLinAt
<1> HIDE DEF m
<1>3. /\ seq' \in Nat /\ seq' = seq + 1 /\ seq \in Nat
      /\ msg'[k] = [seq |-> seq + 1, val |-> m.val, put |-> m.put, ttl |-> m.ttl, at |-> clock,
                    exp |-> IF m.ttl = None THEN None ELSE clock + m.ttl * Second]
      /\ msg'[k] # None /\ \A j \in Keys \ {k} : msg'[j] = msg[j]
  BY <1>1, <1>2, StoreShape DEF NatsInv, NatsTypeOK
<1>4. msg'[k].seq = seq' /\ msg'[k].exp = None /\ msg'[k].ttl = None /\ msg'[k].put = m.put /\ msg'[k].val = m.val
  BY <1>2, <1>3
<1>5. NatsStands' = [NatsStands EXCEPT ![k] = IF m.put THEN [val |-> m.val, exp |-> None] ELSE Absent]
  BY <1>1, <1>3, <1>4 DEF NatsStands
<1>6. NatsLin'
  <2>1. awaits'[c] = "idle"
    BY <1>1 DEF NatsFinish, Await, NatsInv, NatsTypeOK
  <2>2. NatsLinAt(c)'
    BY <2>1 DEF NatsLinAt
  <2>3. Grows
    BY <1>3, <1>4 DEF Grows
  <2>4. /\ Await(c, "idle")
        /\ OnlyAt(c, op, op') /\ OnlyAt(c, snap, snap') /\ OnlyAt(c, wire, wire')
    BY <1>1 DEF NatsFinish, OnlyAt, NatsInv, NatsShape
  <2>5. QED
    BY <1>1, <2>2, <2>3, <2>4, NatsLinKept
<1> DEFINE r == Effect(Call(c), e, clock)
<1>7. At(e, clock) = e /\ e.exp = None /\ LastSeq(k) \in Nat
  BY <1>1, StandsLasting
<1>8. Call(c).kind \in {"increment", "cas"} => e.val = snap[c].val
  BY <1>1, <1>2, <1>7, BucketAssumption DEF Fresh, Takes, Snapshots
<1>9. /\ r.entry = IF m.put THEN [val |-> m.val, exp |-> None] ELSE Absent
      /\ r.ret = a
  <2>1. CASE Call(c).kind = "set"
    <3>1. Call(c).val # None /\ Call(c).ttl = None
      BY <1>1, <2>1, NatsCallShape, BucketAssumption DEF NatsInv, NatsLin, Lasting
    <3>2. r = [entry |-> Entry(Call(c).val, None), ret |-> Answer("ok", None)]
      BY <2>1, <3>1 DEF Effect, Deadline
    <3>3. QED
      BY <1>2, <2>1, <3>1, <3>2 DEF Entry
  <2>2. CASE Call(c).kind = "delete"
    BY <1>2, <2>2 DEF Effect
  <2>3. CASE Call(c).kind = "increment"
    <3>1. Countable(e.val) /\ m.val = AddOne(e.val)
      BY <1>2, <1>8, <2>3 DEF Fresh
    <3>2. AddOne(e.val) # None
      <4>1. e.val = None \/ e.val \in Nat
        BY <3>1, BucketAssumption DEF Countable
      <4>2. AddOne(e.val) \in Nat
        BY <4>1 DEF AddOne
      <4>3. QED
        BY <4>2, BucketAssumption
    <3>3. r = [entry |-> Entry(AddOne(e.val), None), ret |-> Answer("ok", AddOne(e.val))]
      BY <1>7, <2>3, <3>1 DEF Effect
    <3>4. QED
      BY <1>2, <2>3, <3>1, <3>2, <3>3 DEF Entry
  <2>4. CASE Call(c).kind = "cas"
    <3>1. e.val = Call(c).expected /\ m.val = Call(c).val
      BY <1>2, <1>8, <2>4 DEF Fresh
    <3>2. Call(c).val # None
      BY <1>1, <2>4, NatsCallShape, BucketAssumption DEF NatsInv
    <3>3. r = [entry |-> Entry(Call(c).val, None), ret |-> Answer("ok", None)]
      BY <1>7, <2>4, <3>1 DEF Effect
    <3>4. QED
      BY <1>2, <2>4, <3>1, <3>2, <3>3 DEF Entry
  <2>5. QED
    BY <1>2, <2>1, <2>2, <2>3, <2>4
<1>10. op' = [op EXCEPT ![c] = None] /\ ret' = [ret EXCEPT ![c] = r.ret]
  BY <1>1, <1>9 DEF NatsFinish
<1> HIDE DEF r
<1>11. NatsStands' = [NatsStands EXCEPT ![k] = r.entry] /\ r = Effect(Call(c), NatsStands[k], clock)
  BY <1>5, <1>9 DEF r
<1>12. NatsStore!Next
  BY <1>1, <1>10, <1>11, NatsIsApply
<1>13. QED
  BY <1>6, <1>12

LEMMA NatsTickLin ==
    ASSUME NatsInv, NatsLin, NatsTick, UNCHANGED terms
    PROVE  NatsLin' /\ [NatsStore!Next]_(NatsStore!vars)
<1>1. UNCHANGED <<msg, seq, op, began, ret, awaits, snap, wire, late>> /\ clock' = clock + 1
  BY DEF NatsTick, clientVars, serverVars
<1>2. \A c \in Clients : NatsLinAt(c)'
  <2>1. NatsStands' = NatsStands
    BY <1>1 DEF NatsStands
  <2>2. \A c \in Clients : (Fresh(c)' <=> Fresh(c))
    BY <1>1, <2>1 DEF Fresh, LastSeq, Call
  <2>3. QED
    BY <1>1, <2>2 DEF NatsLin, NatsLinAt, Call
<1>3. NatsLin'
  BY <1>1, <1>2 DEF NatsLin, Lasting
<1>4. NatsStands' = NatsStands /\ NatsUnderWay' = NatsUnderWay
  BY <1>1 DEF NatsStands, NatsUnderWay
<1>5. NatsStore!Tick
  BY <1>1, <1>4 DEF NatsStore!Tick
<1>6. QED
  BY <1>3, <1>5 DEF NatsStore!Next

LEMMA NatsLinStep ==
    ASSUME NatsInv, NatsLin, NatsNext
    PROVE  NatsLin' /\ [NatsStore!Next]_(NatsStore!vars)
<1>1. \A c \in Clients : ~GivenUp(c)
  BY NatsTerms DEF GivenUp, NatsLin, Lasting, NatsInv, NatsTypeOK
<1>2. \A k \in Keys : ~Sweep(k)
  BY DEF Sweep, NatsLin
<1>3. late = {}
  BY DEF NatsLin
<1>4. QED
  BY <1>1, <1>2, <1>3, NatsBeginLin, PutLin, LookLin, UpdateLin, AckedLin, LostRaceLin, WonLin, NatsTickLin
  DEF NatsNext

LEMMA NatsLinInit ==
    ASSUME NatsInit
    PROVE  /\ Lasting => NatsLin
           /\ NatsStore!Init
<1>1. Lasting => NatsLin
  BY DEF NatsInit, BucketInit, NatsLin, NatsLinAt
<1>2. NatsStands = [k \in Keys |-> Absent] /\ NatsUnderWay = [c \in Clients |-> None]
  BY DEF NatsInit, BucketInit, NatsStands, NatsUnderWay
<1>3. QED
  BY <1>1, <1>2, NatsSameOperators DEF NatsInit, BucketInit, NatsStore!Init

-------------------------------------------------------------------------------
(***************************************************************************)
(* The server                                                              *)
(***************************************************************************)

Scans == [ever : SUBSET Keys, always : SUBSET Keys, returned : SUBSET Keys]

\* A listing has gathered what it was returned, which was there, and over, it was
\* returned what was there throughout.
ScanOK(c) ==
    /\ scan[c] = None => gathered[c] = {} /\ (op[c] = None \/ op[c] \in RedisOps)
    /\ scan[c] # None =>
        /\ op[c] # None /\ op[c].kind \in {"keys", "listed"}
        /\ None # [kind |-> "listed", bucket |-> op[c].bucket]
        /\ gathered[c] = Stripped(op[c].bucket, scan[c].returned)
        /\ scan[c].returned \subseteq scan[c].ever /\ There(clock) \subseteq scan[c].ever
        /\ op[c].kind = "listed" => scan[c].always \subseteq scan[c].returned

RedisInv ==
    /\ terms \in Terms /\ terms.store = "redis"
    /\ clock \in 0 .. terms.ticks /\ began \in [Clients -> 0 .. clock]
    /\ db \in [Keys -> [val : Values \cup Nat \cup {None}, exp : Nat \cup {None}]]
    /\ \A k \in Keys : db[k].val = None => db[k].exp = None
    /\ op = [c \in Clients |-> op[c]] /\ gathered = [c \in Clients |-> gathered[c]]
    /\ scan \in [Clients -> Scans \cup {None}]
    /\ \A c \in Clients : ScanOK(c)

LEMMA SentShape ==
    ASSUME NEW o \in Calls
    PROVE  /\ Sent(o) \in Calls /\ Sent(o).kind = o.kind /\ o.kind # "keys" /\ o.kind # "listed"
           /\ o.key \in Keys /\ o.kind \in {"get", "set", "delete", "increment", "cas"}
           /\ o.kind = "set" => o.val \in Values \cup Nat /\ o.ttl \in Nat \cup {None}
           /\ o.kind = "cas" => o.val \in Values \cup Nat
<1>1. /\ o.kind \in {"get", "set", "delete", "increment", "cas"} /\ o.key \in Keys
      /\ o.kind = "set" => o \in [kind : {"set"}, key : Keys, val : Values \cup Nat, ttl : Nat \cup {None}]
      /\ o.kind = "cas" => o.val \in Values \cup Nat
  BY DEF Calls
<1>2. CASE o.kind = "set"
  <2>1. o \in [kind : {"set"}, key : Keys, val : Values \cup Nat, ttl : Nat \cup {None}]
    BY <1>1, <1>2
  <2>2. Seconds(o.ttl) \in Nat \cup {None}
    BY <2>1 DEF Seconds
  <2>3. Sent(o) = [o EXCEPT !.ttl = Seconds(o.ttl)]
    BY <1>2 DEF Sent
  <2>4. Sent(o) \in [kind : {"set"}, key : Keys, val : Values \cup Nat, ttl : Nat \cup {None}]
    BY <2>1, <2>2, <2>3
  <2>5. QED
    BY <1>1, <1>2, <2>1, <2>4 DEF Calls
<1>3. CASE o.kind # "set"
  BY <1>1, <1>3 DEF Sent
<1>4. QED
  BY <1>2, <1>3

LEMMA RedisOpsShape ==
    ASSUME NEW o \in RedisOps
    PROVE  o \in Calls /\ o # None
<1>1. PICK p \in CallsOf("redis") : p.kind # "keys" /\ o = Sent(p)
  BY DEF RedisOps
<1>2. p \in Calls
  BY <1>1, BucketAssumption DEF CallsOf
<1>3. QED
  BY <1>1, <1>2, SentShape, BucketAssumption

\* What strip_bucket_prefix makes of more keys.
LEMMA StrippedJoins ==
    ASSUME NEW b, NEW s, NEW t
    PROVE  /\ Stripped(b, s \cup t) = Stripped(b, s) \cup Stripped(b, t)
           /\ s \subseteq t => Stripped(b, s) \subseteq Stripped(b, t)
           /\ Stripped(b, {}) = {}
  BY DEF Stripped

LEMMA ListingSoundHolds ==
    ASSUME RedisInv
    PROVE  ListingSound
<1> SUFFICES ASSUME NEW c \in Clients, op[c] # None, op[c].kind \in {"keys", "listed"}
             PROVE  /\ gathered[c] \subseteq Stripped(op[c].bucket, scan[c].ever)
                    /\ op[c].kind = "listed" => Stripped(op[c].bucket, scan[c].always) \subseteq gathered[c]
  BY DEF ListingSound
<1>1. scan[c] # None
  BY RedisOpsShape, SentShape DEF RedisInv, ScanOK
<1>2. QED
  BY <1>1, StrippedJoins DEF RedisInv, ScanOK

LEMMA RedisTerms ==
    ASSUME RedisInv
    PROVE  /\ terms.ticks \in Nat /\ clock \in Nat /\ None \notin Nat /\ None \notin Values
           /\ Counters \subseteq Nat /\ terms.ops \subseteq CallsOf("redis")
           /\ \A o \in terms.ops : o \in Calls \/ o.kind = "keys"
  BY BucketAssumption DEF RedisInv, CallsOf

\* A scan follows what comes and goes.
LEMMA FollowStep ==
    ASSUME RedisInv, NEW there \in SUBSET Keys, Follow(there)
    PROVE  /\ scan' \in [Clients -> Scans \cup {None}]
           /\ \A c \in Clients : scan'[c] = None <=> scan[c] = None
           /\ \A c \in Clients : scan[c] # None => /\ there \subseteq scan'[c].ever
                                                   /\ scan[c].ever \subseteq scan'[c].ever
                                                   /\ scan'[c].always \subseteq scan[c].always
                                                   /\ scan'[c].returned = scan[c].returned
<1>1. scan \in [Clients -> Scans \cup {None}]
  BY DEF RedisInv
<1>2. ASSUME NEW c \in Clients, scan[c] # None
      PROVE  /\ scan'[c] = [scan[c] EXCEPT !.ever = @ \cup there, !.always = @ \cap there]
             /\ scan'[c] \in Scans /\ scan'[c] # None
             /\ scan'[c].ever = scan[c].ever \cup there /\ scan'[c].always = scan[c].always \cap there
             /\ scan'[c].returned = scan[c].returned
  <2>1. scan[c] \in Scans
    BY <1>1, <1>2
  <2>2. scan'[c] = [scan[c] EXCEPT !.ever = @ \cup there, !.always = @ \cap there]
    BY <1>2 DEF Follow
  <2>3. /\ scan'[c] \in Scans
        /\ scan'[c].ever = scan[c].ever \cup there /\ scan'[c].always = scan[c].always \cap there
        /\ scan'[c].returned = scan[c].returned
    BY <2>1, <2>2 DEF Scans
  <2>4. QED
    BY <2>2, <2>3, RedisAssumption DEF Scans
<1>3. \A c \in Clients : scan[c] = None => scan'[c] = None
  BY DEF Follow
<1>4. scan' = [c \in Clients |-> scan'[c]]
  BY DEF Follow
<1>5. scan' \in [Clients -> Scans \cup {None}]
  BY <1>2, <1>3, <1>4
<1>6. QED
  BY <1>2, <1>3, <1>5

LEMMA RedisBeginStep ==
    ASSUME RedisInv, NEW c \in Clients, RedisBegin(c), UNCHANGED terms
    PROVE  RedisInv' /\ [RedisStore!Next]_(RedisStore!vars)
<1>1. PICK o \in terms.ops :
        /\ op' = [op EXCEPT ![c] = Sent(o)]
        /\ began' = [began EXCEPT ![c] = IF o.kind = "keys" THEN @ ELSE clock]
        /\ scan' = [scan EXCEPT ![c] =
             IF o.kind = "keys"
               THEN [ever |-> There(clock), always |-> There(clock), returned |-> {}]
               ELSE None]
  BY DEF RedisBegin
<1>2. /\ op[c] = None /\ UNCHANGED <<db, clock, ret, gathered>> /\ scan[c] = None /\ gathered[c] = {}
  BY DEF RedisBegin, RedisInv, ScanOK
<1>3. /\ op'[c] = Sent(o) /\ \A d \in Clients \ {c} : op'[d] = op[d]
      /\ op' = [d \in Clients |-> op'[d]]
  BY <1>1 DEF RedisInv
<1>4. began' \in [Clients -> 0 .. clock']
  BY <1>1, <1>2, RedisTerms DEF RedisInv
<1>5. /\ \A d \in Clients \ {c} : scan'[d] = scan[d]
      /\ scan' \in [Clients -> Scans \cup {None}]
      /\ o.kind # "keys" => scan'[c] = None
      /\ o.kind = "keys" => /\ scan'[c] # None
                            /\ scan'[c] = [ever |-> There(clock), always |-> There(clock), returned |-> {}]
  <2> DEFINE n == [ever |-> There(clock), always |-> There(clock), returned |-> {}]
  <2>1. n \in Scans
    BY DEF Scans, There
  <2>2. n # None
    BY <2>1, RedisAssumption DEF Scans
  <2>3. scan' = [scan EXCEPT ![c] = IF o.kind = "keys" THEN n ELSE None]
    BY <1>1
  <2> HIDE DEF n
  <2>4. /\ \A d \in Clients \ {c} : scan'[d] = scan[d]
        /\ scan'[c] = IF o.kind = "keys" THEN n ELSE None
        /\ scan' \in [Clients -> Scans \cup {None}]
    BY <2>1, <2>3 DEF RedisInv
  <2>5. QED
    BY <2>2, <2>4 DEF n
<1>6. There(clock)' = There(clock)
  BY <1>2 DEF There
<1>7. \A d \in Clients \ {c} : ScanOK(d)'
  BY <1>2, <1>3, <1>5, <1>6 DEF RedisInv, ScanOK
<1>8. CASE o.kind = "keys"
  <2>1. Sent(o) = o
    BY <1>8 DEF Sent
  <2>2. o # None /\ None # [kind |-> "listed", bucket |-> o.bucket]
    BY <1>8, RedisTerms, RedisAssumption
  <2>3. gathered'[c] = Stripped(op'[c].bucket, scan'[c].returned)
    BY <1>2, <1>5, <1>8, StrippedJoins
  <2>4. ScanOK(c)'
    BY <1>3, <1>5, <1>6, <1>8, <2>1, <2>2, <2>3 DEF ScanOK
  <2>5. RedisInv'
    BY <1>2, <1>3, <1>4, <1>5, <1>7, <2>4 DEF RedisInv
  <2>6. RedisUnderWay' = RedisUnderWay /\ began' = began
    BY <1>1, <1>2, <1>3, <1>5, <1>8 DEF RedisUnderWay, RedisInv
  <2>7. QED
    BY <1>2, <2>5, <2>6 DEF RedisStore!vars
<1>9. CASE o.kind # "keys"
  <2>1. Sent(o) \in RedisOps
    BY <1>9, RedisTerms DEF RedisOps
  <2>2. ScanOK(c)'
    BY <1>2, <1>3, <1>5, <1>9, <2>1 DEF ScanOK
  <2>3. RedisInv'
    BY <1>2, <1>3, <1>4, <1>5, <1>7, <2>2 DEF RedisInv
  <2>4. RedisUnderWay' = [RedisUnderWay EXCEPT ![c] = Sent(o)] /\ RedisUnderWay[c] = None
    BY ZenonT(40), <1>2, <1>3, <1>5, <1>9 DEF RedisUnderWay
  <2>5. began' = [began EXCEPT ![c] = clock]
    BY <1>1, <1>9
  <2>6. RedisStore!Begin(c)
    BY <1>2, <2>1, <2>4, <2>5 DEF RedisStore!Begin
  <2>7. QED
    BY <2>3, <2>6 DEF RedisStore!Next
<1>10. QED
  BY <1>8, <1>9

\* Each command does what the store's operation does to a live entry.
LEMMA RanIsEffect ==
    ASSUME RedisInv, NEW o \in Calls, NEW k \in Keys
    PROVE  /\ Ran(o, At(db[k], clock)) = Effect(o, db[k], clock)
           /\ Effect(o, db[k], clock).entry \in [val : Values \cup Nat \cup {None}, exp : Nat \cup {None}]
           /\ Effect(o, db[k], clock).entry.val = None => Effect(o, db[k], clock).entry.exp = None
<1> DEFINE now == At(db[k], clock)
<1>1. /\ now \in [val : Values \cup Nat \cup {None}, exp : Nat \cup {None}]
      /\ now.val = None => now.exp = None
  BY DEF At, Absent, RedisInv
<1>2. now = [val |-> now.val, exp |-> now.exp] /\ now.exp \in Nat \cup {None}
      /\ now.val \in Values \cup Nat \cup {None}
  BY <1>1
<1>3. None \notin Nat /\ None \notin Values /\ Counters \subseteq Nat /\ clock \in Nat
  BY RedisTerms
<1> HIDE DEF now
<1>4. CASE o.kind = "get"
  BY <1>1, <1>4 DEF Ran, Effect, now
<1>5. CASE o.kind = "set"
  <2>1. o.val \in Values \cup Nat /\ o.ttl \in Nat \cup {None} /\ o.val # None
    BY <1>3, <1>5, SentShape
  <2>2. Deadline(o.ttl, clock) \in Nat \cup {None}
    BY <1>3, <2>1 DEF Deadline
  <2>3. Entry(o.val, Deadline(o.ttl, clock)) = [val |-> o.val, exp |-> Deadline(o.ttl, clock)]
    BY <2>1 DEF Entry
  <2>4. Effect(o, db[k], clock) = [entry |-> [val |-> o.val, exp |-> Deadline(o.ttl, clock)],
                                   ret |-> Answer("ok", None)]
    BY <1>5, <2>3 DEF Effect
  <2>5. Ran(o, now) = [entry |-> [val |-> o.val, exp |-> Deadline(o.ttl, clock)], ret |-> Answer("ok", None)]
    BY <1>5 DEF Ran, Deadline
  <2>6. QED
    BY <2>1, <2>2, <2>4, <2>5 DEF now
<1>6. CASE o.kind = "delete"
  BY <1>6 DEF Ran, Effect, Absent
<1>7. CASE o.kind = "increment"
  <2>1. CASE now.val = None
    <3>1. now.exp = None /\ Countable(now.val) /\ AddOne(now.val) = 1 /\ 1 \in Nat /\ 1 # None
      BY <1>1, <1>3, <2>1 DEF Countable, AddOne
    <3>2. Effect(o, db[k], clock) = [entry |-> [val |-> 1, exp |-> None], ret |-> Answer("ok", 1)]
      BY <1>7, <3>1 DEF Effect, Entry, now
    <3>3. Ran(o, now) = [entry |-> [val |-> 1, exp |-> None], ret |-> Answer("ok", 1)]
      BY <1>7, <2>1 DEF Ran
    <3>4. QED
      BY <3>1, <3>2, <3>3 DEF now
  <2>2. CASE now.val # None /\ now.val \in Counters
    <3>0. now.val + 1 \in Nat
      <4>1. now.val \in Nat
        BY <1>3, <2>2
      <4>2. \A n \in Nat : n + 1 \in Nat
        OBVIOUS
      <4>3. QED
        BY <4>1, <4>2
    <3>1. Countable(now.val) /\ AddOne(now.val) = now.val + 1 /\ now.val + 1 # None
      BY <1>3, <2>2, <3>0 DEF Countable, AddOne
    <3>2. Effect(o, db[k], clock) = [entry |-> [val |-> now.val + 1, exp |-> now.exp],
                                     ret |-> Answer("ok", now.val + 1)]
      BY <1>7, <3>1 DEF Effect, Entry, now
    <3>3. Ran(o, now) = [entry |-> [val |-> now.val + 1, exp |-> now.exp], ret |-> Answer("ok", now.val + 1)]
      BY <1>2, <1>7, <2>2 DEF Ran
    <3>4. QED
      BY <1>2, <3>0, <3>1, <3>2, <3>3 DEF now
  <2>3. CASE now.val # None /\ now.val \notin Counters
    <3>1. ~Countable(now.val)
      BY <2>3 DEF Countable
    <3>2. Effect(o, db[k], clock) = [entry |-> now, ret |-> Answer("error", None)]
      BY <1>7, <3>1 DEF Effect, now
    <3>3. Ran(o, now) = [entry |-> now, ret |-> Answer("error", None)]
      BY <1>7, <2>3 DEF Ran
    <3>4. QED
      BY <1>1, <3>2, <3>3 DEF now
  <2>4. QED
    BY <2>1, <2>2, <2>3
<1>8. CASE o.kind = "cas"
  <2>1. o.val \in Values \cup Nat /\ o.val # None
    BY <1>3, <1>8, SentShape
  <2>2. Ran(o, now) = Swap(o, now)
    BY <1>8 DEF Ran
  <2>3. CASE now.val = o.expected
    <3>1. Effect(o, db[k], clock) = [entry |-> [val |-> o.val, exp |-> now.exp], ret |-> Answer("ok", None)]
      BY <1>8, <2>1, <2>3 DEF Effect, Entry, now
    <3>2. Swap(o, now) = [entry |-> [val |-> o.val, exp |-> now.exp], ret |-> Answer("ok", None)]
      BY <2>3 DEF Swap
    <3>3. QED
      BY <1>2, <2>1, <2>2, <3>1, <3>2 DEF now
  <2>4. CASE now.val # o.expected
    <3>1. Effect(o, db[k], clock) = [entry |-> now, ret |-> Answer("conflict", now.val)]
      BY <1>8, <2>4 DEF Effect, now
    <3>2. Swap(o, now) = [entry |-> now, ret |-> Answer("conflict", now.val)]
      BY <2>4 DEF Swap
    <3>3. QED
      BY <1>1, <2>2, <3>1, <3>2 DEF now
  <2>5. QED
    BY <2>3, <2>4
<1>9. QED
  BY <1>4, <1>5, <1>6, <1>7, <1>8, SentShape

LEMMA RedisSameOperators ==
    /\ RedisStore!Absent = Absent
    /\ \A o, e, t : RedisStore!Effect(o, e, t) = Effect(o, e, t)
    /\ \A a, v : RedisStore!Answer(a, v) = Answer(a, v)
  BY DEF RedisStore!Absent, Absent, RedisStore!At, At, RedisStore!Effect, Effect, RedisStore!Entry, Entry,
         RedisStore!Answer, Answer, RedisStore!Deadline, Deadline, RedisStore!Countable, Countable,
         RedisStore!AddOne, AddOne

LEMMA ServeStep ==
    ASSUME RedisInv, NEW c \in Clients, Serve(c), UNCHANGED terms
    PROVE  RedisInv' /\ [RedisStore!Next]_(RedisStore!vars)
<1> DEFINE k == op[c].key
           r == Effect(op[c], db[k], clock)
           there == {j \in Keys : At(db'[j], clock) # Absent}
<1>1. scan[c] = None /\ op[c] # None /\ RedisUnderWay[c] = op[c] /\ op[c] \in RedisOps
  BY DEF Serve, RedisUnderWay, RedisInv, ScanOK
<1>2. op[c] \in Calls /\ k \in Keys
  BY <1>1, RedisOpsShape, SentShape
<1>3. /\ Ran(op[c], At(db[k], clock)) = r
      /\ r.entry \in [val : Values \cup Nat \cup {None}, exp : Nat \cup {None}]
      /\ r.entry.val = None => r.entry.exp = None
  BY <1>2, RanIsEffect
<1>4. /\ db' = [db EXCEPT ![k] = r.entry] /\ ret' = [ret EXCEPT ![c] = r.ret]
      /\ op' = [op EXCEPT ![c] = None] /\ Follow(there)
      /\ UNCHANGED <<clock, began, begun, gathered>>
  BY <1>3 DEF Serve
<1> HIDE DEF r
<1>5. /\ db' \in [Keys -> [val : Values \cup Nat \cup {None}, exp : Nat \cup {None}]]
      /\ \A j \in Keys : db'[j].val = None => db'[j].exp = None
  BY <1>2, <1>3, <1>4 DEF RedisInv
<1>6. /\ op'[c] = None /\ \A d \in Clients \ {c} : op'[d] = op[d]
      /\ op' = [d \in Clients |-> op'[d]]
  BY <1>4 DEF RedisInv
<1>7. There(clock)' = there
  BY <1>4 DEF There
<1>8. there \in SUBSET Keys
  OBVIOUS
<1> HIDE DEF there
<1>9. /\ scan' \in [Clients -> Scans \cup {None}]
      /\ \A d \in Clients : scan'[d] = None <=> scan[d] = None
      /\ \A d \in Clients : scan[d] # None => /\ there \subseteq scan'[d].ever
                                              /\ scan[d].ever \subseteq scan'[d].ever
                                              /\ scan'[d].always \subseteq scan[d].always
                                              /\ scan'[d].returned = scan[d].returned
  BY <1>4, <1>8, FollowStep
<1>10. ASSUME NEW d \in Clients \ {c} PROVE ScanOK(d)'
  <2>1. ScanOK(d) /\ op'[d] = op[d] /\ gathered'[d] = gathered[d]
    BY <1>4, <1>6 DEF RedisInv
  <2>2. QED
    BY <1>7, <1>9, <2>1 DEF ScanOK
<1>11. ScanOK(c)'
  BY <1>1, <1>4, <1>6, <1>9 DEF RedisInv, ScanOK
<1>12. RedisInv'
  BY <1>4, <1>5, <1>6, <1>9, <1>10, <1>11 DEF RedisInv
<1>13. RedisUnderWay' = [RedisUnderWay EXCEPT ![c] = None]
  BY <1>6, <1>9 DEF RedisUnderWay
<1>14. clock \in began[c] .. clock
  BY RedisTerms DEF RedisInv
<1>15. r = RedisStore!Effect(RedisUnderWay[c], db[RedisUnderWay[c].key], clock)
  BY <1>1, RedisSameOperators DEF r
<1>16. RedisStore!Apply(c)
  BY <1>1, <1>4, <1>13, <1>14, <1>15 DEF RedisStore!Apply
<1>17. QED
  BY <1>12, <1>16 DEF RedisStore!Next

\* What a SCAN returns is there, and over, it has returned what was there throughout.
LEMMA ScanStepStep ==
    ASSUME RedisInv, NEW c \in Clients, NEW batch \in SUBSET There(clock), NEW over \in BOOLEAN,
           ScanStep(c, batch, over), UNCHANGED terms
    PROVE  RedisInv' /\ UNCHANGED RedisStore!vars
<1> DEFINE b == op[c].bucket
           now == scan[c].returned \cup batch
<1>1. op[c] # None /\ op[c].kind = "keys" /\ UNCHANGED <<db, clock, began, ret, begun>>
  BY DEF ScanStep
<1>2. scan[c] # None /\ scan[c] \in Scans
  BY <1>1, RedisOpsShape, SentShape DEF RedisInv, ScanOK
<1>3. scan' = [scan EXCEPT ![c] = [scan[c] EXCEPT !.returned = now]]
  BY DEF ScanStep
<1>4. batch \subseteq Keys
  BY DEF There
<1>5. /\ [scan[c] EXCEPT !.returned = now] \in Scans
      /\ [scan[c] EXCEPT !.returned = now].returned = now
      /\ [scan[c] EXCEPT !.returned = now].ever = scan[c].ever
      /\ [scan[c] EXCEPT !.returned = now].always = scan[c].always
  BY <1>2, <1>4 DEF Scans
<1>6. /\ \A d \in Clients \ {c} : scan'[d] = scan[d]
      /\ scan' \in [Clients -> Scans \cup {None}]
      /\ scan'[c] \in Scans /\ scan'[c].returned = now
      /\ scan'[c].ever = scan[c].ever /\ scan'[c].always = scan[c].always
  BY <1>3, <1>5 DEF RedisInv
<1>7. scan'[c] # None
  BY <1>6, RedisAssumption DEF Scans
<1>8. gathered' = [gathered EXCEPT ![c] = gathered[c] \cup Stripped(b, batch)]
  BY DEF ScanStep
<1>9. /\ gathered'[c] = Stripped(b, now) /\ gathered' = [d \in Clients |-> gathered'[d]]
      /\ \A d \in Clients \ {c} : gathered'[d] = gathered[d]
  <2>1. gathered[c] = Stripped(b, scan[c].returned)
    BY <1>2 DEF RedisInv, ScanOK
  <2>2. gathered[c] \cup Stripped(b, batch) = Stripped(b, now)
    BY <2>1, StrippedJoins
  <2>3. QED
    BY <1>8, <2>2 DEF RedisInv
<1>10. There(clock)' = There(clock)
  BY <1>1 DEF There
<1>11. /\ op' = [d \in Clients |-> op'[d]] /\ \A d \in Clients \ {c} : op'[d] = op[d]
       /\ op'[c] # None /\ op'[c].kind \in {"keys", "listed"} /\ op'[c].bucket = b
       /\ op'[c].kind = "listed" => scan[c].always \subseteq now
       /\ None # [kind |-> "listed", bucket |-> b]
  <2>1. None # [kind |-> "listed", bucket |-> b]
    BY <1>2 DEF RedisInv, ScanOK
  <2>2. CASE over
    <3>1. op' = [op EXCEPT ![c] = [kind |-> "listed", bucket |-> b]] /\ scan[c].always \subseteq now
      BY <2>2 DEF ScanStep, RedisFinish
    <3>2. QED
      BY <2>1, <3>1 DEF RedisInv
  <2>3. CASE ~over
    BY <1>1, <2>1, <2>3 DEF ScanStep, RedisInv
  <2>4. QED
    BY <2>2, <2>3
<1>12. ASSUME NEW d \in Clients \ {c} PROVE ScanOK(d)'
  BY <1>6, <1>9, <1>10, <1>11 DEF RedisInv, ScanOK
<1>13. ScanOK(c)'
  <2>1. There(clock) \subseteq scan[c].ever /\ scan[c].returned \subseteq scan[c].ever
    BY <1>2 DEF RedisInv, ScanOK
  <2>2. now \subseteq scan[c].ever
    BY <2>1
  <2> HIDE DEF now, b
  <2>3. QED
    BY <1>6, <1>7, <1>9, <1>10, <1>11, <2>1, <2>2 DEF ScanOK
<1>14. RedisInv'
  BY <1>1, <1>6, <1>9, <1>11, <1>12, <1>13 DEF RedisInv
<1>15. RedisUnderWay' = RedisUnderWay
  BY <1>2, <1>6, <1>7, <1>11 DEF RedisUnderWay
<1>16. QED
  BY <1>1, <1>14, <1>15 DEF RedisStore!vars

LEMMA ListedStep ==
    ASSUME RedisInv, NEW c \in Clients, Listed(c), UNCHANGED terms
    PROVE  RedisInv' /\ UNCHANGED RedisStore!vars
<1>1. /\ op[c] # None /\ op[c].kind = "listed" /\ op' = [op EXCEPT ![c] = None]
      /\ gathered' = [gathered EXCEPT ![c] = {}] /\ scan' = [scan EXCEPT ![c] = None]
      /\ UNCHANGED <<db, clock, began, ret, begun>>
  BY DEF Listed
<1>2. scan[c] # None
  BY <1>1, RedisOpsShape, SentShape DEF RedisInv, ScanOK
<1>3. /\ op'[c] = None /\ gathered'[c] = {} /\ scan'[c] = None
      /\ \A d \in Clients \ {c} : op'[d] = op[d] /\ gathered'[d] = gathered[d] /\ scan'[d] = scan[d]
      /\ op' = [d \in Clients |-> op'[d]] /\ gathered' = [d \in Clients |-> gathered'[d]]
      /\ scan' \in [Clients -> Scans \cup {None}]
  BY <1>1 DEF RedisInv
<1>4. There(clock)' = There(clock)
  BY <1>1 DEF There
<1>5. \A d \in Clients : ScanOK(d)'
  BY <1>3, <1>4 DEF RedisInv, ScanOK
<1>6. RedisInv'
  BY <1>1, <1>3, <1>5 DEF RedisInv
<1>7. RedisUnderWay' = RedisUnderWay
  BY <1>2, <1>3 DEF RedisUnderWay
<1>8. QED
  BY <1>1, <1>6, <1>7 DEF RedisStore!vars

\* As time passes entries go, and what a listing names was there while it ran.
LEMMA RedisTickStep ==
    ASSUME RedisInv, RedisTick, UNCHANGED terms
    PROVE  RedisInv' /\ [RedisStore!Next]_(RedisStore!vars)
<1>1. /\ clock < terms.ticks /\ clock' = clock + 1 /\ Follow(There(clock + 1))
      /\ UNCHANGED <<db, op, began, ret, begun, gathered>>
  BY DEF RedisTick
<1>2. There(clock + 1) \in SUBSET Keys /\ There(clock)' = There(clock + 1)
  BY <1>1 DEF There
<1>3. /\ scan' \in [Clients -> Scans \cup {None}]
      /\ \A d \in Clients : scan'[d] = None <=> scan[d] = None
      /\ \A d \in Clients : scan[d] # None => /\ There(clock + 1) \subseteq scan'[d].ever
                                              /\ scan[d].ever \subseteq scan'[d].ever
                                              /\ scan'[d].always \subseteq scan[d].always
                                              /\ scan'[d].returned = scan[d].returned
  BY <1>1, <1>2, FollowStep
<1>4. ASSUME NEW d \in Clients PROVE ScanOK(d)'
  <2>1. ScanOK(d) /\ op'[d] = op[d] /\ gathered'[d] = gathered[d]
    BY <1>1 DEF RedisInv
  <2>2. QED
    BY <1>2, <1>3, <2>1 DEF ScanOK
<1>5. clock' \in 0 .. terms.ticks /\ began' \in [Clients -> 0 .. clock']
  BY <1>1, RedisTerms DEF RedisInv
<1>6. RedisInv'
  BY <1>1, <1>3, <1>4, <1>5 DEF RedisInv
<1>7. RedisUnderWay' = RedisUnderWay
  BY <1>1, <1>3 DEF RedisUnderWay
<1>8. RedisStore!Tick
  BY <1>1, <1>7 DEF RedisStore!Tick
<1>9. QED
  BY <1>6, <1>8 DEF RedisStore!Next

LEMMA RedisInvStep ==
    ASSUME RedisInv, RedisNext
    PROVE  RedisInv' /\ [RedisStore!Next]_(RedisStore!vars)
  BY RedisBeginStep, ServeStep, ScanStepStep, ListedStep, RedisTickStep DEF RedisNext

LEMMA RedisInvInit ==
    ASSUME RedisInit
    PROVE  RedisInv /\ RedisStore!Init
<1>1. /\ terms \in Terms /\ terms.store = "redis" /\ clock = 0
      /\ op = [c \in Clients |-> None] /\ began = [c \in Clients |-> 0]
      /\ ret = [c \in Clients |-> Answer("none", None)]
      /\ db = [k \in Keys |-> Absent]
      /\ gathered = [c \in Clients |-> {}] /\ scan = [c \in Clients |-> None]
  BY DEF RedisInit, BucketInit
<1>2. terms.ticks \in Nat
  BY <1>1, BucketAssumption
<1>3. \A c \in Clients : ScanOK(c)
  BY <1>1 DEF ScanOK
<1>4. RedisInv
  BY <1>1, <1>2, <1>3 DEF RedisInv, Absent
<1>5. RedisUnderWay = [c \in Clients |-> None]
  BY <1>1 DEF RedisUnderWay
<1>6. RedisStore!Init
  BY <1>1, <1>5, RedisSameOperators DEF RedisStore!Init
<1>7. QED
  BY <1>4, <1>6

-------------------------------------------------------------------------------
(***************************************************************************)
(* The three together                                                      *)
(***************************************************************************)

FilesInv == FileInv /\ (~terms.fails => FileLin)

StreamInv == NatsInv /\ (Lasting => NatsLin)

StoresInv ==
    /\ terms.store \in {"files", "stream", "redis"}
    /\ terms.store = "files" => FilesInv
    /\ terms.store = "stream" => StreamInv
    /\ terms.store = "redis" => RedisInv

LEMMA FilesStutter ==
    ASSUME FilesInv, UNCHANGED storesAll
    PROVE  FilesInv' /\ UNCHANGED FileStore!vars
<1>1. UNCHANGED <<terms, clock, op, began, ret, begun, val, exp, pc, weak, handle, saved, got, cands>>
  BY DEF storesAll, bucketVars, fileOnly, fileVars, lockVars
<1>2. FileTypeOK' /\ FileOpOK'
  BY <1>1 DEF FilesInv, FileInv, FileTypeOK, FileOpOK
<1>3. LocksRegistered' /\ OneHolder'
  BY <1>1 DEF FilesInv, FileInv, LocksRegistered, OneHolder, Inside, Alive
<1>4. ReadStillThere'
  BY <1>1 DEF FilesInv, FileInv, ReadStillThere
<1>5. (~terms.fails => FileLin)'
  BY <1>1 DEF FilesInv, FileLin, LinAt, LiveSince, OnDisk
<1>6. FileStands' = FileStands /\ FileUnderWay' = FileUnderWay
  BY <1>1 DEF FileStands, FileUnderWay, OnDisk
<1>7. QED
  BY <1>1, <1>2, <1>3, <1>4, <1>5, <1>6 DEF FilesInv, FileInv, FileStore!vars

LEMMA StreamStutter ==
    ASSUME StreamInv, UNCHANGED storesAll
    PROVE  StreamInv' /\ UNCHANGED NatsStore!vars
<1>1. UNCHANGED <<terms, clock, op, began, ret, begun, msg, seq, applied, awaits, snap, wire, tries, late, lost>>
  BY DEF storesAll, bucketVars, natsOnly, serverVars
<1>2. NatsTypeOK' /\ NatsShape'
  BY <1>1 DEF StreamInv, NatsInv, NatsTypeOK, NatsShape, NatsAt, Call
<1>3. OnceYet' /\ AppliedOnce'
  BY <1>1 DEF StreamInv, NatsInv, OnceYet, AppliedOnce
<1>4. NatsStands' = NatsStands /\ NatsUnderWay' = NatsUnderWay
  BY <1>1 DEF NatsStands, NatsUnderWay
<1>5. (Lasting => NatsLin)'
  <2>1. Lasting' = Lasting /\ \A c \in Clients : (Fresh(c)' <=> Fresh(c))
    BY <1>1, <1>4 DEF Lasting, Fresh, LastSeq, Call
  <2>2. QED
    BY <1>1, <2>1 DEF StreamInv, NatsLin, NatsLinAt, Call
<1>6. QED
  BY <1>1, <1>2, <1>3, <1>4, <1>5 DEF StreamInv, NatsInv, NatsStore!vars

LEMMA ServerStutter ==
    ASSUME RedisInv, UNCHANGED storesAll
    PROVE  RedisInv' /\ UNCHANGED RedisStore!vars
<1>1. UNCHANGED <<terms, clock, op, began, ret, begun, db, gathered, scan>>
  BY DEF storesAll, bucketVars, redisOnly
<1>2. \A c \in Clients : ScanOK(c)'
  BY <1>1 DEF RedisInv, ScanOK, There
<1>3. RedisUnderWay' = RedisUnderWay
  BY <1>1 DEF RedisUnderWay
<1>4. QED
  BY <1>1, <1>2, <1>3 DEF RedisInv, RedisStore!vars

\* A step keeps the invariant and is, of what is linearizable, a step of the promise.
LEMMA StoresStep ==
    ASSUME StoresInv, [StoresNext]_storesAll
    PROVE  /\ StoresInv'
           /\ terms.store = "files" /\ ~terms.fails => [FileStore!Next]_(FileStore!vars)
           /\ terms.store = "redis" => [RedisStore!Next]_(RedisStore!vars)
           /\ terms.store = "stream" /\ Lasting => [NatsStore!Next]_(NatsStore!vars)
<1>1. terms' = terms /\ (Lasting' <=> Lasting)
  <2>1. terms' = terms
    BY DEF StoresNext, FileNext, NatsNext, RedisNext, storesAll, bucketVars
  <2>2. QED
    BY <2>1 DEF Lasting
<1>2. CASE terms.store = "files"
  <2>1. FilesInv
    BY <1>2 DEF StoresInv
  <2>2. FilesInv' /\ (~terms.fails => [FileStore!Next]_(FileStore!vars))
    <3>1. CASE UNCHANGED storesAll
      BY <2>1, <3>1, FilesStutter
    <3>2. CASE StoresNext
      <4>1. FileNext
        BY <1>2, <3>2 DEF StoresNext
      <4>2. FileInv'
        BY <2>1, <4>1, FileInvStep DEF FilesInv
      <4>3. ~terms.fails => FileLin' /\ [FileStore!Next]_(FileStore!vars)
        BY <2>1, <4>1, FileLinStep DEF FilesInv
      <4>4. QED
        BY <1>1, <4>2, <4>3 DEF FilesInv
    <3>3. QED
      BY <3>1, <3>2
  <2>3. QED
    BY <1>1, <1>2, <2>2 DEF StoresInv
<1>3. CASE terms.store = "stream"
  <2>1. StreamInv
    BY <1>3 DEF StoresInv
  <2>2. StreamInv' /\ (Lasting => [NatsStore!Next]_(NatsStore!vars))
    <3>1. CASE UNCHANGED storesAll
      BY <2>1, <3>1, StreamStutter
    <3>2. CASE StoresNext
      <4>1. NatsNext
        BY <1>3, <3>2 DEF StoresNext
      <4>2. NatsInv'
        BY <2>1, <4>1, NatsInvStep DEF StreamInv
      <4>3. Lasting => NatsLin' /\ [NatsStore!Next]_(NatsStore!vars)
        BY <2>1, <4>1, NatsLinStep DEF StreamInv
      <4>4. QED
        BY <1>1, <4>2, <4>3 DEF StreamInv
    <3>3. QED
      BY <3>1, <3>2
  <2>3. QED
    BY <1>1, <1>3, <2>2 DEF StoresInv
<1>4. CASE terms.store = "redis"
  <2>1. RedisInv
    BY <1>4 DEF StoresInv
  <2>2. RedisInv' /\ [RedisStore!Next]_(RedisStore!vars)
    <3>1. CASE UNCHANGED storesAll
      BY <2>1, <3>1, ServerStutter
    <3>2. CASE StoresNext
      <4>1. RedisNext
        BY <1>4, <3>2 DEF StoresNext
      <4>2. QED
        BY <2>1, <4>1, RedisInvStep
    <3>3. QED
      BY <3>1, <3>2
  <2>3. QED
    BY <1>1, <1>4, <2>2 DEF StoresInv
<1>5. QED
  BY <1>2, <1>3, <1>4 DEF StoresInv

LEMMA StoresStart ==
    ASSUME StoresInit
    PROVE  /\ StoresInv
           /\ terms.store = "files" => FileStore!Init
           /\ terms.store = "redis" => RedisStore!Init
           /\ terms.store = "stream" => NatsStore!Init
<1>1. CASE FileInit
  <2>1. terms.store = "files"
    BY <1>1 DEF FileInit, BucketInit
  <2>2. QED
    BY <1>1, <2>1, FileInvInit, FileLinInit DEF StoresInv, FilesInv
<1>2. CASE NatsInit
  <2>1. terms.store = "stream"
    BY <1>2 DEF NatsInit, BucketInit
  <2>2. QED
    BY <1>2, <2>1, NatsInvInit, NatsLinInit DEF StoresInv, StreamInv
<1>3. CASE RedisInit
  <2>1. terms.store = "redis"
    BY <1>3 DEF RedisInit, BucketInit
  <2>2. QED
    BY <1>3, <2>1, RedisInvInit DEF StoresInv
<1>4. QED
  BY <1>1, <1>2, <1>3 DEF StoresInit

\* StoresInv holds in every reachable state.
LEMMA StoresInductive == StoresSpec => []StoresInv
<1>1. StoresInit => StoresInv
  BY StoresStart
<1>2. StoresInv /\ [StoresNext]_storesAll => StoresInv'
  BY StoresStep
<1>3. QED
  BY <1>1, <1>2, PTL DEF StoresSpec

\* For any keys, clients and operations: however file steps fail and the process dies,
\* no two operations are inside one key of FsBucket and what one replaces is what it
\* read; however publishes race, are given up on and arrive late, an operation of the
\* NATS bucket takes effect at most once; however others write, a Redis listing names
\* what was there throughout and nothing that was not.
THEOREM StoresSound == StoresSpec => []StoreInv
<1>1. StoresInv => StoreInv
  BY OneInsideHolds, ListingSoundHolds DEF StoresInv, FilesInv, FileInv, StreamInv, NatsInv, StoreInv
<1>2. QED
  BY <1>1, StoresInductive, PTL

\* For any keys, clients and operations: FsBucket without faults, and the server's
\* commands, implement ExpiringStore: each operation, over however many file steps,
\* takes effect at one moment between its call and its answer.
THEOREM FilesAndServerImplement == StoresSpec => BucketsLinearizable
<1>1. StoresInit => /\ terms.store = "files" => FileStore!Init
                    /\ terms.store = "redis" => RedisStore!Init
  BY StoresStart
<1>2. StoresInv /\ [StoresNext]_storesAll =>
        [/\ terms.store = "files" /\ ~terms.fails => [FileStore!Next]_(FileStore!vars)
         /\ terms.store = "redis" => [RedisStore!Next]_(RedisStore!vars)]_storesAll
  BY StoresStep
<1>3. QED
  BY <1>1, <1>2, StoresInductive, PTL DEF StoresSpec, BucketsLinearizable

\* For any keys, clients and operations: the NATS bucket, on entries that last and with
\* no publish given up on, implements the ExpiringStore that may refuse who lost a race.
THEOREM StreamImplements == StoresSpec => NatsLinearizable
<1>1. StoresInit => (terms.store = "stream" => NatsStore!Init)
  BY StoresStart
<1>2. StoresInv /\ [StoresNext]_storesAll =>
        [terms.store = "stream" /\ Lasting => [NatsStore!Next]_(NatsStore!vars)]_storesAll
  BY StoresStep
<1>3. QED
  BY <1>1, <1>2, StoresInductive, PTL DEF StoresSpec, NatsLinearizable

===============================================================================
