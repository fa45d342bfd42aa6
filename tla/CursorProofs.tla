----------------------------- MODULE CursorProofs -----------------------------
(***************************************************************************)
(* For any number of leases and slots: no slot is lost, no more workers    *)
(* run than there are slots, a live worker keeps its token, and a tool     *)
(* call reaches only the completion it is of.  And for any calls and any   *)
(* bounds: what the client makes of the stream of a run.                   *)
(***************************************************************************)
EXTENDS CursorPool, RunStream, FiniteSetTheorems, SequenceTheorems, TLAPS

\* Whoever is in the semaphore's queue is there once, and waits.
QueueOfWaiters ==
    /\ \A i \in DOMAIN queue : stage[queue[i]] = "queued"
    /\ \A i, j \in DOMAIN queue : queue[i] = queue[j] => i = j

\* A lease has a worker, a watcher and a registration from its spawn on; the watcher
\* stands where the worker lets it, and holds its token until it is done.
LeaseLife ==
    \A l \in Leases :
        /\ stage[l] \in {"new", "queued", "permit"} => watcher[l] = "none"
        /\ watcher[l] = "none" <=> proc[l] = "none"
        /\ Live(l) => watcher[l] = "waiting"
        /\ watcher[l] \in {"waiting", "token"} => "watcher" \in refs[l]

\* A registration's table leads to its own completion or nowhere.
OwnRoutes == \A l \in Leases, i \in AgentIds : routes[l][i] \in {None, l}

\* The inductive invariant of the pool.
PoolIInv ==
    /\ TypeOK /\ PermitsConserved /\ OwnAgent
    /\ QueueOfWaiters /\ LeaseLife /\ OwnRoutes

-------------------------------------------------------------------------------
(***************************************************************************)
(* Operators                                                               *)
(***************************************************************************)

\* RemoveAt takes out one element and moves up what is behind it.
LEMMA Removed ==
    ASSUME NEW S, NEW s \in Seq(S), NEW n \in DOMAIN s
    PROVE  /\ RemoveAt(s, n) \in Seq(S)
           /\ DOMAIN RemoveAt(s, n) = 1 .. Len(s) - 1
           /\ \A j \in 1 .. Len(s) - 1 : RemoveAt(s, n)[j] = IF j < n THEN s[j] ELSE s[j + 1]
<1> DEFINE before == SubSeq(s, 1, n - 1)
           after  == SubSeq(s, n + 1, Len(s))
<1>1. n \in 1 .. Len(s) /\ Len(s) \in Nat /\ \A i \in 1 .. Len(s) : s[i] \in S
  OBVIOUS
<1>2. /\ before \in Seq(S) /\ Len(before) = n - 1
      /\ \A i \in 1 .. n - 1 : before[i] = s[i]
  <2>1. \A i \in 1 .. n - 1 : s[i] \in S
    BY <1>1
  <2>2. QED
    BY <1>1, <2>1, SubSeqProperties
<1>3. /\ after \in Seq(S) /\ Len(after) = Len(s) - n
      /\ \A i \in 1 .. Len(s) - n : after[i] = s[n + i]
  <2>1. \A i \in n + 1 .. Len(s) : s[i] \in S
    BY <1>1
  <2>2. /\ after \in Seq(S)
        /\ Len(after) = IF n + 1 <= Len(s) THEN Len(s) - (n + 1) + 1 ELSE 0
        /\ \A i \in 1 .. Len(s) - (n + 1) + 1 : after[i] = s[(n + 1) + i - 1]
    BY <1>1, <2>1, SubSeqProperties
  <2>3. QED
    BY <1>1, <2>2
<1> HIDE DEF before, after
<1>4. /\ before \o after \in Seq(S) /\ Len(before \o after) = Len(before) + Len(after)
      /\ \A i \in 1 .. Len(before) + Len(after) :
           (before \o after)[i] = IF i <= Len(before) THEN before[i] ELSE after[i - Len(before)]
  BY <1>2, <1>3, ConcatProperties
<1>5. RemoveAt(s, n) = before \o after
  BY DEF RemoveAt, before, after
<1>6. PICK len \in Nat, m \in Nat :
        /\ m = n /\ len = Len(s) /\ 1 <= m /\ m <= len
        /\ Len(before) = m - 1 /\ Len(after) = len - m
  BY <1>1, <1>2, <1>3
<1>7. ASSUME NEW j \in 1 .. Len(s) - 1
      PROVE  RemoveAt(s, n)[j] = IF j < n THEN s[j] ELSE s[j + 1]
  <2>1. j \in Nat /\ 1 <= j /\ j <= len - 1
    BY <1>6
  <2>2. CASE j < m
    <3>1. j \in 1 .. (m - 1) + (len - m) /\ j <= m - 1 /\ j \in 1 .. m - 1
      BY <1>6, <2>1, <2>2
    <3>2. (before \o after)[j] = before[j]
      BY <1>4, <1>6, <3>1
    <3>3. before[j] = s[j]
      BY <1>2, <1>6, <3>1
    <3>4. QED
      BY <1>5, <1>6, <2>2, <3>2, <3>3
  <2>3. CASE ~(j < m)
    <3>1. /\ j \in 1 .. (m - 1) + (len - m) /\ ~(j <= m - 1)
          /\ j - (m - 1) \in 1 .. len - m /\ m + (j - (m - 1)) = j + 1
      <4>1. j - (m - 1) \in Nat /\ 1 <= j - (m - 1) /\ j - (m - 1) <= len - m
        BY <1>6, <2>1, <2>3
      <4>2. m + (j - (m - 1)) = j + 1
        BY <1>6, <2>1
      <4>3. (m - 1) + (len - m) = len - 1 /\ ~(j <= m - 1)
        BY <1>6, <2>1, <2>3
      <4>4. QED
        BY <1>6, <2>1, <4>1, <4>2, <4>3
    <3>2. (before \o after)[j] = after[j - (m - 1)]
      BY <1>4, <1>6, <3>1
    <3>3. after[j - (m - 1)] = s[m + (j - (m - 1))]
      BY <1>3, <1>6, <3>1
    <3>4. QED
      BY <1>5, <1>6, <2>3, <3>1, <3>2, <3>3
  <2>4. QED
    BY <2>2, <2>3
<1>8. RemoveAt(s, n) \in Seq(S) /\ Len(RemoveAt(s, n)) = Len(s) - 1
  <2>1. (m - 1) + (len - m) = len - 1
    BY <1>6
  <2>2. QED
    BY <1>4, <1>5, <1>6, <2>1
<1>9. DOMAIN RemoveAt(s, n) = 1 .. Len(RemoveAt(s, n))
  BY <1>8
<1>10. QED
  BY <1>7, <1>8, <1>9

\* Holders that change in one lease at most change their number by one at most.
LEMMA HoldersStep ==
    ASSUME NEW l \in Leases,
           \A m \in Leases : m # l => stage'[m] = stage[m] /\ watcher'[m] = watcher[m]
    PROVE  LET held  == stage[l] = "permit" \/ watcher[l] = "waiting"
               holds == stage'[l] = "permit" \/ watcher'[l] = "waiting"
           IN  Cardinality(Holders') =
                 Cardinality(Holders) + (IF holds THEN 1 ELSE 0) - (IF held THEN 1 ELSE 0)
<1> DEFINE held  == stage[l] = "permit" \/ watcher[l] = "waiting"
           holds == stage'[l] = "permit" \/ watcher'[l] = "waiting"
<1>1. IsFiniteSet(Holders) /\ Cardinality(Holders) \in Nat
  <2>1. Holders \in SUBSET Leases
    BY DEF Holders
  <2>2. QED
    BY <2>1, PoolAssumption, FS_Subset, FS_CardinalityType
<1>2. l \in Holders <=> held
  BY DEF Holders
<1>3. CASE holds
  <2>1. Holders' = Holders \cup {l}
    BY <1>3 DEF Holders
  <2>2. Cardinality(Holders') =
          IF l \in Holders THEN Cardinality(Holders) ELSE Cardinality(Holders) + 1
    BY <1>1, <2>1, FS_AddElement
  <2>3. QED
    BY <1>1, <1>2, <1>3, <2>2
<1>4. CASE ~holds
  <2>1. Holders' = Holders \ {l}
    BY <1>4 DEF Holders
  <2>2. Cardinality(Holders') =
          IF l \in Holders THEN Cardinality(Holders) - 1 ELSE Cardinality(Holders)
    BY <1>1, <2>1, FS_RemoveElement
  <2>3. QED
    BY <1>1, <1>2, <1>4, <2>2
<1>5. QED
  BY <1>3, <1>4

-------------------------------------------------------------------------------
(***************************************************************************)
(* What a step keeps                                                       *)
(***************************************************************************)

\* The steps of a lease past the queue, and those of the callback.
Later(l) ==
    \/ SpawnFails(l) \/ Spawn(l) \/ HandshakeDone(l) \/ HandshakeFails(l) \/ DropLease(l)
    \/ Exit(l) \/ DropPermit(l) \/ DropToken(l) \/ Detach(l) \/ Call(l)
    \/ \E i \in AgentIds : Attach(l, i)

\* The queue holds each waiter once: one joins at its end, the first leaves it with a
\* permit, any may give up, and nobody else moves.
LEMMA QueueStep ==
    ASSUME TypeOK, QueueOfWaiters, [Next]_vars
    PROVE  queue' \in Seq(Leases) /\ QueueOfWaiters'
<1>1. /\ queue \in Seq(Leases) /\ Len(queue) \in Nat /\ DOMAIN queue = 1 .. Len(queue)
      /\ \A i \in DOMAIN queue : queue[i] \in Leases
      /\ stage \in [Leases -> {"new", "queued", "permit", "handshake", "leased", "gone"}]
  BY DEF TypeOK
<1>2. ASSUME queue' = queue, \A m \in Leases : stage[m] = "queued" => stage'[m] = "queued"
      PROVE  queue' \in Seq(Leases) /\ QueueOfWaiters'
  BY <1>1, <1>2 DEF QueueOfWaiters
<1>3. ASSUME NEW l \in Leases, Prepare(l)
      PROVE  queue' \in Seq(Leases) /\ QueueOfWaiters'
  <2>1. CASE queue' = Append(queue, l) /\ stage' = [stage EXCEPT ![l] = "queued"]
    <3>1. /\ queue' \in Seq(Leases) /\ DOMAIN queue' = 1 .. Len(queue) + 1
          /\ \A i \in 1 .. Len(queue) : queue'[i] = queue[i]
          /\ queue'[Len(queue) + 1] = l
      BY <1>1, <2>1, AppendProperties
    <3>2. \A i \in DOMAIN queue : queue[i] # l
      BY <1>3 DEF Prepare, QueueOfWaiters
    <3>3. QED
      BY <1>1, <2>1, <3>1, <3>2 DEF QueueOfWaiters
  <2>2. CASE queue' = queue /\ stage' = [stage EXCEPT ![l] = "gone"]
    BY <1>1, <1>2, <1>3, <2>2 DEF Prepare
  <2>3. QED
    BY <1>3, <2>1, <2>2 DEF Prepare
<1>4. ASSUME NEW l \in Leases, TakePermit(l)
      PROVE  queue' \in Seq(Leases) /\ QueueOfWaiters'
  <2>1. queue # <<>> /\ Head(queue) = l /\ queue' = Tail(queue)
        /\ stage' = [stage EXCEPT ![l] = "permit"]
    BY <1>4 DEF TakePermit
  <2>2. /\ queue' \in Seq(Leases) /\ DOMAIN queue' = 1 .. Len(queue) - 1
        /\ \A i \in 1 .. Len(queue) - 1 : queue'[i] = queue[i + 1]
        /\ 1 \in DOMAIN queue /\ queue[1] = l
    BY <1>1, <2>1, HeadTailProperties
  <2>3. \A i \in 1 .. Len(queue) - 1 : queue[i + 1] # l
    <3>1. ASSUME NEW i \in 1 .. Len(queue) - 1
          PROVE  i + 1 \in DOMAIN queue /\ i + 1 # 1
      BY <1>1
    <3>2. QED
      BY <2>2, <3>1 DEF QueueOfWaiters
  <2>4. \A i \in DOMAIN queue' : stage'[queue'[i]] = "queued"
    <3>1. ASSUME NEW i \in 1 .. Len(queue) - 1
          PROVE  stage'[queue[i + 1]] = "queued"
      <4>1. i + 1 \in DOMAIN queue
        BY <1>1
      <4>2. queue[i + 1] \in Leases /\ stage[queue[i + 1]] = "queued"
        BY <1>1, <4>1 DEF QueueOfWaiters
      <4>3. QED
        BY <1>1, <2>1, <2>3, <4>2
    <3>2. QED
      BY <2>2, <3>1
  <2>5. \A i, j \in DOMAIN queue' : queue'[i] = queue'[j] => i = j
    <3>1. ASSUME NEW i \in 1 .. Len(queue) - 1, NEW j \in 1 .. Len(queue) - 1, queue[i + 1] = queue[j + 1]
          PROVE  i = j
      <4>1. i + 1 \in DOMAIN queue /\ j + 1 \in DOMAIN queue
        BY <1>1
      <4>2. i + 1 = j + 1
        BY <3>1, <4>1 DEF QueueOfWaiters
      <4>3. QED
        BY <4>2
    <3>2. QED
      BY <2>2, <3>1
  <2>6. QED
    BY <2>2, <2>4, <2>5 DEF QueueOfWaiters
<1>5. ASSUME NEW l \in Leases, LeaveQueue(l)
      PROVE  queue' \in Seq(Leases) /\ QueueOfWaiters'
  <2>1. PICK n \in DOMAIN queue : queue[n] = l /\ queue' = RemoveAt(queue, n)
    BY <1>5 DEF LeaveQueue
  <2>2. /\ queue' \in Seq(Leases) /\ DOMAIN queue' = 1 .. Len(queue) - 1
        /\ \A j \in 1 .. Len(queue) - 1 : queue'[j] = IF j < n THEN queue[j] ELSE queue[j + 1]
    BY <1>1, <2>1, Removed
  <2>3. stage' = [stage EXCEPT ![l] = "gone"]
    BY <1>5 DEF LeaveQueue
  <2>4. \A i \in DOMAIN queue : i # n => queue[i] # l
    BY <2>1 DEF QueueOfWaiters
  <2>5. ASSUME NEW j \in 1 .. Len(queue) - 1
        PROVE  \E i \in DOMAIN queue :
                 /\ i # n /\ queue'[j] = queue[i]
                 /\ i = IF j < n THEN j ELSE j + 1
    BY <1>1, <2>2
  <2>6. ASSUME NEW j \in DOMAIN queue'
        PROVE  stage'[queue'[j]] = "queued"
    BY <1>1, <2>2, <2>3, <2>4, <2>5 DEF QueueOfWaiters
  <2>7. ASSUME NEW i \in DOMAIN queue', NEW j \in DOMAIN queue', queue'[i] = queue'[j]
        PROVE  i = j
    <3>1. PICK a \in DOMAIN queue : queue'[i] = queue[a] /\ a = IF i < n THEN i ELSE i + 1
      BY <2>2, <2>5
    <3>2. PICK b \in DOMAIN queue : queue'[j] = queue[b] /\ b = IF j < n THEN j ELSE j + 1
      BY <2>2, <2>5
    <3>3. a = b
      BY <2>7, <3>1, <3>2 DEF QueueOfWaiters
    <3>4. QED
      BY <1>1, <2>2, <3>1, <3>2, <3>3
  <2>8. QED
    BY <2>2, <2>6, <2>7 DEF QueueOfWaiters
<1>6. ASSUME NEW l \in Leases, Later(l)
      PROVE  queue' \in Seq(Leases) /\ QueueOfWaiters'
  BY <1>1, <1>2, <1>6 DEF Later, SpawnFails, Spawn, HandshakeDone, HandshakeFails, DropLease,
     LetGo, Exit, DropPermit, DropToken, Detach, Call, Attach, poolVars
<1>7. ASSUME NEW c \in calls, Dispatch(c)
      PROVE  queue' \in Seq(Leases) /\ QueueOfWaiters'
  BY <1>2, <1>7 DEF Dispatch, poolVars
<1>8. CASE UNCHANGED vars
  BY <1>2, <1>8 DEF vars, poolVars
<1>9. QED
  BY <1>3, <1>4, <1>5, <1>6, <1>7, <1>8 DEF Next, Later

\* A lease's worker, watcher and registration go through their lives together.
LEMMA LifeStep ==
    ASSUME TypeOK, QueueOfWaiters, LeaseLife, [Next]_vars
    PROVE  LeaseLife'
<1> DEFINE Life(m) ==
      /\ stage[m] \in {"new", "queued", "permit"} => watcher[m] = "none"
      /\ watcher[m] = "none" <=> proc[m] = "none"
      /\ proc[m] \in {"running", "asked"} => watcher[m] = "waiting"
      /\ watcher[m] \in {"waiting", "token"} => "watcher" \in refs[m]
<1>1. \A m \in Leases : Life(m)
  BY DEF LeaseLife, Live
<1>2. /\ stage \in [Leases -> {"new", "queued", "permit", "handshake", "leased", "gone"}]
      /\ proc \in [Leases -> {"none", "running", "asked", "exited"}]
      /\ watcher \in [Leases -> {"none", "waiting", "token", "done"}]
      /\ refs \in [Leases -> SUBSET {"lease", "watcher"}]
  BY DEF TypeOK
<1>3. SUFFICES ASSUME NEW m \in Leases
               PROVE  Life(m)'
  BY DEF LeaseLife, Live
<1>4. ASSUME NEW l \in Leases, Prepare(l) \/ LeaveQueue(l) \/ SpawnFails(l) \/ HandshakeDone(l)
      PROVE  Life(m)'
  BY <1>1, <1>2, <1>4 DEF Prepare, LeaveQueue, SpawnFails, HandshakeDone, callbackVars
<1>5. ASSUME NEW l \in Leases, TakePermit(l) PROVE Life(m)'
  <2>1. stage[l] = "queued"
    BY <1>5, HeadTailProperties DEF TakePermit, QueueOfWaiters, TypeOK
  <2>2. QED
    BY <1>1, <1>2, <1>5, <2>1 DEF TakePermit, callbackVars
<1>6. ASSUME NEW l \in Leases, Spawn(l) PROVE Life(m)'
  BY <1>1, <1>2, <1>6 DEF Spawn
<1>7. ASSUME NEW l \in Leases, HandshakeFails(l) \/ DropLease(l) PROVE Life(m)'
  BY <1>1, <1>2, <1>7 DEF HandshakeFails, DropLease, LetGo, Asked
<1>8. ASSUME NEW l \in Leases, Exit(l) \/ DropPermit(l) \/ DropToken(l) PROVE Life(m)'
  BY <1>1, <1>2, <1>8 DEF Exit, DropPermit, DropToken, callbackVars
<1>9. ASSUME UNCHANGED <<poolVars, refs>> PROVE Life(m)'
  BY <1>1, <1>9 DEF poolVars
<1>10. QED
  BY <1>4, <1>5, <1>6, <1>7, <1>8, <1>9
     DEF Next, Detach, Call, Attach, Dispatch, vars, callbackVars

\* What a lease or its watcher takes is off the free permits, and comes back once.
LEMMA PermitsStep ==
    ASSUME TypeOK, PermitsConserved, QueueOfWaiters, LeaseLife, [Next]_vars
    PROVE  PermitsConserved' /\ permits' \in 0 .. MaxAgents
<1> DEFINE N == Cardinality(Holders)
           Held(m) == stage[m] = "permit" \/ watcher[m] = "waiting"
<1>1. permits \in Nat /\ N \in Nat /\ N' \in Nat /\ MaxAgents \in Nat /\ permits + N = MaxAgents
  <2>1. Holders \in SUBSET Leases /\ Holders' \in SUBSET Leases
    BY DEF Holders
  <2>2. QED
    BY <2>1, PoolAssumption, FS_Subset, FS_CardinalityType DEF TypeOK, PermitsConserved
<1>2. /\ stage \in [Leases -> {"new", "queued", "permit", "handshake", "leased", "gone"}]
      /\ watcher \in [Leases -> {"none", "waiting", "token", "done"}]
  BY DEF TypeOK
<1>3. SUFFICES permits' \in Nat /\ permits' + N' = MaxAgents
  BY <1>1 DEF PermitsConserved
<1> DEFINE Goal == permits' \in Nat /\ permits' + N' = MaxAgents
<1>4. ASSUME NEW l \in Leases,
             \A m \in Leases : m # l => stage'[m] = stage[m] /\ watcher'[m] = watcher[m]
      PROVE  N' = N + (IF Held(l)' THEN 1 ELSE 0) - (IF Held(l) THEN 1 ELSE 0)
  BY <1>4, HoldersStep
<1> HIDE DEF N
<1>5. ASSUME NEW l \in Leases, TakePermit(l) PROVE Goal
  <2>1. stage[l] = "queued"
    BY <1>5, HeadTailProperties DEF TakePermit, QueueOfWaiters, TypeOK
  <2>2. N' = N + 1
    BY <1>1, <1>2, <1>4, <1>5, <2>1 DEF TakePermit, LeaseLife
  <2>3. QED
    BY <1>1, <1>5, <2>2 DEF TakePermit
<1>6. ASSUME NEW l \in Leases, SpawnFails(l) PROVE Goal
  <2>1. N' = N - 1
    BY <1>1, <1>2, <1>4, <1>6 DEF SpawnFails, LeaseLife
  <2>2. QED
    BY <1>1, <1>6, <2>1 DEF SpawnFails
<1>7. ASSUME NEW l \in Leases, DropPermit(l) PROVE Goal
  <2>1. N' = N - 1
    BY <1>1, <1>2, <1>4, <1>7 DEF DropPermit, LeaseLife
  <2>2. QED
    BY <1>1, <1>7, <2>1 DEF DropPermit
<1>8. ASSUME NEW l \in Leases,
             Prepare(l) \/ LeaveQueue(l) \/ Spawn(l) \/ HandshakeDone(l) \/ HandshakeFails(l)
               \/ DropLease(l) \/ DropToken(l)
      PROVE  Goal
  <2>1. \A m \in Leases : m # l => stage'[m] = stage[m] /\ watcher'[m] = watcher[m]
    BY <1>2, <1>8 DEF Prepare, LeaveQueue, Spawn, HandshakeDone, HandshakeFails, DropLease, LetGo,
       DropToken
  <2>2. (Held(l)' <=> Held(l)) /\ permits' = permits
    BY <1>2, <1>8 DEF Prepare, LeaveQueue, Spawn, HandshakeDone, HandshakeFails, DropLease, LetGo,
       DropToken
  <2>3. N' = N
    BY <1>1, <1>4, <2>1, <2>2
  <2>4. QED
    BY <1>1, <2>2, <2>3
<1>9. ASSUME UNCHANGED <<permits, stage, watcher>> PROVE Goal
  BY <1>1, <1>9 DEF N, Holders
<1>10. QED
  BY <1>5, <1>6, <1>7, <1>8, <1>9
     DEF Next, Exit, Detach, Call, Attach, Dispatch, vars, poolVars

\* A route is put into a table by the completion it leads to.
LEMMA RoutesStep ==
    ASSUME TypeOK, OwnRoutes, [Next]_vars
    PROVE  OwnRoutes'
<1>1. ASSUME NEW l \in Leases, NEW i \in AgentIds, Attach(l, i) PROVE OwnRoutes'
  BY <1>1 DEF Attach, OwnRoutes, TypeOK
<1>2. ASSUME NEW l \in Leases, Detach(l) PROVE OwnRoutes'
  BY <1>2 DEF Detach, OwnRoutes, TypeOK
<1>3. ASSUME UNCHANGED routes PROVE OwnRoutes'
  BY <1>3 DEF OwnRoutes
<1>4. QED
  BY <1>1, <1>2, <1>3 DEF Next, Prepare, TakePermit, LeaveQueue, SpawnFails, Spawn, HandshakeDone,
     HandshakeFails, DropLease, LetGo, Exit, DropPermit, DropToken, Call, Dispatch, vars,
     callbackVars

\* A dispatched call is looked up in the table of its own worker.
LEMMA OwnAgentStep ==
    ASSUME TypeOK, OwnRoutes, OwnAgent, [Next]_vars
    PROVE  OwnAgent'
<1>1. ASSUME NEW c \in calls, Dispatch(c) PROVE OwnAgent'
  <2>1. c.from \in Leases /\ c.id \in AgentIds
    BY DEF TypeOK
  <2>2. Target(c) = None \/ Target(c) = c.from
    BY <2>1 DEF Target, OwnRoutes
  <2>3. QED
    BY <1>1, <2>2 DEF Dispatch, OwnAgent
<1>2. ASSUME UNCHANGED reached PROVE OwnAgent'
  BY <1>2 DEF OwnAgent
<1>3. QED
  BY <1>1, <1>2 DEF Next, Prepare, TakePermit, LeaveQueue, SpawnFails, Spawn, HandshakeDone,
     HandshakeFails, DropLease, LetGo, Exit, DropPermit, DropToken, Attach, Detach, Call, vars,
     callbackVars

\* The types, the queue's and the permits' apart.
LEMMA TypeStep ==
    ASSUME TypeOK, OwnRoutes, [Next]_vars,
           queue' \in Seq(Leases), permits' \in 0 .. MaxAgents
    PROVE  TypeOK'
<1>1. ASSUME NEW l \in Leases, Prepare(l) \/ TakePermit(l) \/ LeaveQueue(l) \/ SpawnFails(l)
      PROVE  TypeOK'
  BY <1>1 DEF TypeOK, Prepare, TakePermit, LeaveQueue, SpawnFails, callbackVars
<1>2. ASSUME NEW l \in Leases, Spawn(l) PROVE TypeOK'
  <2>1. /\ stage' \in [Leases -> {"new", "queued", "permit", "handshake", "leased", "gone"}]
        /\ proc' \in [Leases -> {"none", "running", "asked", "exited"}]
        /\ watcher' \in [Leases -> {"none", "waiting", "token", "done"}]
    BY <1>2 DEF TypeOK, Spawn
  <2>2. {"lease", "watcher"} \in SUBSET {"lease", "watcher"}
    OBVIOUS
  <2>3. refs' \in [Leases -> SUBSET {"lease", "watcher"}]
    BY <1>2, <2>2 DEF TypeOK, Spawn
  <2>4. QED
    BY <1>2, <2>1, <2>3 DEF TypeOK, Spawn
<1>3. ASSUME NEW l \in Leases, LetGo(l) PROVE TypeOK'
  <2>1. stage' \in [Leases -> {"new", "queued", "permit", "handshake", "leased", "gone"}]
    BY <1>3 DEF TypeOK, LetGo
  <2>2. Asked(l) \in {"none", "running", "asked", "exited"}
    BY DEF TypeOK, Asked
  <2>3. proc' \in [Leases -> {"none", "running", "asked", "exited"}]
    BY <1>3, <2>2 DEF TypeOK, LetGo
  <2>4. refs[l] \ {"lease"} \in SUBSET {"lease", "watcher"}
    BY DEF TypeOK
  <2>5. refs' \in [Leases -> SUBSET {"lease", "watcher"}]
    BY <1>3, <2>4 DEF TypeOK, LetGo
  <2>6. QED
    BY <1>3, <2>1, <2>3, <2>5 DEF TypeOK, LetGo
<1>4. ASSUME NEW l \in Leases, HandshakeDone(l) PROVE TypeOK'
  BY <1>4 DEF TypeOK, HandshakeDone, callbackVars
<1>5. ASSUME NEW l \in Leases, Exit(l) \/ DropPermit(l) PROVE TypeOK'
  BY <1>5 DEF TypeOK, Exit, DropPermit, callbackVars
<1>6. ASSUME NEW l \in Leases, DropToken(l) PROVE TypeOK'
  <2>1. watcher' \in [Leases -> {"none", "waiting", "token", "done"}]
    BY <1>6 DEF TypeOK, DropToken
  <2>2. refs[l] \ {"watcher"} \in SUBSET {"lease", "watcher"}
    BY DEF TypeOK
  <2>3. refs' \in [Leases -> SUBSET {"lease", "watcher"}]
    BY <1>6, <2>2 DEF TypeOK, DropToken
  <2>4. QED
    BY <1>6, <2>1, <2>3 DEF TypeOK, DropToken
<1> USE DEF TypeOK
<1>7. ASSUME NEW l \in Leases, NEW i \in AgentIds, Attach(l, i) PROVE TypeOK'
  BY <1>7 DEF Attach, poolVars
<1>8. ASSUME NEW l \in Leases, Detach(l) PROVE TypeOK'
  BY <1>8 DEF Detach, poolVars
<1>9. ASSUME NEW l \in Leases, Call(l) PROVE TypeOK'
  BY <1>9, PoolAssumption DEF Call, poolVars
<1>10. ASSUME NEW c \in calls, Dispatch(c) PROVE TypeOK'
  <2>1. c.from \in Leases /\ c.id \in AgentIds
    OBVIOUS
  <2>2. Target(c) = None \/ Target(c) \in Leases
    BY <2>1 DEF Target
  <2>3. calls' \subseteq calls /\ reached' \subseteq Leases \X Leases
    BY <1>10, <2>1, <2>2 DEF Dispatch
  <2>4. QED
    BY <1>10, <2>3 DEF Dispatch, poolVars
<1>11. CASE UNCHANGED vars
  BY <1>11 DEF vars, poolVars, callbackVars
<1>12. QED
  BY <1>1, <1>2, <1>5, <1>7, <1>8, <1>9, <1>10, <1>11, <1>3, <1>4, <1>6
     DEF Next, HandshakeFails, DropLease

-------------------------------------------------------------------------------
(***************************************************************************)
(* The theorem                                                             *)
(***************************************************************************)

\* A pool starts with every permit free and nobody about.
LEMMA InitStep ==
    ASSUME Init
    PROVE  PoolIInv
<1> USE DEF Init, Starts
<1>1. TypeOK
  BY PoolAssumption DEF TypeOK
<1>2. PermitsConserved
  <2>1. Holders = {}
    BY DEF Holders
  <2>2. QED
    BY <2>1, PoolAssumption, FS_EmptySet DEF PermitsConserved
<1>3. OwnAgent /\ QueueOfWaiters /\ LeaseLife /\ OwnRoutes
  BY DEF OwnAgent, QueueOfWaiters, LeaseLife, Live, OwnRoutes
<1>4. QED
  BY <1>1, <1>2, <1>3 DEF PoolIInv

\* A live worker has a watcher that waits, so a permit and a token of its own.
LEMMA Watched ==
    ASSUME PoolIInv
    PROVE  PoolInv
<1>1. TokenWhileLive
  BY DEF PoolIInv, LeaseLife, TokenWhileLive, Registered
<1>2. AtMostMaxAgents
  <2>1. Holders \in SUBSET Leases /\ {l \in Leases : Live(l)} \in SUBSET Holders
    BY DEF PoolIInv, LeaseLife, Holders
  <2>2. /\ IsFiniteSet(Holders) /\ Cardinality(Holders) \in Nat
        /\ Cardinality({l \in Leases : Live(l)}) \in Nat
        /\ Cardinality({l \in Leases : Live(l)}) <= Cardinality(Holders)
    <3>1. IsFiniteSet(Holders)
      BY <2>1, PoolAssumption, FS_Subset
    <3>2. /\ IsFiniteSet({l \in Leases : Live(l)})
          /\ Cardinality({l \in Leases : Live(l)}) <= Cardinality(Holders)
      BY <2>1, <3>1, FS_Subset
    <3>3. QED
      BY <3>1, <3>2, FS_CardinalityType
  <2>3. QED
    BY <2>2, PoolAssumption DEF PoolIInv, TypeOK, PermitsConserved, AtMostMaxAgents
<1>3. QED
  BY <1>1, <1>2 DEF PoolIInv, PoolInv

\* However leases are prepared, spawned, dropped at any await and their workers exit:
\* every permit is free or held for one lease, at most max_agents workers run, those
\* of dropped leases included, a live worker's token is registered, and a call is
\* dispatched to the completion of its own worker or to none.
THEOREM PoolKept == Spec => []PoolInv
<1>1. Init => PoolIInv
  BY InitStep
<1>2. PoolIInv /\ [Next]_vars => PoolIInv'
  <2>1. SUFFICES ASSUME PoolIInv, [Next]_vars PROVE PoolIInv'
    OBVIOUS
  <2>2. /\ TypeOK /\ PermitsConserved /\ OwnAgent
        /\ QueueOfWaiters /\ LeaseLife /\ OwnRoutes
    BY <2>1 DEF PoolIInv
  <2>3. queue' \in Seq(Leases) /\ QueueOfWaiters'
    BY <2>1, <2>2, QueueStep
  <2>4. PermitsConserved' /\ permits' \in 0 .. MaxAgents
    BY <2>1, <2>2, PermitsStep
  <2>5. TypeOK'
    BY <2>1, <2>2, <2>3, <2>4, TypeStep
  <2>6. LeaseLife' /\ OwnRoutes' /\ OwnAgent'
    BY <2>1, <2>2, LifeStep, RoutesStep, OwnAgentStep
  <2>7. QED
    BY <2>3, <2>4, <2>5, <2>6 DEF PoolIInv
<1>3. PoolIInv => PoolInv
  BY Watched
<1>4. QED
  BY <1>1, <1>2, <1>3, PTL DEF Spec

-------------------------------------------------------------------------------
(***************************************************************************)
(* The stream of a run                                                     *)
(***************************************************************************)

\* A guest tool that is pending was asked for since the model last spoke, so a phase
\* that waits on a tool follows such a question.
ToolAsked ==
    /\ pending \ Shell \subseteq asked
    /\ phase = "tool" => asked # {}

\* A call whose terminal frame was read was answered.
ClosedAnswered == \A c \in closed : c \in Calls /\ bridgeCalls[c] = "answered"

\* The inductive invariant of the stream.
StreamIInv == StreamTypeOK /\ ToolAsked /\ ClosedAnswered /\ InactiveOnTool /\ ClosedNotPending

\* The phase a frame leaves waits on a tool only while a guest tool is pending.
LEMMA PhasesTool ==
    ASSUME NEW p \in SUBSET Calls, NEW l, NEW ph \in Phases(p, l)
    PROVE  /\ ph \in {"tool", "shell", "model"}
           /\ ph = "tool" => p \ Shell # {}
BY DEF Phases, PhaseOf

\* A frame keeps the types and leaves a phase that what is pending justifies.
LEMMA Advances ==
    ASSUME StreamTypeOK, NEW p \in SUBSET Calls, NEW l \in Calls \cup {NoCall}, Advance(p, l)
    PROVE  /\ pending' = p /\ pending' \subseteq Calls /\ last' \in Calls \cup {NoCall}
           /\ phase' \in {"opening", "tool", "shell", "model"}
           /\ phase' = "tool" => p \ Shell # {}
           /\ idle' \in 0 .. Inactivity /\ UNCHANGED <<elapsed, outcome>>
           /\ outcome = "open"
BY PhasesTool, StreamAssumption DEF Advance, StreamTypeOK, Open

\* StreamIInv holds on after every step.
LEMMA StreamStep ==
    ASSUME StreamIInv, [StreamNext]_streamVars
    PROVE  StreamIInv'
<1>1. /\ StreamTypeOK /\ ToolAsked /\ ClosedAnswered /\ InactiveOnTool /\ ClosedNotPending
  BY DEF StreamIInv
<1>2. ASSUME NEW c \in Calls, Started(c) PROVE StreamIInv'
  <2>1. /\ bridgeCalls[c] = "no" /\ bridgeCalls' = [bridgeCalls EXCEPT ![c] = "running"]
        /\ UNCHANGED <<turns, closed>>
    BY <1>2 DEF Started
  <2>2. bridgeCalls' \in [Calls -> {"no", "running", "answered"}]
    BY <1>1, <2>1 DEF StreamTypeOK
  <2>3. c \notin closed
    BY <1>1, <2>1 DEF ClosedAnswered
  <2>4. ClosedAnswered'
    BY <1>1, <2>1, <2>3 DEF ClosedAnswered, StreamTypeOK
  <2>5. CASE Advance(pending \cup {c}, c) /\ asked' = asked \cup ({c} \ Shell)
    <3>1. /\ pending' = pending \cup {c} /\ StreamTypeOK' /\ outcome' = "open"
          /\ phase' = "tool" => pending' \ Shell # {}
      BY <1>1, <2>1, <2>2, <2>5, Advances DEF StreamTypeOK
    <3>2. ToolAsked'
      BY <1>1, <2>5, <3>1 DEF ToolAsked
    <3>3. ClosedNotPending'
      BY <1>1, <2>1, <2>3, <3>1 DEF ClosedNotPending
    <3>4. QED
      BY <2>4, <3>1, <3>2, <3>3 DEF StreamIInv, InactiveOnTool
  <2>6. CASE Advance(pending, last) /\ UNCHANGED asked
    <3>1. /\ pending' = pending /\ StreamTypeOK' /\ outcome' = "open"
          /\ phase' = "tool" => pending' \ Shell # {}
      BY <1>1, <2>1, <2>2, <2>6, Advances DEF StreamTypeOK
    <3>2. ToolAsked' /\ ClosedNotPending'
      BY <1>1, <2>1, <2>6, <3>1 DEF ToolAsked, ClosedNotPending
    <3>3. QED
      BY <2>4, <3>1, <3>2 DEF StreamIInv, InactiveOnTool
  <2>7. QED
    BY <1>2, <2>5, <2>6 DEF Started
<1>3. ASSUME NEW c \in Calls, Completed(c) PROVE StreamIInv'
  <2>1. /\ bridgeCalls[c] = "running" /\ bridgeCalls' = [bridgeCalls EXCEPT ![c] = "answered"]
        /\ closed' = closed \cup {c} /\ UNCHANGED asked
        /\ turns' \in {turns, turns \cup {c}} /\ Advance(pending \ {c}, last)
    BY <1>3 DEF Completed
  <2>2. bridgeCalls' \in [Calls -> {"no", "running", "answered"}] /\ turns' \subseteq Calls
    BY <1>1, <2>1 DEF StreamTypeOK
  <2>3. /\ pending' = pending \ {c} /\ StreamTypeOK' /\ outcome' = "open"
        /\ phase' = "tool" => pending' \ Shell # {}
    BY <1>1, <2>1, <2>2, Advances DEF StreamTypeOK
  <2>4. ToolAsked' /\ ClosedNotPending'
    BY <1>1, <2>1, <2>3 DEF ToolAsked, ClosedNotPending
  <2>5. ClosedAnswered'
    BY <1>1, <2>1 DEF ClosedAnswered, StreamTypeOK
  <2>6. QED
    BY <2>3, <2>4, <2>5 DEF StreamIInv, InactiveOnTool
<1>4. ASSUME NEW c \in Calls, Dropped(c) PROVE StreamIInv'
  <2>1. /\ bridgeCalls' = [bridgeCalls EXCEPT ![c] = "answered"]
        /\ UNCHANGED <<clientVars, idle, elapsed, outcome, closed, asked>>
    BY <1>4 DEF Dropped
  <2>2. StreamTypeOK' /\ ClosedAnswered'
    BY <1>1, <2>1 DEF StreamTypeOK, ClosedAnswered, clientVars
  <2>3. QED
    BY <1>1, <2>1, <2>2 DEF StreamIInv, ToolAsked, InactiveOnTool, ClosedNotPending, clientVars
<1>5. CASE Resumed
  <2>1. /\ Advance({}, NoCall) /\ asked' = {} /\ UNCHANGED <<bridgeCalls, turns, closed>>
    BY <1>5 DEF Resumed
  <2>2. /\ pending' = {} /\ StreamTypeOK' /\ outcome' = "open"
        /\ phase' = "tool" => pending' \ Shell # {}
    BY <1>1, <2>1, Advances DEF StreamTypeOK
  <2>3. QED
    BY <1>1, <2>1, <2>2 DEF StreamIInv, ToolAsked, ClosedAnswered, InactiveOnTool, ClosedNotPending
<1>6. CASE OtherFrame
  <2>1. /\ Advance(pending, last) /\ UNCHANGED <<bridgeCalls, turns, closed, asked>>
    BY <1>6 DEF OtherFrame
  <2>2. /\ pending' = pending /\ StreamTypeOK' /\ outcome' = "open"
        /\ phase' = "tool" => pending' \ Shell # {}
    BY <1>1, <2>1, Advances DEF StreamTypeOK
  <2>3. QED
    BY <1>1, <2>1, <2>2 DEF StreamIInv, ToolAsked, ClosedAnswered, InactiveOnTool, ClosedNotPending
<1>7. CASE Done \/ Deadline
  <2>1. /\ UNCHANGED <<bridgeCalls, clientVars, idle, elapsed, closed, asked>>
        /\ outcome' \in {"finished", "inactive", "timeout"}
        /\ outcome' = "inactive" => phase \in {"opening", "tool"}
    BY <1>7 DEF Done, Deadline, WindowPassed, BoundedPhase
  <2>2. QED
    BY <1>1, <2>1 DEF StreamIInv, StreamTypeOK, ToolAsked, ClosedAnswered, InactiveOnTool,
       ClosedNotPending, clientVars
<1>8. CASE Tick
  <2>1. /\ UNCHANGED <<bridgeCalls, clientVars, outcome, closed, asked>>
        /\ idle' \in 0 .. Inactivity /\ elapsed' \in 0 .. Cap
    BY <1>1, <1>8, StreamAssumption DEF Tick, CapPassed, StreamTypeOK
  <2>2. QED
    BY <1>1, <2>1 DEF StreamIInv, StreamTypeOK, ToolAsked, ClosedAnswered, InactiveOnTool,
       ClosedNotPending, clientVars
<1>9. CASE UNCHANGED streamVars
  BY <1>1, <1>9 DEF streamVars, clientVars, StreamIInv, StreamTypeOK, ToolAsked, ClosedAnswered,
     InactiveOnTool, ClosedNotPending
<1>10. QED
  BY <1>2, <1>3, <1>4, <1>5, <1>6, <1>7, <1>8, <1>9 DEF StreamNext

\* Whatever frames the bridge drops: a run ends as inactive only while it opens or after
\* the model asked for a guest tool and before it spoke again, no run outlives its cap,
\* and a call whose terminal frame was read is not pending.
THEOREM StreamKept == StreamSpec => []StreamInv
<1>1. StreamInit => StreamIInv
  BY StreamAssumption
     DEF StreamInit, StreamStarts, StreamIInv, StreamTypeOK, ToolAsked, ClosedAnswered,
         InactiveOnTool, ClosedNotPending
<1>2. StreamIInv => StreamInv
  BY DEF StreamIInv, StreamInv
<1>3. QED
  BY <1>1, <1>2, StreamStep, PTL DEF StreamSpec

===============================================================================
