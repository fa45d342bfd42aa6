-------------------------- MODULE KafkaDeliveryProofs --------------------------
(***************************************************************************)
(* For any keys and any sizes of the two semaphores: records of a key are  *)
(* handled in pull order until the loop fails, and no permit is lost.  For *)
(* any calls, any keys and any number of fetches: the registry's cache     *)
(* runs one fetch per key, forgets a failure before anyone learns of it    *)
(* and serves one schema per key for the life of the process.              *)
(***************************************************************************)
EXTENDS KafkaDelivery, SchemaRegistry, FiniteSetTheorems, TLAPS

\* The three invariants hold one another up: the order of a key needs the chain of
\* its lane, the chain its tail, the tail the order; the types need the permits.
IInv == LanesInv /\ KeyOrder /\ PermitsConserved

-------------------------------------------------------------------------------
(***************************************************************************)
(* Permits                                                                 *)
(***************************************************************************)

\* The tasks at some stages are finitely many.
LEMMA HoldingFinite ==
    ASSUME NEW P
    PROVE  IsFiniteSet(Holding(P)) /\ Cardinality(Holding(P)) \in Nat
<1>1. IsFiniteSet(Tickets)
  BY SizesAssumption, FS_Interval DEF Tickets
<1>2. Holding(P) \in SUBSET Tickets
  BY DEF Holding
<1>3. QED
  BY <1>1, <1>2, FS_Subset, FS_CardinalityType

\* Moves(t): of the tasks at most t changes its stage.
Moves(t) == \A u \in Tickets : u # t => stage'[u] = stage[u]

\* A task that moves from one stage to another is counted where it goes and no
\* longer where it was.
LEMMA HoldingMoves ==
    ASSUME NEW CONSTANT P, NEW t \in Tickets, Moves(t)
    PROVE  Cardinality(Holding(P)') =
             Cardinality(Holding(P)) + (IF stage'[t] \in P THEN 1 ELSE 0)
                                     - (IF stage[t] \in P THEN 1 ELSE 0)
<1>1. IsFiniteSet(Holding(P)) /\ Cardinality(Holding(P)) \in Nat
  BY HoldingFinite
<1>2. t \in Holding(P) <=> stage[t] \in P
  BY DEF Holding
<1>3. CASE stage'[t] \in P
  <2>1. Holding(P)' = Holding(P) \cup {t}
    BY <1>3 DEF Holding, Moves
  <2>2. Cardinality(Holding(P)') =
          IF t \in Holding(P) THEN Cardinality(Holding(P)) ELSE Cardinality(Holding(P)) + 1
    BY <1>1, <2>1, FS_AddElement
  <2>3. QED
    BY <1>1, <1>2, <1>3, <2>2
<1>4. CASE stage'[t] \notin P
  <2>1. Holding(P)' = Holding(P) \ {t}
    BY <1>4 DEF Holding, Moves
  <2>2. Cardinality(Holding(P)') =
          IF t \in Holding(P) THEN Cardinality(Holding(P)) - 1 ELSE Cardinality(Holding(P))
    BY <1>1, <2>1, FS_RemoveElement
  <2>3. QED
    BY <1>1, <1>2, <1>4, <2>2
<1>5. QED
  BY <1>3, <1>4

\* Every step keeps the permits: what the loop or a task takes is off the free ones.
LEMMA PermitsStep ==
    ASSUME TypeOK, PermitsConserved, [Next]_vars
    PROVE  PermitsConserved'
<1> DEFINE S == Cardinality(Holding(WithSlot))
           L == Cardinality(Holding(WithPlace))
           Kept == /\ slots' + S' + (IF loop' = "select" THEN 1 ELSE 0) = InFlight
                   /\ places' + L' + (IF loop' \in {"slot", "select"} THEN 1 ELSE 0) = Backlog
<1>0. S \in Nat /\ L \in Nat
  BY HoldingFinite
<1>1. stage' = stage => S' = S /\ L' = L
  BY DEF Holding
<1>2. /\ slots + S + (IF loop = "select" THEN 1 ELSE 0) = InFlight
      /\ places + L + (IF loop \in {"slot", "select"} THEN 1 ELSE 0) = Backlog
  BY DEF PermitsConserved
<1>3. ASSUME NEW t \in Tickets, Moves(t)
      PROVE  /\ S' = S + (IF stage'[t] \in WithSlot THEN 1 ELSE 0) - (IF stage[t] \in WithSlot THEN 1 ELSE 0)
             /\ L' = L + (IF stage'[t] \in WithPlace THEN 1 ELSE 0) - (IF stage[t] \in WithPlace THEN 1 ELSE 0)
  <2>1. S' = S + (IF stage'[t] \in WithSlot THEN 1 ELSE 0) - (IF stage[t] \in WithSlot THEN 1 ELSE 0)
    BY <1>3, HoldingMoves
  <2>2. L' = L + (IF stage'[t] \in WithPlace THEN 1 ELSE 0) - (IF stage[t] \in WithPlace THEN 1 ELSE 0)
    BY <1>3, HoldingMoves
  <2>3. QED
    BY <2>1, <2>2
<1>4. SUFFICES Kept
  BY DEF PermitsConserved
<1> HIDE DEF S, L
<1>5. slots \in Nat /\ places \in Nat
  BY SizesAssumption DEF TypeOK
<1> USE <1>0, <1>1, <1>2, <1>5, SizesAssumption DEF WithSlot, WithPlace
<1>6. CASE UNCHANGED vars
  BY <1>6 DEF vars
<1>7. CASE TakePlace
  BY <1>7 DEF TakePlace
<1>8. CASE TakeSlot
  BY <1>8 DEF TakeSlot
<1>9. ASSUME NEW t \in Tickets, Reap(t) PROVE Kept
  <2>1. stage'[t] = "reaped" /\ Moves(t)
    BY <1>9 DEF Reap, LeaveSelect, Moves, TypeOK
  <2>2. S' = S /\ L' = L
    BY <1>9, <2>1, <1>3 DEF Reap, LeaveSelect
  <2>3. QED
    BY <1>9, <2>2 DEF Reap, LeaveSelect
<1>10. ASSUME NEW k \in Keys \cup {NoKey}, Pull(k) PROVE Kept
  <2>1. PICK t \in Tickets : t = pulled
    BY <1>10 DEF Pull, Tickets, TypeOK
  <2>2. stage[t] = "none"
    BY <2>1 DEF TypeOK, Tickets
  <2> Moves(t)
    BY <1>10, <2>1 DEF Pull, Admit, Moves, TypeOK
  <2>3. CASE stage'[t] = "ready" /\ slots' = slots
    <3>1. S' = S + 1 /\ L' = L + 1
      BY <2>2, <2>3, <1>3
    <3>2. QED
      BY <1>10, <2>3, <3>1 DEF Pull
  <2>4. CASE stage'[t] = "turn" /\ slots' = slots + 1
    <3>1. S' = S /\ L' = L + 1
      BY <2>2, <2>4, <1>3
    <3>2. QED
      BY <1>10, <2>4, <3>1 DEF Pull
  <2>5. QED
    BY <1>10, <2>1, <2>3, <2>4 DEF Pull, Admit, TypeOK
<1>11. CASE StreamEnds
  BY <1>11 DEF StreamEnds, LeaveSelect
<1>12. CASE FatalError
  BY <1>12 DEF FatalError, LeaveSelect
<1>13. ASSUME NEW t \in Tickets, DrainReap(t) PROVE Kept
  <2>1. stage'[t] = "reaped" /\ Moves(t)
    BY <1>13 DEF DrainReap, Moves, TypeOK
  <2>2. S' = S /\ L' = L
    BY <1>13, <2>1, <1>3 DEF DrainReap
  <2>3. QED
    BY <1>13, <2>2 DEF DrainReap
<1>14. CASE DrainEnds
  BY <1>14 DEF DrainEnds
<1>15. ASSUME NEW t \in Tickets, Turn(t) PROVE Kept
  <2>1. stage'[t] = "slot" /\ Moves(t)
    BY <1>15 DEF Turn, Step, Moves, TypeOK
  <2>2. S' = S /\ L' = L
    BY <1>15, <2>1, <1>3 DEF Turn, Step
  <2>3. QED
    BY <1>15, <2>2 DEF Turn, Step
<1>16. ASSUME NEW t \in Tickets, TakeTaskSlot(t) PROVE Kept
  <2>1. stage'[t] = "ready" /\ Moves(t)
    BY <1>16 DEF TakeTaskSlot, Step, Moves, TypeOK
  <2>2. S' = S + 1 /\ L' = L
    BY <1>16, <2>1, <1>3 DEF TakeTaskSlot, Step
  <2>3. QED
    BY <1>16, <2>2 DEF TakeTaskSlot, Step
<1>17. ASSUME NEW t \in Tickets, Handle(t) PROVE Kept
  <2>1. /\ stage[t] \in {"ready", "decode", "guest"}
        /\ stage'[t] \in {"decode", "drop", "guest"}
        /\ Moves(t)
        /\ UNCHANGED <<loop, slots, places>>
    BY <1>17 DEF Handle, CheckHeld, Discard, HandOver, GuestOk, GuestErr, Step, Moves, TypeOK
  <2>2. QED
    BY <2>1, <1>3
<1>18. ASSUME NEW t \in Tickets, DropSlot(t) PROVE Kept
  <2>1. stage'[t] = "release" /\ Moves(t)
    BY <1>18 DEF DropSlot, Step, Moves, TypeOK
  <2>2. S' = S - 1 /\ L' = L
    BY <1>18, <2>1, <1>3 DEF DropSlot, Step
  <2>3. QED
    BY <1>18, <2>2 DEF DropSlot, Step
<1>19. ASSUME NEW t \in Tickets, Release(t) PROVE Kept
  <2>1. stage'[t] = "ended" /\ Moves(t)
    BY <1>19 DEF Release, Step, Moves, TypeOK
  <2>2. S' = S /\ L' = L - 1
    BY <1>19, <2>1, <1>3 DEF Release, Step
  <2>3. QED
    BY <1>19, <2>2 DEF Release, Step
<1>20. ASSUME NEW t \in Tickets, Abort(t) PROVE Kept
  <2>1. stage'[t] = "aborted" /\ Moves(t)
    BY <1>20 DEF Abort, Moves, TypeOK
  <2>2. S' = S - (IF stage[t] \in WithSlot THEN 1 ELSE 0) /\ L' = L - 1
    BY <1>20, <2>1, <1>3 DEF Abort
  <2>3. QED
    BY <1>20, <2>2 DEF Abort
<1>21. ASSUME NEW S0 \in SUBSET held, Revoke(S0) PROVE Kept
  BY <1>21 DEF Revoke
<1>22. QED
  BY <1>6, <1>7, <1>8, <1>9, <1>10, <1>11, <1>12, <1>13, <1>14, <1>15, <1>16, <1>17,
     <1>18, <1>19, <1>20, <1>21 DEF Next, LoopNext, TaskNext

-------------------------------------------------------------------------------
(***************************************************************************)
(* Types                                                                   *)
(***************************************************************************)

\* Every step keeps the types; that a semaphore never holds more than it was made
\* with is what the permits say.
LEMMA TypeStep ==
    ASSUME TypeOK, PermitsConserved', [Next]_vars
    PROVE  TypeOK'
<1>1. slots' \in 0 .. InFlight /\ places' \in 0 .. Backlog
  <2>1. /\ Cardinality(Holding(WithSlot))' \in Nat
        /\ Cardinality(Holding(WithPlace))' \in Nat
    <3>1. IsFiniteSet(Tickets)
      BY FS_Interval, SizesAssumption DEF Tickets
    <3>2. Holding(WithSlot)' \in SUBSET Tickets /\ Holding(WithPlace)' \in SUBSET Tickets
      BY DEF Holding
    <3>3. QED
      BY <3>1, <3>2, FS_Subset, FS_CardinalityType
  <2>2. slots' \in Nat /\ places' \in Nat
    BY SizesAssumption DEF TypeOK, Next, LoopNext, TaskNext, vars, TakePlace, TakeSlot, Reap,
       LeaveSelect, Pull, Admit, StreamEnds, FatalError, DrainReap, DrainEnds, Turn, TakeTaskSlot,
       Handle, CheckHeld, Discard, HandOver, GuestOk, GuestErr, DropSlot, Release, Abort, Revoke
  <2>3. QED
    BY <2>1, <2>2, SizesAssumption DEF PermitsConserved
<1> DEFINE Typed == /\ loop' \in LoopStates
                    /\ pulled' \in 0 .. MaxRecords
                    /\ key' \in [Tickets -> Keys \cup {NoKey}]
                    /\ stage' \in [Tickets -> Stages]
                    /\ outcome' \in [Tickets -> {"ok", "err"}]
                    /\ behind' \in [Tickets -> Tickets \cup {NoTicket}]
                    /\ tails' \in [Keys -> Tickets \cup {NoTicket}]
                    /\ held' \subseteq Tickets
                    /\ \A t \in Tickets : t >= pulled' <=> stage'[t] = "none"
<1>2. SUFFICES Typed
  BY <1>1 DEF TypeOK
<1> USE SizesAssumption DEF TypeOK, LoopStates, Stages
<1>3. CASE UNCHANGED vars
  BY <1>3 DEF vars
<1>4. CASE TakePlace \/ TakeSlot \/ StreamEnds \/ FatalError \/ DrainEnds
  BY <1>4 DEF TakePlace, TakeSlot, StreamEnds, FatalError, DrainEnds, LeaveSelect
<1>5. ASSUME NEW t \in Tickets, Reap(t) \/ DrainReap(t) PROVE Typed
  BY <1>5 DEF Reap, DrainReap, LeaveSelect
<1>6. ASSUME NEW k \in Keys \cup {NoKey}, Pull(k) PROVE Typed
  <2>1. pulled \in Tickets
    BY <1>6 DEF Pull, Tickets
  <2>2. QED
    BY <1>6, <2>1 DEF Pull, Admit, Tickets
<1>7. ASSUME NEW t \in Tickets, Turn(t) \/ TakeTaskSlot(t) \/ DropSlot(t) \/ Abort(t) PROVE Typed
  BY <1>7 DEF Turn, TakeTaskSlot, DropSlot, Abort, Step
<1>8. ASSUME NEW t \in Tickets, Handle(t) PROVE Typed
  BY <1>8 DEF Handle, CheckHeld, Discard, HandOver, GuestOk, GuestErr, Step
<1>9. ASSUME NEW t \in Tickets, Release(t) PROVE Typed
  BY <1>9 DEF Release, Step
<1>10. ASSUME NEW S \in SUBSET held, Revoke(S) PROVE Typed
  BY <1>10 DEF Revoke
<1>11. QED
  BY <1>3, <1>4, <1>5, <1>6, <1>7, <1>8, <1>9, <1>10 DEF Next, LoopNext, TaskNext

-------------------------------------------------------------------------------
(***************************************************************************)
(* Lanes                                                                   *)
(***************************************************************************)

\* What the three lane invariants say of a state: with a loop that has not failed.
Lanes == TailNewest /\ Chained /\ KeyOrder

\* A task that moves on with its lane, or is reaped after it, disturbs nothing.
LEMMA LaneKept ==
    ASSUME TypeOK, TypeOK', Lanes, NEW t \in Tickets, Moves(t),
           UNCHANGED <<key, behind, tails>>, loop' # "failed" => loop # "failed",
           \/ stage[t] \in WithPlace \ {"turn"} /\ stage'[t] \in WithPlace \ {"turn"}
           \/ stage[t] = "ended" /\ stage'[t] = "reaped"
    PROVE  Lanes'
<1> SUFFICES ASSUME loop' # "failed", loop # "failed"
             PROVE  Lanes'
  BY DEF Lanes, TailNewest, Chained, KeyOrder
<1> USE DEF Moves, WithPlace, WithSlot, LaneGone
<1>1. TailNewest'
  BY DEF Lanes, TailNewest
<1>2. Chained'
  BY DEF Lanes, Chained, SameKey, TypeOK, Tickets
<1>3. KeyOrder'
  BY DEF Lanes, KeyOrder, SameKey
<1>4. QED
  BY <1>1, <1>2, <1>3 DEF Lanes

\* A parked record whose turn comes has every earlier record of its key behind it.
LEMMA LaneTurn ==
    ASSUME TypeOK, TypeOK', Lanes, NEW t \in Tickets, Turn(t)
    PROVE  Lanes'
<1> SUFFICES ASSUME loop # "failed"
             PROVE  Lanes'
  BY DEF Lanes, TailNewest, Chained, KeyOrder, Turn
<1> USE DEF WithPlace, WithSlot, LaneGone
<1>1. /\ stage[t] = "turn" /\ stage'[t] = "slot" /\ Moves(t)
      /\ UNCHANGED <<loop, key, behind, tails>>
      /\ behind[t] \in Tickets /\ stage[behind[t]] \in LaneGone
  BY DEF Turn, Step, Moves, TypeOK, Lanes, Chained
<1>2. ASSUME NEW v \in Tickets, v < t, SameKey(v, t)
      PROVE  stage[v] \in LaneGone
  <2>1. CASE v < behind[t]
    <3>1. SameKey(v, behind[t]) /\ stage[behind[t]] \notin {"none", "turn"}
      BY <1>1, <1>2 DEF Lanes, Chained, SameKey
    <3>2. QED
      BY <1>1, <2>1, <3>1 DEF Lanes, KeyOrder
  <2>2. CASE v >= behind[t]
    BY <1>1, <1>2, <2>2 DEF Lanes, Chained, Tickets
  <2>3. QED
    BY <1>1, <2>1, <2>2 DEF Tickets
<1>3. TailNewest'
  BY <1>1 DEF Lanes, TailNewest, Moves
<1>4. Chained'
  BY <1>1 DEF Lanes, Chained, SameKey, Moves
<1>5. KeyOrder'
  BY <1>1, <1>2 DEF Lanes, KeyOrder, SameKey, Moves
<1>6. QED
  BY <1>3, <1>4, <1>5 DEF Lanes

\* A record that releases its lane closes it only as the last of its key.
LEMMA LaneRelease ==
    ASSUME TypeOK, TypeOK', Lanes, NEW t \in Tickets, Release(t)
    PROVE  Lanes'
<1> SUFFICES ASSUME loop # "failed"
             PROVE  Lanes'
  BY DEF Lanes, TailNewest, Chained, KeyOrder, Release
<1> USE DEF WithPlace, WithSlot, LaneGone
<1>1. /\ stage[t] = "release" /\ stage'[t] = "ended" /\ Moves(t)
      /\ UNCHANGED <<loop, key, behind>>
      /\ \A k \in Keys : tails'[k] = IF key[t] = k /\ tails[k] = t THEN NoTicket ELSE tails[k]
  BY DEF Release, Step, Moves, TypeOK
<1>2. ASSUME NEW k \in Keys,
             NEW u \in Tickets, key'[u] = k, stage'[u] \in WithPlace
      PROVE  u <= tails'[k]
  <2>1. u # t /\ u <= tails[k]
    BY <1>1, <1>2 DEF Lanes, TailNewest, Moves
  <2>2. ~(key[t] = k /\ tails[k] = t)
    <3>1. SUFFICES ASSUME key[t] = k, tails[k] = t PROVE FALSE
      OBVIOUS
    <3>2. u < t /\ SameKey(u, t)
      BY <1>1, <1>2, <2>1, <3>1, SizesAssumption DEF SameKey, Tickets
    <3>3. stage[u] \in LaneGone
      BY <1>1, <3>2 DEF Lanes, KeyOrder
    <3>4. QED
      BY <1>1, <1>2, <2>1, <3>3 DEF Moves
  <2>3. QED
    BY <1>1, <2>1, <2>2
<1>3. TailNewest'
  <2>1. ASSUME NEW k \in Keys, tails'[k] # NoTicket
        PROVE  tails'[k] \in Tickets /\ key'[tails'[k]] = k /\ stage'[tails'[k]] \in WithPlace
    BY <1>1, <2>1 DEF Lanes, TailNewest, Moves
  <2>2. QED
    BY <1>2, <2>1 DEF TailNewest
<1>4. Chained'
  BY <1>1 DEF Lanes, Chained, SameKey, Moves
<1>5. KeyOrder'
  BY <1>1 DEF Lanes, KeyOrder, SameKey, Moves
<1>6. QED
  BY <1>3, <1>4, <1>5 DEF Lanes

\* A record pulled joins its key's lane behind the tail, or opens a lane where every
\* earlier record of the key is done.
LEMMA LanePull ==
    ASSUME TypeOK, TypeOK', Lanes, NEW k \in Keys \cup {NoKey}, Pull(k)
    PROVE  Lanes'
<1>1. PICK t \in Tickets : t = pulled
  BY SizesAssumption DEF Pull, Tickets, TypeOK
<1> USE SizesAssumption DEF WithPlace, WithSlot, LaneGone
<1>2. loop = "select" /\ loop' = "place"
  BY DEF Pull
<1> DEFINE ahead == IF k = NoKey THEN NoTicket ELSE tails[k]
<1>3. /\ stage[t] = "none" /\ stage'[t] = IF ahead = NoTicket THEN "ready" ELSE "turn"
      /\ Moves(t)
      /\ key'[t] = k /\ \A u \in Tickets : u # t => key'[u] = key[u]
      /\ behind'[t] = ahead /\ \A u \in Tickets : u # t => behind'[u] = behind[u]
      /\ \A j \in Keys : tails'[j] = IF j = k THEN t ELSE tails[j]
  BY <1>1 DEF Pull, Admit, Moves, TypeOK
<1>4. \A u \in Tickets : u > t => stage[u] = "none"
  BY <1>1 DEF TypeOK, Tickets
<1>5. ASSUME NEW v \in Tickets, v < t, key[v] = k, k \in Keys, ~(v <= tails[k])
      PROVE  stage[v] \in LaneGone
  <2>1. stage[v] # "none" /\ stage[v] # "aborted" /\ stage[v] \notin WithPlace
    BY <1>1, <1>2, <1>5 DEF Lanes, TailNewest, Chained, TypeOK, Tickets
  <2>2. QED
    BY <2>1 DEF TypeOK, Stages
<1> HIDE DEF ahead
<1>6. TailNewest'
  <2>1. ASSUME NEW j \in Keys, NEW u \in Tickets, key'[u] = j, stage'[u] \in WithPlace
        PROVE  u <= tails'[j]
    <3>1. CASE j = k
      BY <1>3, <1>4, <2>1, <3>1 DEF Moves, Tickets
    <3>2. CASE j # k
      BY <1>2, <1>3, <2>1, <3>2 DEF Moves, Lanes, TailNewest
    <3>3. QED
      BY <3>1, <3>2
  <2>2. ASSUME NEW j \in Keys, tails'[j] # NoTicket
        PROVE  tails'[j] \in Tickets /\ key'[tails'[j]] = j /\ stage'[tails'[j]] \in WithPlace
    <3>1. CASE j = k
      BY <1>3, <3>1
    <3>2. CASE j # k
      BY <1>2, <1>3, <2>2, <3>2 DEF Moves, Lanes, TailNewest
    <3>3. QED
      BY <3>1, <3>2
  <2>3. QED
    BY <2>1, <2>2 DEF TailNewest
<1>7. ASSUME NEW u \in Tickets, NEW v \in Tickets, v < u, SameKey(v, u)',
             stage'[u] \notin {"none", "turn"}
      PROVE  stage'[v] \in LaneGone
  <2>1. CASE u = t
    <3>1. ahead = NoTicket /\ k \in Keys /\ tails[k] = NoTicket
      BY <1>3, <1>7, <2>1 DEF ahead, SameKey
    <3>2. key[v] = k /\ ~(v <= tails[k])
      BY <1>3, <1>7, <2>1, <3>1 DEF SameKey, Tickets, NoTicket
    <3>3. QED
      BY <1>3, <1>5, <1>7, <2>1, <3>1, <3>2 DEF Moves, Tickets
  <2>2. CASE u # t
    <3>1. v # t
      BY <1>3, <1>4, <1>7, <2>2 DEF Moves
    <3>2. QED
      BY <1>2, <1>3, <1>7, <2>2, <3>1 DEF Moves, Lanes, KeyOrder, SameKey
  <2>3. QED
    BY <2>1, <2>2
<1>8. ASSUME NEW u \in Tickets
      PROVE  /\ stage'[u] # "aborted"
             /\ stage'[u] = "turn" =>
                  /\ behind'[u] \in Tickets /\ behind'[u] < u /\ SameKey(behind[u], u)'
                  /\ \A v \in Tickets :
                       behind'[u] < v /\ v < u /\ SameKey(v, u)' => stage'[v] \in LaneGone
  <2>1. CASE u = t /\ stage'[u] = "turn"
    <3>1. k \in Keys /\ behind'[t] = tails[k] /\ tails[k] # NoTicket
      BY <1>3, <2>1 DEF ahead
    <3>2. tails[k] \in Tickets /\ key[tails[k]] = k /\ stage[tails[k]] \in WithPlace
      BY <1>2, <3>1 DEF Lanes, TailNewest
    <3>3. tails[k] < t
      BY <1>3, <1>4, <3>2 DEF Tickets
    <3>4. \A v \in Tickets : tails[k] < v /\ v < t /\ SameKey(v, t)' => stage'[v] \in LaneGone
      BY <1>3, <1>5, <3>1, <3>2 DEF SameKey, Moves, Tickets
    <3>5. SameKey(behind[t], t)'
      BY <1>3, <3>1, <3>2, <3>3 DEF SameKey, Tickets
    <3>6. QED
      BY <2>1, <3>1, <3>2, <3>3, <3>4, <3>5
  <2>2. CASE u = t /\ stage'[u] # "turn"
    BY <1>3, <2>2
  <2>3. CASE u # t
    <3>1. stage'[u] = stage[u] /\ behind'[u] = behind[u] /\ stage[u] # "aborted"
      BY <1>2, <1>3, <2>3 DEF Moves, Lanes, Chained
    <3>2. SUFFICES ASSUME stage[u] = "turn"
                   PROVE  /\ behind[u] \in Tickets /\ behind[u] < u /\ SameKey(behind[u], u)'
                          /\ \A v \in Tickets :
                               behind[u] < v /\ v < u /\ SameKey(v, u)' => stage'[v] \in LaneGone
      BY <3>1
    <3>3. u < t
      BY <1>4, <2>3, <3>2 DEF Tickets
    <3>4. /\ behind[u] \in Tickets /\ behind[u] < u /\ SameKey(behind[u], u)
          /\ \A v \in Tickets : behind[u] < v /\ v < u /\ SameKey(v, u) => stage[v] \in LaneGone
      BY <1>2, <3>2 DEF Lanes, Chained
    <3>5. \A v \in Tickets : v < u => stage'[v] = stage[v] /\ key'[v] = key[v]
      BY <1>3, <3>3 DEF Moves, Tickets
    <3>6. QED
      BY <1>3, <2>3, <3>1, <3>4, <3>5 DEF SameKey
  <2>4. QED
    BY <2>1, <2>2, <2>3
<1>9. QED
  BY <1>6, <1>7, <1>8 DEF Lanes, KeyOrder, Chained

\* Where nothing of the lanes changes and the loop does not come back from failure.
LEMMA LaneUntouched ==
    ASSUME Lanes, UNCHANGED <<key, stage, behind, tails>>,
           loop' # "failed" => loop # "failed"
    PROVE  Lanes'
BY DEF Lanes, TailNewest, Chained, KeyOrder, SameKey

\* Every step keeps the lanes, or leaves a loop that has failed.
LEMMA LanesStep ==
    ASSUME TypeOK, TypeOK', Lanes, [Next]_vars
    PROVE  Lanes'
<1>1. CASE UNCHANGED vars
  BY <1>1, LaneUntouched DEF vars
<1>2. CASE TakePlace \/ TakeSlot \/ StreamEnds \/ FatalError \/ DrainEnds
  <2>1. UNCHANGED <<key, stage, behind, tails>> /\ loop # "failed"
    BY <1>2 DEF TakePlace, TakeSlot, StreamEnds, FatalError, DrainEnds, LeaveSelect
  <2>2. QED
    BY <2>1, LaneUntouched
<1>3. ASSUME NEW t \in Tickets, Reap(t) \/ DrainReap(t) PROVE Lanes'
  <2>1. /\ Moves(t) /\ UNCHANGED <<key, behind, tails>> /\ loop # "failed"
        /\ stage[t] = "ended" /\ stage'[t] = "reaped"
    BY <1>3 DEF Reap, DrainReap, LeaveSelect, Moves, TypeOK
  <2>2. QED
    BY <2>1, LaneKept
<1>4. ASSUME NEW k \in Keys \cup {NoKey}, Pull(k) PROVE Lanes'
  BY <1>4, LanePull
<1>5. ASSUME NEW t \in Tickets, Turn(t) PROVE Lanes'
  BY <1>5, LaneTurn
<1>6. ASSUME NEW t \in Tickets, TakeTaskSlot(t) \/ Handle(t) \/ DropSlot(t) PROVE Lanes'
  <2>1. /\ Moves(t) /\ UNCHANGED <<loop, key, behind, tails>>
        /\ stage[t] \in WithPlace \ {"turn"} /\ stage'[t] \in WithPlace \ {"turn"}
    BY <1>6 DEF TakeTaskSlot, Handle, CheckHeld, Discard, HandOver, GuestOk, GuestErr, DropSlot,
                Step, Moves, TypeOK, WithPlace, WithSlot
  <2>2. QED
    BY <2>1, LaneKept
<1>7. ASSUME NEW t \in Tickets, Release(t) PROVE Lanes'
  BY <1>7, LaneRelease
<1>8. ASSUME NEW t \in Tickets, Abort(t) PROVE Lanes'
  BY <1>8 DEF Abort, Lanes, TailNewest, Chained, KeyOrder
<1>9. ASSUME NEW S \in SUBSET held, Revoke(S) PROVE Lanes'
  BY <1>9, LaneUntouched DEF Revoke
<1>10. QED
  BY <1>1, <1>2, <1>3, <1>4, <1>5, <1>6, <1>7, <1>8, <1>9 DEF Next, LoopNext, TaskNext

-------------------------------------------------------------------------------
(***************************************************************************)
(* The theorems                                                            *)
(***************************************************************************)

\* A loop that starts has all its permits, no task and no lane.
LEMMA InitStep ==
    ASSUME Init
    PROVE  IInv
<1> USE DEF Init, Starts
<1>1. TypeOK
  BY SizesAssumption DEF TypeOK, LoopStates, Stages, Tickets
<1>2. PermitsConserved
  <2>1. Holding(WithSlot) = {} /\ Holding(WithPlace) = {}
    BY DEF Holding, WithSlot, WithPlace
  <2>2. Cardinality({}) = 0
    BY FS_EmptySet
  <2>3. QED
    BY <2>1, <2>2, SizesAssumption DEF PermitsConserved
<1>3. Lanes
  BY SizesAssumption DEF Lanes, TailNewest, Chained, KeyOrder, SameKey, WithPlace, WithSlot
<1>4. QED
  BY <1>1, <1>2, <1>3 DEF IInv, LanesInv, Lanes

\* The lanes, the order of a key and the permits are kept by every step together.
THEOREM DeliveryInvariance == Spec => []IInv
<1>1. IInv /\ [Next]_vars => IInv'
  <2>1. SUFFICES ASSUME IInv, [Next]_vars PROVE IInv'
    OBVIOUS
  <2>2. TypeOK /\ Lanes /\ PermitsConserved
    BY <2>1 DEF IInv, LanesInv, Lanes
  <2>3. PermitsConserved'
    BY <2>1, <2>2, PermitsStep
  <2>4. TypeOK'
    BY <2>1, <2>2, <2>3, TypeStep
  <2>5. Lanes'
    BY <2>1, <2>2, <2>4, LanesStep
  <2>6. QED
    BY <2>3, <2>4, <2>5 DEF IInv, LanesInv, Lanes
<1>2. QED
  BY <1>1, InitStep, PTL DEF Spec

\* Until the loop fails a lane's tail is the newest record of its key that has not
\* released it, and every parked record waits on the one before it: `enqueue`,
\* `turn` and `release` of lanes.rs keep the lanes for any number of records.
THEOREM LanesKept == Spec => []LanesInv
<1>1. IInv => LanesInv
  BY DEF IInv
<1>2. QED
  BY <1>1, DeliveryInvariance, PTL

\* Records sharing a key are handled one at a time in the order `run` pulled them,
\* until the loop fails: for any keys, records and sizes of the two semaphores.
THEOREM OrderPerKey == Spec => []KeyOrder
<1>1. IInv => KeyOrder
  BY DEF IInv
<1>2. QED
  BY <1>1, DeliveryInvariance, PTL

\* On no path through `run`, `admit`, `deliver` and the abort of the tasks is a
\* permit of `slots` or of `backlog` lost or made up.
THEOREM PermitsKept == Spec => []PermitsConserved
<1>1. IInv => PermitsConserved
  BY DEF IInv
<1>2. QED
  BY <1>1, DeliveryInvariance, PTL

-------------------------------------------------------------------------------
(***************************************************************************)
(* The schema registry                                                     *)
(***************************************************************************)


\* A call that joined a fetch joined one that was started, and one that is past
\* its await knows what the fetch came to.
JoinedStarted ==
    \A c \in Calls :
        /\ phase[c] \in {"waiting", "settling", "returned"} => joined[c] # NoFetch
        /\ phase[c] \in {"settling", "returned"} => answer[joined[c]] # "pending"

\* An entry that is not absent names a fetch, an absent one none.
EntryNamed ==
    \A k \in CacheKeys : cache[k].state = "absent" <=> cache[k].fetch = NoFetch

\* A fetch is of one key: for the map, and for those who joined it.
FetchOfKey ==
    /\ \A j, k \in CacheKeys :
         cache[j].fetch = cache[k].fetch /\ cache[j].fetch # NoFetch => j = k
    /\ \A c \in Calls, k \in CacheKeys :
         joined[c] = cache[k].fetch /\ joined[c] # NoFetch => lookup[c] = k
    /\ \A c, d \in Calls :
         joined[c] = joined[d] /\ joined[c] # NoFetch => lookup[c] = lookup[d]

\* A fetch that succeeded is the one the map names for as long as anyone who joined
\* it is there, and is ready once one of them has returned.
SuccessServed ==
    \A c \in Calls :
        /\ phase[c] \in {"waiting", "settling", "returned"}
        /\ Succeeds(lookup[c], answer[joined[c]])
        => /\ cache[lookup[c]].fetch = joined[c]
           /\ phase[c] = "returned" => cache[lookup[c]].state = "ready"

\* What every step keeps.  That all calls of a key got one schema follows from it.
RegistryIInv ==
    /\ RegistryTypeOK /\ OneFetch /\ FailureForgotten
    /\ JoinedStarted /\ EntryNamed /\ FetchOfKey /\ SuccessServed

-------------------------------------------------------------------------------
(***************************************************************************)
(* The steps                                                               *)
(***************************************************************************)

\* A call that finds its schema ready.
LEMMA HitStep ==
    ASSUME RegistryIInv, NEW c \in Calls, NEW k \in CacheKeys, Hit(c, k)
    PROVE  RegistryIInv'
<1> USE KeysAssumption DEF RegistryIInv, RegistryTypeOK, Fetches, NoFetch, Phases, Succeeds
<1>1. /\ phase[c] = "idle" /\ cache[k].state = "ready"
      /\ phase' = [phase EXCEPT ![c] = "returned"]
      /\ lookup' = [lookup EXCEPT ![c] = k]
      /\ joined' = [joined EXCEPT ![c] = cache[k].fetch]
      /\ result' \in [Calls -> Results]
      /\ UNCHANGED <<cache, fetches, answer>>
  BY DEF Hit, Join, Outcomes, Results
<1>2. RegistryTypeOK'
  BY <1>1
<1>3. OneFetch'
  BY <1>1 DEF OneFetch
<1>4. FailureForgotten'
  BY <1>1 DEF FailureForgotten, FetchOfKey, EntryNamed
<1>5. JoinedStarted'
  BY <1>1 DEF JoinedStarted, EntryNamed
<1>6. EntryNamed'
  BY <1>1 DEF EntryNamed
<1>7. FetchOfKey'
  BY <1>1 DEF FetchOfKey
<1>8. SuccessServed'
  BY <1>1 DEF SuccessServed
<1>9. QED
  BY <1>2, <1>3, <1>4, <1>5, <1>6, <1>7, <1>8

\* A call that joins the fetch under way.
LEMMA ShareStep ==
    ASSUME RegistryIInv, NEW c \in Calls, NEW k \in CacheKeys, Share(c, k)
    PROVE  RegistryIInv'
<1> USE KeysAssumption DEF RegistryIInv, RegistryTypeOK, Fetches, NoFetch, Phases, Succeeds
<1>1. /\ phase[c] = "idle" /\ cache[k].state = "fetching"
      /\ phase' = [phase EXCEPT ![c] = "waiting"]
      /\ lookup' = [lookup EXCEPT ![c] = k]
      /\ joined' = [joined EXCEPT ![c] = cache[k].fetch]
      /\ UNCHANGED <<cache, fetches, answer, result>>
  BY DEF Share, Join
<1>2. RegistryTypeOK'
  BY <1>1
<1>3. OneFetch'
  BY <1>1 DEF OneFetch
<1>4. FailureForgotten'
  BY <1>1 DEF FailureForgotten
<1>5. JoinedStarted'
  BY <1>1 DEF JoinedStarted, EntryNamed
<1>6. EntryNamed'
  BY <1>1 DEF EntryNamed
<1>7. FetchOfKey'
  BY <1>1 DEF FetchOfKey
<1>8. SuccessServed'
  BY <1>1 DEF SuccessServed
<1>9. QED
  BY <1>2, <1>3, <1>4, <1>5, <1>6, <1>7, <1>8

\* A call that starts a fetch.
LEMMA MissStep ==
    ASSUME RegistryIInv, NEW c \in Calls, NEW k \in CacheKeys, Miss(c, k)
    PROVE  RegistryIInv'
<1> USE KeysAssumption DEF RegistryIInv, RegistryTypeOK, Fetches, NoFetch, Phases, Succeeds
<1>1. /\ phase[c] = "idle" /\ cache[k].state = "absent"
      /\ fetches' = fetches + 1 /\ fetches' \in Fetches
      /\ cache' = [cache EXCEPT ![k] = [state |-> "fetching", fetch |-> fetches + 1]]
      /\ phase' = [phase EXCEPT ![c] = "waiting"]
      /\ lookup' = [lookup EXCEPT ![c] = k]
      /\ joined' = [joined EXCEPT ![c] = fetches + 1]
      /\ UNCHANGED <<answer, result>>
  BY DEF Miss, Join
<1>2. RegistryTypeOK'
  BY <1>1
<1>3. OneFetch'
  BY <1>1 DEF OneFetch
<1>4. FailureForgotten'
  BY <1>1 DEF FailureForgotten
<1>5. JoinedStarted'
  BY <1>1 DEF JoinedStarted
<1>6. EntryNamed'
  BY <1>1 DEF EntryNamed
<1>7. FetchOfKey'
  BY <1>1 DEF FetchOfKey
<1>8. SuccessServed'
  BY <1>1 DEF SuccessServed, EntryNamed, JoinedStarted
<1>9. QED
  BY <1>2, <1>3, <1>4, <1>5, <1>6, <1>7, <1>8

\* A waiter polls the fetch to its end.
LEMMA FinishStep ==
    ASSUME RegistryIInv, NEW c \in Calls, NEW a \in Answers, Finish(c, a)
    PROVE  RegistryIInv'
<1> USE KeysAssumption DEF RegistryIInv, RegistryTypeOK, Fetches, NoFetch, Phases, Succeeds
<1>1. /\ phase[c] = "waiting" /\ answer[joined[c]] = "pending" /\ joined[c] \in Fetches
      /\ answer' = [answer EXCEPT ![joined[c]] = a]
      /\ phase' = [phase EXCEPT ![c] = "settling"]
      /\ UNCHANGED <<cache, fetches, lookup, joined, result>>
  BY DEF Finish, JoinedStarted
<1>2. RegistryTypeOK'
  BY <1>1
<1>3. OneFetch'
  BY <1>1 DEF OneFetch
<1>4. FailureForgotten'
  BY <1>1 DEF FailureForgotten
<1>5. JoinedStarted'
  BY <1>1 DEF JoinedStarted, Answers
<1>6. EntryNamed'
  BY <1>1 DEF EntryNamed
<1>7. FetchOfKey'
  BY <1>1 DEF FetchOfKey
<1>8. SuccessServed'
  <2>1. SUFFICES ASSUME NEW d \in Calls, phase'[d] \in {"waiting", "settling", "returned"},
                        Succeeds(lookup[d], answer'[joined[d]])
                 PROVE  /\ cache[lookup[d]].fetch = joined[d]
                        /\ phase'[d] = "returned" => cache[lookup[d]].state = "ready"
    BY <1>1 DEF SuccessServed
  <2>2. CASE joined[d] = joined[c]
    <3>1. lookup[d] = lookup[c] /\ cache[lookup[c]] = [state |-> "fetching", fetch |-> joined[c]]
      BY <1>1, <2>2 DEF FetchOfKey, OneFetch
    <3>2. phase'[d] # "returned"
      BY <1>1, <2>2 DEF JoinedStarted
    <3>3. QED
      BY <2>2, <3>1, <3>2
  <2>3. CASE joined[d] # joined[c]
    BY <1>1, <2>1, <2>3 DEF SuccessServed, JoinedStarted
  <2>4. QED
    BY <2>2, <2>3
<1>9. QED
  BY <1>2, <1>3, <1>4, <1>5, <1>6, <1>7, <1>8

\* A waiter is woken with the outcome, or dropped.
LEMMA LeaveStep ==
    ASSUME RegistryIInv, NEW c \in Calls, Wake(c) \/ Drop(c)
    PROVE  RegistryIInv'
<1> USE KeysAssumption DEF RegistryIInv, RegistryTypeOK, Fetches, NoFetch, Phases, Succeeds
<1>1. /\ phase[c] = "waiting"
      /\ \/ phase' = [phase EXCEPT ![c] = "settling"] /\ answer[joined[c]] # "pending"
         \/ phase' = [phase EXCEPT ![c] = "dropped"]
      /\ UNCHANGED <<cache, fetches, answer, lookup, joined, result>>
  BY DEF Wake, Drop
<1>2. RegistryTypeOK'
  BY <1>1
<1>3. OneFetch'
  BY <1>1 DEF OneFetch
<1>4. FailureForgotten'
  BY <1>1 DEF FailureForgotten
<1>5. JoinedStarted'
  BY <1>1 DEF JoinedStarted
<1>6. EntryNamed'
  BY <1>1 DEF EntryNamed
<1>7. FetchOfKey'
  BY <1>1 DEF FetchOfKey
<1>8. SuccessServed'
  BY <1>1 DEF SuccessServed
<1>9. QED
  BY <1>2, <1>3, <1>4, <1>5, <1>6, <1>7, <1>8

\* A waiter settles the entry, if it still is the fetch it waited on.
LEMMA SettleStep ==
    ASSUME RegistryIInv, NEW c \in Calls, Settle(c)
    PROVE  RegistryIInv'
<1>1. RegistryTypeOK /\ OneFetch /\ FailureForgotten /\ JoinedStarted /\ EntryNamed /\ FetchOfKey
      /\ SuccessServed
  BY DEF RegistryIInv
<1>2. /\ phase[c] = "settling" /\ lookup[c] \in CacheKeys
      /\ joined[c] \in Nat /\ joined[c] # NoFetch /\ joined[c] <= fetches
      /\ answer[joined[c]] # "pending" /\ answer[joined[c]] \in Answers
  BY <1>1, KeysAssumption DEF Settle, JoinedStarted, RegistryTypeOK, Fetches, NoFetch
<1>3. /\ phase' = [phase EXCEPT ![c] = "returned"]
      /\ UNCHANGED <<fetches, answer, lookup, joined>>
  BY DEF Settle
<1>4. result' \in [Calls -> Results]
  <2>1. Outcomes(lookup[c], answer[joined[c]]) \subseteq Results
    BY <1>2 DEF Outcomes, Results, Answers
  <2>2. QED
    BY <1>1, <2>1 DEF Settle, RegistryTypeOK
<1>5. PICK k \in CacheKeys : k = lookup[c]
  BY <1>2
<1> DEFINE mine == cache[k].state = "fetching" /\ cache[k].fetch = joined[c]
           won  == Succeeds(k, answer[joined[c]])
<1>6. /\ cache' \in [CacheKeys -> [state : {"absent", "fetching", "ready"}, fetch : Nat]]
      /\ \A j \in CacheKeys : j # k => cache'[j] = cache[j]
      /\ ~mine => cache'[k] = cache[k]
      /\ mine /\ won => cache'[k].state = "ready" /\ cache'[k].fetch = joined[c]
      /\ mine /\ ~won => cache'[k].state = "absent" /\ cache'[k].fetch = NoFetch
  BY <1>1, <1>2, <1>5 DEF Settle, SettleEntry, Settled, Absent, RegistryTypeOK, NoFetch
<1>7. RegistryTypeOK'
  <2>1. ASSUME NEW j \in CacheKeys
        PROVE  /\ cache'[j].fetch <= fetches
               /\ cache'[j].state = "ready" => Succeeds(j, answer[cache'[j].fetch])
    <3>1. CASE j = k
      BY <1>1, <1>2, <1>6, <3>1, KeysAssumption DEF RegistryTypeOK, NoFetch
    <3>2. CASE j # k
      BY <1>1, <1>6, <3>2 DEF RegistryTypeOK
    <3>3. QED
      BY <3>1, <3>2
  <2>2. phase' \in [Calls -> Phases]
    BY <1>1, <1>3 DEF RegistryTypeOK, Phases
  <2>3. QED
    BY <1>1, <1>3, <1>4, <1>6, <2>1, <2>2 DEF RegistryTypeOK
<1>8. OneFetch'
  BY <1>1, <1>2, <1>3, <1>5, <1>6 DEF OneFetch, RegistryTypeOK
<1>9. FailureForgotten'
  BY <1>1, <1>2, <1>3, <1>5, <1>6 DEF FailureForgotten, FetchOfKey, RegistryTypeOK
<1>10. JoinedStarted'
  BY <1>1, <1>2, <1>3 DEF JoinedStarted, RegistryTypeOK
<1>11. EntryNamed'
  BY <1>1, <1>2, <1>6 DEF EntryNamed
<1>12. FetchOfKey'
  BY <1>1, <1>2, <1>3, <1>6 DEF FetchOfKey
<1>13. SuccessServed'
  <2>1. SUFFICES ASSUME NEW d \in Calls, phase'[d] \in {"waiting", "settling", "returned"},
                        Succeeds(lookup[d], answer[joined[d]])
                 PROVE  /\ cache'[lookup[d]].fetch = joined[d]
                        /\ phase'[d] = "returned" => cache'[lookup[d]].state = "ready"
    BY <1>3 DEF SuccessServed
  <2>2. /\ lookup[d] \in CacheKeys
        /\ phase[d] \in {"waiting", "settling", "returned"} /\ joined[d] # NoFetch
        /\ cache[lookup[d]].fetch = joined[d]
        /\ phase[d] = "returned" => cache[lookup[d]].state = "ready"
    BY <1>1, <1>2, <1>3, <2>1 DEF SuccessServed, JoinedStarted, RegistryTypeOK
  <2>3. CASE lookup[d] = k
    <3>1. joined[c] = joined[d] \/ ~mine
      BY <2>2, <2>3
    <3>2. CASE mine
      BY <1>6, <2>1, <2>2, <2>3, <3>1, <3>2
    <3>3. CASE ~mine
      <4>1. cache[k].state # "absent"
        BY <1>1, <2>2, <2>3 DEF EntryNamed
      <4>2. CASE d = c
        BY <1>1, <1>6, <2>2, <2>3, <3>3, <4>1, <4>2 DEF RegistryTypeOK
      <4>3. CASE d # c
        BY <1>1, <1>3, <1>6, <2>2, <2>3, <3>3, <4>3 DEF RegistryTypeOK
      <4>4. QED
        BY <4>2, <4>3
    <3>4. QED
      BY <3>2, <3>3
  <2>4. CASE lookup[d] # k
    BY <1>3, <1>5, <1>6, <2>2, <2>4
  <2>5. QED
    BY <2>3, <2>4
<1>14. QED
  BY <1>7, <1>8, <1>9, <1>10, <1>11, <1>12, <1>13 DEF RegistryIInv

-------------------------------------------------------------------------------
(***************************************************************************)
(* The theorems                                                            *)
(***************************************************************************)

\* The cache starts empty and nobody waits.
LEMMA RegistryInitStep ==
    ASSUME RegistryInit
    PROVE  RegistryIInv
<1>1. (CHOOSE k \in CacheKeys : TRUE) \in CacheKeys
  BY KeysAssumption DEF CacheKeys
<1> USE DEF RegistryInit, RegistryStarts, Absent, NoFetch
<1>2. RegistryTypeOK
  BY <1>1, KeysAssumption DEF RegistryTypeOK, Phases, Results
<1>3. QED
  BY <1>2 DEF RegistryIInv, OneFetch, FailureForgotten, JoinedStarted, EntryNamed, FetchOfKey, SuccessServed

\* A step of any call.
LEMMA NextStep ==
    ASSUME RegistryIInv, [RegistryNext]_registryVars
    PROVE  RegistryIInv'
<1>1. CASE RegistryNext
  BY <1>1, HitStep, ShareStep, MissStep, FinishStep, LeaveStep, SettleStep DEF RegistryNext
<1>2. CASE UNCHANGED registryVars
  BY <1>2 DEF registryVars, RegistryIInv, RegistryTypeOK, OneFetch, FailureForgotten, JoinedStarted, EntryNamed,
              FetchOfKey, SuccessServed, Succeeds
<1>3. QED
  BY <1>1, <1>2

\* All the calls of a key that succeeded got the schema its entry names.
LEMMA ServedSame ==
    ASSUME RegistryIInv
    PROVE  RegistryInv
BY DEF RegistryIInv, SuccessServed, SameSchema, RegistryInv

\* get_or_fetch runs one fetch per key at a time, whoever is dropped at its await; a
\* failed one is out of the map before anyone returns it, and all the calls of a key
\* that succeed return one schema.
THEOREM RegistryKept == RegistrySpec => []RegistryInv
<1>1. RegistryInit => RegistryIInv
  BY RegistryInitStep
<1>2. RegistryIInv /\ [RegistryNext]_registryVars => RegistryIInv'
  BY NextStep
<1>3. RegistryIInv => RegistryInv
  BY ServedSame
<1>4. QED
  BY <1>1, <1>2, <1>3, PTL DEF RegistrySpec

\* A schema that is ready is ready for the life of the process: a waiter that settles
\* late, after the fetch it waited on has failed and another has succeeded, leaves it.
THEOREM ReadyForGood == RegistrySpec => SuccessKept
<1>1. RegistryInit => RegistryIInv
  BY RegistryInitStep
<1>2. RegistryIInv /\ [RegistryNext]_registryVars => RegistryIInv'
  BY NextStep
<1>3. RegistryIInv /\ [RegistryNext]_registryVars =>
        [\A k \in CacheKeys : cache[k].state = "ready" => cache'[k] = cache[k]]_registryVars
  <2>1. SUFFICES ASSUME RegistryIInv, RegistryNext, NEW k \in CacheKeys, cache[k].state = "ready"
                 PROVE  cache'[k] = cache[k]
    OBVIOUS
  <2>2. RegistryTypeOK
    BY <2>1 DEF RegistryIInv
  <2>3. CASE \E c \in Calls, j \in CacheKeys : Miss(c, j)
    BY <2>1, <2>2, <2>3 DEF Miss, RegistryTypeOK
  <2>4. CASE \E c \in Calls : Settle(c)
    BY <2>1, <2>2, <2>4 DEF Settle, SettleEntry, RegistryTypeOK
  <2>5. CASE UNCHANGED cache
    BY <2>5
  <2>6. QED
    BY <2>1, <2>3, <2>4, <2>5 DEF RegistryNext, Hit, Share, Finish, Wake, Drop
<1>4. QED
  BY <1>1, <1>2, <1>3, PTL DEF RegistrySpec, SuccessKept

===============================================================================
