-------------------------- MODULE KafkaOffsetsProofs --------------------------
(***************************************************************************)
(* For any set of partitions and any bounds: the committed offset never    *)
(* passes a record that is not settled (KafkaOffsets!AtLeastOnce).         *)
(***************************************************************************)
EXTENDS KafkaOffsets, WellFoundedInduction, TLAPS

-------------------------------------------------------------------------------
(***************************************************************************)
(* The operators of the tracker                                            *)
(***************************************************************************)

\* A set of naturals that is not empty has a least element.
LEMMA LeastNatural ==
    ASSUME NEW T, T \subseteq Nat, T # {}
    PROVE  \E n \in T : \A m \in T : n <= m
<1>1. PICK n \in T : \A m \in T : ~(<<m, n>> \in OpToRel(<, Nat))
  BY NatLessThanWellFounded, WFMin, Zenon
<1>2. \A m \in T : ~(m < n)
  BY <1>1 DEF OpToRel
<1>3. QED
  BY <1>2

\* Tracker::advance stops at the first number above the watermark that has no
\* report: it is above the old watermark and everything between is reported.
LEMMA AdvanceFirst ==
    ASSUME NEW d \in Nat, NEW ooo \in SUBSET Nat,
           NEW bound \in Nat, d < bound, \A m \in ooo : m < bound
    PROVE  /\ Advance(d, ooo) \in Nat
           /\ d < Advance(d, ooo)
           /\ Advance(d, ooo) <= bound
           /\ Advance(d, ooo) \notin ooo
           /\ \A m \in Nat : d < m /\ m < Advance(d, ooo) => m \in ooo
<1> DEFINE T == {n \in Nat : n > d /\ n \notin ooo}
<1>1. bound \in T
  OBVIOUS
<1>2. PICK n \in T : \A m \in T : n <= m
  BY <1>1, LeastNatural
<1>3. Unreported(d, ooo) \subseteq T
  BY DEF Unreported
<1>4. n \in Unreported(d, ooo)
  <2>1. n - 1 \in Nat /\ n - 1 < n
    OBVIOUS
  <2>2. n - 1 = d \/ n - 1 \in ooo
    BY <2>1, <1>2
  <2>3. QED
    BY <2>1, <2>2 DEF Unreported
<1>5. /\ Advance(d, ooo) \in Unreported(d, ooo)
      /\ \A m \in Unreported(d, ooo) : Advance(d, ooo) <= m
  <2>1. \E k \in Unreported(d, ooo) : \A m \in Unreported(d, ooo) : k <= m
    BY <1>2, <1>3, <1>4
  <2>2. QED
    BY <2>1 DEF Advance
<1>6. Advance(d, ooo) = n
  <2>1. Advance(d, ooo) \in T
    BY <1>3, <1>5
  <2>2. n <= Advance(d, ooo) /\ Advance(d, ooo) <= n
    BY <1>2, <1>4, <1>5, <2>1
  <2>3. QED
    BY <2>1, <2>2
<1>7. QED
  BY <1>1, <1>2, <1>6

\* What a resolve removes is settled, provided entries are done only by a
\* completed pull of theirs and completions without outstanding sends are settled.
LEMMA RunSettled ==
    ASSUME NEW q \in Partitions, NEW pend \in SUBSET Entry, NEW w \in Nat,
           NEW outstanding \in SUBSET Nat, \A id \in outstanding : w <= id,
           NEW compl \in SUBSET Completions, NEW sett,
           Eligible(compl, outstanding) \subseteq sett,
           \A e \in pend : e.done =>
               [p |-> q, offset |-> e.offset, ticket |-> e.ticket,
                mark |-> e.sendsBefore] \in compl,
           NEW e \in pend, Resolved(e, w)
    PROVE  [p |-> q, offset |-> e.offset] \in sett
<1> DEFINE c == [p |-> q, offset |-> e.offset, ticket |-> e.ticket, mark |-> e.sendsBefore]
<1>1. c \in compl /\ e.sendsBefore <= w
  BY DEF Resolved
<1>2. \A id \in outstanding : id >= c.mark
  BY <1>1 DEF Entry
<1>3. [p |-> c.p, offset |-> c.offset] \in Eligible(compl, outstanding)
  BY <1>1, <1>2 DEF Eligible
<1>4. QED
  BY <1>3

\* Of the entries of q: a resolved one is settled, and every offset up to one is
\* settled or among them.
RunCovered(q, pend, w, sett) ==
    /\ \A e \in pend : Resolved(e, w) => [p |-> q, offset |-> e.offset] \in sett
    /\ \A e \in pend : \A o \in 0 .. e.offset :
         [p |-> q, offset |-> o] \in sett \/ \E f \in pend : f.offset = o

\* A store for q, made by thread `by`, that passes only settled records.
StoreCovered(s, q, by, sett) ==
    /\ s \in [p: {q}, offset: Nat, ticket: Nat, by: {by}]
    /\ s.p = q
    /\ \A o \in 0 .. s.offset : [p |-> q, offset |-> o] \in sett

\* The stores a resolve returns pass only settled records, when every offset up
\* to the last entry is settled or among the entries.
LEMMA StoresOfSettled ==
    ASSUME NEW q \in Partitions, NEW pend \in SUBSET Entry, NEW w \in Nat,
           NEW sett, NEW by, RunCovered(q, pend, w, sett)
    PROVE  \A s \in StoresOf(q, pend, w, by) : StoreCovered(s, q, by, sett)
<1> SUFFICES ASSUME NEW s \in StoresOf(q, pend, w, by)
             PROVE  StoreCovered(s, q, by, sett)
  OBVIOUS
<1>1. PICK e \in LeadingRun(pend, w) :
        s = [p |-> q, offset |-> e.offset, ticket |-> e.ticket, by |-> by]
  BY DEF StoresOf, LastResolved
<1>2. e \in pend /\ \A f \in pend : f.offset <= e.offset => Resolved(f, w)
  BY <1>1 DEF LeadingRun
<1>3. e.offset \in Nat /\ e.ticket \in Nat
  BY <1>2 DEF Entry
<1>4. \A o \in 0 .. e.offset : [p |-> q, offset |-> o] \in sett
  <2> TAKE o \in 0 .. e.offset
  <2>1. CASE \E f \in pend : f.offset = o
    BY <1>2, <1>3, <2>1 DEF RunCovered
  <2>2. QED
    BY <1>2, <2>1 DEF RunCovered
<1>5. QED
  BY <1>1, <1>3, <1>4 DEF StoreCovered

\* Marking an entry done keeps the offsets that are held, and the entry it
\* changes carries the offset, the ticket and the send count it was given.
LEMMA SetDoneHolds ==
    ASSUME NEW pend \in SUBSET Entry, NEW offset \in Nat, NEW ticket \in Nat,
           NEW mark \in Nat, NEW after, after = SetDone(pend, offset, ticket, mark)
    PROVE  /\ after \in SUBSET Entry
           /\ \A f \in after : \/ f \in pend
                               \/ /\ f.offset = offset /\ f.ticket = ticket
                                  /\ f.sendsBefore = mark
                                  /\ \E e \in pend : e.offset = offset
           /\ \A e \in pend : \E f \in after : f.offset = e.offset
<1> DEFINE new(e) == [e EXCEPT !.done = TRUE, !.sendsBefore = mark]
<1>1. \A e \in Entry : /\ new(e) \in Entry
                       /\ new(e).offset = e.offset
                       /\ new(e).ticket = e.ticket
                       /\ new(e).sendsBefore = mark
  BY DEF Entry
<1>2. after = {e \in pend : ~(e.offset = offset /\ e.ticket = ticket)}
                \cup {new(e) : e \in {f \in pend : f.offset = offset /\ f.ticket = ticket}}
  BY DEF SetDone
<1> HIDE DEF new
<1>3. QED
  BY <1>1, <1>2

-------------------------------------------------------------------------------
(***************************************************************************)
(* The inductive invariant                                                 *)
(***************************************************************************)

\* The invariant holds in the initial state, where nothing is pulled or sent.
LEMMA InitIInv == Init => IInv
<1> SUFFICES ASSUME Init PROVE IInv
  OBVIOUS
<1>1. TypeOK
  BY DEF Init, TypeOK, Entry
<1>2. WatermarkExact
  BY DEF Init, WatermarkExact
<1>3. OwnPullDone /\ SettledComplete /\ HeldOwned /\ Gapless
  BY DEF Init, OwnPullDone, SettledComplete, Eligible, HeldOwned, Gapless
<1>4. StoresSettled /\ AtLeastOnce
  BY DEF Init, StoresSettled, AtLeastOnce
<1>5. QED
  BY <1>1, <1>2, <1>3, <1>4 DEF IInv

\* Poll: the polled record is the one just below the new position.
LEMMA PollStep ==
    ASSUME IInv, NEW p \in Partitions, Poll(p) PROVE IInv'
<1> USE DEF IInv
<1>1. TypeOK'
  BY DEF TypeOK, Poll, Records, trackerVars, sendVars, historyVars, boundVars
<1>2. /\ UNCHANGED <<sends, sending, queued, delivered, outOfOrder, pending, completions,
                     returned, settled, storing, stored, committed, owner, revoked>>
      /\ polled = {} /\ polled' = {[p |-> p, offset |-> position[p]]}
      /\ position' = [position EXCEPT ![p] = position[p] + 1]
      /\ owner[p] = "owned"
  BY DEF Poll, trackerVars, sendVars, historyVars, boundVars
<1>3. WatermarkExact' /\ OwnPullDone' /\ SettledComplete'
  BY <1>2 DEF WatermarkExact, OwnPullDone, SettledComplete
<1>4. HeldOwned'
  BY <1>2 DEF HeldOwned, TypeOK, Entry
<1>5. Gapless'
  BY <1>2 DEF Gapless, TypeOK
<1>6. StoresSettled' /\ AtLeastOnce'
  BY <1>2 DEF StoresSettled, AtLeastOnce
<1>7. QED
  BY <1>1, <1>3, <1>4, <1>5, <1>6

\* Admit: the tracker holds the record's offset, unless its partition was
\* revoked after the poll.
LEMMA AdmitStep ==
    ASSUME IInv, NEW r \in polled, Admit(r) PROVE IInv'
<1> USE DEF IInv
<1>1. /\ UNCHANGED <<sends, sending, queued, delivered, outOfOrder, completions,
                     returned, settled, storing, stored, committed, owner, revoked, position>>
      /\ polled' = {}
      /\ pending' = [pending EXCEPT ![r.p] = Insert(pending[r.p], revoked[r.p], r.offset, tickets)]
  BY DEF Admit, kafkaVars, sendVars, historyVars, boundVars
<1>2. r \in Records /\ r.p \in Partitions /\ r.offset \in Nat /\ tickets \in Nat
  BY DEF TypeOK, Records
<1>a. PICK after : after = Insert(pending[r.p], revoked[r.p], r.offset, tickets)
  OBVIOUS
<1>3. /\ after \in SUBSET Entry
      /\ \A e \in after :
           e \in pending[r.p] \/ (~revoked[r.p] /\ e.offset = r.offset /\ e.done = FALSE)
      /\ \A e \in pending[r.p] : \E f \in after : f.offset = e.offset
      /\ ~revoked[r.p] => \E f \in after : f.offset = r.offset
  <2>1. pending[r.p] \in SUBSET Entry /\ revoked[r.p] \in BOOLEAN
    BY <1>2 DEF TypeOK
  <2>2. CASE revoked[r.p]
    BY <1>a, <2>1, <2>2 DEF Insert
  <2>3. CASE ~revoked[r.p]
    <3> DEFINE new == [offset |-> r.offset, ticket |-> tickets, done |-> FALSE, sendsBefore |-> 0]
    <3>1. after = {e \in pending[r.p] : e.offset # r.offset} \cup {new}
      BY <1>a, <2>3 DEF Insert
    <3>2. new \in Entry /\ new.offset = r.offset /\ new.done = FALSE
      BY <1>2 DEF Entry
    <3>3. QED
      BY <2>1, <2>3, <3>1, <3>2
  <2>4. QED
    BY <2>2, <2>3
<1>4. TypeOK'
  <2>1. running' \subseteq Pulls /\ tickets' \in Nat
    BY <1>2 DEF Admit, Pulls, TypeOK
  <2>2. UNCHANGED <<failed, rebalances, restarts>>
    BY DEF Admit, boundVars
  <2>3. pending' \in [Partitions -> SUBSET Entry]
    BY <1>1, <1>a, <1>2, <1>3 DEF TypeOK
  <2>4. QED
    BY <1>1, <2>1, <2>2, <2>3 DEF TypeOK
<1>5. WatermarkExact' /\ SettledComplete' /\ StoresSettled' /\ AtLeastOnce'
  BY <1>1 DEF WatermarkExact, SettledComplete, StoresSettled, AtLeastOnce
<1>6. pending' = [pending EXCEPT ![r.p] = after]
  BY <1>1, <1>a
<1>7. OwnPullDone'
  BY <1>1, <1>2, <1>3, <1>6 DEF OwnPullDone, TypeOK
<1>8. HeldOwned'
  BY <1>1, <1>2, <1>3, <1>6 DEF HeldOwned, TypeOK
<1>9. Gapless'
  BY <1>1, <1>2, <1>3, <1>6 DEF Gapless, HeldOwned, TypeOK
<1>10. QED
  BY <1>4, <1>5, <1>7, <1>8, <1>9

\* Skip and Fail only end a task.
LEMMA EndTaskStep ==
    ASSUME IInv, NEW t \in running, Skip(t) \/ Fail(t) PROVE IInv'
<1> USE DEF IInv
<1>1. /\ UNCHANGED <<revoked, pending, delivered, outOfOrder, tickets, sends, sending, queued,
                     polled, returned, storing, owner, position, stored, committed,
                     completions, settled, rebalances, restarts>>
      /\ running' \subseteq running /\ failed' \in BOOLEAN
  BY DEF Skip, Fail, trackerVars, sendVars, kafkaVars, historyVars, boundVars, TypeOK
<1>2. TypeOK'
  BY <1>1 DEF TypeOK
<1>3. WatermarkExact' /\ OwnPullDone' /\ SettledComplete' /\ HeldOwned' /\ Gapless'
  BY <1>1 DEF WatermarkExact, OwnPullDone, SettledComplete, HeldOwned, Gapless
<1>4. StoresSettled' /\ AtLeastOnce'
  BY <1>1 DEF StoresSettled, AtLeastOnce
<1>5. QED
  BY <1>2, <1>3, <1>4

\* Growing the settled set keeps everything that says a record is settled.
LEMMA SettledGrows ==
    ASSUME IInv, settled \subseteq settled',
           UNCHANGED <<pending, polled, storing, owner, position, stored, committed>>
    PROVE  Gapless' /\ StoresSettled' /\ AtLeastOnce'
BY DEF IInv, Gapless, StoresSettled, AtLeastOnce

\* Return: a new completion, settled at once when no earlier send is outstanding.
LEMMA ReturnStep ==
    ASSUME IInv, NEW t \in running, Return(t) PROVE IInv'
<1> USE DEF IInv
<1> DEFINE c == [p |-> t.p, offset |-> t.offset, ticket |-> t.ticket, mark |-> sends]
<1>1. /\ UNCHANGED <<revoked, pending, delivered, outOfOrder, tickets, sends, sending, queued,
                     polled, failed, storing, owner, position, stored, committed,
                     rebalances, restarts>>
      /\ running' \subseteq running
      /\ returned' = returned \cup {c}
      /\ completions' = completions \cup {c}
      /\ settled' = settled \cup Eligible({c}, sending \cup queued)
  BY DEF Return, trackerVars, sendVars, kafkaVars, boundVars
<1>2. c \in Completions /\ [p |-> c.p, offset |-> c.offset] \in Records
  BY DEF TypeOK, Pulls, Completions, Records
<1>3. TypeOK'
  BY <1>1, <1>2 DEF TypeOK, Eligible
<1>4. WatermarkExact' /\ HeldOwned'
  BY <1>1 DEF WatermarkExact, HeldOwned
<1>5. OwnPullDone'
  BY <1>1 DEF OwnPullDone
<1>6. SettledComplete'
  BY <1>1 DEF SettledComplete, Eligible
<1>7. Gapless' /\ StoresSettled' /\ AtLeastOnce'
  BY <1>1, SettledGrows
<1>8. QED
  BY <1>3, <1>4, <1>5, <1>6, <1>7

\* Done: what the resolve removes is settled, and so is everything up to the
\* offset it returns.
LEMMA DoneStep ==
    ASSUME IInv, NEW c \in returned, Done(c) PROVE IInv'
<1> USE DEF IInv
<1>1. /\ UNCHANGED <<revoked, delivered, outOfOrder, tickets, sends, sending, queued,
                     polled, running, failed, owner, position, stored, committed,
                     completions, settled, rebalances, restarts>>
      /\ returned' \subseteq returned
  BY DEF Done, sendVars, kafkaVars, historyVars, boundVars
<1>2. /\ c \in Completions /\ c \in completions
      /\ c.p \in Partitions /\ c.offset \in Nat /\ c.ticket \in Nat /\ c.mark \in Nat
      /\ c = [p |-> c.p, offset |-> c.offset, ticket |-> c.ticket, mark |-> c.mark]
  BY DEF TypeOK, Completions, SettledComplete
<1>3. CASE ~Holds(pending[c.p], c.offset, c.ticket)
  <2>1. UNCHANGED <<pending, storing>>
    BY <1>3 DEF Done
  <2>2. TypeOK'
    BY <1>1, <2>1 DEF TypeOK
  <2>3. WatermarkExact' /\ OwnPullDone' /\ SettledComplete' /\ HeldOwned'
    BY <1>1, <2>1 DEF WatermarkExact, OwnPullDone, SettledComplete, HeldOwned
  <2>4. Gapless' /\ StoresSettled' /\ AtLeastOnce'
    BY <1>1, <2>1, SettledGrows
  <2>5. QED
    BY <2>2, <2>3, <2>4
<1>4. CASE Holds(pending[c.p], c.offset, c.ticket)
  <2>a. PICK pend : pend = SetDone(pending[c.p], c.offset, c.ticket, c.mark)
    OBVIOUS
  <2>1. /\ pending' = [pending EXCEPT ![c.p] = Resolve(pend, delivered)]
        /\ storing' = storing \cup StoresOf(c.p, pend, delivered, "task")
    BY <1>4, <2>a DEF Done
  <2>2. /\ pend \in SUBSET Entry
        /\ \A f \in pend : \/ f \in pending[c.p]
                           \/ /\ f.offset = c.offset /\ f.ticket = c.ticket
                              /\ f.sendsBefore = c.mark
                              /\ \E e \in pending[c.p] : e.offset = c.offset
        /\ \A e \in pending[c.p] : \E f \in pend : f.offset = e.offset
    BY <1>2, <2>a, SetDoneHolds DEF TypeOK
  <2>3. \A f \in pend : f.done =>
          [p |-> c.p, offset |-> f.offset, ticket |-> f.ticket,
           mark |-> f.sendsBefore] \in completions
    BY <1>2, <2>2 DEF OwnPullDone
  <2>4. owner[c.p] = "owned"
    BY <1>2, <1>4 DEF Holds, HeldOwned
  <2>5. \A f \in pend : f.offset < position[c.p]
                        /\ ([p |-> c.p, offset |-> position[c.p] - 1] \in polled
                              => f.offset < position[c.p] - 1)
    BY <1>2, <2>2, <2>4 DEF HeldOwned, TypeOK, Records, Entry
  <2>6. \A e \in pend : Resolved(e, delivered) => [p |-> c.p, offset |-> e.offset] \in settled
    <3>1. delivered \in Nat /\ sending \cup queued \in SUBSET Nat
          /\ \A id \in sending \cup queued : delivered <= id
      BY DEF TypeOK, WatermarkExact
    <3>2. completions \in SUBSET Completions
          /\ Eligible(completions, sending \cup queued) \subseteq settled
      BY DEF TypeOK, SettledComplete
    <3>3. QED
      BY <1>2, <2>2, <2>3, <3>1, <3>2, RunSettled
  <2>7. \A o \in 0 .. position[c.p] - 1 :
          \/ [p |-> c.p, offset |-> o] \in settled
          \/ \E f \in pend : f.offset = o
          \/ [p |-> c.p, offset |-> o] \in polled
    BY <1>2, <2>2, <2>4 DEF Gapless
  <2>8. \A e \in pend : \A o \in 0 .. e.offset :
          \/ [p |-> c.p, offset |-> o] \in settled
          \/ \E f \in pend : f.offset = o
    <3> TAKE e \in pend
    <3> TAKE o \in 0 .. e.offset
    <3>1. position[c.p] \in Nat /\ e.offset \in Nat
      BY <1>2, <2>2 DEF TypeOK, Entry
    <3>2. o \in 0 .. position[c.p] - 1
      BY <2>5, <3>1
    <3>3. [p |-> c.p, offset |-> o] \notin polled
      BY <1>2, <2>4, <2>5, <3>1, <3>2 DEF HeldOwned
    <3>4. QED
      BY <2>7, <3>2, <3>3
  <2>9. \A s \in StoresOf(c.p, pend, delivered, "task") : StoreCovered(s, c.p, "task", settled)
    <3>1. delivered \in Nat /\ RunCovered(c.p, pend, delivered, settled)
      BY <2>6, <2>8 DEF TypeOK, RunCovered
    <3>2. QED
      BY <1>2, <2>2, <3>1, StoresOfSettled
  <2>10. Resolve(pend, delivered) \subseteq pend
         /\ \A e \in pend \ Resolve(pend, delivered) : Resolved(e, delivered)
    BY <2>2 DEF Resolve, LeadingRun, Entry
  <2>11. TypeOK'
    <3>1. pending' \in [Partitions -> SUBSET Entry]
      BY <1>2, <2>1, <2>2, <2>10 DEF TypeOK
    <3>2. storing' \subseteq Stores
      BY <1>2, <2>1, <2>9 DEF TypeOK, Stores, StoreCovered
    <3>3. QED
      BY <1>1, <3>1, <3>2 DEF TypeOK
  <2>12. WatermarkExact' /\ SettledComplete'
    BY <1>1 DEF WatermarkExact, SettledComplete
  <2>13. OwnPullDone'
    BY <1>1, <1>2, <2>1, <2>3, <2>10 DEF OwnPullDone, TypeOK
  <2>14. HeldOwned'
    <3>1. \A q \in Partitions : \A e \in pending'[q] :
            \E f \in pending[q] : f.offset = e.offset
      BY <1>2, <2>1, <2>2, <2>10 DEF TypeOK
    <3>2. \A q \in Partitions :
            /\ owner'[q] = "owned" => ~revoked'[q]
            /\ pending'[q] # {} => owner'[q] = "owned"
            /\ \A e \in pending'[q] : e.offset < position'[q]
      BY <1>1, <3>1 DEF HeldOwned
    <3>3. \A r \in polled' : r.p \in Partitions
      BY <1>1 DEF TypeOK, Records
    <3>4. QED
      BY <1>1, <3>1, <3>2, <3>3 DEF HeldOwned
  <2>15. Gapless'
    BY <1>1, <1>2, <2>1, <2>6, <2>7, <2>10 DEF Gapless, TypeOK
  <2>16. StoresSettled' /\ AtLeastOnce'
    BY <1>1, <2>1, <2>9 DEF StoresSettled, AtLeastOnce, StoreCovered
  <2>17. QED
    BY <2>11, <2>12, <2>13, <2>14, <2>15, <2>16
<1>5. QED
  BY <1>3, <1>4

\* StoreOffset: the stored offset is one past an offset up to which all is settled.
LEMMA StoreStep ==
    ASSUME IInv, NEW s \in storing, StoreOffset(s) PROVE IInv'
<1> USE DEF IInv
<1>1. /\ UNCHANGED <<revoked, pending, delivered, outOfOrder, tickets, sends, sending, queued,
                     polled, running, returned, failed, owner, position, committed,
                     completions, settled, rebalances, restarts>>
      /\ storing' \subseteq storing
      /\ stored' = stored \/ stored' = [stored EXCEPT ![s.p] = s.offset + 1]
  BY DEF StoreOffset, trackerVars, sendVars, taskVars, historyVars, boundVars
<1>2. s.p \in Partitions /\ s.offset \in Nat
      /\ \A o \in 0 .. s.offset : [p |-> s.p, offset |-> o] \in settled
  BY DEF TypeOK, Stores, StoresSettled
<1>3. stored' \in [Partitions -> Nat]
  BY <1>1, <1>2 DEF TypeOK
<1>4. TypeOK'
  BY <1>1, <1>3 DEF TypeOK
<1>5. WatermarkExact' /\ OwnPullDone' /\ SettledComplete' /\ HeldOwned' /\ Gapless' /\ AtLeastOnce'
  BY <1>1 DEF WatermarkExact, OwnPullDone, SettledComplete, HeldOwned, Gapless, AtLeastOnce
<1>6. \A q \in Partitions : \A o \in 0 .. stored'[q] - 1 : [p |-> q, offset |-> o] \in settled
  <2> TAKE q \in Partitions
  <2>1. CASE stored'[q] = stored[q]
    BY <2>1 DEF StoresSettled
  <2>2. CASE stored'[q] # stored[q]
    <3>1. q = s.p /\ stored'[q] = s.offset + 1
      BY <1>1, <1>2, <2>2 DEF TypeOK
    <3>2. 0 .. stored'[q] - 1 = 0 .. s.offset
      BY <1>2, <3>1
    <3>3. QED
      BY <1>2, <3>1, <3>2
  <2>3. QED
    BY <2>1, <2>2
<1>7. StoresSettled'
  BY <1>1, <1>6 DEF StoresSettled
<1>8. QED
  BY <1>4, <1>5, <1>7

\* NextSendId and Enqueue: the outstanding numbers only grow, or change hands.
LEMMA NumberStep ==
    ASSUME IInv, NextSendId \/ \E id \in sending : Enqueue(id) PROVE IInv'
<1> USE DEF IInv
<1>1. /\ UNCHANGED <<revoked, pending, delivered, outOfOrder, tickets,
                     polled, running, returned, failed, storing, owner, position, stored,
                     committed, completions, settled, rebalances, restarts>>
      /\ \/ sends' = sends + 1 /\ sending' = sending \cup {sends} /\ queued' = queued
         \/ \E id \in sending : /\ sends' = sends
                                /\ sending' = sending \ {id}
                                /\ queued' = queued \cup {id}
  BY DEF NextSendId, Enqueue, trackerVars, taskVars, kafkaVars, historyVars, boundVars
<1>2. sends' \in Nat /\ sending' \subseteq Nat /\ queued' \subseteq Nat
  <2>1. sends \in Nat /\ sending \subseteq Nat /\ queued \subseteq Nat
    BY DEF TypeOK
  <2>2. CASE sends' = sends + 1 /\ sending' = sending \cup {sends} /\ queued' = queued
    BY <2>1, <2>2
  <2>3. CASE \E id \in sending : /\ sends' = sends
                                 /\ sending' = sending \ {id}
                                 /\ queued' = queued \cup {id}
    <3>1. PICK id \in sending : /\ sends' = sends
                                /\ sending' = sending \ {id}
                                /\ queued' = queued \cup {id}
      BY <2>3
    <3>2. QED
      BY <2>1, <3>1
  <2>4. QED
    BY <1>1, <2>2, <2>3
<1>a. TypeOK'
  BY <1>1, <1>2 DEF TypeOK
<1>3. WatermarkExact'
  <2>1. CASE sends' = sends + 1 /\ sending' = sending \cup {sends} /\ queued' = queued
    BY <1>1, <2>1 DEF WatermarkExact, TypeOK
  <2>2. CASE sends' = sends /\ \E id \in sending : /\ sending' = sending \ {id}
                                                   /\ queued' = queued \cup {id}
    <3>1. sending' \cup queued' = sending \cup queued /\ sending' \cap queued' = {}
      BY <2>2 DEF WatermarkExact
    <3>2. QED
      BY <1>1, <2>2, <3>1 DEF WatermarkExact
  <2>3. QED
    BY <1>1, <2>1, <2>2
<1>4. OwnPullDone' /\ HeldOwned' /\ Gapless' /\ StoresSettled' /\ AtLeastOnce'
  BY <1>1 DEF OwnPullDone, HeldOwned, Gapless, StoresSettled, AtLeastOnce
<1>5. SettledComplete'
  <2>1. sending \cup queued \subseteq sending' \cup queued'
    BY <1>1
  <2>2. Eligible(completions, sending' \cup queued') \subseteq Eligible(completions, sending \cup queued)
    BY <2>1 DEF Eligible
  <2>3. QED
    BY <1>1, <2>2 DEF SettledComplete
<1>6. QED
  BY <1>a, <1>3, <1>4, <1>5

\* A report moves the watermark over the number and over every report that came
\* early, and leaves each number in exactly one place.
LEMMA NoteDeliveredWatermark ==
    ASSUME IInv, NEW id \in sending \cup queued, NEW by, NoteDelivered(id, by),
           sending' \cup queued' = (sending \cup queued) \ {id},
           sending' \subseteq sending, queued' \subseteq queued
    PROVE  /\ WatermarkExact'
           /\ delivered' \in Nat /\ outOfOrder' \subseteq Nat
           /\ delivered <= delivered'
           /\ \A n \in sending' \cup queued' : delivered' <= n
<1> USE DEF IInv
<1>1. id \in Nat /\ delivered <= id /\ id < sends /\ sends' = sends
  BY DEF NoteDelivered, TypeOK, WatermarkExact
<1>2. CASE id > delivered
  <2>1. delivered' = delivered /\ outOfOrder' = outOfOrder \cup {id}
    BY <1>1, <1>2 DEF NoteDelivered, TypeOK
  <2>2. QED
    BY <1>1, <1>2, <2>1 DEF WatermarkExact, TypeOK
<1>3. CASE id = delivered
  <2>a. PICK w : w = Advance(delivered, outOfOrder)
    OBVIOUS
  <2>1. /\ w \in Nat /\ delivered < w /\ w <= sends /\ w \notin outOfOrder
        /\ \A m \in Nat : delivered < m /\ m < w => m \in outOfOrder
    <3>1. /\ delivered \in Nat /\ outOfOrder \in SUBSET Nat /\ sends \in Nat
          /\ delivered < sends /\ \A m \in outOfOrder : m < sends
      BY <1>1, <1>3 DEF TypeOK, WatermarkExact
    <3>2. QED
      BY <2>a, <3>1, AdvanceFirst
  <2>2. delivered' = w /\ outOfOrder' = {m \in outOfOrder : m >= w}
    BY <1>1, <1>3, <2>a DEF NoteDelivered, TypeOK
  <2>3. \A n \in sending' \cup queued' : n \in Nat /\ w <= n /\ n < sends /\ n \notin outOfOrder
    BY <1>3, <2>1 DEF WatermarkExact, TypeOK
  <2>4. \A n \in w .. sends - 1 : n \in sending' \cup queued' \cup outOfOrder'
    BY <1>3, <2>1, <2>2 DEF WatermarkExact, TypeOK
  <2>5. sending' \cap queued' = {} /\ (sending' \cup queued') \cap outOfOrder' = {}
    BY <2>2, <2>3 DEF WatermarkExact
  <2>6. \A n \in outOfOrder' : n \in Nat /\ w <= n /\ n < sends
    BY <2>2 DEF WatermarkExact, TypeOK
  <2>7. WatermarkExact'
    BY <1>1, <2>1, <2>2, <2>3, <2>4, <2>5, <2>6 DEF WatermarkExact
  <2>8. delivered \in Nat /\ delivered' \in Nat /\ delivered <= delivered'
    BY <2>1, <2>2 DEF TypeOK
  <2>9. outOfOrder' \subseteq Nat
    BY <2>6
  <2>10. \A n \in sending' \cup queued' : delivered' <= n
    BY <2>2, <2>3
  <2>11. QED
    BY <2>7, <2>8, <2>9, <2>10
<1>4. QED
  BY <1>1, <1>2, <1>3 DEF TypeOK

\* DropSendId and DeliveryReport: every partition may resolve, against the new
\* watermark and the records settled by the report.
LEMMA ReportStep ==
    ASSUME IInv, NEW id, (id \in sending /\ DropSendId(id)) \/ (id \in queued /\ DeliveryReport(id))
    PROVE  IInv'
<1> USE DEF IInv
<1>1. PICK by \in {"task", "producer"} : NoteDelivered(id, by)
  BY DEF DropSendId, DeliveryReport
<1>2. /\ id \in sending \cup queued
      /\ sending' \cup queued' = (sending \cup queued) \ {id}
      /\ sending' \subseteq sending /\ queued' \subseteq queued
  BY DEF DropSendId, DeliveryReport, WatermarkExact
<1>3. /\ WatermarkExact'
      /\ delivered' \in Nat /\ outOfOrder' \subseteq Nat
      /\ \A n \in sending' \cup queued' : delivered' <= n
  BY <1>1, <1>2, NoteDeliveredWatermark
<1>4. /\ UNCHANGED <<revoked, tickets, sends, polled, running, returned, failed,
                     owner, position, stored, committed, completions, rebalances, restarts>>
      /\ settled' = settled \cup Eligible(completions, sending' \cup queued')
  BY <1>1, <1>2 DEF NoteDelivered, taskVars, kafkaVars, boundVars
<1>5. SettledComplete'
  BY <1>4 DEF SettledComplete
<1>6. Eligible(completions, sending' \cup queued') \in SUBSET Records
  BY DEF Eligible, TypeOK, Completions, Records
<1>7. CASE UNCHANGED <<pending, storing>>
  <2>1. TypeOK'
    BY <1>2, <1>3, <1>4, <1>6, <1>7 DEF TypeOK
  <2>2. OwnPullDone' /\ HeldOwned'
    BY <1>4, <1>7 DEF OwnPullDone, HeldOwned
  <2>3. Gapless' /\ StoresSettled' /\ AtLeastOnce'
    BY <1>4, <1>7, SettledGrows
  <2>4. QED
    BY <1>3, <1>5, <2>1, <2>2, <2>3
<1>8. CASE /\ pending' = [q \in Partitions |-> Resolve(pending[q], delivered')]
           /\ storing' = storing \cup
                UNION {StoresOf(q, pending[q], delivered', by) : q \in Partitions}
  <2>1. \A q \in Partitions : \A e \in pending[q] :
          Resolved(e, delivered') => [p |-> q, offset |-> e.offset] \in settled'
    <3> TAKE q \in Partitions
    <3> TAKE e \in pending[q]
    <3> HAVE Resolved(e, delivered')
    <3>1. /\ pending[q] \in SUBSET Entry
          /\ sending' \cup queued' \in SUBSET Nat
          /\ completions \in SUBSET Completions
          /\ Eligible(completions, sending' \cup queued') \subseteq settled'
      BY <1>2, <1>4 DEF TypeOK
    <3>2. \A f \in pending[q] : f.done =>
            [p |-> q, offset |-> f.offset, ticket |-> f.ticket,
             mark |-> f.sendsBefore] \in completions
      BY DEF OwnPullDone
    <3>3. QED
      BY <1>3, <3>1, <3>2, RunSettled
  <2>2. \A q \in Partitions : \A e \in pending[q] : \A o \in 0 .. e.offset :
          [p |-> q, offset |-> o] \in settled' \/ \E f \in pending[q] : f.offset = o
    <3> TAKE q \in Partitions
    <3> TAKE e \in pending[q]
    <3> TAKE o \in 0 .. e.offset
    <3>1. /\ owner[q] = "owned" /\ e.offset < position[q]
          /\ position[q] \in Nat /\ e.offset \in Nat
      BY DEF HeldOwned, TypeOK, Entry
    <3>2. [p |-> q, offset |-> o] \notin polled
      BY <3>1 DEF HeldOwned
    <3>3. o \in 0 .. position[q] - 1
      BY <3>1
    <3>4. QED
      BY <1>4, <3>1, <3>2, <3>3 DEF Gapless
  <2>3. \A q \in Partitions : \A s \in StoresOf(q, pending[q], delivered', by) :
          StoreCovered(s, q, by, settled')
    <3> TAKE q \in Partitions
    <3>1. pending[q] \in SUBSET Entry /\ RunCovered(q, pending[q], delivered', settled')
      BY <2>1, <2>2 DEF TypeOK, RunCovered
    <3>2. QED
      BY <1>3, <3>1, StoresOfSettled
  <2>4. \A q \in Partitions :
          /\ pending'[q] \subseteq pending[q]
          /\ \A e \in pending[q] \ pending'[q] : Resolved(e, delivered')
    <3> TAKE q \in Partitions
    <3>1. pending[q] \in SUBSET Entry /\ pending'[q] = Resolve(pending[q], delivered')
      BY <1>8 DEF TypeOK
    <3>2. QED
      BY <3>1 DEF Resolve, LeadingRun, Entry
  <2>5. TypeOK'
    <3>1. pending' \in [Partitions -> SUBSET Entry]
      BY <1>8, <2>4 DEF TypeOK
    <3>2. storing' \subseteq Stores
      <4>1. \A q \in Partitions : StoresOf(q, pending[q], delivered', by) \subseteq Stores
        BY <1>1, <2>3 DEF StoreCovered, Stores
      <4>2. QED
        BY <1>8, <4>1 DEF TypeOK
    <3>3. QED
      BY <1>2, <1>3, <1>4, <1>6, <3>1, <3>2 DEF TypeOK
  <2>6. OwnPullDone'
    BY <1>4, <2>4 DEF OwnPullDone
  <2>7. HeldOwned'
    <3>1. \A r \in polled : r.p \in Partitions
      BY DEF TypeOK, Records
    <3>2. QED
      BY <1>4, <2>4, <3>1 DEF HeldOwned
  <2>8. Gapless'
    <3> SUFFICES ASSUME NEW q \in Partitions, owner[q] = "owned",
                        NEW o \in 0 .. position[q] - 1
                 PROVE  \/ [p |-> q, offset |-> o] \in settled'
                        \/ \E e \in pending'[q] : e.offset = o
                        \/ [p |-> q, offset |-> o] \in polled
      BY <1>4 DEF Gapless
    <3>1. \/ [p |-> q, offset |-> o] \in settled
          \/ \E e \in pending[q] : e.offset = o
          \/ [p |-> q, offset |-> o] \in polled
      BY DEF Gapless
    <3>2. QED
      BY <1>4, <2>1, <2>4, <3>1
  <2>9. StoresSettled'
    <3>1. \A s \in storing' : \A o \in 0 .. s.offset : [p |-> s.p, offset |-> o] \in settled'
      <4> TAKE s \in storing'
      <4>1. CASE s \in storing
        BY <1>4, <4>1 DEF StoresSettled
      <4>2. CASE s \notin storing
        <5>1. PICK q \in Partitions : s \in StoresOf(q, pending[q], delivered', by)
          BY <1>8, <4>2
        <5>2. QED
          BY <2>3, <5>1 DEF StoreCovered
      <4>3. QED
        BY <4>1, <4>2
    <3>2. QED
      BY <1>4, <3>1 DEF StoresSettled
  <2>10. AtLeastOnce'
    BY <1>4 DEF AtLeastOnce
  <2>11. QED
    BY <1>3, <1>5, <2>5, <2>6, <2>7, <2>8, <2>9, <2>10
<1>9. QED
  BY <1>1, <1>7, <1>8 DEF NoteDelivered

\* Revoke: an empty partition that is no longer owned constrains nothing.
LEMMA RevokeStep ==
    ASSUME IInv, NEW S \in SUBSET Partitions, Revoke(S) PROVE IInv'
<1> USE DEF IInv
<1>1. /\ UNCHANGED <<delivered, outOfOrder, tickets, sends, sending, queued, polled, running,
                     returned, failed, storing, position, stored, committed,
                     completions, settled, restarts>>
      /\ rebalances' = rebalances + 1
      /\ revoked' = [p \in Partitions |-> p \in S \/ revoked[p]]
      /\ pending' = [p \in Partitions |-> IF p \in S THEN {} ELSE pending[p]]
      /\ owner' = [p \in Partitions |-> IF p \in S THEN "revoking" ELSE owner[p]]
  BY DEF Revoke, sendVars, taskVars, historyVars
<1>2. \A q \in Partitions :
        /\ q \in S => revoked'[q] /\ pending'[q] = {} /\ owner'[q] = "revoking"
        /\ q \notin S => /\ revoked'[q] = revoked[q]
                         /\ pending'[q] = pending[q]
                         /\ owner'[q] = owner[q]
  BY <1>1 DEF TypeOK
<1>3. TypeOK'
  <2>1. revoked' \in [Partitions -> BOOLEAN]
    BY <1>1 DEF TypeOK
  <2>2. pending' \in [Partitions -> SUBSET Entry]
    BY <1>1 DEF TypeOK
  <2>3. owner' \in [Partitions -> {"owned", "revoking", "other"}]
    BY <1>1 DEF TypeOK
  <2>4. QED
    BY <1>1, <2>1, <2>2, <2>3 DEF TypeOK
<1>4. WatermarkExact' /\ SettledComplete' /\ StoresSettled' /\ AtLeastOnce'
  BY <1>1 DEF WatermarkExact, SettledComplete, StoresSettled, AtLeastOnce
<1>5. OwnPullDone'
  BY <1>1, <1>2 DEF OwnPullDone
<1>6. HeldOwned'
  <2>1. \A r \in polled : r.p \in Partitions
    BY DEF TypeOK, Records
  <2>2. \A q \in Partitions :
          /\ owner'[q] = "owned" => ~revoked'[q]
          /\ pending'[q] # {} => owner'[q] = "owned"
          /\ \A e \in pending'[q] : e.offset < position'[q]
    BY <1>1, <1>2 DEF HeldOwned
  <2>3. QED
    BY <1>1, <1>2, <2>1, <2>2 DEF HeldOwned
<1>7. Gapless'
  BY <1>1, <1>2 DEF Gapless
<1>8. QED
  BY <1>3, <1>4, <1>5, <1>6, <1>7

\* What a commit of the stored offset moves to is settled.
LEMMA CommitSettled ==
    ASSUME IInv, NEW p \in Partitions
    PROVE  /\ CommitStored(p) \in Nat
           /\ \A o \in 0 .. CommitStored(p) - 1 : [p |-> p, offset |-> o] \in settled
BY DEF IInv, CommitStored, TypeOK, StoresSettled, AtLeastOnce

\* Unassign commits what is stored and lets the partition go.
LEMMA UnassignStep ==
    ASSUME IInv, NEW p \in Partitions, Unassign(p) PROVE IInv'
<1> USE DEF IInv
<1>1. /\ UNCHANGED <<revoked, pending, delivered, outOfOrder, tickets, sends, sending, queued,
                     polled, running, returned, failed, storing,
                     completions, settled, rebalances, restarts>>
      /\ committed' = [committed EXCEPT ![p] = CommitStored(p)]
      /\ stored' = [stored EXCEPT ![p] = 0]
      /\ owner' = [owner EXCEPT ![p] = "other"]
      /\ position' = [position EXCEPT ![p] = 0]
      /\ owner[p] = "revoking"
  BY DEF Unassign, trackerVars, sendVars, taskVars, historyVars, boundVars
<1>2. TypeOK'
  BY <1>1, CommitSettled DEF TypeOK
<1>3. WatermarkExact' /\ OwnPullDone' /\ SettledComplete'
  BY <1>1 DEF WatermarkExact, OwnPullDone, SettledComplete
<1>4. HeldOwned' /\ Gapless'
  BY <1>1 DEF HeldOwned, Gapless, TypeOK, Records
<1>5. StoresSettled'
  BY <1>1 DEF StoresSettled, TypeOK
<1>6. AtLeastOnce'
  BY <1>1, CommitSettled DEF AtLeastOnce, TypeOK
<1>7. QED
  BY <1>2, <1>3, <1>4, <1>5, <1>6

\* Assign: fetching starts at the committed offset, below which all is settled.
LEMMA AssignStep ==
    ASSUME IInv, NEW S \in SUBSET Partitions, Assign(S) PROVE IInv'
<1> USE DEF IInv
<1>1. /\ UNCHANGED <<pending, delivered, outOfOrder, tickets, sends, sending, queued, polled,
                     running, returned, failed, storing, stored, committed,
                     completions, settled, rebalances, restarts>>
      /\ polled = {}
      /\ \A p \in S : owner[p] = "other"
      /\ revoked' = [p \in Partitions |-> p \notin S /\ revoked[p]]
      /\ owner' = [p \in Partitions |-> IF p \in S THEN "owned" ELSE owner[p]]
      /\ position' = [p \in Partitions |-> IF p \in S THEN committed[p] ELSE position[p]]
  BY DEF Assign, sendVars, taskVars, historyVars, boundVars
<1>2. \A q \in Partitions :
        /\ q \in S => /\ ~revoked'[q] /\ owner'[q] = "owned"
                      /\ position'[q] = committed[q] /\ pending[q] = {}
        /\ q \notin S => /\ revoked'[q] = revoked[q]
                         /\ owner'[q] = owner[q]
                         /\ position'[q] = position[q]
  <2> TAKE q \in Partitions
  <2>1. CASE q \in S
    <3>1. ~revoked'[q]
      BY <1>1, <2>1
    <3>2. owner'[q] = "owned" /\ position'[q] = committed[q]
      BY <1>1, <2>1
    <3>3. pending[q] = {}
      BY <1>1, <2>1 DEF HeldOwned
    <3>4. QED
      BY <2>1, <3>1, <3>2, <3>3
  <2>2. CASE q \notin S
    <3>1. revoked'[q] = revoked[q]
      <4>1. revoked[q] \in BOOLEAN
        BY DEF TypeOK
      <4>2. revoked'[q] = (q \notin S /\ revoked[q])
        BY <1>1
      <4>3. QED
        BY <2>2, <4>1, <4>2
    <3>2. owner'[q] = owner[q] /\ position'[q] = position[q]
      BY <1>1, <2>2
    <3>3. QED
      BY <2>2, <3>1, <3>2
  <2>3. QED
    BY <2>1, <2>2
<1>3. TypeOK'
  <2>1. revoked' \in [Partitions -> BOOLEAN]
    BY <1>1 DEF TypeOK
  <2>2. position' \in [Partitions -> Nat]
    BY <1>1 DEF TypeOK
  <2>3. owner' \in [Partitions -> {"owned", "revoking", "other"}]
    BY <1>1 DEF TypeOK
  <2>4. QED
    BY <1>1, <2>1, <2>2, <2>3 DEF TypeOK
<1>4. WatermarkExact' /\ OwnPullDone' /\ SettledComplete' /\ StoresSettled' /\ AtLeastOnce'
  BY <1>1 DEF WatermarkExact, OwnPullDone, SettledComplete, StoresSettled, AtLeastOnce
<1>5. HeldOwned'
  BY <1>1, <1>2 DEF HeldOwned
<1>6. Gapless'
  BY <1>1, <1>2 DEF Gapless, AtLeastOnce
<1>7. QED
  BY <1>3, <1>4, <1>5, <1>6

\* AutoCommit and PeerCommit move the committed offset over settled records.
LEMMA CommitStep ==
    ASSUME IInv, NEW p \in Partitions, AutoCommit(p) \/ PeerCommit(p) PROVE IInv'
<1> USE DEF IInv
<1>1. /\ UNCHANGED <<revoked, pending, delivered, outOfOrder, tickets, sends, sending, queued,
                     polled, running, returned, failed, storing, owner, position, stored,
                     completions, rebalances, restarts>>
      /\ \/ settled' = settled /\ committed' = [committed EXCEPT ![p] = stored[p]]
         \/ /\ settled' = settled \cup {[p |-> p, offset |-> committed[p]]}
            /\ committed' = [committed EXCEPT ![p] = committed[p] + 1]
  BY DEF AutoCommit, PeerCommit, trackerVars, sendVars, taskVars, historyVars, boundVars
<1>2. settled \subseteq settled' /\ settled' \subseteq Records
  BY <1>1 DEF TypeOK, Records
<1>3. committed' \in [Partitions -> Nat]
  BY <1>1 DEF TypeOK
<1>4. TypeOK'
  BY <1>1, <1>2, <1>3 DEF TypeOK
<1>5. WatermarkExact' /\ OwnPullDone' /\ HeldOwned'
  BY <1>1 DEF WatermarkExact, OwnPullDone, HeldOwned
<1>6. SettledComplete'
  BY <1>1, <1>2 DEF SettledComplete
<1>7. Gapless' /\ StoresSettled'
  BY <1>1, <1>2 DEF Gapless, StoresSettled
<1>8. AtLeastOnce'
  <2> SUFFICES ASSUME NEW q \in Partitions, NEW o \in 0 .. committed'[q] - 1
               PROVE  [p |-> q, offset |-> o] \in settled'
    BY DEF AtLeastOnce
  <2>1. CASE q # p
    BY <1>1, <1>2, <2>1 DEF AtLeastOnce, TypeOK
  <2>2. CASE q = p
    BY <1>1, <1>2, <2>2 DEF AtLeastOnce, StoresSettled, TypeOK
  <2>3. QED
    BY <2>1, <2>2
<1>9. QED
  BY <1>4, <1>5, <1>6, <1>7, <1>8

\* Restart: only the broker's state and the history survive.
LEMMA RestartStep ==
    ASSUME IInv, NEW clean \in BOOLEAN, Restart(clean) PROVE IInv'
<1> USE DEF IInv
<1>1. /\ settled' = settled /\ rebalances' = rebalances
      /\ \A p \in Partitions : committed'[p] \in {committed[p], CommitStored(p)}
      /\ DOMAIN committed' = Partitions
      /\ committed' = [p \in Partitions |-> committed'[p]]
  BY DEF Restart
<1>2. committed' \in [Partitions -> Nat]
  <2>1. \A p \in Partitions : committed[p] \in Nat /\ CommitStored(p) \in Nat
    BY CommitSettled DEF TypeOK
  <2>2. QED
    BY <1>1, <2>1
<1>3. TypeOK'
  <2>1. /\ revoked' = [p \in Partitions |-> FALSE] /\ pending' = [p \in Partitions |-> {}]
        /\ delivered' = 0 /\ outOfOrder' = {} /\ tickets' = 0
        /\ sends' = 0 /\ sending' = {} /\ queued' = {}
        /\ polled' = {} /\ running' = {} /\ returned' = {} /\ failed' = FALSE
        /\ storing' = {} /\ completions' = {}
        /\ owner' = [p \in Partitions |-> "other"]
        /\ position' = [p \in Partitions |-> 0] /\ stored' = [p \in Partitions |-> 0]
        /\ restarts' = restarts + 1
    BY DEF Restart
  <2>2. /\ revoked' \in [Partitions -> BOOLEAN]
        /\ owner' \in [Partitions -> {"owned", "revoking", "other"}]
        /\ position' \in [Partitions -> Nat] /\ stored' \in [Partitions -> Nat]
    BY <2>1
  <2>3. pending' \in [Partitions -> SUBSET Entry]
    BY <2>1
  <2>4. settled' \subseteq Records /\ rebalances' \in Nat /\ restarts' \in Nat
    BY <1>1, <2>1 DEF TypeOK
  <2>5. /\ delivered' \in Nat /\ outOfOrder' \subseteq Nat /\ tickets' \in Nat
        /\ sends' \in Nat /\ sending' \subseteq Nat /\ queued' \subseteq Nat
        /\ failed' \in BOOLEAN
    BY <2>1
  <2>6. /\ polled' \subseteq Records /\ running' \subseteq Pulls
        /\ returned' \subseteq Completions /\ storing' \subseteq Stores
        /\ completions' \subseteq Completions
    BY <2>1
  <2>7. QED
    BY <1>2, <2>2, <2>3, <2>4, <2>5, <2>6 DEF TypeOK
<1>4. WatermarkExact'
  BY DEF Restart, WatermarkExact
<1>5. OwnPullDone' /\ SettledComplete' /\ HeldOwned' /\ Gapless'
  BY DEF Restart, OwnPullDone, SettledComplete, Eligible, HeldOwned, Gapless
<1>6. StoresSettled'
  BY DEF Restart, StoresSettled
<1>7. AtLeastOnce'
  <2> SUFFICES ASSUME NEW q \in Partitions, NEW o \in 0 .. committed'[q] - 1
               PROVE  [p |-> q, offset |-> o] \in settled
    BY <1>1 DEF AtLeastOnce
  <2>1. CASE committed'[q] = committed[q]
    BY <2>1 DEF AtLeastOnce
  <2>2. CASE committed'[q] = CommitStored(q)
    BY <2>2, CommitSettled
  <2>3. QED
    BY <1>1, <2>1, <2>2
<1>8. QED
  BY <1>3, <1>4, <1>5, <1>6, <1>7

\* Every step of the consumer, of its sends and of the group preserves it.
LEMMA NextIInv == IInv /\ [Next]_vars => IInv'
<1> SUFFICES ASSUME IInv, [Next]_vars PROVE IInv'
  OBVIOUS
<1>1. CASE TaskNext
  BY <1>1, PollStep, AdmitStep, EndTaskStep, ReturnStep, DoneStep, StoreStep DEF TaskNext
<1>2. CASE SendNext
  BY <1>2, NumberStep, ReportStep DEF SendNext
<1>3. CASE GroupNext
  BY <1>3, RevokeStep, UnassignStep, AssignStep, CommitStep, RestartStep DEF GroupNext
<1>4. CASE UNCHANGED vars
  <2>1. UNCHANGED <<revoked, pending, delivered, outOfOrder, tickets, sends, sending, queued,
                    polled, running, returned, failed, storing, owner, position, stored,
                    committed, completions, settled, rebalances, restarts>>
    BY <1>4 DEF vars, trackerVars, sendVars, taskVars, kafkaVars, historyVars, boundVars
  <2>2. QED
    BY <2>1 DEF IInv, TypeOK, WatermarkExact, OwnPullDone, SettledComplete, HeldOwned,
                Gapless, StoresSettled, AtLeastOnce
<1>5. QED
  BY <1>1, <1>2, <1>3, <1>4 DEF Next

\* The inductive invariant holds in every reachable state.
THEOREM Invariance == Spec => []IInv
<1>1. QED
  BY InitIInv, NextIInv, PTL DEF Spec

\* Every variable of the offsets specification keeps its type.
THEOREM TypeCorrect == Spec => []TypeOK
<1>1. IInv => TypeOK
  BY DEF IInv
<1>2. QED
  BY <1>1, Invariance, PTL

\* For any number of partitions, records, sends, rebalances and restarts the
\* committed offset never passes a record whose handler did not return Ok or
\* whose earlier sends have no report, although offsets are stored outside the
\* tracker's lock and in any order.
THEOREM NoLoss == Spec => []AtLeastOnce
<1>1. IInv => AtLeastOnce
  BY DEF IInv
<1>2. QED
  BY <1>1, Invariance, PTL

\* Every send number is accounted for exactly once, so the watermark can neither
\* stall on a skipped number nor pass one whose report is outstanding.
THEOREM NumbersAccounted == Spec => []WatermarkExact
<1>1. IInv => WatermarkExact
  BY DEF IInv
<1>2. QED
  BY <1>1, Invariance, PTL

\* No completion of an earlier pull marks the entry of a later pull done.
THEOREM TicketsTellPullsApart == Spec => []OwnPullDone
<1>1. IInv => OwnPullDone
  BY DEF IInv
<1>2. QED
  BY <1>1, Invariance, PTL

-------------------------------------------------------------------------------
(***************************************************************************)
(* Refinement                                                              *)
(***************************************************************************)

\* Settled records stay settled and no step moves a committed offset back.
LEMMA Forward ==
    ASSUME IInv, Next
    PROVE  /\ settled \subseteq settled'
           /\ \A p \in Partitions : committed[p] <= committed'[p]
<1> USE DEF IInv
<1>1. \A p \in Partitions : committed[p] \in Nat /\ committed[p] <= CommitStored(p)
  BY DEF TypeOK, CommitStored
<1>2. CASE TaskNext
  <2>1. settled \subseteq settled' /\ committed' = committed
    <3>1. ASSUME NEW p \in Partitions, Poll(p)
          PROVE  settled \subseteq settled' /\ committed' = committed
      BY <3>1 DEF Poll, historyVars
    <3>2. ASSUME NEW r \in polled, Admit(r)
          PROVE  settled \subseteq settled' /\ committed' = committed
      BY <3>2 DEF Admit, kafkaVars, historyVars
    <3>3. ASSUME NEW t \in running, Skip(t) \/ Fail(t)
          PROVE  settled \subseteq settled' /\ committed' = committed
      BY <3>3 DEF Skip, Fail, kafkaVars, historyVars
    <3>4. ASSUME NEW t \in running, Return(t)
          PROVE  settled \subseteq settled' /\ committed' = committed
      BY <3>4 DEF Return, kafkaVars
    <3>5. ASSUME NEW c \in returned, Done(c)
          PROVE  settled \subseteq settled' /\ committed' = committed
      BY <3>5 DEF Done, kafkaVars, historyVars
    <3>6. ASSUME NEW s \in storing, StoreOffset(s)
          PROVE  settled \subseteq settled' /\ committed' = committed
      BY <3>6 DEF StoreOffset, historyVars
    <3>7. QED
      BY <1>2, <3>1, <3>2, <3>3, <3>4, <3>5, <3>6 DEF TaskNext
  <2>2. QED
    BY <1>1, <2>1
<1>3. CASE SendNext
  <2>1. settled \subseteq settled' /\ committed' = committed
    <3>1. CASE NextSendId
      BY <3>1 DEF NextSendId, kafkaVars, historyVars
    <3>2. ASSUME NEW id \in sending, Enqueue(id)
          PROVE  settled \subseteq settled' /\ committed' = committed
      BY <3>2 DEF Enqueue, kafkaVars, historyVars
    <3>3. ASSUME NEW id, NEW by, NoteDelivered(id, by)
          PROVE  settled \subseteq settled' /\ committed' = committed
      BY <3>3 DEF NoteDelivered, kafkaVars
    <3>4. QED
      BY <1>3, <3>1, <3>2, <3>3 DEF SendNext, DropSendId, DeliveryReport
  <2>2. QED
    BY <1>1, <2>1
<1>4. CASE GroupNext
  <2>1. CASE \E S \in SUBSET Partitions : Revoke(S) \/ Assign(S)
    BY <1>1, <2>1 DEF Revoke, Assign, historyVars
  <2>2. CASE \E p \in Partitions : Unassign(p)
    BY <1>1, <2>2 DEF Unassign, historyVars, TypeOK
  <2>3. CASE \E p \in Partitions : AutoCommit(p)
    BY <1>1, <2>3 DEF AutoCommit, historyVars, TypeOK
  <2>4. CASE \E p \in Partitions : PeerCommit(p)
    BY <1>1, <2>4 DEF PeerCommit, TypeOK
  <2>5. CASE \E clean \in BOOLEAN : Restart(clean)
    BY <1>1, <2>5 DEF Restart
  <2>6. QED
    BY <1>4, <2>1, <2>2, <2>3, <2>4, <2>5 DEF GroupNext
<1>5. QED
  BY <1>2, <1>3, <1>4 DEF Next

\* The consumer implements GroupCommits: whatever the bounds, a committed offset
\* moves forward only, and only over records some consumer has settled.
THEOREM Refinement == Spec => ImplementsGroup
<1>1. Init => Group!Init
  BY DEF Init, Group!Init
<1>2. IInv /\ IInv' /\ [Next]_vars => [Group!Progress]_<<settled, committed>>
  <2> SUFFICES ASSUME IInv, IInv', [Next]_vars
               PROVE  [Group!Progress]_<<settled, committed>>
    OBVIOUS
  <2>1. CASE Next
    <3>1. AtLeastOnce'
      BY DEF IInv
    <3>2. QED
      BY <2>1, <3>1, Forward DEF Group!Progress, AtLeastOnce
  <2>2. CASE UNCHANGED vars
    BY <2>2 DEF vars, kafkaVars, historyVars
  <2>3. QED
    BY <2>1, <2>2
<1>3. QED
  BY <1>1, <1>2, Invariance, PTL DEF Spec, ImplementsGroup, Group!Spec

-------------------------------------------------------------------------------
(***************************************************************************)
(* Nothing resolvable is left behind                                       *)
(***************************************************************************)

\* After a resolve no run is left at the front: an entry stays only behind, or as, one
\* that is not resolved, and that one stays too.
LEMMA ResolveLeavesNoRun ==
    ASSUME NEW pend \in SUBSET Entry, NEW w \in Nat
    PROVE  LeadingRun(Resolve(pend, w), w) = {}
<1> SUFFICES ASSUME NEW e \in LeadingRun(Resolve(pend, w), w) PROVE FALSE
  OBVIOUS
<1>1. /\ e \in pend /\ e \notin LeadingRun(pend, w)
      /\ \A f \in Resolve(pend, w) : f.offset <= e.offset => Resolved(f, w)
  BY DEF LeadingRun, Resolve
<1>2. PICK g \in pend : g.offset <= e.offset /\ ~Resolved(g, w)
  BY <1>1 DEF LeadingRun
<1>3. g.offset <= g.offset
  BY DEF Entry
<1>4. g \in Resolve(pend, w)
  BY <1>2, <1>3 DEF Resolve, LeadingRun
<1>5. QED
  BY <1>1, <1>2, <1>4

\* An insert puts nothing resolved at the front: what it adds is not done.
LEMMA InsertLeavesNoRun ==
    ASSUME NEW pend \in SUBSET Entry, NEW w \in Nat, LeadingRun(pend, w) = {},
           NEW isRevoked \in BOOLEAN, NEW offset \in Nat, NEW ticket \in Nat
    PROVE  LeadingRun(Insert(pend, isRevoked, offset, ticket), w) = {}
<1>1. CASE isRevoked
  BY <1>1 DEF Insert
<1>2. CASE ~isRevoked
  <2> DEFINE new == [offset |-> offset, ticket |-> ticket, done |-> FALSE, sendsBefore |-> 0]
             after == Insert(pend, isRevoked, offset, ticket)
  <2>1. after = {e \in pend : e.offset # offset} \cup {new}
    BY <1>2 DEF Insert
  <2>2. new.offset = offset /\ ~Resolved(new, w)
    BY DEF Resolved
  <2> HIDE DEF new, after
  <2>3. SUFFICES ASSUME NEW e \in LeadingRun(after, w) PROVE FALSE
    BY DEF after
  <2>4. e \in after /\ \A f \in after : f.offset <= e.offset => Resolved(f, w)
    BY <2>3 DEF LeadingRun
  <2>5. ~(offset <= e.offset)
    BY <2>1, <2>2, <2>4
  <2>6. e \in pend /\ e.offset \in Nat
    <3>1. CASE e = new
      BY <2>2, <2>5, <3>1
    <3>2. QED
      BY <2>1, <2>4, <3>1 DEF Entry
  <2>7. ASSUME NEW f \in pend, f.offset <= e.offset PROVE Resolved(f, w)
    BY <2>1, <2>4, <2>5, <2>7
  <2>8. QED
    BY <2>6, <2>7 DEF LeadingRun
<1>3. QED
  BY <1>1, <1>2

\* Every step that makes an entry resolvable resolves it in the same critical section.
LEMMA FrontStep ==
    ASSUME IInv, FrontWaits, [Next]_vars
    PROVE  FrontWaits'
<1>1. /\ pending \in [Partitions -> SUBSET Entry] /\ delivered \in Nat
      /\ \A p \in Partitions : LeadingRun(pending[p], delivered) = {}
  BY DEF IInv, TypeOK, FrontWaits
<1>2. ASSUME UNCHANGED <<pending, delivered>> PROVE FrontWaits'
  BY <1>1, <1>2 DEF FrontWaits
<1>3. ASSUME NEW r \in polled, Admit(r) PROVE FrontWaits'
  <2>1. /\ r.p \in Partitions /\ r.offset \in Nat /\ tickets \in Nat /\ revoked[r.p] \in BOOLEAN
    BY DEF IInv, TypeOK, Records
  <2>2. /\ pending' = [pending EXCEPT ![r.p] = Insert(pending[r.p], revoked[r.p], r.offset, tickets)]
        /\ delivered' = delivered
    BY <1>3 DEF Admit
  <2>3. LeadingRun(Insert(pending[r.p], revoked[r.p], r.offset, tickets), delivered) = {}
    BY <1>1, <2>1, InsertLeavesNoRun
  <2>4. ASSUME NEW p \in Partitions PROVE LeadingRun(pending'[p], delivered') = {}
    <3>1. CASE p = r.p
      BY <1>1, <2>1, <2>2, <2>3, <3>1
    <3>2. CASE p # r.p
      BY <1>1, <2>1, <2>2, <3>2
    <3>3. QED
      BY <3>1, <3>2
  <2>5. QED
    BY <2>4 DEF FrontWaits
<1>4. ASSUME NEW c \in returned, Done(c) PROVE FrontWaits'
  <2>1. c.p \in Partitions /\ c.offset \in Nat /\ c.ticket \in Nat /\ c.mark \in Nat
    BY DEF IInv, TypeOK, Completions
  <2>2. CASE UNCHANGED pending
    BY <1>2, <1>4, <2>2 DEF Done
  <2>3. CASE Holds(pending[c.p], c.offset, c.ticket)
    <3>1. PICK after : after = SetDone(pending[c.p], c.offset, c.ticket, c.mark)
      OBVIOUS
    <3>2. after \in SUBSET Entry
      BY <1>1, <2>1, <3>1, SetDoneHolds
    <3>3. /\ pending' = [pending EXCEPT ![c.p] = Resolve(after, delivered)]
          /\ delivered' = delivered
      BY <1>4, <2>3, <3>1 DEF Done
    <3>4. LeadingRun(Resolve(after, delivered), delivered) = {}
      BY <1>1, <3>2, ResolveLeavesNoRun
    <3>5. ASSUME NEW p \in Partitions PROVE LeadingRun(pending'[p], delivered') = {}
      <4>1. CASE p = c.p
        BY <1>1, <2>1, <3>3, <3>4, <4>1
      <4>2. CASE p # c.p
        BY <1>1, <2>1, <3>3, <4>2
      <4>3. QED
        BY <4>1, <4>2
    <3>6. QED
      BY <3>5 DEF FrontWaits
  <2>4. QED
    BY <1>4, <2>2, <2>3 DEF Done
<1>5. ASSUME NEW id \in sending \cup queued, NEW by, NoteDelivered(id, by) PROVE FrontWaits'
  <2>1. CASE UNCHANGED <<pending, delivered>>
    BY <1>2, <2>1
  <2>2. CASE id = delivered
    <3>1. PICK w : w = Advance(delivered, outOfOrder)
      OBVIOUS
    <3>2. delivered' = w /\ pending' = [p \in Partitions |-> Resolve(pending[p], w)]
      BY <1>1, <1>5, <2>2, <3>1 DEF NoteDelivered
    <3>3. w \in Nat
      <4>1. /\ delivered < sends /\ sends \in Nat /\ outOfOrder \in SUBSET Nat
            /\ \A m \in outOfOrder : m < sends
        BY <1>5, <2>2 DEF IInv, TypeOK, WatermarkExact
      <4>2. QED
        BY <1>1, <3>1, <4>1, AdvanceFirst
    <3>4. \A p \in Partitions : LeadingRun(pending'[p], w) = {}
      BY <1>1, <3>2, <3>3, ResolveLeavesNoRun
    <3>5. QED
      BY <3>2, <3>4 DEF FrontWaits
  <2>3. id \in Nat
    BY DEF IInv, TypeOK
  <2>4. QED
    BY <1>1, <1>5, <2>1, <2>2, <2>3 DEF NoteDelivered
<1>6. ASSUME NEW S \in SUBSET Partitions, Revoke(S) PROVE FrontWaits'
  <2>1. \A p \in Partitions : pending'[p] = {} \/ pending'[p] = pending[p]
    BY <1>6 DEF Revoke
  <2>2. delivered' = delivered
    BY <1>6 DEF Revoke
  <2>3. LeadingRun({}, delivered) = {}
    BY DEF LeadingRun
  <2>4. QED
    BY <1>1, <2>1, <2>2, <2>3 DEF FrontWaits
<1>7. ASSUME NEW clean, Restart(clean) PROVE FrontWaits'
  <2>1. \A p \in Partitions : pending'[p] = {}
    BY <1>7 DEF Restart
  <2>2. QED
    BY <2>1 DEF FrontWaits, LeadingRun
<1>8. CASE TaskNext
  BY <1>2, <1>3, <1>4, <1>8 DEF TaskNext, Poll, Skip, Return, Fail, StoreOffset, trackerVars
<1>9. CASE SendNext
  BY <1>2, <1>5, <1>9 DEF SendNext, NextSendId, Enqueue, DropSendId, DeliveryReport, trackerVars
<1>10. CASE GroupNext
  BY <1>2, <1>6, <1>7, <1>10 DEF GroupNext, Unassign, Assign, AutoCommit, PeerCommit, trackerVars
<1>11. QED
  BY <1>2, <1>8, <1>9, <1>10 DEF Next, vars, trackerVars

\* Between critical sections the first entry of a partition always waits, for its guest
\* or for a send: neither `done` nor `note_delivered` overlooks one, whatever order
\* reports and completions come in.
THEOREM NothingLeftBehind == Spec => []FrontWaits
<1>1. Init => FrontWaits
  BY DEF Init, FrontWaits, LeadingRun
<1>2. QED
  BY <1>1, FrontStep, Invariance, PTL DEF Spec

=============================================================================
